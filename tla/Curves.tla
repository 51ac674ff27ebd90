------------------------------- MODULE Curves -------------------------------
(***************************************************************************)
(* The fields of crypto/bn256: GF(p^2) with i^2 = -1 (gfp2.go), GF(p^6)    *)
(* with tau^3 = xi (gfp6.go) and GF(p^12) with omega^2 = tau (gfp12.go).   *)
(* Elements are tuples in the order of the code's fields, the highest      *)
(* power first.  As in the code, only products are reduced modulo P: sums, *)
(* differences and multiples of xi are integers of any size and sign.  The *)
(* exception are products with a scalar, which the code leaves unreduced   *)
(* and which are reduced here to stay within TLC's integers; no test of a  *)
(* sign or a size sees them before the next product.                       *)
(***************************************************************************)
EXTENDS Integers, Sequences, SequencesExt

CONSTANTS
  P,      \* the prime
  XiY     \* xi = i + XiY (9 in the code)

Zero == <<0, 0>>
One == <<0, 1>>
Xi == <<1, XiY>>

-----------------------------------------------------------------------------
(* GF(p^2)                                                                 *)
Minimal(a) == <<a[1] % P, a[2] % P>>
IsZero(a) == a = Zero
IsOne(a) == a[1] = 0 /\ a[2] \in {1, -1}
Conjugate(a) == <<-a[1], a[2]>>
Negative(a) == <<-a[1], -a[2]>>
Add(a, b) == <<a[1] + b[1], a[2] + b[2]>>
Sub(a, b) == <<a[1] - b[1], a[2] - b[2]>>
Double(a) == <<2 * a[1], 2 * a[2]>>

\* The remainder of a product is that of the product of the remainders.
Times(x, y) == ((x % P) * (y % P)) % P

Mul(a, b) == <<(Times(a[1], b[2]) + Times(b[1], a[2])) % P, (Times(a[2], b[2]) - Times(a[1], b[1])) % P>>
MulScalar(a, k) == <<Times(a[1], k), Times(a[2], k)>>
MulXi(a) == <<XiY * a[1] + a[2], XiY * a[2] - a[1]>>
Square(a) == <<(2 * Times(a[1], a[2])) % P, Times(a[2] - a[1], a[1] + a[2])>>

\* The bits of a number, the highest first.
BitLen(n) == CHOOSE k \in 0..31 : (n \div 2^k = 0) /\ (k > 0 => n \div 2^(k - 1) = 1)
Bits(n) == LET l == BitLen(n) IN [k \in 1..l |-> (n \div 2^(l - k)) % 2]

\* One turn of the loop of Exp, and of the points' Mul, for a bit of the power.
turn(sum, a, bit, mul(_, _), sqr(_)) == IF bit = 1 THEN mul(sqr(sum), a) ELSE sqr(sum)

\* The loop, from the highest bit.  The sum of the turn before is a bound
\* variable, so that TLC has its value before it begins the turn.
exp(sum, a, bits, mul(_, _), sqr(_)) ==
  LET after[k \in 0..Len(bits)] ==
        IF k = 0 THEN {sum} ELSE {turn(last, a, bits[k], mul, sqr) : last \in after[k - 1]}
  IN CHOOSE last \in after[Len(bits)] : TRUE

Exp(a, n) == exp(One, a, Bits(n), Mul, Square)

\* big.Int.ModInverse, which leaves 0 for a multiple of P.
ModInverse(n) == IF n % P = 0 THEN 0 ELSE CHOOSE m \in 1..(P - 1) : Times(n, m) = 1

Invert(a) ==
  LET inv == ModInverse(Times(a[2], a[2]) + Times(a[1], a[1]))
  IN <<Times(-a[1], inv), Times(a[2], inv)>>

-----------------------------------------------------------------------------
(* GF(p^6)                                                                 *)
Zero6 == <<Zero, Zero, Zero>>
One6 == <<Zero, Zero, One>>
Each(op(_), a) == <<op(a[1]), op(a[2]), op(a[3])>>
Both(op(_, _), a, b) == <<op(a[1], b[1]), op(a[2], b[2]), op(a[3], b[3])>>

Minimal6(a) == Each(Minimal, a)
Negative6(a) == Each(Negative, a)
Add6(a, b) == Both(Add, a, b)
Sub6(a, b) == Both(Sub, a, b)
Double6(a) == Each(Double, a)
MulScalar6(a, b) == Each(LAMBDA c : Mul(c, b), a)
MulGFP(a, k) == Each(LAMBDA c : MulScalar(c, k), a)

MulTau(a) == <<a[2], a[3], MulXi(a[1])>>

\* Karatsuba's method.
Mul6(a, b) ==
  LET v0 == Mul(a[3], b[3])
      v1 == Mul(a[2], b[2])
      v2 == Mul(a[1], b[1])
      tz == Add(MulXi(Sub(Sub(Mul(Add(a[1], a[2]), Add(b[1], b[2])), v1), v2)), v0)
      ty == Add(Sub(Sub(Mul(Add(a[2], a[3]), Add(b[2], b[3])), v0), v1), MulXi(v2))
      tx == Sub(Add(Sub(Mul(Add(a[1], a[3]), Add(b[1], b[3])), v0), v1), v2)
  IN <<tx, ty, tz>>

Square6(a) ==
  LET v0 == Square(a[3])
      v1 == Square(a[2])
      v2 == Square(a[1])
      c0 == Add(MulXi(Sub(Sub(Square(Add(a[1], a[2])), v1), v2)), v0)
      c1 == Add(Sub(Sub(Square(Add(a[2], a[3])), v0), v1), MulXi(v2))
      c2 == Sub(Add(Sub(Square(Add(a[1], a[3])), v0), v1), v2)
  IN <<c2, c1, c0>>

Invert6(a) ==
  LET A == Sub(Square(a[3]), MulXi(Mul(a[1], a[2])))
      B == Sub(MulXi(Square(a[1])), Mul(a[2], a[3]))
      C == Sub(Square(a[2]), Mul(a[1], a[3]))
      F == Invert(Add(Add(MulXi(Mul(C, a[2])), Mul(A, a[3])), MulXi(Mul(B, a[1]))))
  IN <<Mul(C, F), Mul(B, F), Mul(A, F)>>

\* constants.go: the powers of xi, those in GF(p) as numbers.
CONSTANTS
  xiToPMinus1Over6, xiToPMinus1Over3, xiToPMinus1Over2, xiTo2PMinus2Over3,
  xiToPSquaredMinus1Over6, xiToPSquaredMinus1Over3, xiTo2PSquaredMinus2Over3

\* What the comments on them say.
XiPowers ==
  /\ xiToPMinus1Over6 = Exp(Xi, (P - 1) \div 6)
  /\ xiToPMinus1Over3 = Exp(Xi, (P - 1) \div 3)
  /\ xiToPMinus1Over2 = Exp(Xi, (P - 1) \div 2)
  /\ xiTo2PMinus2Over3 = Exp(Xi, (2 * P - 2) \div 3)
  /\ <<0, xiToPSquaredMinus1Over6>> = Exp(Xi, (P * P - 1) \div 6)
  /\ <<0, xiToPSquaredMinus1Over3>> = Exp(Xi, (P * P - 1) \div 3)
  /\ <<0, xiTo2PSquaredMinus2Over3>> = Exp(Xi, (2 * P * P - 2) \div 3)

Frobenius6(a) ==
  <<Mul(Conjugate(a[1]), xiTo2PMinus2Over3), Mul(Conjugate(a[2]), xiToPMinus1Over3), Conjugate(a[3])>>

FrobeniusP26(a) ==
  <<MulScalar(a[1], xiTo2PSquaredMinus2Over3), MulScalar(a[2], xiToPSquaredMinus1Over3), a[3]>>

-----------------------------------------------------------------------------
(* GF(p^12)                                                                *)
One12 == <<Zero6, One6>>
Minimal12(a) == <<Minimal6(a[1]), Minimal6(a[2])>>
IsOne12(a) == Minimal12(a) = One12
Conjugate12(a) == <<Negative6(a[1]), a[2]>>
MulScalar12(a, b) == <<Mul6(a[1], b), Mul6(a[2], b)>>

Mul12(a, b) ==
  <<Add6(Mul6(a[1], b[2]), Mul6(b[1], a[2])), Add6(Mul6(a[2], b[2]), MulTau(Mul6(a[1], b[1])))>>

Square12(a) ==
  LET v0 == Mul6(a[1], a[2])
      t == Add6(a[2], MulTau(a[1]))
      ty == Sub6(Sub6(Mul6(Add6(a[1], a[2]), t), v0), MulTau(v0))
  IN <<Double6(v0), ty>>

Invert12(a) ==
  MulScalar12(Conjugate12(a), Invert6(Sub6(Square6(a[2]), MulTau(Square6(a[1])))))

Turn12(sum, a, bit) == turn(sum, a, bit, Mul12, Square12)
Exp12(a, n) == exp(One12, a, Bits(n), Mul12, Square12)

Frobenius12(a) == <<MulScalar6(Frobenius6(a[1]), xiToPMinus1Over6), Frobenius6(a[2])>>

FrobeniusP212(a) == <<MulGFP(FrobeniusP26(a[1]), xiToPSquaredMinus1Over6), FrobeniusP26(a[2])>>

-----------------------------------------------------------------------------
(* The same field by definition: polynomials in omega of degree below 6    *)
(* over GF(p^2), with omega^6 = xi.  The odd powers are in x, the even     *)
(* ones in y.                                                              *)
Coefficient(a, k) == Minimal(a[1 + ((k + 1) % 2)][3 - (k \div 2)])
SumOf(f) == FoldLeft(Add, Zero, f)
Product(a, b, k) ==
  LET term(i, j) == Mul(Coefficient(a, i), Coefficient(b, j))
      low == [i \in 1..(k + 1) |-> term(i - 1, k + 1 - i)]
      high == [i \in 1..(5 - k) |-> term(k + i, 6 - i)]
  IN Minimal(Add(SumOf(low), Mul(Xi, SumOf(high))))

\* c is the product of a and b.
IsProduct(c, a, b) == \A k \in 0..5 : Coefficient(c, k) = Product(a, b, k)

(* The tower computes in the field it stands for, on operands that are not *)
(* reduced: products, squares and the inverses of everything but zero.     *)
TowerExact(a, b) ==
  /\ IsProduct(Mul12(a, b), a, b)
  /\ IsProduct(Square12(a), a, a)
  /\ Minimal12(a) # <<Zero6, Zero6>> => IsProduct(One12, a, Invert12(a))

(* Frobenius is the p-th power and FrobeniusP2 the p^2-th power, where sum *)
(* is what the loop of Exp has after the bits of n.                        *)
FrobeniusExact(a, sum, n) ==
  /\ n = P => Minimal12(Frobenius12(a)) = Minimal12(sum)
  /\ n = P * P => Minimal12(FrobeniusP212(a)) = Minimal12(sum)

-----------------------------------------------------------------------------
(* The two groups of crypto/bn256: the curve over GF(p) (curve.go) and its *)
(* twist over GF(p^2) (twist.go), in Jacobian coordinates (x = X/z^2, y =  *)
(* Y/z^3), and their encodings (bn256.go, contracts.go).  The two files    *)
(* hold the same formulas over the two fields; add, double and makeAffine  *)
(* are those formulas with the field as parameters.  Coordinates are       *)
(* reduced only where the code reduces them.                               *)

CONSTANT CurveB   \* the curve is y^2 = x^3 + CurveB (3 in the code)

twistB == Mul(<<0, CurveB>>, Invert(Xi))

-----------------------------------------------------------------------------
(* What Double stores in c.y is read back as a.y when c is a, so the       *)
(* result depends on whether the point is doubled in place.  Neither Double *)
(* nor Add sets c.t; nothing reads it before MakeAffine or a decoding does. *)
(* Add doubles equal points into c, which is in place when c is its first   *)
(* operand; it writes no other coordinate that it still reads.              *)
double(a, inPlace, mul(_, _), sqr(_), plus(_, _), minus(_, _)) ==
  LET A == sqr(a.x)
      B == sqr(a.y)
      C == sqr(B)
      t2 == minus(minus(sqr(plus(a.x, B)), A), C)
      d == plus(t2, t2)
      e == plus(plus(A, A), A)
      x == minus(sqr(e), plus(d, d))
      c2 == plus(C, C)
      c4 == plus(c2, c2)
      y == minus(mul(e, minus(d, x)), plus(c4, c4))
      t == mul(IF inPlace THEN y ELSE a.y, a.z)
  IN [x |-> x, y |-> y, z |-> plus(t, t), t |-> a.t]

add(a, b, inPlace, zero, mul(_, _), sqr(_), plus(_, _), minus(_, _)) ==
  LET z1z1 == sqr(a.z)
      z2z2 == sqr(b.z)
      u1 == mul(a.x, z2z2)
      u2 == mul(b.x, z1z1)
      s1 == mul(a.y, mul(b.z, z2z2))
      s2 == mul(b.y, mul(a.z, z1z1))
      h == minus(u2, u1)
      i == sqr(plus(h, h))
      j == mul(h, i)
      s == minus(s2, s1)
      r == plus(s, s)
      v == mul(u1, i)
      x == minus(minus(sqr(r), j), plus(v, v))
      t8 == mul(s1, j)
      y == minus(mul(r, minus(v, x)), plus(t8, t8))
      z == mul(minus(minus(sqr(plus(a.z, b.z)), z1z1), z2z2), h)
  IN IF h = zero /\ s = zero THEN double(a, inPlace, mul, sqr, plus, minus)
     ELSE [x |-> x, y |-> y, z |-> z, t |-> a.t]

makeAffine(c, one, zInv, mul(_, _), sqr(_)) ==
  [x |-> mul(c.x, sqr(zInv)), y |-> mul(mul(c.y, zInv), sqr(zInv)), z |-> one, t |-> one]

-----------------------------------------------------------------------------
(* curve.go                                                                *)
Plus(x, y) == x + y
Minus(x, y) == x - y
Sqr(x) == Times(x, x)

\* A faulty variant of curveDouble: the result is stored over the operand.
curveDoubleInPlace(a) == double(a, TRUE, Times, Sqr, Plus, Minus)

curveDouble(a) == double(a, FALSE, Times, Sqr, Plus, Minus)

curveIsInfinity(c) == c.z = 0

curveAddInto(a, b, inPlace) ==
  IF curveIsInfinity(a) THEN b
  ELSE IF curveIsInfinity(b) THEN a ELSE add(a, b, inPlace, 0, Times, Sqr, Plus, Minus)

\* Into another point, as in curveMul and in the precompile.
curveAdd(a, b) == curveAddInto(a, b, FALSE)

\* sum starts as whatever the pool hands out, with z set to 0.
curveMul(a, scalar) ==
  exp([x |-> 3, y |-> 5, z |-> 0, t |-> 0], a, <<0>> \o Bits(scalar), curveAdd, curveDouble)

curveNegative(a) == [a EXCEPT !.y = -a.y, !.t = 0]

curveMakeAffine(c) == IF c.z \in {1, -1} THEN c ELSE makeAffine(c, 1, ModInverse(c.z), Times, Sqr)

curveIsOnCurve(c) == (Sqr(c.y) - Times(Sqr(c.x), c.x) - CurveB) % P = 0

-----------------------------------------------------------------------------
(* twist.go                                                                *)
twistDouble(a) == double(a, FALSE, Mul, Square, Add, Sub)
twistIsInfinity(c) == IsZero(c.z)

twistAddInto(a, b, inPlace) ==
  IF twistIsInfinity(a) THEN b
  ELSE IF twistIsInfinity(b) THEN a ELSE add(a, b, inPlace, Zero, Mul, Square, Add, Sub)

twistAdd(a, b) == twistAddInto(a, b, FALSE)

twistMul(a, scalar) ==
  exp([x |-> <<3, 1>>, y |-> <<5, 2>>, z |-> Zero, t |-> Zero], a, <<0>> \o Bits(scalar), twistAdd, twistDouble)

twistNegative(a) == [a EXCEPT !.y = Sub(Zero, a.y), !.t = Zero]

twistMakeAffine(c) == IF IsOne(c.z) THEN c ELSE makeAffine(c, One, Invert(c.z), Mul, Square)

twistIsOnCurve(c) == Minimal(Sub(Sub(Square(c.y), Mul(Square(c.x), c.x)), twistB)) = Zero

-----------------------------------------------------------------------------
(* Encodings: a coordinate is a word, which may be P or more.  Infinity is *)
(* all zeros.                                                              *)
Refused == [x |-> "refused"]

MarshalG1(n) == LET c == curveMakeAffine(n) IN <<c.x % P, c.y % P>>

UnmarshalG1(m) ==
  LET c == [x |-> m[1], y |-> m[2], z |-> 1, t |-> 1]
  IN IF Len(m) # 2 THEN Refused
     ELSE IF m = <<0, 0>> THEN [x |-> 0, y |-> 1, z |-> 0, t |-> 0]
     ELSE IF curveIsOnCurve(c) THEN c ELSE Refused

MarshalG2(n) ==
  LET c == twistMakeAffine(n) IN <<c.x[1] % P, c.x[2] % P, c.y[1] % P, c.y[2] % P>>

UnmarshalG2(m) ==
  LET c == [x |-> <<m[1], m[2]>>, y |-> <<m[3], m[4]>>, z |-> One, t |-> One]
  IN IF Len(m) # 4 THEN Refused
     ELSE IF m = <<0, 0, 0, 0>> THEN [x |-> Zero, y |-> One, z |-> Zero, t |-> Zero]
     ELSE IF twistIsOnCurve(c) THEN c ELSE Refused

\* core/vm/contracts.go
newCurvePoint(blob) ==
  LET p == UnmarshalG1(blob)
  IN IF p # Refused /\ (p.x >= P \/ p.y >= P) THEN Refused ELSE p

newTwistPoint(blob) ==
  LET p == UnmarshalG2(blob)
  IN IF p # Refused /\ \E c \in {p.x[1], p.x[2], p.y[1], p.y[2]} : c >= P THEN Refused ELSE p

\* common.go: size numbers of the data from start on, zeros after its end.
getData(data, start, size) ==
  [k \in 1..size |-> IF start + k <= Len(data) THEN data[start + k] ELSE 0]

bn256Add(input) ==
  LET x == newCurvePoint(getData(input, 0, 2))
      y == newCurvePoint(getData(input, 2, 2))
  IN IF Refused \in {x, y} THEN <<>> ELSE MarshalG1(curveAdd(x, y))

bn256ScalarMul(input) ==
  LET p == newCurvePoint(getData(input, 0, 2))
  IN IF p = Refused THEN <<>> ELSE MarshalG1(curveMul(p, getData(input, 2, 1)[1]))

-----------------------------------------------------------------------------
(* The group law by definition, on affine points over GF(p^2) and the      *)
(* point at infinity; GF(p) is the part of GF(p^2) with x = 0.             *)
Infinity == <<>>

Law(p, q) ==
  LET opposite == p[1] = q[1] /\ Minimal(Add(p[2], q[2])) = Zero
      slope == IF p = q THEN Mul(MulScalar(Square(p[1]), 3), Invert(Double(p[2])))
               ELSE Mul(Sub(q[2], p[2]), Invert(Sub(q[1], p[1])))
      x == Minimal(Sub(Sub(Square(slope), p[1]), q[1]))
  IN IF p = Infinity THEN q
     ELSE IF q = Infinity THEN p
     ELSE IF opposite THEN Infinity
     ELSE <<x, Minimal(Sub(Mul(slope, Sub(p[1], x)), p[2]))>>

Twice(p) == Law(p, p)
Multiple(p, n) == exp(Infinity, p, Bits(n), Law, Twice)

\* c stands for the affine point p.
curveIs(c, p) ==
  IF p = Infinity THEN curveIsInfinity(c)
  ELSE /\ ~curveIsInfinity(c)
       /\ c.x % P = Times(p[1][2], Sqr(c.z))
       /\ c.y % P = Times(p[2][2], Times(c.z, Sqr(c.z)))

twistIs(c, p) ==
  IF p = Infinity THEN twistIsInfinity(c)
  ELSE /\ ~twistIsInfinity(c)
       /\ Minimal(c.x) = Mul(p[1], Square(c.z))
       /\ Minimal(c.y) = Mul(p[2], Mul(c.z, Square(c.z)))

\* What a point encodes to.
Encoding1(p) == IF p = Infinity THEN <<0, 0>> ELSE <<p[1][2], p[2][2]>>
Encoding2(p) == IF p = Infinity THEN <<0, 0, 0, 0>> ELSE p[1] \o p[2]

\* An encoding of a point of the curve, and the point.
Decodes(m) ==
  m = <<0, 0>> \/ (m[1] < P /\ m[2] < P /\ (m[2] * m[2] - m[1] * m[1] * m[1] - CurveB) % P = 0)
Decoded(m) == IF m = <<0, 0>> THEN Infinity ELSE <<<<0, m[1]>>, <<0, m[2]>>>>

(* The addition and multiplication precompiles accept exactly the          *)
(* encodings of points of the curve, words missing from the input counting *)
(* as zero, and return the encoding of the sum and of the multiple; equal, *)
(* opposite and infinite points and scalars beyond the order included.     *)
ContractsExact(input) ==
  LET a == getData(input, 0, 2)
      b == getData(input, 2, 2)
  IN /\ bn256Add(input) = IF Decodes(a) /\ Decodes(b) THEN Encoding1(Law(Decoded(a), Decoded(b))) ELSE <<>>
     /\ bn256ScalarMul(input) = IF Decodes(a) THEN Encoding1(Multiple(Decoded(a), b[1])) ELSE <<>>
=============================================================================
