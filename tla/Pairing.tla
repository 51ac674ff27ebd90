------------------------------- MODULE Pairing -------------------------------
(***************************************************************************)
(* The pairing precompile: bn256Pairing.Run (core/vm/contracts.go), which  *)
(* decodes the pairs of points, bn256.PairingCheck, and the Miller loop    *)
(* and the final exponentiation of optate.go.  A turn of a loop is a step. *)
(* The input is a sequence of coordinates, six for a pair.                 *)
(*                                                                         *)
(* Before it, the points: one of G1 or of G2 (bn256.go) as its operations  *)
(* change it: Add with a decoded point on either side, Add of a point to   *)
(* itself, Neg, ScalarMult, and Marshal, which leaves the point in affine  *)
(* form.  pt is the point, k the multiple of the generator it should be.   *)
(***************************************************************************)
EXTENDS Curves

CONSTANTS
  Order,          \* of both groups
  Generator1,     \* affine, over GF(p^2)
  Generator2,
  Operands,       \* the multiples that are added, and the scalars
  U,              \* the parameter u of the curve
  sixuPlus2NAF    \* 6u+2, signed digits, the lowest first

VARIABLES
  kind, pt, k,
  spoiled   \* the point was marshalled at infinity, which makes it <<0, 0, 1>>, or
            \* replaced by its sum with an equal one

-----------------------------------------------------------------------------
(* bn256.go                                                                *)
Points1 == [j \in 0..(Order - 1) |-> Multiple(Generator1, j)]
Points2 == [j \in 0..(Order - 1) |-> Multiple(Generator2, j)]

Decoded1(j) == UnmarshalG1(Encoding1(Points1[j]))
Decoded2(j) == UnmarshalG2(Encoding2(Points2[j]))

GroupInit ==
  /\ kind \in {"G1", "G2"}
  /\ k \in 0..(Order - 1)
  /\ pt = IF kind = "G1" THEN Decoded1(k) ELSE Decoded2(k)
  /\ spoiled = FALSE

Becomes(p, n) == pt' = p /\ k' = n % Order /\ UNCHANGED kind

\* e.Add(a, b), where e is a or not; k and j are their logarithms.
AddPoints(a, b, inPlace) == IF kind = "G1" THEN curveAddInto(a, b, inPlace) ELSE twistAddInto(a, b, inPlace)
DoublesInPlace(inPlace, j) == inPlace /\ j = k /\ k # 0
Operand(j) == IF kind = "G1" THEN Decoded1(j) ELSE Decoded2(j)

AddDecoded ==
  \E j \in Operands, inPlace \in BOOLEAN :
    /\ Becomes(AddPoints(pt, Operand(j), inPlace), k + j)
    /\ spoiled' = DoublesInPlace(inPlace, j)

AddToDecoded ==
  \E j \in Operands, inPlace \in BOOLEAN :
    /\ Becomes(AddPoints(Operand(j), pt, inPlace), k + j)
    /\ spoiled' = DoublesInPlace(inPlace, j)

AddSelf ==
  \E inPlace \in BOOLEAN :
    /\ Becomes(AddPoints(pt, pt, inPlace), 2 * k)
    /\ spoiled' = DoublesInPlace(inPlace, k)

\* Only G1 has Neg; twistNegative is what the Miller loop uses.
Neg ==
  /\ Becomes(IF kind = "G1" THEN curveNegative(pt) ELSE twistNegative(pt), Order - k)
  /\ UNCHANGED spoiled

ScalarMult ==
  /\ \E n \in Operands :
       Becomes(IF kind = "G1" THEN curveMul(pt, n) ELSE twistMul(pt, n), n * k)
  /\ UNCHANGED spoiled

Marshal ==
  /\ Becomes(IF kind = "G1" THEN curveMakeAffine(pt) ELSE twistMakeAffine(pt), k)
  /\ spoiled' = (spoiled \/ k = 0)

\* Nothing is claimed of a spoiled point, so it is not followed further.
GroupNext == ~spoiled /\ (AddDecoded \/ AddToDecoded \/ AddSelf \/ Neg \/ ScalarMult \/ Marshal)

(* Whatever operations made it, a point is the multiple of the generator   *)
(* they say, by the law of the group, and infinity is recognised exactly,  *)
(* although coordinates are left unreduced and points at infinity keep     *)
(* meaningless ones.  The sum of equal points is right in another point,   *)
(* and that of different ones in either of them; except after a sum of     *)
(* equal points in the first of them and after Marshal of infinity.        *)
GroupExact ==
  ~spoiled => IF kind = "G1" THEN curveIs(pt, Points1[k]) ELSE twistIs(pt, Points2[k])

(* A point is encoded as its affine coordinates, below P, and the decoder  *)
(* of the precompiles accepts the encoding and reads the same point.       *)
EncodingExact ==
  ~spoiled =>
    IF kind = "G1"
    THEN MarshalG1(pt) = Encoding1(Points1[k]) /\ curveIs(newCurvePoint(MarshalG1(pt)), Points1[k])
    ELSE MarshalG2(pt) = Encoding2(Points2[k]) /\ twistIs(newTwistPoint(MarshalG2(pt)), Points2[k])

-----------------------------------------------------------------------------
VARIABLES
  pc,       \* where Run is
  input,    \* what is left of the input
  pairs,    \* the points decoded, then those PairingCheck has left
  acc,      \* the product of the Miller values; in the final exponentiation, t1
  miller,   \* the locals of miller
  ret       \* what Run returned

vars == <<pc, input, pairs, acc, miller, ret>>

-----------------------------------------------------------------------------
(* optate.go: a step of the Miller loop moves r and gives the line a, b, c *)
lineFunctionAdd(r, p, q, r2) ==
  LET B == Mul(p.x, r.t)
      D == Mul(Sub(Sub(Square(Add(p.y, r.z)), r2), r.t), r.t)
      H == Sub(B, r.x)
      I == Square(H)
      E == Double(Double(I))
      J == Mul(H, E)
      L1 == Sub(Sub(D, r.y), r.y)
      V == Mul(r.x, E)
      x == Sub(Sub(Sub(Square(L1), J), V), V)
      z == Sub(Sub(Square(Add(r.z, H)), r.t), I)
      y == Sub(Mul(Sub(V, x), L1), Double(Mul(r.y, J)))
      t == Sub(Sub(Square(Add(p.y, z)), r2), Square(z))
  IN [a |-> Sub(Double(Mul(L1, p.x)), t),
      b |-> Double(MulScalar(Sub(Zero, L1), q.x)),
      c |-> Double(MulScalar(z, q.y)),
      r |-> [x |-> x, y |-> y, z |-> z, t |-> Square(z)]]

lineFunctionDouble(r, q) ==
  LET A == Square(r.x)
      B == Square(r.y)
      C == Square(B)
      D == Double(Sub(Sub(Square(Add(r.x, B)), A), C))
      E == Add(Add(A, A), A)
      G == Square(E)
      x == Sub(Sub(G, D), D)
      z == Sub(Sub(Square(Add(r.y, r.z)), B), r.t)
      y == Sub(Mul(Sub(D, x), E), Double(Double(Double(C))))
  IN [a |-> Sub(Sub(Sub(Square(Add(r.x, E)), A), G), Double(Double(B))),
      b |-> MulScalar(Sub(Zero, Double(Mul(E, r.t))), q.x),
      c |-> MulScalar(Double(Mul(z, r.t)), q.y),
      r |-> [x |-> x, y |-> y, z |-> z, t |-> Square(z)]]

mulLine(f, l) ==
  LET a2 == Mul6(<<Zero, l.a, l.b>>, f[1])
      t3 == MulScalar6(f[2], l.c)
      x == Mul6(Add6(f[1], f[2]), <<Zero, l.a, Add(l.b, l.c)>>)
  IN <<Sub6(Sub6(x, a2), t3), Add6(t3, MulTau(a2))>>

-----------------------------------------------------------------------------
(* bn256Pairing.Run                                                        *)
InitWith(data) ==
  /\ pc = "decode"
  /\ input = data
  /\ pairs = <<>>
  /\ acc = One12
  /\ miller = <<>>
  /\ ret = "none"

\* The length is tested before anything is decoded.
Decode ==
  /\ pc = "decode"
  /\ IF Len(input) % 6 > 0 THEN pc' = "done" /\ ret' = "error" /\ UNCHANGED <<input, pairs>>
     ELSE IF input = <<>> THEN pc' = "check" /\ UNCHANGED <<input, pairs, ret>>
     ELSE LET c == newCurvePoint(SubSeq(input, 1, 2))
              t == newTwistPoint(SubSeq(input, 3, 6))
          IN IF Refused \in {c, t} THEN pc' = "done" /\ ret' = "error" /\ UNCHANGED <<input, pairs>>
             ELSE /\ pairs' = Append(pairs, <<c, t>>)
                  /\ input' = SubSeq(input, 7, Len(input))
                  /\ UNCHANGED <<pc, ret>>
  /\ UNCHANGED <<acc, miller>>

Skips(pair) == curveIsInfinity(pair[1]) \/ twistIsInfinity(pair[2])

\* PairingCheck: the next pair, if it is not skipped, goes through miller.
NextPair ==
  /\ pc = "check"
  /\ pairs # <<>>
  /\ pairs' = Tail(pairs)
  /\ IF Skips(Head(pairs)) THEN UNCHANGED <<pc, miller>>
     ELSE LET q == twistMakeAffine(Head(pairs)[2])
          IN /\ miller' = [i |-> Len(sixuPlus2NAF) - 1, f |-> One12, q |-> q, r |-> q,
                           p |-> curveMakeAffine(Head(pairs)[1])]
             /\ pc' = "loop"
  /\ UNCHANGED <<input, acc, ret>>

\* The loop: i counts down to 1; the digit looked at is the one below.
Loop ==
  /\ pc = "loop"
  /\ miller.i > 0
  /\ LET m == miller
         square == IF m.i = Len(sixuPlus2NAF) - 1 THEN m.f ELSE Square12(m.f)
         digit == sixuPlus2NAF[m.i]
         p == IF digit = 1 THEN m.q ELSE twistNegative(m.q)
     IN \E dbl \in {lineFunctionDouble(m.r, m.p)} : \E f \in {mulLine(square, dbl)} :
          IF digit = 0 THEN miller' = [m EXCEPT !.i = m.i - 1, !.f = f, !.r = dbl.r]
          ELSE \E line \in {lineFunctionAdd(dbl.r, p, m.p, Square(m.q.y))} :
                 miller' = [m EXCEPT !.i = m.i - 1, !.f = mulLine(f, line), !.r = line.r]
  /\ UNCHANGED <<pc, input, pairs, acc, ret>>

q1(q) == [x |-> Mul(Conjugate(q.x), xiToPMinus1Over3), y |-> Mul(Conjugate(q.y), xiToPMinus1Over2),
          z |-> One, t |-> One]
minusQ2(q) == [x |-> MulScalar(q.x, xiToPSquaredMinus1Over3), y |-> q.y, z |-> One, t |-> One]

\* After the loop, the lines through the images of q; PairingCheck multiplies.
Lines ==
  /\ pc = "loop"
  /\ miller.i = 0
  /\ \E a \in {q1(miller.q)}, b \in {minusQ2(miller.q)} :
     \E first \in {lineFunctionAdd(miller.r, a, miller.p, Square(a.y))} :
     \E f \in {mulLine(miller.f, first)}, second \in {lineFunctionAdd(first.r, b, miller.p, Square(b.y))} :
     \E product \in {mulLine(f, second)} : acc' = Mul12(acc, product)
  /\ miller' = <<>>
  /\ pc' = "check"
  /\ UNCHANGED <<input, pairs, ret>>

\* finalExponentiation, the easy part: the power (p^6 - 1)(p^2 + 1).
EasyPart ==
  /\ pc = "check"
  /\ pairs = <<>>
  /\ \E inv \in {Invert12(acc)} : \E t1 \in {Mul12(Conjugate12(acc), inv)} :
       acc' = Mul12(t1, FrobeniusP212(t1))
  /\ pc' = "hard"
  /\ UNCHANGED <<input, pairs, miller, ret>>

\* The hard part, which ends in the product y0 y1^2 y2^6 y3^12 y4^18 y5^30
\* y6^36 of powers of t1, and the verdict.
HardPart ==
  /\ pc = "hard"
  /\ \E fu \in {Exp12(acc, U)} : \E fu2 \in {Exp12(fu, U)} : \E fu3 \in {Exp12(fu2, U)} :
     \E fp \in {Frobenius12(acc)}, fp2 \in {FrobeniusP212(acc)} : \E fpp2 \in {Mul12(fp, fp2)} :
     \E y0 \in {Mul12(fpp2, Frobenius12(fp2))},
        y2 \in {FrobeniusP212(fu2)},
        y3 \in {Conjugate12(Frobenius12(fu))},
        y4 \in {Conjugate12(Mul12(fu, Frobenius12(fu2)))},
        y6 \in {Conjugate12(Mul12(fu3, Frobenius12(fu3)))} :
     LET y1 == Conjugate12(acc)
         y5 == Conjugate12(fu2)
     IN \E t0 \in {Mul12(Square12(y6), y4)} : \E t0y5 \in {Mul12(t0, y5)} :
        \E t1 \in {Square12(Mul12(Mul12(y3, y5), t0y5))} :
        \E t2 \in {Square12(Mul12(t1, Mul12(t0y5, y2)))} :
        \E t \in {Square12(Mul12(t2, y1))} : acc' = Mul12(t, Mul12(t2, y0))
  /\ ret' = IF IsOne12(acc') THEN "true" ELSE "false"
  /\ pc' = "done"
  /\ UNCHANGED <<input, pairs, miller>>

Next == Decode \/ NextPair \/ Loop \/ Lines \/ EasyPart \/ HardPart

(* Run accepts exactly the inputs whose points are all valid, and answers  *)
(* "true" exactly when the sum of the products of the points' logarithms   *)
(* is zero: the pairing is bilinear and not degenerate, and infinity       *)
(* counts as zero on either side.                                          *)
PairingExact(valid, sum) ==
  pc = "done" => ret = IF ~valid THEN "error" ELSE IF sum = 0 THEN "true" ELSE "false"
==============================================================================
