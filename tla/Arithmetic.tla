----------------------------- MODULE Arithmetic -----------------------------
(***************************************************************************)
(* The arithmetic of core/vm/instructions.go and common/math/big.go: two's *)
(* complement words of Bits bits (256) that consist of bytes of ByteBits   *)
(* bits (8), computed the way the code does with unbounded integers, and   *)
(* the overflow taint this EVM adds to ADD, SUB, MUL and DIV.  x, y and z  *)
(* are the operands, topmost first.                                        *)
(***************************************************************************)
EXTENDS Integers

CONSTANTS
  Bits, ByteBits,  \* of a word and of a byte
  Moduli           \* third operands

VARIABLE arg       \* the operands

\* Powers of b.
Power(b) == LET p[n \in Nat] == IF n = 0 THEN 1 ELSE b * p[n - 1] IN p
Pow2 == Power(2)

Word == 0..(Pow2[Bits] - 1)
Bytes == Bits \div ByteBits

ASSUME WordAssumption ==
  /\ Bits \in Nat \ {0} /\ ByteBits \in Nat \ {0} /\ Bits % ByteBits = 0
  /\ Moduli \subseteq Word

\* math.U256: And with 2^256 - 1, also of negative integers.
U256(x) == x % Pow2[Bits]

\* math.S256.
S256(x) == IF x < Pow2[Bits - 1] THEN x ELSE x - Pow2[Bits]

Abs(x) == IF x < 0 THEN -x ELSE x

Sign(b) == IF b THEN -1 ELSE 1

\* A result and whether the code taints the storage: the wrapped result is
\* compared with a copy of the unwrapped one.
Tainting(result) == [val |-> U256(result), taint |-> result # U256(result)]

opAdd(x, y) == Tainting(x + y)
opSub(x, y) == Tainting(x - y)
opMul(x, y) == Tainting(x * y)
opDiv(x, y) == IF y # 0 THEN Tainting(x \div y) ELSE [val |-> 0, taint |-> FALSE]

\* The sign of the quotient is that of the product.
opSdiv(a, b) ==
  LET x == S256(a)
      y == S256(b)
  IN IF y = 0 THEN 0 ELSE U256((Abs(x) \div Abs(y)) * Sign(x * y < 0))

opMod(x, y) == IF y = 0 THEN 0 ELSE U256(x % y)

\* A faulty variant of opSmod: the sign is that of the divisor.
opSmodDivisor(a, b) ==
  LET x == S256(a)
      y == S256(b)
  IN IF y = 0 THEN 0 ELSE U256((Abs(x) % Abs(y)) * Sign(y < 0))

\* The sign of the remainder is that of the dividend.
opSmod(a, b) ==
  LET x == S256(a)
      y == S256(b)
  IN IF y = 0 THEN 0 ELSE U256((Abs(x) % Abs(y)) * Sign(x < 0))

\* math.Exp: squaring, least significant bit first, over whole machine words:
\* the bits beyond the length of the exponent are zero.
Exp(base, exponent) ==
  LET loop[i \in 0..Bits] ==
        IF i = 0 THEN [result |-> 1, base |-> base]
        ELSE LET p == loop[i - 1]
                 bit == (exponent \div Pow2[i - 1]) % 2
             IN [result |-> IF bit = 1 THEN U256(p.result * p.base) ELSE p.result,
                 base |-> U256(p.base * p.base)]
  IN loop[Bits].result

\* opSignExtend: num | ^mask or num & mask, mask being Pow2[bit] - 1.
opSignExtend(back, num) ==
  IF back < Bytes - 1
  THEN LET bit == back * ByteBits + ByteBits - 1
       IN IF (num \div Pow2[bit]) % 2 = 1 THEN U256((num % Pow2[bit]) - Pow2[bit]) ELSE U256(num % Pow2[bit])
  ELSE num

opSlt(x, y) == IF S256(x) < S256(y) THEN 1 ELSE 0
opSgt(x, y) == IF S256(x) > S256(y) THEN 1 ELSE 0

\* opByte with math.Byte: byte 0 is the most significant.
opByte(th, val) == IF th < Bytes THEN (val \div Pow2[ByteBits * (Bytes - 1 - th)]) % Pow2[ByteBits] ELSE 0

\* opAddmod and opMulmod: the sum and the product are not wrapped.
opAddmod(x, y, z) == IF z > 0 THEN U256((x + y) % z) ELSE 0
opMulmod(x, y, z) == IF z > 0 THEN U256((x * y) % z) ELSE 0

-----------------------------------------------------------------------------
\* The reference: words as the signed integers they stand for.
Represents(w, n) == w \in Word /\ (w - n) % Pow2[Bits] = 0

Signed(w) ==
  LET m == Pow2[Bits]
  IN CHOOSE n \in (-Pow2[Bits - 1])..(Pow2[Bits - 1] - 1) : (w - n) % m = 0

\* q is n divided by d, rounded towards zero.
Quotient(n, d) == CHOOSE q \in (-Pow2[Bits - 1])..Pow2[Bits - 1] :
  Abs(d * q) <= Abs(n) /\ Abs(n - d * q) < Abs(d)
    /\ (n - d * q = 0 \/ (n - d * q < 0) = (n < 0))

\* The storage is tainted by exactly the additions, subtractions and
\* multiplications whose exact result is not a word, and never by a division.
TaintExact(x, y) ==
  /\ opAdd(x, y).taint = (x + y \notin Word)
  /\ opSub(x, y).taint = (x - y \notin Word)
  /\ opMul(x, y).taint = (x * y \notin Word)
  /\ ~opDiv(x, y).taint

\* SDIV and SMOD divide the signed integers, rounding towards zero, also
\* where the quotient of the smallest integer by -1 does not fit; SLT and SGT
\* order them.
SignedExact(x, y) ==
  LET n == Signed(x)
      d == Signed(y)
  IN /\ y # 0 => Represents(opSdiv(x, y), Quotient(n, d))
     /\ y # 0 => Represents(opSmod(x, y), n - d * Quotient(n, d))
     /\ y = 0 => opSdiv(x, y) = 0 /\ opSmod(x, y) = 0 /\ opMod(x, y) = 0
     /\ opSlt(x, y) = (IF n < d THEN 1 ELSE 0)
     /\ opSgt(x, y) = (IF n > d THEN 1 ELSE 0)

\* SIGNEXTEND yields the word whose signed value is that of the low
\* back + 1 bytes, and the bytes that BYTE counts from the front make up the
\* word again.
ExtensionExact(back, num) ==
  LET k == (back + 1) * ByteBits
      low == num % Pow2[k]
      word[t \in 0..Bytes] ==
        IF t = 0 THEN 0 ELSE word[t - 1] * Pow2[ByteBits] + opByte(t - 1, num)
  IN /\ IF k < Bits
        THEN Represents(opSignExtend(back, num), IF low >= Pow2[k - 1] THEN low - Pow2[k] ELSE low)
        ELSE opSignExtend(back, num) = num
     /\ word[Bytes] = num
     /\ opByte(Bytes, num) = 0

\* EXP is repeated multiplication modulo 2^256; ADDMOD and MULMOD reduce the
\* exact sum and product.
PowersExact(x, y, z) ==
  LET power[n \in 0..y] == IF n = 0 THEN 1 ELSE (x * power[n - 1]) % Pow2[Bits]
  IN /\ Exp(x, y) = power[y]
     /\ z # 0 => opAddmod(x, y, z) \in 0..(z - 1) /\ (x + y - opAddmod(x, y, z)) % z = 0
     /\ z # 0 => opMulmod(x, y, z) \in 0..(z - 1) /\ (x * y - opMulmod(x, y, z)) % z = 0
     /\ z = 0 => opAddmod(x, y, z) = 0 /\ opMulmod(x, y, z) = 0

-----------------------------------------------------------------------------
\* Any operands; there is no state.
WordsInit == arg \in Word \X Word \X Moduli

WordsSpec == WordsInit /\ [][FALSE]_arg

\* The overflow taint is set exactly when a result does not fit, and signed,
\* extended, byte-wise, modular and repeated operations give the numbers they
\* stand for.
ArithmeticExact ==
  /\ TaintExact(arg[1], arg[2])
  /\ SignedExact(arg[1], arg[2])
  /\ ExtensionExact(arg[1], arg[2])
  /\ PowersExact(arg[1], arg[2], arg[3])
=============================================================================
