----------------------------- MODULE Precompiles -----------------------------
(***************************************************************************)
(* The precompiled contracts of core/vm/contracts.go that are not about    *)
(* bn256: the modular exponentiation and the recovery of a signer.  Input  *)
(* is a sequence of bytes.  The sizes are scaled: a byte has Byte values   *)
(* (256 in the code), a word WordLen bytes (32), and a uint64 counts       *)
(* modulo Max64 (2^64).  The lengths in an input fill a word, so they can  *)
(* exceed what Uint64() keeps.                                             *)
(***************************************************************************)
EXTENDS Integers, Sequences, SequencesExt

CONSTANTS
  Byte, WordLen, Max64,
  V27,          \* the v of an even signature (27 in the code), below Byte - 1
  secp256k1_N   \* the order of the signatures' curve, below Byte^WordLen

\* common.RightPadBytes, common.LeftPadBytes: an l not above the length changes nothing.
RightPad(s, l) == IF l <= Len(s) THEN s ELSE s \o [k \in 1..(l - Len(s)) |-> 0]
LeftPad(s, l) == IF l <= Len(s) THEN s ELSE [k \in 1..(l - Len(s)) |-> 0] \o s

\* common.go: the end wraps at 2^64 in the code's arithmetic.
getData(data, start, size) ==
  LET first == IF start > Len(data) THEN Len(data) ELSE start
      end == (first + size) % Max64
      last == IF end > Len(data) THEN Len(data) ELSE end
  IN RightPad(SubSeq(data, first + 1, last), size)

\* big.Int SetBytes, Bytes and BitLen.
SetBytes(s) == LET v[k \in 0..Len(s)] == IF k = 0 THEN 0 ELSE v[k - 1] * Byte + s[k] IN v[Len(s)]
BytesLen(n) == CHOOSE k \in 0..31 : (n \div Byte^k = 0) /\ (k > 0 => n \div Byte^(k - 1) > 0)
Bytes(n) == LET l == BytesLen(n) IN [k \in 1..l |-> (n \div Byte^(l - k)) % Byte]
BitLen(n) == CHOOSE k \in 0..31 : (n \div 2^k = 0) /\ (k > 0 => n \div 2^(k - 1) = 1)

\* big.Int Exp.
ModPow(base, e, mod) ==
  LET f[k \in 0..BitLen(e)] ==
        IF k = 0 THEN 1 % mod
        ELSE LET bit == (e \div 2^(BitLen(e) - k)) % 2
             IN (((f[k - 1] * f[k - 1]) % mod) * (IF bit = 1 THEN base % mod ELSE 1)) % mod
  IN f[BitLen(e)]

-----------------------------------------------------------------------------
(* bigModExp                                                               *)
Length(input, k) == SetBytes(getData(input, k * WordLen, WordLen))
Operands(input) == IF Len(input) > 3 * WordLen THEN SubSeq(input, 3 * WordLen + 1, Len(input)) ELSE <<>>

Larger(x, y) == IF x > y THEN x ELSE y

Complexity(n) ==
  IF n <= 64 THEN n * n
  ELSE IF n <= 1024 THEN ((n * n) \div 4) + 96 * n - 3072
  ELSE ((n * n) \div 16) + 480 * n - 199680

\* Uncapped: the gas as a big.Int.
BigGas(input) ==
  LET baseLen == Length(input, 0)
      expLen == Length(input, 1)
      modLen == Length(input, 2)
      data == Operands(input)
      expHead == IF Len(data) <= baseLen THEN 0
                 ELSE SetBytes(getData(data, baseLen % Max64, IF expLen > WordLen THEN WordLen ELSE expLen))
      msb == IF expHead > 0 THEN BitLen(expHead) - 1 ELSE 0
      adjExpLen == (IF expLen > WordLen THEN 8 * (expLen - WordLen) ELSE 0) + msb
  IN (Complexity(Larger(modLen, baseLen)) * Larger(adjExpLen, 1)) \div 20

RequiredGas(input) == IF BigGas(input) >= Max64 THEN Max64 - 1 ELSE BigGas(input)

modExp(input) ==
  LET baseLen == Length(input, 0) % Max64
      expLen == Length(input, 1) % Max64
      modLen == Length(input, 2) % Max64
      data == Operands(input)
      base == SetBytes(getData(data, 0, baseLen))
      e == SetBytes(getData(data, baseLen, expLen))
      mod == SetBytes(getData(data, (baseLen + expLen) % Max64, modLen))
  IN IF baseLen = 0 /\ modLen = 0 THEN <<>>
     ELSE IF mod = 0 THEN LeftPad(<<>>, modLen)
     ELSE LeftPad(Bytes(ModPow(base, e, mod)), modLen)

-----------------------------------------------------------------------------
(* ecrecover.  What the recovery of a key gives is a token of its          *)
(* arguments, or an error (recovers is FALSE), which gives no output.      *)
(* append(input[64:128], v) stores v behind the fourth word when the input *)
(* goes on there.                                                          *)
ValidateSignatureValues(v, r, s) ==
  r >= 1 /\ s >= 1 /\ r < secp256k1_N /\ s < secp256k1_N /\ v \in {0, 1}

allZero(b) == \A k \in 1..Len(b) : b[k] = 0

ecrecover(in, recovers) ==
  LET input == RightPad(in, 4 * WordLen)
      part(k, n) == SubSeq(input, k * WordLen + 1, k * WordLen + n)
      r == SetBytes(part(2, WordLen))
      s == SetBytes(part(3, WordLen))
      v == (input[2 * WordLen] - V27) % Byte
      accepted == allZero(part(1, WordLen - 1)) /\ ValidateSignatureValues(v, r, s)
  IN [out |-> IF accepted /\ recovers THEN <<part(0, WordLen), r, s, v>> ELSE <<>>,
      input |-> IF accepted /\ Len(in) > 4 * WordLen THEN [in EXCEPT ![4 * WordLen + 1] = v] ELSE in]

-----------------------------------------------------------------------------
\* The number in len bytes from a place on, zeros after the end.
Number(data, from, len) ==
  SetBytes([k \in 1..len |-> IF from + k <= Len(data) THEN data[from + k] ELSE 0])

\* Half the gas of the shortest exponent whose length does not fit a uint64.
Unpayable == (8 * (Max64 - WordLen)) \div 40

(* A call that can be paid with less than Unpayable computes what EIP 198  *)
(* asks for, base^exp mod mod in modLen bytes, whatever lengths the input  *)
(* claims: lengths that Uint64() truncates, or whose sum wraps, cost more. *)
ModExpExact(input) ==
  LET baseLen == Number(input, 0, WordLen)
      expLen == Number(input, WordLen, WordLen)
      modLen == Number(input, 2 * WordLen, WordLen)
      at == 3 * WordLen
      mod == Number(input, at + baseLen + expLen, modLen)
      result == IF mod = 0 THEN 0
                ELSE ModPow(Number(input, at, baseLen), Number(input, at + baseLen, expLen), mod)
  IN RequiredGas(input) < Unpayable =>
       modExp(input) = [k \in 1..modLen |-> (result \div Byte^(modLen - k)) % Byte]

(* A longer operand never costs less, across the pieces of the formula.    *)
GasGrows(n) == Complexity(n) <= Complexity(n + 1)

(* The signer is recovered from the first four words, missing bytes being  *)
(* zero, exactly when v is 27 or 28 as a number, r and s are in range and  *)
(* a key can be recovered; otherwise the output is empty.  The caller's    *)
(* input changes at most in the byte behind the four words.                *)
EcrecoverExact(in) ==
  LET word(k) == Number(in, k * WordLen, WordLen)
      valid == word(1) \in {V27, V27 + 1} /\ \A k \in {2, 3} : word(k) \in 1..(secp256k1_N - 1)
  IN \A recovers \in BOOLEAN :
       LET result == ecrecover(in, recovers)
       IN /\ result.out = IF valid /\ recovers
                          THEN <<SubSeq(RightPad(in, WordLen), 1, WordLen), word(2), word(3), word(1) - V27>> ELSE <<>>
          /\ \A k \in DOMAIN in : result.input[k] # in[k] => k = 4 * WordLen + 1
==============================================================================
