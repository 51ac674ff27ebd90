------------------------- MODULE Interpreter_proofs -------------------------
(***************************************************************************)
(* Proofs about the memory of a frame and about the analysis of jump       *)
(* destinations.                                                           *)
(***************************************************************************)
EXTENDS Interpreter, TLAPS, SequenceTheorems, WellFoundedInduction

-----------------------------------------------------------------------------
(* Arithmetic.                                                             *)

\* Division with remainder.
LEMMA DivMod ==
  ASSUME NEW n \in Nat, NEW w \in Nat \ {0}
  PROVE  /\ n \div w \in Nat /\ n % w \in 0..(w - 1)
         /\ n = w * (n \div w) + (n % w)
OBVIOUS

\* Quotient and remainder are unique.
LEMMA Cancel ==
  ASSUME NEW q \in Nat, NEW w \in Nat \ {0}, NEW r \in 0..(w - 1)
  PROVE  (w * q + r) % w = r /\ (w * q + r) \div w = q
OBVIOUS

\* A difference in unsigned words.
LEMMA ModMinus ==
  ASSUME NEW m \in Nat \ {0}, NEW t \in 0..(m - 1), NEW l \in 0..(m - 1)
  PROVE  (t - l) % m = IF t >= l THEN t - l ELSE t - l + m
OBVIOUS

\* Products of naturals are naturals, and grow with their factors.
LEMMA Product ==
  ASSUME NEW a \in Nat, NEW b \in Nat, NEW c \in Nat
  PROVE  a * b \in Nat /\ (a <= b => a * c <= b * c /\ c * a <= c * b)
OBVIOUS

-----------------------------------------------------------------------------
(* Memory.                                                                 *)

\* What MemoryAssumption says, one fact each.
LEMMA Sizes ==
  /\ MaxUint64 \in Nat /\ MemLimit \in Nat /\ MemoryGas \in Nat /\ CopyGas \in Nat
  /\ Sha3WordGas \in Nat /\ LogDataGas \in Nat /\ StepGas \in Nat
  /\ WordBytes \in Nat \ {0} /\ QuadCoeffDiv \in Nat \ {0}
  /\ MaxUint64 % WordBytes = WordBytes - 1
  /\ Operands \subseteq Nat /\ GasLimits \subseteq 0..MaxUint64
BY MemoryAssumption, Zenon

\* A remainder by the range of uint64 is one of its words.
LEMMA WrapType ==
  ASSUME NEW n \in Nat
  PROVE  Wrap(n) \in 0..MaxUint64
BY Sizes, DivMod, MaxUint64 + 1 \in Nat \ {0} DEF Wrap

\* The words uint64 has room for.
LEMMA MaxWords ==
  /\ MaxUint64 \div WordBytes \in Nat
  /\ MaxUint64 = WordBytes * (MaxUint64 \div WordBytes) + (WordBytes - 1)
<1>1. /\ MaxUint64 \div WordBytes \in Nat
      /\ MaxUint64 = WordBytes * (MaxUint64 \div WordBytes) + (MaxUint64 % WordBytes)
  BY DivMod, Sizes, Zenon
<1>2. MaxUint64 % WordBytes = WordBytes - 1
  BY Sizes, Zenon
<1> QED BY <1>1, <1>2, Zenon

\* toWordSize rounds up, wherever the size lies in the range of uint64.
LEMMA WordsCover ==
  ASSUME NEW size \in 0..MaxUint64
  PROVE  toWordSize(size) \in Nat /\ toWordSize(size) * WordBytes >= size
<1>1. PICK k \in Nat : MaxUint64 = WordBytes * k + (WordBytes - 1) /\ MaxUint64 \div WordBytes = k
  BY MaxWords, Zenon
<1>2. CASE size > MaxUint64 - (WordBytes - 1)
  <2>1. toWordSize(size) = k + 1
    BY <1>1, <1>2, Zenon DEF toWordSize
  <2>2. (k + 1) * WordBytes = WordBytes * k + WordBytes
    BY Sizes
  <2> QED BY <1>1, <2>1, <2>2, Sizes
<1>3. CASE ~(size > MaxUint64 - (WordBytes - 1))
  <2>1. size + WordBytes - 1 \in Nat
    BY Sizes
  <2>2. PICK q \in Nat, r \in 0..(WordBytes - 1) :
          size + WordBytes - 1 = WordBytes * q + r /\ (size + WordBytes - 1) \div WordBytes = q
    BY <2>1, Sizes, DivMod, Zenon
  <2>3. toWordSize(size) = q
    BY <1>3, <2>2, Zenon DEF toWordSize
  <2>4. q * WordBytes = WordBytes * q
    BY Sizes
  <2> QED BY <2>2, <2>3, <2>4, Sizes
<1> QED BY <1>2, <1>3, Zenon

\* A size that is a whole number of words and fits is that number of words.
LEMMA WordsExact ==
  ASSUME NEW w \in Nat, w * WordBytes <= MaxUint64
  PROVE  toWordSize(w * WordBytes) = w
<1>1. PICK k \in Nat : MaxUint64 = WordBytes * k + (WordBytes - 1)
  BY MaxWords, Zenon
<1>2. w <= k
  <2> SUFFICES ASSUME w >= k + 1 PROVE FALSE
    BY <1>1
  <2>1. (k + 1) * WordBytes <= w * WordBytes
    BY Product, Sizes
  <2>2. (k + 1) * WordBytes = WordBytes * k + WordBytes
    BY Sizes
  <2> QED BY <1>1, <2>1, <2>2, Sizes
<1>3. w * WordBytes <= MaxUint64 - (WordBytes - 1)
  <2>1. w * WordBytes <= k * WordBytes /\ k * WordBytes = WordBytes * k
    BY <1>2, Product, Sizes
  <2> QED BY <1>1, <2>1, Sizes
<1>4. w * WordBytes + WordBytes - 1 = WordBytes * w + (WordBytes - 1)
  BY Sizes
<1>5. (w * WordBytes + WordBytes - 1) \div WordBytes = w
  BY <1>4, Cancel, Sizes
<1>6. ~(w * WordBytes > MaxUint64 - (WordBytes - 1))
  BY <1>3, Sizes
<1> QED BY <1>5, <1>6, Zenon DEF toWordSize

\* SafeMul gives -1 or a product that fits.
LEMMA SafeMulIs ==
  ASSUME NEW x \in Nat, NEW y \in Nat
  PROVE  SafeMul(x, y) = -1 \/ (SafeMul(x, y) = x * y /\ x * y \in 0..MaxUint64)
<1>1. CASE x = 0 \/ y = 0
  BY <1>1, Sizes DEF SafeMul
<1>2. CASE x # 0 /\ y # 0
  <2>1. PICK q \in Nat, r \in 0..(x - 1) : MaxUint64 = x * q + r /\ MaxUint64 \div x = q
    <3>1. /\ MaxUint64 \div x \in Nat /\ MaxUint64 % x \in 0..(x - 1)
          /\ MaxUint64 = x * (MaxUint64 \div x) + (MaxUint64 % x)
      BY <1>2, x \in Nat \ {0}, Sizes, DivMod, Zenon
    <3> QED BY <3>1, Zenon
  <2>2. y <= q => x * y <= x * q /\ x * y \in Nat
    BY Product, Zenon
  <2>3. x * q \in Nat
    BY Product, Zenon
  <2>4. SafeMul(x, y) = IF y > q THEN -1 ELSE x * y
    BY <1>2, <2>1 DEF SafeMul
  <2> QED BY <2>1, <2>2, <2>3, <2>4, Sizes
<1> QED BY <1>1, <1>2, Zenon

\* SafeAdd gives -1 or a number.
LEMMA SafeAddIs ==
  ASSUME NEW x \in Nat \cup {-1}, NEW y \in Nat \cup {-1}
  PROVE  SafeAdd(x, y) \in Nat \cup {-1}
BY Sizes DEF SafeAdd

\* What a gas function adds to a fee is -1 or a number.
LEMMA GasCostIs ==
  ASSUME NEW kind \in {"memory", "copy", "sha3", "log"}, NEW fee \in Nat, NEW n \in Nat
  PROVE  gasCost(kind, fee, n) \in Nat \cup {-1}
<1>1. StepGas \in Nat \cup {-1} /\ fee \in Nat \cup {-1}
  BY Sizes, Zenon
<1>2. SafeAdd(fee, StepGas) \in Nat \cup {-1}
  BY <1>1, SafeAddIs, Zenon
<1>3. ASSUME NEW x \in Nat, NEW y \in Nat
      PROVE  SafeAdd(SafeAdd(fee, StepGas), SafeMul(x, y)) \in Nat \cup {-1}
  <2>1. SafeMul(x, y) \in Nat \cup {-1}
    BY SafeMulIs
  <2> QED BY <1>2, <2>1, SafeAddIs, Zenon
<1>4. n <= MaxUint64 => toWordSize(n) \in Nat
  BY WordsCover, Sizes
<1>5. gasMemory(fee, n) \in Nat \cup {-1}
  BY <1>2, Zenon DEF gasMemory
<1>6. gasCopy(fee, n) \in Nat \cup {-1}
  BY <1>3, <1>4, Sizes DEF gasCopy
<1>7. gasSha3(fee, n) \in Nat \cup {-1}
  BY <1>3, <1>4, Sizes DEF gasSha3
<1>8. gasLog(fee, n) \in Nat \cup {-1}
  BY <1>3, Sizes, Zenon DEF gasLog
<1> QED BY <1>5, <1>6, <1>7, <1>8, Zenon DEF gasCost

\* The larger of two numbers.
LEMMA MaxOfTwo ==
  ASSUME NEW a \in Nat, NEW b \in Nat
  PROVE  Max({a, b}) \in Nat /\ Max({a, b}) >= a /\ Max({a, b}) >= b
<1>1. \E x \in {a, b} : \A y \in {a, b} : x >= y
  BY a >= b \/ b >= a
<1> QED BY <1>1, Zenon DEF Max

\* The cost of a number of words is a uint64.
LEMMA TotalFeeType ==
  ASSUME NEW words \in Nat
  PROVE  NewTotalFee(words) \in 0..MaxUint64
<1>1. words * MemoryGas \in Nat /\ words * words \in Nat
  BY Product, Sizes, Zenon
<1>2. Wrap(words * MemoryGas) \in Nat /\ Wrap(words * words) \in Nat
  BY <1>1, WrapType
<1>3. Wrap(words * words) \div QuadCoeffDiv \in Nat
  BY <1>2, DivMod, Sizes, Zenon
<1>4. Wrap(words * MemoryGas) + Wrap(words * words) \div QuadCoeffDiv \in Nat
  BY <1>2, <1>3
<1> QED BY <1>4, WrapType, Zenon DEF NewTotalFee

\* The fee charged for an increase from cost l to cost t brings a sum of fees
\* that is l in uint64 arithmetic to one that is t.
LEMMA Telescope ==
  ASSUME NEW p \in Nat, NEW t \in 0..MaxUint64, NEW l \in 0..MaxUint64, Wrap(p) = l
  PROVE  Wrap(t - l) \in 0..MaxUint64 /\ Wrap(p + Wrap(t - l)) = t
<1> DEFINE m == MaxUint64 + 1
<1>1. m \in Nat \ {0} /\ t \in 0..(m - 1) /\ l \in 0..(m - 1)
  BY Sizes
<1>2. p % m = l
  BY Zenon DEF Wrap
<1>3. (t - l) % m = IF t >= l THEN t - l ELSE t - l + m
  BY <1>1, ModMinus, Zenon
<1> HIDE DEF m
<1>4. PICK q \in Nat : p = m * q + l
  BY <1>1, <1>2, DivMod, Zenon
<1>5. m * (q + 1) = m * q + m
  BY <1>1
<1>6. (m * q + t) % m = t /\ (m * (q + 1) + t) % m = t
  BY <1>1, q + 1 \in Nat, Cancel, Zenon
<1>7. p + ((t - l) % m) = IF t >= l THEN m * q + t ELSE m * (q + 1) + t
  BY <1>1, <1>3, <1>4, <1>5
<1>8. (p + ((t - l) % m)) % m = t
  BY <1>6, <1>7, Zenon
<1>9. (t - l) % m \in 0..MaxUint64
  <2>1. (IF t >= l THEN t - l ELSE t - l + m) \in 0..MaxUint64
    BY <1>1, Sizes DEF m
  <2> QED BY <1>3, <2>1, Zenon
<1> QED BY <1>8, <1>9, Zenon DEF Wrap, m

\* An empty memory costs nothing.
LEMMA MemoryBegins ==
  MemoryInit => MemoryExact
<1> SUFFICES ASSUME MemoryInit PROVE MemoryExact
  BY Zenon
<1>1. len = 0 /\ lastGasCost = 0 /\ paid = 0 /\ oob = FALSE /\ running = TRUE /\ gas \in 0..MaxUint64
  BY Sizes, Zenon DEF MemoryInit
<1>2. WordBytes * 0 + 0 = 0 /\ 0 \in 0..(WordBytes - 1)
  BY Sizes
<1>3. 0 % WordBytes = 0 /\ 0 \div WordBytes = 0
  BY <1>2, Cancel, Sizes, 0 \in Nat
<1>4. Wrap(0) = 0 /\ 0 \div QuadCoeffDiv = 0
  BY Sizes DEF Wrap
<1>5. NewTotalFee(0) = 0
  BY <1>4, Sizes DEF NewTotalFee
<1>6. MemoryTypeOK
  <2>1. 0 \in Nat /\ 0 \in 0..MaxUint64
    BY Sizes
  <2> QED BY <1>1, <1>3, <2>1, Zenon DEF MemoryTypeOK, Uint64
<1>7. InBounds /\ FeesTelescope /\ LenBounded
  BY <1>1, <1>3, <1>4, <1>5, Sizes DEF InBounds, FeesTelescope, LenBounded
<1> QED BY <1>6, <1>7, Zenon DEF MemoryExact

\* One opcode that touches memory, paid for or not.
LEMMA MemoryStep ==
  ASSUME MemoryExact,
         NEW kind \in {"memory", "copy", "sha3", "log"},
         NEW off \in Nat, NEW n \in Nat, NEW off2 \in Nat, NEW n2 \in Nat,
         Instruction(kind, off, n, off2, n2)
  PROVE  MemoryExact'
<1> DEFINE memSize == Max({calcMemSize(off, n), calcMemSize(off2, n2)})
           memorySize == SafeMul(toWordSize(memSize), WordBytes)
           m == memoryGasCost(memorySize)
           cost == IF m.fee < 0 THEN -1 ELSE gasCost(kind, m.fee, n)
<1>1. /\ len \in 0..MaxUint64 /\ lastGasCost \in 0..MaxUint64 /\ gas \in 0..MaxUint64
      /\ len % WordBytes = 0 /\ paid \in Nat /\ oob = FALSE /\ running \in BOOLEAN
      /\ len <= MemLimit
      /\ running => lastGasCost = NewTotalFee(len \div WordBytes) /\ Wrap(paid) = lastGasCost
  BY Zenon DEF MemoryExact, MemoryTypeOK, Uint64, InBounds, FeesTelescope, LenBounded
<1>2. /\ running
      /\ \/ /\ running' = FALSE
            /\ UNCHANGED <<len, lastGasCost, gas, paid, oob>>
         \/ /\ memSize <= MaxUint64 /\ memorySize >= 0
            /\ lastGasCost' = m.last
            /\ IF cost < 0 \/ gas < cost
               THEN running' = FALSE /\ UNCHANGED <<len, gas, paid, oob>>
               ELSE /\ gas' = gas - cost
                    /\ paid' = paid + m.fee
                    /\ len' = Resize(memorySize)
                    /\ oob' = (oob \/ Beyond(off, n, len') \/ Beyond(off2, n2, len'))
                    /\ UNCHANGED running
  BY Zenon DEF Instruction
<1>3. /\ calcMemSize(off, n) \in Nat /\ (n > 0 => calcMemSize(off, n) = off + n)
      /\ calcMemSize(off2, n2) \in Nat /\ (n2 > 0 => calcMemSize(off2, n2) = off2 + n2)
  BY DEF calcMemSize
<1>4. /\ memSize \in Nat /\ (n > 0 => memSize >= off + n) /\ (n2 > 0 => memSize >= off2 + n2)
  BY <1>3, MaxOfTwo, Zenon
<1> HIDE DEF memSize
<1>5. CASE /\ running' = FALSE
           /\ UNCHANGED <<len, lastGasCost, gas, paid, oob>>
  BY <1>1, <1>5, Zenon DEF MemoryExact, MemoryTypeOK, Uint64, InBounds, FeesTelescope, LenBounded
<1>6. CASE memSize <= MaxUint64 /\ memorySize >= 0
  <2>1. PICK words \in Nat : words = toWordSize(memSize) /\ words * WordBytes >= memSize
    BY <1>4, <1>6, WordsCover, Sizes
  <2>2. memorySize = words * WordBytes /\ words * WordBytes \in 0..MaxUint64
    BY <1>6, <2>1, SafeMulIs, Sizes
  <2>3. toWordSize(memorySize) = words
    BY <2>2, WordsExact
  <2> HIDE DEF memorySize
  <2>4. /\ memorySize = 0 => m = [fee |-> 0, last |-> lastGasCost]
        /\ memorySize # 0 /\ memorySize > MemLimit => m = [fee |-> -1, last |-> lastGasCost]
        /\ memorySize # 0 /\ ~(memorySize > MemLimit) /\ memorySize <= len =>
             m = [fee |-> 0, last |-> lastGasCost]
        /\ memorySize # 0 /\ ~(memorySize > MemLimit) /\ ~(memorySize <= len) =>
             m = [fee |-> Wrap(NewTotalFee(words) - lastGasCost), last |-> NewTotalFee(words)]
    BY <2>2, <2>3, Zenon DEF memoryGasCost
  <2> HIDE DEF m
  <2>5. NewTotalFee(words) \in 0..MaxUint64
    BY TotalFeeType, Zenon
  <2>6. m.last \in 0..MaxUint64
    BY <1>1, <2>4, <2>5
  <2>7. CASE running' = FALSE /\ lastGasCost' = m.last /\ UNCHANGED <<len, gas, paid, oob>>
    BY <1>1, <2>6, <2>7, Zenon DEF MemoryExact, MemoryTypeOK, Uint64, InBounds, FeesTelescope, LenBounded
  <2>8. CASE /\ ~(cost < 0 \/ gas < cost)
             /\ lastGasCost' = m.last /\ gas' = gas - cost
             /\ paid' = paid + m.fee
             /\ len' = Resize(memorySize)
             /\ oob' = (oob \/ Beyond(off, n, len') \/ Beyond(off2, n2, len'))
             /\ UNCHANGED running
    <3>1. Wrap(NewTotalFee(words) - lastGasCost) \in 0..MaxUint64
      BY <1>1, <1>2, <2>5, Telescope, Zenon
    <3>2. m.fee \in Nat \cup {-1}
      BY <2>2, <2>4, <3>1, Sizes
    <3>3. m.fee \in Nat
      BY <2>8, <3>2
    <3>4. gas' \in 0..MaxUint64
      <4>1. cost \in Nat
        BY <2>8, <3>3, GasCostIs
      <4>2. ~(gas < cost) /\ gas' = gas - cost
        BY <2>8, Zenon
      <4>3. \A c \in Nat : ~(gas < c) => gas - c \in 0..MaxUint64
        BY <1>1, Sizes
      <4> QED BY <4>1, <4>2, <4>3, Zenon
    <3>5. /\ len' \in 0..MaxUint64 /\ len' <= MemLimit /\ memorySize <= len'
          /\ len' = IF memorySize <= len THEN len ELSE memorySize
      BY <1>1, <2>2, <2>4, <2>8, <3>3, Sizes DEF Resize
    <3>6. oob' = FALSE
      <4>1. ~Beyond(off, n, len') /\ ~Beyond(off2, n2, len')
        BY <1>4, <2>1, <2>2, <3>5, Sizes DEF Beyond
      <4> QED BY <1>1, <2>8, <4>1, Zenon
    <3>7. WordBytes * words + 0 = memorySize /\ 0 \in 0..(WordBytes - 1)
      BY <2>2, Sizes
    <3>8. memorySize % WordBytes = 0 /\ memorySize \div WordBytes = words
      BY <3>7, Cancel, Sizes, Zenon
    <3>9. CASE memorySize <= len
      <4>1. len' = len /\ lastGasCost' = lastGasCost /\ m.fee = 0
        BY <1>1, <2>2, <2>4, <2>8, <3>3, <3>5, <3>9
      <4>2. paid' = paid
        BY <1>1, <2>8, <4>1
      <4> QED BY <1>1, <2>8, <3>4, <3>5, <3>6, <4>1, <4>2, Zenon
            DEF MemoryExact, MemoryTypeOK, Uint64, InBounds, FeesTelescope, LenBounded
    <3>10. CASE ~(memorySize <= len)
      <4>1. len' = memorySize /\ lastGasCost' = NewTotalFee(words)
            /\ m.fee = Wrap(NewTotalFee(words) - lastGasCost)
        BY <1>1, <2>2, <2>4, <2>8, <3>3, <3>5, <3>10
      <4>2. Wrap(paid') = NewTotalFee(words) /\ paid' \in Nat
        <5>1. paid' = paid + Wrap(NewTotalFee(words) - lastGasCost)
          BY <2>8, <4>1, Zenon
        <5>2. Wrap(paid') = NewTotalFee(words)
          <6>1. paid \in Nat /\ lastGasCost \in 0..MaxUint64 /\ Wrap(paid) = lastGasCost
            BY <1>1, <1>2, Zenon
          <6>2. Wrap(paid + Wrap(NewTotalFee(words) - lastGasCost)) = NewTotalFee(words)
            BY <2>5, <6>1, Telescope, Zenon
          <6> QED BY <5>1, <6>2, Zenon
        <5> QED BY <1>1, <3>1, <5>1, <5>2
      <4>3. lastGasCost' = NewTotalFee(len' \div WordBytes) /\ len' % WordBytes = 0
        BY <3>8, <4>1, Zenon
      <4> QED BY <1>1, <2>5, <2>8, <3>4, <3>5, <3>6, <4>1, <4>2, <4>3, Zenon
            DEF MemoryExact, MemoryTypeOK, Uint64, InBounds, FeesTelescope, LenBounded
    <3> QED BY <3>9, <3>10, Zenon
  <2> QED BY <1>2, <1>5, <2>7, <2>8, Zenon
<1> QED BY <1>2, <1>5, <1>6, Zenon

\* In every reachable state of a frame's memory, for every word size, gas table
\* and operands: accesses lie within the store, the fees paid add up to the cost
\* of the memory there is (both modulo the word, although the square of the word
\* count wraps), and memory stays below the limit.  MemoryExact is inductive.
THEOREM MemoryIsExact == MemorySpec => []MemoryExact
<1>1. ASSUME MemoryExact, [MemoryNext]_memoryVars PROVE MemoryExact'
  <2>1. Operands \subseteq Nat /\ 0 \in Nat
    BY MemoryAssumption, Zenon
  <2>2. ASSUME NEW kind \in {"memory", "copy", "sha3", "log"}, NEW off \in Operands,
               NEW n \in Operands, Instruction(kind, off, n, 0, 0)
        PROVE  MemoryExact'
    BY <1>1, <2>1, <2>2, MemoryStep, Zenon
  <2>3. ASSUME NEW off \in Operands, NEW n \in Operands, NEW off2 \in Operands,
               NEW n2 \in Operands, Instruction("memory", off, n, off2, n2)
        PROVE  MemoryExact'
    BY <1>1, <2>1, <2>3, MemoryStep, Zenon
  <2>4. CASE UNCHANGED memoryVars
    BY <1>1, <2>4, Zenon DEF memoryVars, MemoryExact, MemoryTypeOK, InBounds, FeesTelescope, LenBounded
  <2> QED BY <1>1, <2>2, <2>3, <2>4, Zenon DEF MemoryNext
<1> QED BY <1>1, MemoryBegins, PTL DEF MemorySpec

-----------------------------------------------------------------------------
\* Programs and their bitmaps.

\* Every set of numbers that has a member has a least one.
LEMMA Least ==
  ASSUME NEW T, T \subseteq Nat, T # {}
  PROVE  \E x \in T : \A y \in T : ~(y < x)
<1> DEFINE R == OpToRel(<, Nat)
<1>1. IsWellFoundedOn(R, Nat)
  BY NatLessThanWellFounded, Zenon
<1>2. T \subseteq Nat /\ T # {}
  BY Zenon
<1>3. \A x, y \in Nat : y < x => <<y, x>> \in R
  BY Zenon DEF OpToRel
<1> HIDE DEF R
<1>4. PICK x \in T : \A y \in T : ~(<<y, x>> \in R)
  BY <1>1, <1>2, WFMin, Zenon
<1> QED BY <1>2, <1>3, <1>4, Zenon

\* An opcode takes at most 32 bytes of argument.
LEMMA NumBits ==
  ASSUME NEW code \in Codes, NEW p \in 0..(Len(code) - 1)
  PROVE  At(code, p) \in 0..255 /\ numbits(At(code, p)) \in 0..32
<1>1. code \in Seq(0..255)
  BY JumpAssumption, Zenon
<1>2. \A i \in 1..Len(code) : code[i] \in 0..255
  BY <1>1, ElementOfSeq, Zenon
<1>3. Len(code) \in Nat
  BY <1>1
<1>4. p + 1 \in 1..Len(code)
  BY <1>3
<1>5. \A x \in 0..255 : numbits(x) \in 0..32
  BY DEF numbits, PUSH1, PUSH32
<1> QED BY <1>2, <1>4, <1>5, Zenon DEF At

\* A program has a length, and it is not 0.
LEMMA CodeLen ==
  ASSUME NEW code \in Codes
  PROVE  Len(code) \in Nat \ {0}
<1>1. code \in Seq(0..255) /\ code # <<>>
  BY JumpAssumption, Zenon
<1> QED BY <1>1

\* Where codeBitmap's loop goes on after position p.
After(code, p) == p + 1 + numbits(At(code, p))

\* The loop from any position ends: the recursion of Heads has a solution.
\* By induction on the number of positions from which it is followed.
LEMMA HeadsExist ==
  ASSUME NEW code \in Codes
  PROVE  \E v : /\ Heads(code) = v[0]
                /\ v = [pc \in 0..(Len(code) + 32) |->
                          IF pc >= Len(code) THEN {} ELSE {pc} \cup v[After(code, pc)]]
<1> DEFINE L == Len(code)
           D == 0..(Len(code) + 32)
           Body(f, pc) == IF pc >= L THEN {} ELSE {pc} \cup f[After(code, pc)]
           Solves(f, k) == /\ f = [pc \in D |-> f[pc]]
                           /\ \A pc \in D : pc >= L - k => f[pc] = Body(f, pc)
           T == {k \in 0..L : ~ \E f : Solves(f, k)}
<1>1. L \in Nat
  BY CodeLen, Zenon
<1>2. \A pc \in D : ~(pc >= L) => After(code, pc) \in D /\ After(code, pc) > pc
  <2> TAKE pc \in D
  <2> HAVE ~(pc >= L)
  <2>1. pc \in 0..(Len(code) - 1)
    BY <1>1
  <2>2. numbits(At(code, pc)) \in 0..32
    BY <2>1, NumBits, Zenon
  <2>3. \A b \in 0..32 : pc + 1 + b \in D /\ pc + 1 + b > pc
    BY <1>1, <2>1
  <2> QED BY <2>2, <2>3, Zenon DEF After
<1>3. \E f : Solves(f, 0)
  <2> DEFINE f == [pc \in D |-> {}]
  <2>1. \A pc \in D : pc >= L - 0 => f[pc] = Body(f, pc)
    BY <1>1
  <2>2. f = [pc \in D |-> f[pc]]
    BY Zenon
  <2> QED BY <2>1, <2>2, Zenon
<1>4. ASSUME NEW k \in 0..L, k # L, \E f : Solves(f, k)
      PROVE  \E f : Solves(f, k + 1)
  <2>1. PICK f : Solves(f, k)
    BY <1>4, Zenon
  <2> DEFINE g == [pc \in D |-> IF pc >= L - k THEN f[pc] ELSE Body(f, pc)]
  <2>2. \A pc \in D : pc >= L - (k + 1) => g[pc] = Body(f, pc)
    BY <1>1, <2>1, Zenon
  <2>3. \A pc \in D : pc >= L - (k + 1) /\ ~(pc >= L) => g[After(code, pc)] = f[After(code, pc)]
    <3> TAKE pc \in D
    <3> HAVE pc >= L - (k + 1) /\ ~(pc >= L)
    <3>1. After(code, pc) \in D /\ After(code, pc) > pc
      BY <1>2, Zenon
    <3>2. After(code, pc) >= L - k
      BY <1>1, <3>1
    <3> QED BY <3>1, <3>2, Zenon
  <2>4. \A pc \in D : pc >= L - (k + 1) => g[pc] = Body(g, pc)
    BY <2>2, <2>3, Zenon
  <2>5. g = [pc \in D |-> g[pc]]
    BY Zenon
  <2> QED BY <2>4, <2>5, Zenon
<1> HIDE DEF Solves
<1>5. T = {}
  <2> SUFFICES ASSUME T # {} PROVE FALSE
    BY Zenon
  <2>1. T \subseteq Nat
    BY <1>1
  <2>2. PICK x \in T : \A y \in T : ~(y < x)
    BY <2>1, Least, Zenon
  <2>3. x # 0
    BY <1>3, <2>2, Zenon
  <2>4. x - 1 \in 0..L /\ x - 1 # L /\ (x - 1) + 1 = x /\ x - 1 < x
    BY <1>1, <2>2, <2>3
  <2>5. x - 1 \notin T
    BY <2>2, <2>4, Zenon
  <2>6. \E f : Solves(f, x - 1)
    BY <2>4, <2>5, Zenon
  <2>7. \E f : Solves(f, (x - 1) + 1)
    BY <1>4, <2>4, <2>6, Zenon
  <2>8. \E f : Solves(f, x)
    BY <2>4, <2>7, Zenon
  <2> QED BY <2>2, <2>8, Zenon
<1>6. PICK v : Solves(v, L)
  <2>1. L \in 0..L
    BY <1>1
  <2> QED BY <1>5, <2>1, Zenon
<1>7. v = [pc \in D |-> Body(v, pc)]
  <2>1. \A pc \in D : pc >= L - L
    BY <1>1
  <2> QED BY <1>6, <2>1, Zenon DEF Solves
<1>8. \E u : u = [pc \in 0..(Len(code) + 32) |->
                    IF pc >= Len(code) THEN {}
                    ELSE {pc} \cup u[pc + 1 + numbits(At(code, pc))]]
             /\ Heads(code) = u[0]
  BY <1>7, Zenon DEF Heads, After
<1> QED BY <1>8, Zenon DEF After

\* The positions at the head of the loop are exactly the positions that are not
\* arguments of another one.  By induction from the end of the program.
LEMMA HeadsExact ==
  ASSUME NEW code \in Codes
  PROVE  /\ Heads(code) \subseteq 0..(Len(code) - 1)
         /\ \A q \in 0..(Len(code) - 1) :
              q \in Heads(code) <=>
                ~ \E o \in Heads(code) : o < q /\ q <= o + numbits(At(code, o))
<1> DEFINE L == Len(code)
           D == 0..(Len(code) + 32)
           nb(o) == numbits(At(code, o))
<1>1. PICK v : /\ Heads(code) = v[0]
               /\ v = [pc \in 0..(Len(code) + 32) |->
                         IF pc >= Len(code) THEN {} ELSE {pc} \cup v[After(code, pc)]]
  BY HeadsExist, Zenon
<1>2. L \in Nat /\ 0 \in D
  BY CodeLen
<1>3. \A pc \in D : v[pc] = IF pc >= L THEN {} ELSE {pc} \cup v[After(code, pc)]
  BY <1>1, Zenon
<1>4. \A pc \in 0..(L - 1) : nb(pc) \in 0..32
  BY NumBits, Zenon
<1>5. \A pc \in 0..(L - 1) : After(code, pc) = pc + 1 + nb(pc)
  BY Zenon DEF After
<1> HIDE DEF nb
<1> DEFINE Within(pc) == v[pc] \subseteq pc..(L - 1)
           Split(pc) == \A q \in pc..(L - 1) :
                          q \in v[pc] <=> ~ \E o \in v[pc] : o < q /\ q <= o + nb(o)
           T == {k \in 0..(L + 32) : ~(Within(L + 32 - k) /\ Split(L + 32 - k))}
<1>6. ASSUME NEW pc \in D, pc >= L
      PROVE  Within(pc) /\ Split(pc)
  <2>1. v[pc] = {}
    BY <1>3, <1>6, Zenon
  <2>2. \A q \in pc..(L - 1) : FALSE
    BY <1>2, <1>6
  <2> QED BY <2>1, <2>2, Zenon
<1>7. ASSUME NEW pc \in 0..(L - 1), Within(After(code, pc)), Split(After(code, pc))
      PROVE  Within(pc) /\ Split(pc)
  <2>1. PICK b \in 0..32 : b = nb(pc)
    BY <1>4, Zenon
  <2>2. PICK a \in D : a = After(code, pc) /\ a = pc + 1 + b
    <3>1. pc + 1 + b \in D
      BY <1>2
    <3> QED BY <1>5, <2>1, <3>1, Zenon
  <2>3. v[pc] = {pc} \cup v[a]
    <3>1. pc \in D /\ ~(pc >= L)
      BY <1>2
    <3> QED BY <1>3, <2>2, <3>1, Zenon
  <2>4. v[a] \subseteq a..(L - 1)
    BY <1>7, <2>2, Zenon
  <2>5. \A q \in a..(L - 1) : q \in v[a] <=> ~ \E o \in v[a] : o < q /\ q <= o + nb(o)
    BY <1>7, <2>2, Zenon
  <2>6. Within(pc)
    BY <1>2, <2>2, <2>3, <2>4
  <2>7. ASSUME NEW q \in pc..(L - 1)
        PROVE  q \in v[pc] <=> ~ \E o \in v[pc] : o < q /\ q <= o + nb(o)
    <3>1. CASE q = pc
      <4>1. \A o \in v[pc] : ~(o < q)
        BY <1>2, <2>6, <3>1
      <4> QED BY <2>3, <3>1, <4>1, Zenon
    <3>2. CASE q \in (pc + 1)..(a - 1)
      <4>1. q \notin v[pc]
        BY <1>2, <2>2, <2>3, <2>4, <3>2
      <4>2. pc < q /\ q <= pc + b
        BY <2>2, <3>2
      <4> QED BY <2>1, <2>3, <4>1, <4>2, Zenon
    <3>3. CASE q \in a..(L - 1)
      <4>1. q # pc /\ ~(q <= pc + b)
        BY <2>2, <3>3
      <4> QED BY <2>1, <2>3, <2>5, <3>3, <4>1, Zenon
    <3> QED BY <1>2, <2>2, <3>1, <3>2, <3>3
  <2> QED BY <2>6, <2>7, Zenon
<1> HIDE DEF Within, Split
<1>8. T = {}
  <2> SUFFICES ASSUME T # {} PROVE FALSE
    BY Zenon
  <2>1. T \subseteq Nat
    BY <1>2
  <2>2. PICK x \in T : \A y \in T : ~(y < x)
    BY <2>1, Least, Zenon
  <2>3. PICK pc \in D : pc = L + 32 - x
    BY <1>2, <2>2
  <2>4. ~(Within(pc) /\ Split(pc))
    BY <2>2, <2>3, Zenon
  <2>5. ~(pc >= L)
    BY <1>6, <2>4, Zenon
  <2>6. pc \in 0..(L - 1)
    BY <1>2, <2>5
  <2>7. PICK y \in 0..(L + 32) : y < x /\ L + 32 - y = After(code, pc)
    <3>1. PICK b \in 0..32 : After(code, pc) = pc + 1 + b
      BY <1>4, <1>5, <2>6, Zenon
    <3>2. x - 1 - b \in 0..(L + 32) /\ x - 1 - b < x /\ L + 32 - (x - 1 - b) = pc + 1 + b
      BY <1>2, <2>2, <2>3, <2>6
    <3> QED BY <3>1, <3>2, Zenon
  <2>8. Within(After(code, pc)) /\ Split(After(code, pc))
    BY <2>2, <2>7, Zenon
  <2> QED BY <1>7, <2>4, <2>6, <2>8, Zenon
<1>9. Within(0) /\ Split(0)
  <2>1. L + 32 \in 0..(L + 32) /\ L + 32 - (L + 32) = 0
    BY <1>2
  <2> QED BY <1>8, <2>1, Zenon
<1> QED BY <1>1, <1>9, Zenon DEF Within, Split, nb

\* Division by eight, of one number and of two.
LEMMA Eights ==
  /\ \A n \in Nat : n = 8 * (n \div 8) + (n % 8) /\ n \div 8 \in Nat /\ n % 8 \in 0..7
  /\ \A n \in 0..32 : n \div 8 \in 0..4
OBVIOUS

\* The bits that codeBitmap sets are exactly the arguments of the heads, although
\* whole groups of eight are set in another way than the rest.
LEMMA BitsExact ==
  ASSUME NEW code \in Codes, NEW q \in Nat
  PROVE  q \in codeBitmap(code).bits
           <=> \E o \in Heads(code) : o < q /\ q <= o + numbits(At(code, o))
<1> DEFINE nb(o) == numbits(At(code, o))
           row(pc) == {pc + 1 + 8 * k : k \in 0..((nb(pc) \div 8) - 1)}
           rest(pc) == (pc + 1 + 8 * (nb(pc) \div 8))..(pc + nb(pc))
           eights == UNION {row(pc) : pc \in Heads(code)}
           ones == UNION {rest(pc) : pc \in Heads(code)}
           byEights == UNION {e..(e + 7) : e \in eights}
           Eight(o) == \E k \in 0..((nb(o) \div 8) - 1) : q \in (o + 1 + 8 * k)..(o + 1 + 8 * k + 7)
           One(o) == q \in (o + 1 + 8 * (nb(o) \div 8))..(o + nb(o))
<1>1. codeBitmap(code).bits = byEights \cup ones
  BY Zenon DEF codeBitmap
<1>2. \A o \in Heads(code) : o \in Nat /\ nb(o) \in 0..32
  <2>1. Heads(code) \subseteq 0..(Len(code) - 1)
    BY HeadsExact, Zenon
  <2>2. 0..(Len(code) - 1) \subseteq Nat
    BY CodeLen
  <2> QED BY <2>1, <2>2, NumBits, Zenon
<1>3. q \in ones <=> \E o \in Heads(code) : One(o)
  <2> HIDE DEF nb
  <2> QED BY Zenon
<1>4. q \in byEights <=> \E o \in Heads(code) : Eight(o)
  <2>1. q \in byEights <=> \E e \in eights : q \in e..(e + 7)
    <3> HIDE DEF eights
    <3> QED BY Zenon
  <2>2. \A e : e \in eights <=> \E o \in Heads(code) : e \in row(o)
    <3> HIDE DEF row
    <3> QED BY Zenon
  <2>3. \A o : \A e : e \in row(o) <=> \E k \in 0..((nb(o) \div 8) - 1) : e = o + 1 + 8 * k
    <3> HIDE DEF nb
    <3> QED BY Zenon
  <2> HIDE DEF byEights, eights, nb, row
  <2>4. ASSUME q \in byEights PROVE \E o \in Heads(code) : Eight(o)
    <3>1. PICK e \in eights : q \in e..(e + 7)
      BY <2>1, <2>4, Zenon
    <3>2. PICK o \in Heads(code) : e \in row(o)
      BY <2>2, Zenon
    <3>3. PICK k \in 0..((nb(o) \div 8) - 1) : e = o + 1 + 8 * k
      BY <2>3, <3>2, Zenon
    <3> QED BY <3>1, <3>3, Zenon
  <2>5. ASSUME NEW o \in Heads(code), Eight(o) PROVE q \in byEights
    <3>1. PICK k \in 0..((nb(o) \div 8) - 1) : q \in (o + 1 + 8 * k)..(o + 1 + 8 * k + 7)
      BY <2>5, Zenon
    <3>2. o + 1 + 8 * k \in eights
      BY <2>2, <2>3, Zenon
    <3> QED BY <2>1, <3>1, <3>2, Zenon
  <2> QED BY <2>4, <2>5, Zenon
<1> HIDE DEF nb, byEights, ones
<1>5. ASSUME NEW o \in Heads(code)
      PROVE  (o < q /\ q <= o + nb(o)) <=> (One(o) \/ Eight(o))
  <2>1. PICK b \in 0..32 : b = nb(o)
    BY <1>2, Zenon
  <2>2. PICK g \in Nat : g = b \div 8
    BY Eights
  <2>3. 8 * g <= b /\ b < 8 * g + 8
    BY <2>2, Eights
  <2>4. ASSUME o < q, q <= o + b
        PROVE  \/ q \in (o + 1 + 8 * g)..(o + b)
               \/ \E k \in 0..(g - 1) : q \in (o + 1 + 8 * k)..(o + 1 + 8 * k + 7)
    <3>0. o \in Nat
      BY <1>2, Zenon
    <3>1. PICK r \in Nat : q = o + 1 + r
      <4>1. q - o - 1 \in Nat /\ q = o + 1 + (q - o - 1)
        BY <2>4, <3>0
      <4> QED BY <4>1, Zenon
    <3>2. PICK k \in Nat : 8 * k <= r /\ r <= 8 * k + 7
      <4>1. r \div 8 \in Nat /\ 8 * (r \div 8) <= r /\ r <= 8 * (r \div 8) + 7
        BY Eights
      <4> QED BY <4>1, Zenon
    <3>3. CASE k >= g
      <4>1. r >= 8 * g
        BY <3>2, <3>3
      <4> QED BY <1>2, <2>4, <3>1, <4>1
    <3>4. CASE ~(k >= g)
      <4>1. k \in 0..(g - 1)
        BY <3>4
      <4>2. q \in (o + 1 + 8 * k)..(o + 1 + 8 * k + 7)
        BY <1>2, <3>1, <3>2
      <4> QED BY <4>1, <4>2, Zenon
    <3> QED BY <3>3, <3>4, Zenon
  <2>5. ASSUME q \in (o + 1 + 8 * g)..(o + b)
        PROVE  o < q /\ q <= o + b
    BY <1>2, <2>5
  <2>6. ASSUME NEW k \in 0..(g - 1), q \in (o + 1 + 8 * k)..(o + 1 + 8 * k + 7)
        PROVE  o < q /\ q <= o + b
    <3>1. 8 * k + 8 <= 8 * g
      BY <2>6
    <3> QED BY <1>2, <2>3, <2>6, <3>1
  <2> QED BY <2>1, <2>2, <2>4, <2>5, <2>6, Zenon
<1> HIDE DEF One, Eight
<1>6. q \in codeBitmap(code).bits <=> \E o \in Heads(code) : One(o) \/ Eight(o)
  BY <1>1, <1>3, <1>4, Zenon
<1> QED BY <1>5, <1>6, Zenon DEF nb

\* codeBitmap writes inside its vector: five bytes more than whole ones are enough.
LEMMA BitmapInRange ==
  ASSUME NEW code \in Codes
  PROVE  codeBitmap(code).inRange
<1> DEFINE nb(o) == numbits(At(code, o))
           eights == UNION {{pc + 1 + 8 * k : k \in 0..((nb(pc) \div 8) - 1)} : pc \in Heads(code)}
           ones == UNION {(pc + 1 + 8 * (nb(pc) \div 8))..(pc + nb(pc)) : pc \in Heads(code)}
           touched == {q \div 8 : q \in eights \cup ones} \cup {q \div 8 + 1 : q \in eights}
<1>1. codeBitmap(code).inRange = (\A b \in touched : b < BitvecLen(code))
  BY Zenon DEF codeBitmap
<1>2. PICK L \in Nat : L = Len(code)
  BY CodeLen, Zenon
<1>3. \A o \in Heads(code) : o \in 0..(L - 1) /\ nb(o) \in 0..32
  BY <1>2, HeadsExact, NumBits, Zenon
<1>4. ASSUME NEW q \in eights PROVE q \in 0..(L + 24)
  <2>0. PICK o \in Heads(code) : \E k \in 0..((nb(o) \div 8) - 1) : q = o + 1 + 8 * k
    BY <1>4, Zenon
  <2>1. PICK k \in 0..((nb(o) \div 8) - 1) : q = o + 1 + 8 * k
    BY <2>0, Zenon
  <2>2. nb(o) \div 8 \in 0..4
    BY <1>3, Eights, Zenon
  <2> HIDE DEF nb
  <2>3. k \in 0..3
    BY <2>2
  <2> QED BY <1>3, <2>1, <2>3
<1>5. ASSUME NEW q \in ones PROVE q \in 0..(L + 31)
  <2>1. PICK o \in Heads(code) : q \in (o + 1 + 8 * (nb(o) \div 8))..(o + nb(o))
    BY <1>5, Zenon
  <2>2. nb(o) \div 8 \in 0..4
    BY <1>3, Eights, Zenon
  <2> HIDE DEF nb
  <2> QED BY <1>3, <2>1, <2>2
<1>6. \A q \in 0..(L + 31) : q \div 8 < L \div 8 + 5
  BY Eights
<1>7. \A q \in 0..(L + 24) : q \div 8 + 1 < L \div 8 + 5 /\ q \in 0..(L + 31)
  BY Eights
<1>8. BitvecLen(code) = L \div 8 + 5
  BY <1>2, Eights DEF BitvecLen
<1> HIDE DEF eights, ones
<1>9. \A b \in touched : b < L \div 8 + 5
  BY <1>4, <1>5, <1>6, <1>7, Zenon
<1> QED BY <1>1, <1>8, <1>9, Zenon

\* The bitmap of a program marks exactly its arguments.
LEMMA BitmapIs ==
  ASSUME NEW code \in Codes
  PROVE  IsArguments(code, codeBitmap(code).bits)
<1> DEFINE bits == codeBitmap(code).bits
           H == Heads(code)
           nb(o) == numbits(At(code, o))
<1>1. PICK L \in Nat : L = Len(code)
  BY CodeLen, Zenon
<1>2. H \subseteq 0..(L - 1)
  BY <1>1, HeadsExact, Zenon
<1>3. \A q \in 0..(L - 1) : q \in bits <=> \E o \in H : o < q /\ q <= o + nb(o)
  <2>1. \A q \in 0..(L - 1) : q \in Nat
    OBVIOUS
  <2> QED BY <2>1, BitsExact, Zenon
<1>4. \A q \in 0..(L - 1) : q \in H <=> ~ \E o \in H : o < q /\ q <= o + nb(o)
  BY <1>1, HeadsExact, Zenon
<1>5. \A op : nb(op) = IF At(code, op) \in 96..127 THEN At(code, op) - 95 ELSE 0
  <2>1. \A x \in 96..127 : x - 96 + 1 = x - 95
    OBVIOUS
  <2> QED BY <2>1, Zenon DEF numbits, PUSH1, PUSH32
<1> HIDE DEF bits, H, nb
<1>6. ASSUME NEW p \in 0..(L - 1)
      PROVE  p \in bits <=> \E o \in 0..(p - 1) : o \notin bits /\ p <= o + nb(o)
  <2>1. \A o \in 0..(L - 1) : o \in H <=> o \notin bits
    BY <1>3, <1>4, Zenon
  <2>2. \A o \in 0..(L - 1) : o < p <=> o \in 0..(p - 1)
    OBVIOUS
  <2>3. \A o \in 0..(p - 1) : o \in 0..(L - 1)
    OBVIOUS
  <2> QED BY <1>2, <1>3, <2>1, <2>2, <2>3, Zenon
<1>7. \A p \in 0..(L - 1) :
        p \in bits <=>
          \E o \in 0..(p - 1) :
            o \notin bits /\ p <= o + (IF At(code, o) \in 96..127 THEN At(code, o) - 95 ELSE 0)
  BY <1>5, <1>6, Zenon
<1> QED BY <1>1, <1>7, Zenon DEF IsArguments, bits

-----------------------------------------------------------------------------
\* The cache of bitmaps.

\* The contracts that calls and creations make.
Contracts == {Called(c) : c \in Codes} \cup {Created(c) : c \in Codes}

\* Every cached bitmap is that of a program, and under a hash other than the zero
\* hash that of the program with this hash.  While no call has nested, there is
\* one contract at most, and what is cached is its bitmap.
JumpInv ==
  /\ contracts \in Seq(Contracts)
  /\ \A h \in DOMAIN jumpdests : \E c \in Codes : jumpdests[h] = codeBitmap(c) /\ (h # NoHash => h = c)
  /\ ~nested /\ contracts # <<>> =>
       /\ Len(contracts) = 1
       /\ \A h \in DOMAIN jumpdests : jumpdests[h] = codeBitmap(contracts[1].code)
  /\ FlatJumpExact /\ CreateJumpExact /\ PanicNeedsShorter

\* What a contract is made of.
LEMMA ContractIs ==
  ASSUME NEW f \in Contracts
  PROVE  /\ f.code \in Codes
         /\ f.hash \in {NoHash, f.code}
         /\ f.creation => f.hash = f.code
         /\ f.code # NoHash
<1>1. PICK c \in Codes : f = Called(c) \/ f = Created(c)
  BY Zenon DEF Contracts
<1>2. c # NoHash
  BY JumpAssumption, Zenon
<1> QED BY <1>1, <1>2 DEF Called, Created

\* The bitmap a contract's jumps are looked up in is that of some program, and
\* of its own under every hash but the zero hash.
LEMMA BitmapOf ==
  ASSUME JumpInv, NEW f \in Contracts
  PROVE  \E c \in Codes : /\ Bitmap(f) = codeBitmap(c)
                          /\ f.hash # NoHash \/ f.hash \notin DOMAIN jumpdests => c = f.code
<1>1. /\ f.code \in Codes /\ f.hash \in {NoHash, f.code}
  BY ContractIs, Zenon
<1>2. CASE f.hash \in DOMAIN jumpdests
  <2>1. PICK c \in Codes : jumpdests[f.hash] = codeBitmap(c) /\ (f.hash # NoHash => f.hash = c)
    BY <1>2, Zenon DEF JumpInv
  <2> QED BY <1>1, <1>2, <2>1, Zenon DEF Bitmap
<1>3. CASE f.hash \notin DOMAIN jumpdests
  BY <1>1, <1>3, Zenon DEF Bitmap
<1> QED BY <1>2, <1>3, Zenon

\* has with the bitmap of program c: exact if that is the contract's own, and a
\* panic only if it is that of a shorter one.
LEMMA HasIs ==
  ASSUME NEW f \in Contracts, NEW dest \in Nat, NEW c \in Codes, Bitmap(f) = codeBitmap(c)
  PROVE  /\ c = f.code => has(f, dest) = IF Valid(f.code, dest) THEN "yes" ELSE "no"
         /\ has(f, dest) = "panic" => dest < Len(f.code) /\ Len(c) < Len(f.code)
<1>1. f.code \in Codes
  BY ContractIs, Zenon
<1>2. PICK l \in Nat : l = Len(f.code)
  BY <1>1, CodeLen, Zenon
<1>3. PICK k \in Nat : k = Len(c)
  BY CodeLen, Zenon
<1>4. PICK m : m = codeBitmap(c) /\ m.inRange /\ m.len = k \div 8 + 5
  <2>1. codeBitmap(c).len = BitvecLen(c)
    BY Zenon DEF codeBitmap
  <2>2. BitvecLen(c) = k \div 8 + 5
    BY <1>3, Eights DEF BitvecLen
  <2> QED BY <2>1, <2>2, BitmapInRange, Zenon
<1>5. PICK d \in Nat : d = dest \div 8 /\ 8 * d <= dest /\ dest <= 8 * d + 7
  <2>1. dest \div 8 \in Nat /\ 8 * (dest \div 8) <= dest /\ dest <= 8 * (dest \div 8) + 7
    BY Eights
  <2> QED BY <2>1, Zenon
<1>6. PICK e \in Nat : e = k \div 8 /\ 8 * e <= k /\ k <= 8 * e + 7
  <2>1. k \div 8 \in Nat /\ 8 * (k \div 8) <= k /\ k <= 8 * (k \div 8) + 7
    BY Eights
  <2> QED BY <2>1, Zenon
<1>7. dest >= l => has(f, dest) = "no"
  BY <1>2 DEF has
<1>8. ~(dest >= l) => has(f, dest) = IF At(f.code, dest) = 91 THEN codeSegment(m, dest) ELSE "no"
  BY <1>2, <1>4 DEF has, JUMPDEST
<1>9. /\ d > e + 5 => codeSegment(m, dest) = "no"
      /\ d = e + 5 => codeSegment(m, dest) = "panic"
      /\ d < e + 5 => codeSegment(m, dest) = IF dest \in m.bits THEN "no" ELSE "yes"
  BY <1>4, <1>5, <1>6 DEF codeSegment
<1>10. ASSUME c = f.code PROVE has(f, dest) = IF Valid(f.code, dest) THEN "yes" ELSE "no"
  <2>1. CASE dest >= l
    <3>1. ~(dest < l)
      BY <2>1
    <3> QED BY <1>2, <1>7, <2>1, <3>1, Zenon DEF Valid
  <2>2. CASE ~(dest >= l)
    <3>0. k = l
      BY <1>2, <1>3, <1>10, Zenon
    <3>1. d < e + 5 /\ dest < l
      BY <1>5, <1>6, <2>2, <3>0
    <3>2. codeSegment(m, dest) = IF dest \in m.bits THEN "no" ELSE "yes"
      BY <1>9, <3>1, Zenon
    <3> QED BY <1>2, <1>4, <1>8, <1>10, <2>2, <3>1, <3>2, Zenon DEF Valid
  <2> QED BY <2>1, <2>2, Zenon
<1>11. ASSUME has(f, dest) = "panic" PROVE dest < Len(f.code) /\ Len(c) < Len(f.code)
  <2>1. "panic" # "no" /\ "panic" # "yes"
    BY Zenon
  <2>2. ~(dest >= l)
    BY <1>7, <1>11, <2>1, Zenon
  <2>3. codeSegment(m, dest) = "panic"
    BY <1>8, <1>11, <2>1, <2>2, Zenon
  <2>4. d > e + 5 \/ d = e + 5 \/ d < e + 5
    OBVIOUS
  <2>5. d = e + 5
    BY <1>9, <2>1, <2>3, <2>4, Zenon
  <2> QED BY <1>2, <1>3, <1>5, <1>6, <2>2, <2>5
<1> QED BY <1>10, <1>11, Zenon

\* At first there are no contracts.
LEMMA JumpBegins ==
  JumpInit => JumpInv
<1> SUFFICES ASSUME JumpInit PROVE JumpInv
  BY Zenon
<1>1. contracts = <<>> /\ last = NoJump /\ ~panicked /\ DOMAIN jumpdests = {} /\ last.created = FALSE
  BY Zenon DEF JumpInit, NoJump
<1>2. <<>> \in Seq(Contracts)
  BY EmptySeq, Zenon
<1> QED BY <1>1, <1>2, Zenon DEF JumpInv, FlatJumpExact, CreateJumpExact, PanicNeedsShorter

\* A call or creation: a contract more, with the map of its caller or a new one.
LEMMA NewContractStep ==
  ASSUME JumpInv, NEW f \in Contracts, NewContract(f), ~panicked, UNCHANGED panicked,
         \/ contracts = <<>> /\ last' = NoJump /\ nested' = FALSE
         \/ contracts # <<>> /\ last' = last /\ nested' = TRUE
  PROVE  JumpInv'
<1>1. contracts \in Seq(Contracts) /\ contracts' = Append(contracts, f)
  BY Zenon DEF JumpInv, NewContract
<1>2. contracts' \in Seq(Contracts)
  BY <1>1, AppendProperties, Zenon
<1>3. PanicNeedsShorter'
  BY Zenon DEF PanicNeedsShorter
<1>4. CASE contracts = <<>> /\ last' = NoJump /\ nested' = FALSE
  <2>1. DOMAIN jumpdests' = {}
    BY <1>4, Zenon DEF NewContract
  <2>2. last'.created = FALSE
    BY <1>4, Zenon DEF NoJump
  <2>3. Len(contracts') = 1
    <3>1. Len(contracts') = Len(contracts) + 1
      BY <1>1, AppendProperties, Zenon
    <3>2. Len(contracts) = 0
      BY <1>4, EmptySeq, Zenon
    <3> QED BY <3>1, <3>2
  <2> QED BY <1>2, <1>3, <1>4, <2>1, <2>2, <2>3, Zenon DEF JumpInv, FlatJumpExact, CreateJumpExact, NoJump
<1>5. CASE contracts # <<>> /\ last' = last /\ nested' = TRUE
  <2>1. jumpdests' = jumpdests
    BY <1>5, Zenon DEF NewContract
  <2>2. FlatJumpExact' /\ CreateJumpExact'
    BY <1>5, Zenon DEF JumpInv, FlatJumpExact, CreateJumpExact, Exact
  <2> QED BY <1>2, <1>3, <1>5, <2>1, <2>2, Zenon DEF JumpInv
<1> QED BY <1>4, <1>5, Zenon

\* A frame ends.
LEMMA Leaving ==
  ASSUME contracts \in Seq(Contracts), contracts # <<>>, Leave
  PROVE  /\ contracts' \in Seq(Contracts)
         /\ Len(contracts) = 1 => contracts' = <<>>
<1>1. Len(contracts) \in Nat \ {0}
  BY EmptySeq, Zenon
<1>2. PICK n \in Nat : n = Len(contracts) - 1
  BY <1>1
<1>3. contracts' = SubSeq(contracts, 1, n)
  BY <1>2, Zenon DEF Leave
<1>4. \A i \in 1..n : i \in 1..Len(contracts)
  BY <1>1, <1>2
<1>5. \A i \in 1..n : contracts[i] \in Contracts
  BY <1>4, ElementOfSeq, Zenon
<1>6. 1 \in Int /\ n \in Int
  OBVIOUS
<1>7. SubSeq(contracts, 1, n) \in Seq(Contracts)
  BY <1>5, <1>6, SubSeqProperties, Zenon
<1>8. Len(contracts) = 1 => n < 1
  BY <1>2
<1> QED BY <1>3, <1>6, <1>7, <1>8, SubSeqEmpty, Zenon

\* A jump from contract f: what it does to the cache and what it answers.
LEMMA JumpStep ==
  ASSUME JumpInv, contracts # <<>>,
         NEW dest \in Nat, NEW f, f = contracts[Len(contracts)],
         jumpdests' = Analysed(f, dest),
         last' = [code |-> f.code, dest |-> dest, created |-> f.creation, answer |-> has(f, dest)],
         panicked' = (has(f, dest) = "panic"),
         Leave \/ UNCHANGED contracts,
         UNCHANGED nested
  PROVE  JumpInv'
<1>1. contracts \in Seq(Contracts) /\ Len(contracts) \in Nat \ {0}
  <2>1. contracts \in Seq(Contracts)
    BY Zenon DEF JumpInv
  <2> QED BY <2>1, EmptySeq, Zenon
<1>2. f \in Contracts
  <2>1. Len(contracts) \in 1..Len(contracts)
    BY <1>1
  <2> QED BY <1>1, <2>1, ElementOfSeq, Zenon
<1>3. /\ f.code \in Codes /\ f.hash \in {NoHash, f.code}
      /\ (f.creation => f.hash = f.code) /\ f.code # NoHash
  BY <1>2, ContractIs, Zenon
<1>4. PICK c \in Codes : /\ Bitmap(f) = codeBitmap(c)
                         /\ f.hash # NoHash \/ f.hash \notin DOMAIN jumpdests => c = f.code
  BY <1>2, BitmapOf, Zenon
<1>5. /\ Bitmap(f) = codeBitmap(f.code) => has(f, dest) = IF Valid(f.code, dest) THEN "yes" ELSE "no"
      /\ has(f, dest) = "panic" => dest < Len(f.code) /\ Len(c) < Len(f.code)
  BY <1>2, <1>3, <1>4, HasIs, Zenon
<1>6. last'.code = f.code /\ last'.dest = dest /\ last'.created = f.creation /\ last'.answer = has(f, dest)
  BY Zenon
<1>7. Bitmap(f) = codeBitmap(f.code) => Exact'
  BY <1>5, <1>6, Zenon DEF Exact, Valid
<1>8. ~(dest >= Len(f.code)) =>
        /\ f.hash \in DOMAIN jumpdests' /\ jumpdests'[f.hash] = codeBitmap(c)
        /\ \A h \in DOMAIN jumpdests' : h # f.hash => h \in DOMAIN jumpdests /\ jumpdests'[h] = jumpdests[h]
  BY <1>4, Zenon DEF Analysed
<1>9. dest >= Len(f.code) => jumpdests' = jumpdests
  BY Zenon DEF Analysed
<1>10. \A h \in DOMAIN jumpdests' :
         \E x \in Codes : jumpdests'[h] = codeBitmap(x) /\ (h # NoHash => h = x)
  <2>1. \A h \in DOMAIN jumpdests :
          \E x \in Codes : jumpdests[h] = codeBitmap(x) /\ (h # NoHash => h = x)
    BY Zenon DEF JumpInv
  <2>2. CASE dest >= Len(f.code)
    BY <1>9, <2>1, <2>2, Zenon
  <2>3. CASE ~(dest >= Len(f.code))
    <3> SUFFICES ASSUME NEW h \in DOMAIN jumpdests'
                 PROVE  \E x \in Codes : jumpdests'[h] = codeBitmap(x) /\ (h # NoHash => h = x)
      BY Zenon
    <3>1. CASE h = f.hash
      BY <1>3, <1>4, <1>8, <2>3, <3>1, Zenon
    <3>2. CASE h # f.hash
      BY <1>8, <2>1, <2>3, <3>2, Zenon
    <3> QED BY <3>1, <3>2, Zenon
  <2> QED BY <2>2, <2>3, Zenon
<1>11. contracts' \in Seq(Contracts) /\ (Len(contracts) = 1 /\ contracts' # <<>> => contracts' = contracts)
  BY <1>1, Leaving, Zenon
<1>12. ASSUME ~nested
       PROVE  /\ Len(contracts) = 1 /\ f = contracts[1] /\ Bitmap(f) = codeBitmap(f.code)
              /\ \A h \in DOMAIN jumpdests' : jumpdests'[h] = codeBitmap(f.code)
  <2>1. Len(contracts) = 1 /\ \A h \in DOMAIN jumpdests : jumpdests[h] = codeBitmap(contracts[1].code)
    BY <1>12, Zenon DEF JumpInv
  <2>2. f = contracts[1]
    BY <2>1, Zenon
  <2>3. Bitmap(f) = codeBitmap(f.code)
    BY <2>1, <2>2, Zenon DEF Bitmap
  <2> QED BY <1>4, <1>8, <1>9, <2>1, <2>2, <2>3, Zenon
<1>13. FlatJumpExact' /\ CreateJumpExact'
  <2>1. ~nested' => Exact'
    BY <1>7, <1>12, Zenon
  <2>2. f.creation => Exact'
    BY <1>3, <1>4, <1>7, Zenon
  <2> QED BY <1>6, <2>1, <2>2, Zenon DEF FlatJumpExact, CreateJumpExact
<1>14. PanicNeedsShorter'
  <2> SUFFICES ASSUME has(f, dest) = "panic"
               PROVE  /\ NoHash \in DOMAIN jumpdests'
                      /\ \E x \in Codes : jumpdests'[NoHash] = codeBitmap(x) /\ Len(x) < Len(last'.code)
    BY Zenon DEF PanicNeedsShorter
  <2>1. "panic" # "no" /\ "panic" # "yes"
    BY Zenon
  <2>2. c # f.code
    BY <1>4, <1>5, <2>1, Zenon
  <2>3. f.hash = NoHash
    BY <1>4, <2>2, Zenon
  <2>4. Len(f.code) \in Nat /\ dest < Len(f.code)
    BY <1>3, <1>5, CodeLen, Zenon
  <2>5. ~(dest >= Len(f.code))
    BY <2>4
  <2> QED BY <1>5, <1>6, <1>8, <2>3, <2>5, Zenon
<1> QED BY <1>10, <1>11, <1>12, <1>13, <1>14, Zenon DEF JumpInv

\* Every step.
LEMMA JumpInductive ==
  JumpInv /\ [JumpNext]_jumpVars => JumpInv'
<1> SUFFICES ASSUME JumpInv, [JumpNext]_jumpVars PROVE JumpInv'
  BY Zenon
<1>1. CASE Client
  <2>1. PICK code \in Codes : NewContract(Called(code)) \/ NewContract(Created(code))
    BY <1>1, Zenon DEF Client
  <2>2. Called(code) \in Contracts /\ Created(code) \in Contracts
    BY Zenon DEF Contracts
  <2> QED BY <1>1, <2>1, <2>2, NewContractStep, Zenon DEF Client
<1>2. CASE opCall
  <2>1. PICK code \in Codes : NewContract(Called(code)) \/ NewContract(Created(code))
    BY <1>2, Zenon DEF opCall
  <2>2. Called(code) \in Contracts /\ Created(code) \in Contracts
    BY Zenon DEF Contracts
  <2> QED BY <1>2, <2>1, <2>2, NewContractStep, Zenon DEF opCall, Active
<1>3. CASE opReturn
  <2>1. contracts \in Seq(Contracts) /\ contracts # <<>> /\ Leave /\ UNCHANGED <<jumpdests, last, panicked, nested>>
    BY <1>3, Zenon DEF JumpInv, opReturn, Active
  <2>2. contracts' \in Seq(Contracts) /\ (Len(contracts) = 1 => contracts' = <<>>)
    BY <2>1, Leaving, Zenon
  <2> QED BY <2>1, <2>2, Zenon DEF JumpInv, FlatJumpExact, CreateJumpExact, PanicNeedsShorter, Exact
<1>4. CASE opJump
  <2>1. PICK dest \in Dests :
          /\ jumpdests' = Analysed(contracts[Len(contracts)], dest)
          /\ last' = [code |-> contracts[Len(contracts)].code, dest |-> dest,
                       created |-> contracts[Len(contracts)].creation,
                       answer |-> has(contracts[Len(contracts)], dest)]
          /\ panicked' = (has(contracts[Len(contracts)], dest) = "panic")
          /\ Leave \/ UNCHANGED contracts
    BY <1>4, Zenon DEF opJump
  <2>2. dest \in Nat
    BY JumpAssumption, Zenon
  <2>3. contracts # <<>> /\ UNCHANGED nested
    BY <1>4, Zenon DEF opJump, Active
  <2> QED BY <2>1, <2>2, <2>3, JumpStep, Zenon
<1>5. CASE UNCHANGED jumpVars
  BY <1>5, Zenon DEF jumpVars, JumpInv, FlatJumpExact, CreateJumpExact, PanicNeedsShorter, Exact
<1> QED BY <1>1, <1>2, <1>3, <1>4, <1>5, Zenon DEF JumpNext

\* The bitmap of every program that runs is exact and written within its vector;
\* jumps are decided correctly as long as no call nests and in contracts under
\* creation; and has panics only on a bitmap cached for a shorter program: for
\* all programs and destinations, and every nesting of calls.
THEOREM JumpsAreExact == JumpSpec => []JumpsExact
<1>1. JumpInv => JumpsExact
  <2> SUFFICES ASSUME JumpInv PROVE BitmapExact
    BY Zenon DEF JumpInv, JumpsExact
  <2> SUFFICES ASSUME NEW k \in 1..Len(contracts)
               PROVE  /\ codeBitmap(contracts[k].code).inRange
                      /\ IsArguments(contracts[k].code, codeBitmap(contracts[k].code).bits)
    BY Zenon DEF BitmapExact
  <2>1. contracts[k] \in Contracts
    BY ElementOfSeq, Zenon DEF JumpInv
  <2>2. contracts[k].code \in Codes
    BY <2>1, ContractIs, Zenon
  <2> QED BY <2>2, BitmapInRange, BitmapIs, Zenon
<1> QED BY <1>1, JumpBegins, JumpInductive, PTL DEF JumpSpec
=============================================================================
