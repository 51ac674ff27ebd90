---------------------------- MODULE Interpreter -----------------------------
(***************************************************************************)
(* What Interpreter.Run relies on within a frame: the analysis of jump     *)
(* destinations, and the memory.  The two share no state.                  *)
(***************************************************************************)
EXTENDS Integers, Sequences, FiniteSetsExt

(* core/vm/analysis.go: which bytes of a program are jump destinations.    *)
(* codeBitmap marks the arguments of the PUSH opcodes; the bitmaps of the  *)
(* programs that run are cached in a map that the contracts of one client  *)
(* call share, keyed by the code hash of the contract.  The frames of EVM  *)
(* are reduced to what the cache sees of them: code and hash.              *)
(*                                                                         *)
(* Keccak256 is injective, so the hash of a program is the program itself; *)
(* the zero hash is NoHash.  Positions count from 0, as in the code.       *)

CONSTANTS
  Codes,     \* programs: non-empty sequences of bytes
  Dests,     \* operands of JUMP and JUMPI
  NoHash,    \* common.Hash{}
  MaxCalls   \* bound on calls and creations

ASSUME JumpAssumption ==
  /\ \A c \in Codes : c \in Seq(0..255) /\ c # <<>>
  /\ Dests \subseteq Nat /\ NoHash \notin Codes
  /\ MaxCalls \in Nat

VARIABLES
  contracts,  \* the active contracts, outermost first; creation is history
  jumpdests,  \* the cache they share: a function on the hashes analysed
  last,       \* history: the last jump of the client call and its answer
  panicked,   \* index out of range in a bitvec
  nested,     \* history: the client call has made a nested call or creation
  calls       \* number of calls and creations

jumpVars == <<contracts, jumpdests, last, panicked, nested, calls>>

JUMPDEST == 91
PUSH1 == 96
PUSH32 == 127

At(code, pos) == code[pos + 1]

-----------------------------------------------------------------------------
\* Bytes of argument that follow opcode op.
numbits(op) == IF op \in PUSH1..PUSH32 THEN op - PUSH1 + 1 ELSE 0

\* The values of pc at the head of codeBitmap's loop.
Heads(code) ==
  LET visited[pc \in 0..(Len(code) + 32)] ==
        IF pc >= Len(code) THEN {}
        ELSE {pc} \cup visited[pc + 1 + numbits(At(code, pc))]
  IN visited[0]

BitvecLen(code) == Len(code) \div 8 + 1 + 4

\* codeBitmap: whole groups of eight argument bytes with set8, which writes to
\* two bytes of the vector, the rest with set.  A bitvec is its length, the set
\* of its bits, and whether all writes were in range.
codeBitmap(code) ==
  LET groups(pc) == numbits(At(code, pc)) \div 8
      eights == UNION {{pc + 1 + 8 * k : k \in 0..(groups(pc) - 1)} : pc \in Heads(code)}
      ones == UNION {(pc + 1 + 8 * groups(pc))..(pc + numbits(At(code, pc))) : pc \in Heads(code)}
      touched == {q \div 8 : q \in eights \cup ones} \cup {q \div 8 + 1 : q \in eights}
  IN [len |-> BitvecLen(code),
      bits |-> (UNION {q..(q + 7) : q \in eights}) \cup ones,
      inRange |-> \A b \in touched : b < BitvecLen(code)]

\* codeSegment; the bound check admits pos / 8 = len, which then is out of range.
codeSegment(m, pos) ==
  CASE pos \div 8 > m.len -> "no"
    [] pos \div 8 = m.len -> "panic"
    [] pos \div 8 < m.len -> IF pos \in m.bits THEN "no" ELSE "yes"

\* The bitmap that has uses for a contract.
Bitmap(f) == IF f.hash \in DOMAIN jumpdests THEN jumpdests[f.hash] ELSE codeBitmap(f.code)

\* has: the answer for contract f.
has(f, dest) ==
  CASE dest >= Len(f.code) -> "no"
    [] dest < Len(f.code) /\ ~Bitmap(f).inRange -> "panic"
    [] dest < Len(f.code) /\ Bitmap(f).inRange ->
         IF At(f.code, dest) = JUMPDEST THEN codeSegment(Bitmap(f), dest) ELSE "no"

\* has: the cache afterwards.
Analysed(f, dest) ==
  IF dest >= Len(f.code) THEN jumpdests
  ELSE [h \in (DOMAIN jumpdests) \cup {f.hash} |-> IF h = f.hash THEN Bitmap(f) ELSE jumpdests[h]]

-----------------------------------------------------------------------------
NoJump == [code |-> NoHash, dest |-> 0, created |-> FALSE, answer |-> "none"]

JumpInit ==
  /\ contracts = <<>>
  /\ jumpdests = [h \in {} |-> 0]
  /\ last = NoJump
  /\ panicked = FALSE /\ nested = FALSE
  /\ calls = 0

\* Call, CallCode, DelegateCall and StaticCall: StateDB has no code hashes.
Called(code) == [code |-> code, hash |-> NoHash, creation |-> FALSE]

\* Create: Keccak256 of the init code.
Created(code) == [code |-> code, hash |-> code, creation |-> TRUE]

\* A faulty variant of NewContract: the map of the client call before is used.
NewContractSameMap(f) ==
  /\ contracts' = Append(contracts, f)
  /\ UNCHANGED jumpdests

\* NewContract: the map of the caller if it is a contract, else a new one.
NewContract(f) ==
  /\ contracts' = Append(contracts, f)
  /\ jumpdests' = IF contracts = <<>> THEN [h \in {} |-> 0] ELSE jumpdests

Client ==
  /\ contracts = <<>> /\ ~panicked /\ calls < MaxCalls
  /\ \E code \in Codes : NewContract(Called(code)) \/ NewContract(Created(code))
  /\ calls' = calls + 1
  /\ last' = NoJump /\ nested' = FALSE
  /\ UNCHANGED panicked

Active == contracts # <<>> /\ ~panicked

\* The opcodes that call or create; NoRecursion would make them return at once.
opCall ==
  /\ Active /\ calls < MaxCalls
  /\ \E code \in Codes : NewContract(Called(code)) \/ NewContract(Created(code))
  /\ nested' = TRUE
  /\ calls' = calls + 1
  /\ UNCHANGED <<last, panicked>>

Leave == contracts' = SubSeq(contracts, 1, Len(contracts) - 1)

\* opReturn and the other ways out of a frame.
opReturn ==
  /\ Active
  /\ Leave
  /\ UNCHANGED <<jumpdests, last, panicked, nested, calls>>

\* opJump, and opJumpi with a condition that holds: an answer "no" is an error
\* that ends the frame.
opJump ==
  /\ Active
  /\ \E dest \in Dests, f \in {contracts[Len(contracts)]} : \E answer \in {has(f, dest)} :
       /\ jumpdests' = Analysed(f, dest)
       /\ last' = [code |-> f.code, dest |-> dest, created |-> f.creation, answer |-> answer]
       /\ panicked' = (answer = "panic")
       /\ IF answer = "no" THEN Leave ELSE UNCHANGED contracts
  /\ UNCHANGED <<nested, calls>>

JumpNext == Client \/ opCall \/ opReturn \/ opJump

JumpSpec == JumpInit /\ [][JumpNext]_jumpVars

-----------------------------------------------------------------------------
\* The reference: args are the positions of arguments if a position is one
\* exactly when it follows an opcode, which is no argument, closely enough.
IsArguments(code, args) ==
  LET size(op) == IF op \in 96..127 THEN op - 95 ELSE 0
  IN \A p \in 0..(Len(code) - 1) :
       p \in args <=> \E o \in 0..(p - 1) : o \notin args /\ p <= o + size(At(code, o))

\* codeBitmap marks exactly the bytes that are not opcodes and never writes
\* beyond its vector, whatever PUSH opcodes the code has and wherever it ends.
BitmapExact ==
  \A k \in 1..Len(contracts) : \A m \in {codeBitmap(contracts[k].code)} :
    m.inRange /\ IsArguments(contracts[k].code, m.bits)

\* Whether code has a JUMPDEST instruction at dest: its own bitmap is exact.
Valid(code, dest) ==
  dest < Len(code) /\ At(code, dest) = 91 /\ dest \notin codeBitmap(code).bits

\* The last jump was allowed exactly if the code that ran has a JUMPDEST there.
Exact == last.answer = (IF Valid(last.code, last.dest) THEN "yes" ELSE "no")

\* Each client call starts with an empty cache: as long as a contract calls no
\* other (all that NoRecursion admits), its jumps are decided correctly, whatever
\* ran before under the same zero hash.
FlatJumpExact == last # NoJump /\ ~nested => Exact

\* Init code has a hash of its own: whatever the calls around it left in the
\* shared cache, the jumps of a contract under creation are decided correctly.
CreateJumpExact == last.created => Exact

\* An index panic needs two programs: the one that panicked is longer than
\* another one that was analysed under the same hash.
PanicNeedsShorter ==
  panicked => /\ NoHash \in DOMAIN jumpdests
              /\ \E c \in Codes : jumpdests[NoHash] = codeBitmap(c) /\ Len(c) < Len(last.code)

\* Jumps are decided correctly, up to the bitmaps that calls in between share.
JumpsExact == BitmapExact /\ FlatJumpExact /\ CreateJumpExact /\ PanicNeedsShorter

-----------------------------------------------------------------------------
(* core/vm/memory.go, common.go and the gas functions of gas_table.go for  *)
(* opcodes that touch memory: how one turn of Interpreter.Run sizes, pays  *)
(* for, resizes and then accesses the memory of a frame.  The operands are *)
(* arbitrary 256-bit words, gas and sizes are uint64, and each width is a  *)
(* constant that the instances scale down.                                 *)

CONSTANTS
  MaxUint64,      \* the largest uint64
  WordBytes,      \* bytes of a memory word (32)
  MemLimit,       \* 0xffffffffe0 in memoryGasCost
  MemoryGas, QuadCoeffDiv, CopyGas, Sha3WordGas, LogDataGas,
  StepGas,        \* the constant parts of the gas functions
  Operands,       \* operands of the opcodes, beyond MaxUint64 too
  GasLimits       \* initial contract.Gas

\* MemLimit is 2^40 - 32, words have 32 bytes and gas has 64 bits: MemLimit is
\* a whole number of words, and the square of that number exceeds MaxUint64.
ASSUME MemoryAssumption ==
  /\ {MaxUint64, MemLimit, MemoryGas, CopyGas, Sha3WordGas, LogDataGas, StepGas} \subseteq Nat
  /\ {WordBytes, QuadCoeffDiv} \subseteq Nat \ {0}
  /\ MemLimit % WordBytes = 0
  /\ (MemLimit \div WordBytes) * (MemLimit \div WordBytes) > MaxUint64
  /\ MaxUint64 % WordBytes = WordBytes - 1
  /\ Operands \subseteq Nat /\ GasLimits \subseteq 0..MaxUint64

VARIABLES
  len,          \* len(mem.store)
  lastGasCost,  \* mem.lastGasCost
  gas,          \* contract.Gas
  paid,         \* history: the sum of the fees memoryGasCost returned
  oob,          \* an access went beyond the end of the store
  running       \* the frame has not ended

memoryVars == <<len, lastGasCost, gas, paid, oob, running>>

Uint64 == 0..MaxUint64
Wrap(n) == n % (MaxUint64 + 1)

\* calcMemSize.
calcMemSize(off, l) == IF l = 0 THEN 0 ELSE off + l

\* toWordSize, which guards its own addition.
toWordSize(size) ==
  IF size > MaxUint64 - (WordBytes - 1) THEN MaxUint64 \div WordBytes + 1
  ELSE (size + WordBytes - 1) \div WordBytes

\* math.SafeAdd and math.SafeMul, with -1 for an overflow, which stays one.
SafeAdd(x, y) == IF x < 0 \/ y < 0 \/ y > MaxUint64 - x THEN -1 ELSE x + y

SafeMul(x, y) ==
  IF x < 0 \/ y < 0 THEN -1
  ELSE IF x = 0 \/ y = 0 THEN 0
  ELSE IF y > MaxUint64 \div x THEN -1 ELSE x * y

\* What words of memory cost in total; the code computes it modulo 2^64.
NewTotalFee(words) == Wrap(Wrap(words * MemoryGas) + Wrap(words * words) \div QuadCoeffDiv)

\* A faulty variant of memoryGasCost: the cost paid so far is not recorded.
memoryGasCostForgetful(newMemSize) ==
  LET words == toWordSize(newMemSize)
  IN IF newMemSize = 0 THEN [fee |-> 0, last |-> lastGasCost]
     ELSE IF newMemSize > MemLimit THEN [fee |-> -1, last |-> lastGasCost]
     ELSE IF words * WordBytes <= len THEN [fee |-> 0, last |-> lastGasCost]
     ELSE [fee |-> Wrap(NewTotalFee(words) - lastGasCost), last |-> lastGasCost]

\* memoryGasCost: the fee, and the new mem.lastGasCost.
memoryGasCost(newMemSize) ==
  LET words == toWordSize(newMemSize)
  IN IF newMemSize = 0 THEN [fee |-> 0, last |-> lastGasCost]
     ELSE IF newMemSize > MemLimit THEN [fee |-> -1, last |-> lastGasCost]
     ELSE IF words * WordBytes <= len THEN [fee |-> 0, last |-> lastGasCost]
     ELSE [fee |-> Wrap(NewTotalFee(words) - lastGasCost), last |-> NewTotalFee(words)]

\* gasMLoad, gasMStore, gasMStore8, gasCreate, gasReturn, gasRevert.
gasMemory(fee, n) == SafeAdd(fee, StepGas)

\* gasCallDataCopy, gasReturnDataCopy, gasCodeCopy, gasExtCodeCopy.
gasCopy(fee, n) ==
  IF n > MaxUint64 THEN -1 ELSE SafeAdd(SafeAdd(fee, StepGas), SafeMul(toWordSize(n), CopyGas))

gasSha3(fee, n) ==
  IF n > MaxUint64 THEN -1 ELSE SafeAdd(SafeAdd(fee, StepGas), SafeMul(toWordSize(n), Sha3WordGas))

\* The function of makeGasLog.
gasLog(fee, n) ==
  IF n > MaxUint64 THEN -1 ELSE SafeAdd(SafeAdd(fee, StepGas), SafeMul(n, LogDataGas))

gasCost(kind, fee, n) ==
  CASE kind = "memory" -> gasMemory(fee, n)
    [] kind = "copy" -> gasCopy(fee, n)
    [] kind = "sha3" -> gasSha3(fee, n)
    [] kind = "log" -> gasLog(fee, n)

MemoryInit ==
  /\ len = 0 /\ lastGasCost = 0 /\ paid = 0 /\ oob = FALSE /\ running = TRUE
  /\ gas \in GasLimits

\* Memory.Set panics, Memory.Get and GetPtr slice beyond the end; an access
\* of size 0 touches nothing.
Beyond(off, n, l) == n > 0 /\ off + n > l

\* Memory.Resize.
Resize(size) == IF len < size THEN size ELSE len

\* An opcode with the memory operands off and n and the further piece off2 and
\* n2 (the result of a call; 0 for the others): checks, gas, Resize, access.
\* An opcode that fails ends the frame; lastGasCost has changed by then.
Instruction(kind, off, n, off2, n2) ==
  LET memSize == Max({calcMemSize(off, n), calcMemSize(off2, n2)})
      memorySize == SafeMul(toWordSize(memSize), WordBytes)
      m == memoryGasCost(memorySize)
      cost == IF m.fee < 0 THEN -1 ELSE gasCost(kind, m.fee, n)
  IN
  /\ running
  /\ \/ /\ memSize > MaxUint64 \/ memorySize < 0
        /\ running' = FALSE
        /\ UNCHANGED <<len, lastGasCost, gas, paid, oob>>
     \/ /\ memSize <= MaxUint64 /\ memorySize >= 0
        /\ lastGasCost' = m.last
        /\ IF cost < 0 \/ gas < cost
           THEN running' = FALSE /\ UNCHANGED <<len, gas, paid, oob>>
           ELSE /\ gas' = gas - cost
                /\ paid' = paid + m.fee
                /\ len' = Resize(memorySize)
                /\ oob' = (oob \/ Beyond(off, n, len') \/ Beyond(off2, n2, len'))
                /\ UNCHANGED running

MemoryNext ==
  \/ \E kind \in {"memory", "copy", "sha3", "log"}, off, n \in Operands :
       Instruction(kind, off, n, 0, 0)
  \/ \E off, n, off2, n2 \in Operands : n2 # 0 /\ Instruction("memory", off, n, off2, n2)

MemorySpec == MemoryInit /\ [][MemoryNext]_memoryVars

-----------------------------------------------------------------------------
MemoryTypeOK ==
  /\ {len, lastGasCost, gas} \subseteq Uint64 /\ len % WordBytes = 0
  /\ paid \in Nat /\ {oob, running} \subseteq BOOLEAN

\* Every access lies within the store, so that Memory.Set does not panic and
\* Memory.Get and GetPtr do not slice beyond the end.
InBounds == ~oob

\* While the frame runs, the fees add up to the cost of the memory it has,
\* in uint64 arithmetic: nothing is charged twice, whatever order the
\* memory grows in, and lastGasCost is what was paid.
FeesTelescope ==
  running =>
    /\ lastGasCost = NewTotalFee(len \div WordBytes)
    /\ Wrap(paid) = lastGasCost

\* Memory is never larger than memoryGasCost's limit allows.
LenBounded == len <= MemLimit

\* Memory is large enough for every access, and paid for.
MemoryExact == MemoryTypeOK /\ InBounds /\ FeesTelescope /\ LenBounded
=============================================================================
