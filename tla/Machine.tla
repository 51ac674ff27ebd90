------------------------------ MODULE Machine ------------------------------
(***************************************************************************)
(* The operand stacks and the integer pool of core/vm (stack.go,           *)
(* intpool.go) while Interpreter.Run executes arbitrary programs: the      *)
(* checks come from the jump table, the effects from the instructions      *)
(* below it.  Integers are objects, numbered; the frames of nested calls   *)
(* share one pool.                                                         *)
(*                                                                         *)
(* Between two instructions the objects are renumbered in the order they   *)
(* are found in, which keeps the numbers small and changes nothing, since  *)
(* only their identity counts.                                             *)
(***************************************************************************)
EXTENDS Integers, Sequences, TLC, FiniteSets, FiniteSetsExt

CONSTANTS
  StackLimit,   \* params.StackLimit (1024)
  poolLimit,    \* the pool takes no integers beyond it (256)
  MaxFrames     \* bound on nested frames

VARIABLES
  frames,       \* the running frames, outermost first
  pool          \* intPool.pool

vars == <<frames, pool>>

-----------------------------------------------------------------------------
(***************************************************************************)
(* core/vm/jump_table.go, stack_table.go and memory_table.go: what the     *)
(* interpreter is told about every opcode before it runs it.  An opcode is *)
(* <<name, n>>, where n numbers the members of the PUSH, DUP, SWAP and LOG *)
(* families and is 0 for the others.                                       *)
(*                                                                         *)
(* An operation records the operands it requires (pop), what it may leave  *)
(* in their place (push), the flags that end a frame or skip pc++, and the *)
(* pieces of memory that memorySize accounts for: pairs of stack positions *)
(* counted from the top (stack.Back), of an offset and of a size, where a  *)
(* negative size -k is the constant k.  Gas is not part of the table.      *)
(***************************************************************************)

Plain(names) == names \X {0}

\* makeStackFunc(pop, push) with none of the flags.
Op(pop, push) ==
  [pop |-> pop, push |-> push, halts |-> FALSE, jumps |-> FALSE, mem |-> {}]

Mem(op, pieces) == [op EXCEPT !.mem = pieces]

Halts(op) == [op EXCEPT !.halts = TRUE]

Jumps(op) == [op EXCEPT !.jumps = TRUE]

\* A table that gives each of the opcodes the same operation.
All(ops, op) == [o \in ops |-> op]

\* STOP .. BYTE.
ArithmeticSet ==
  All(Plain({"STOP"}), Halts(Op(0, 0)))
  @@ All(Plain({"ADD", "MUL", "SUB", "DIV", "SDIV", "MOD", "SMOD", "EXP", "SIGNEXTEND",
                "LT", "GT", "SLT", "SGT", "EQ", "AND", "XOR", "OR", "BYTE"}), Op(2, 1))
  @@ All(Plain({"ADDMOD", "MULMOD"}), Op(3, 1))
  @@ All(Plain({"ISZERO", "NOT"}), Op(1, 1))

\* SHA3 .. GASLIMIT.
EnvironmentSet ==
  All(Plain({"SHA3"}), Mem(Op(2, 1), {<<0, 1>>}))
  @@ All(Plain({"ADDRESS", "ORIGIN", "CALLER", "CALLVALUE", "CALLDATASIZE", "CODESIZE",
                "GASPRICE", "COINBASE", "TIMESTAMP", "NUMBER", "DIFFICULTY", "GASLIMIT"}), Op(0, 1))
  @@ All(Plain({"BALANCE", "CALLDATALOAD", "EXTCODESIZE", "BLOCKHASH"}), Op(1, 1))
  @@ All(Plain({"CALLDATACOPY", "CODECOPY"}), Mem(Op(3, 0), {<<0, 2>>}))
  @@ All(Plain({"EXTCODECOPY"}), Mem(Op(4, 0), {<<1, 3>>}))

\* POP .. JUMPDEST.
FlowSet ==
  All(Plain({"POP"}), Op(1, 0))
  @@ All(Plain({"MLOAD"}), Mem(Op(1, 1), {<<0, -32>>}))
  @@ All(Plain({"MSTORE"}), Mem(Op(2, 0), {<<0, -32>>}))
  @@ All(Plain({"MSTORE8"}), Mem(Op(2, 0), {<<0, -1>>}))
  @@ All(Plain({"SLOAD"}), Op(1, 1))
  @@ All(Plain({"SSTORE"}), Op(2, 0))
  @@ All(Plain({"JUMP"}), Jumps(Op(1, 0)))
  @@ All(Plain({"JUMPI"}), Jumps(Op(2, 0)))
  @@ All(Plain({"PC", "MSIZE", "GAS"}), Op(0, 1))
  @@ All(Plain({"JUMPDEST"}), Op(0, 0))

\* PUSH1 .. PUSH16 and PUSH17 .. PUSH32.
PushSet == All({"PUSH"} \X (1..16), Op(0, 1))

PushSetLong == All({"PUSH"} \X (17..32), Op(0, 1))

makeDupStackFunc(n) == Op(n, n + 1)

DupSet == [o \in {"DUP"} \X (1..16) |-> makeDupStackFunc(o[2])]

makeSwapStackFunc(n) == Op(n, n)

\* SWAPn exchanges the top with the item n below it: n + 1 items.
SwapSet == [o \in {"SWAP"} \X (1..16) |-> makeSwapStackFunc(o[2] + 1)]

\* LOG0 .. SELFDESTRUCT.  CALLCODE uses memoryCall.
memoryLog == {<<0, 1>>}

memoryCreate == {<<1, 2>>}

memoryCall == {<<5, 6>>, <<3, 4>>}

memoryReturn == {<<0, 1>>}

SystemSet ==
  [o \in {"LOG"} \X (0..4) |-> Mem(Op(o[2] + 2, 0), memoryLog)]
  @@ All(Plain({"CREATE"}), Mem(Op(3, 1), memoryCreate))
  @@ All(Plain({"CALL", "CALLCODE"}), Mem(Op(7, 1), memoryCall))
  @@ All(Plain({"RETURN"}), Halts(Mem(Op(2, 0), memoryReturn)))
  @@ All(Plain({"SELFDESTRUCT"}), Halts(Op(1, 0)))

Frontier ==
  ArithmeticSet @@ EnvironmentSet @@ FlowSet @@ PushSet @@ PushSetLong
    @@ DupSet @@ SwapSet @@ SystemSet

\* memoryDelegateCall and memoryStaticCall.
memoryDelegateCall == {<<4, 5>>, <<2, 3>>}

Homestead == All(Plain({"DELEGATECALL"}), Mem(Op(6, 1), memoryDelegateCall))

\* REVERT ends the frame as RETURN does; that it is an error does not show here.
Byzantium ==
  All(Plain({"STATICCALL"}), Mem(Op(6, 1), memoryDelegateCall))
  @@ All(Plain({"RETURNDATASIZE"}), Op(0, 1))
  @@ All(Plain({"RETURNDATACOPY"}), Mem(Op(3, 0), {<<0, 2>>}))
  @@ All(Plain({"REVERT"}), Halts(Mem(Op(2, 0), memoryReturn)))

\* byzantiumInstructionSet, the one NewInterpreter picks for the chain
\* configurations of the detectors.
JumpTable == Frontier @@ Homestead @@ Byzantium

-----------------------------------------------------------------------------
(* core/vm/instructions.go: what every opcode does with the integers of    *)
(* the operand stack, with the integer pool and with the memory.  Integers *)
(* are *big.Int that are passed by reference and changed in place, so what *)
(* matters is which object goes where; values are left out, and a branch   *)
(* on a value is a choice.                                                 *)
(*                                                                         *)
(* The body of an opcode is the set of sequences of steps its function can *)
(* take.  A step names local variables:                                    *)
(*   pop, peek   stack.pop and stack.peek                                  *)
(*   new, get    a fresh integer, an integer from the pool                 *)
(*   set         the integer is overwritten                                *)
(*   push, put   stack.push, intPool.put (one call for all the variables)  *)
(*   mem         memory of the offset and size given is read or written    *)
(*   run         a nested call or creation runs                            *)
(*   use         the integer is read                                       *)

Step(do, vs) == <<[do |-> do, vs |-> vs, n |-> 0]>>

pop(vs) == Step("pop", vs)
peek(v) == Step("peek", <<v>>)
new(v) == Step("new", <<v>>)
get(v) == Step("get", <<v>>)
set(v) == Step("set", <<v>>)
push(v) == Step("push", <<v>>)
put(vs) == Step("put", vs)
mem(offset, size) == Step("mem", <<offset, size>>)
run == Step("run", <<>>)
use(v) == Step("use", <<v>>)

\* The first operand is overwritten with the result, the second one retired.
Reusing == pop(<<"x", "y">>) \o set("x") \o push("x") \o put(<<"y">>)

\* Division by zero: a new zero is pushed.
Zero == pop(<<"x", "y">>) \o new("z") \o push("z") \o put(<<"y">>)

\* math.S256: the integer itself, or a new one when it is negative.
S256(v) == {<<>>, new(v)}

Signed(body) == {pop(<<"x", "y">>) \o s \o t \o body : s \in S256("x"), t \in S256("y")}

\* opAdd, opSub, opMul, opDiv.
Wrapping(name) == {Reusing} \cup (IF name = "DIV" THEN {Zero} ELSE {})

\* opSdiv forgets y when it is zero, and the integer it takes from the pool.
opSdiv ==
  Signed(new("z") \o push("z"))
    \cup Signed(new("n") \o get("t") \o set("t") \o set("x") \o set("y") \o push("x") \o put(<<"y">>))

opMod == {Reusing, Zero}

opSmod ==
  Signed(new("z") \o push("z") \o put(<<"y">>))
    \cup Signed(new("n") \o set("x") \o set("y") \o push("x") \o put(<<"y">>))

\* math.Exp squares base in place.
opExp == {pop(<<"x", "y">>) \o new("r") \o set("x") \o push("r") \o put(<<"x", "y">>)}

\* mask is back, overwritten; an operand that needs no extension stays.
opSignExtend ==
  {pop(<<"back", "num">>) \o set("back") \o set("num") \o push("num") \o put(<<"back">>),
   pop(<<"back">>) \o put(<<"back">>)}

opNot == {pop(<<"x">>) \o set("x") \o push("x")}

\* A truth value: 1 in an integer of the pool, or a new 0.
Truth == {get("r") \o set("r") \o push("r"), new("r") \o push("r")}

\* opLt, opGt, opEq.
Compare == {pop(<<"x", "y">>) \o t \o put(<<"x", "y">>) : t \in Truth}

\* opSlt, opSgt.
SignedCompare == UNION {Signed(t \o put(<<"x", "y">>)) : t \in Truth}

opIszero == {pop(<<"x">>) \o t \o put(<<"x">>) : t \in Truth}

\* opAnd, opOr, opXor.
Bitwise == {Reusing}

opByte == {pop(<<"th">>) \o peek("val") \o set("val") \o put(<<"th">>)}

\* opAddmod, opMulmod.
Modular ==
  {pop(<<"x", "y", "z">>) \o set("x") \o push("x") \o put(<<"y", "z">>),
   pop(<<"x", "y", "z">>) \o new("r") \o push("r") \o put(<<"y", "z">>)}

opSha3 ==
  {pop(<<"offset", "size">>) \o mem("offset", "size") \o new("hash") \o push("hash")
     \o put(<<"offset", "size">>)}

\* opAddress, opOrigin, opCaller, opCoinbase, opTimestamp, opNumber,
\* opDifficulty, opGasLimit.
Fresh == {new("r") \o push("r")}

\* opCallValue, opCallDataSize, opReturnDataSize, opCodeSize, opGasprice,
\* opPc, opMsize, opGas and the function of makePush.
Pooled == {get("r") \o set("r") \o push("r")}

\* opBalance, opCallDataLoad, opSload: the operand is left to the collector.
Looked == {pop(<<"a">>) \o new("r") \o push("r")}

opExtCodeSize == {pop(<<"a">>) \o set("a") \o push("a")}

\* opCallDataCopy, opCodeCopy, opReturnDataCopy, which may fail before it
\* writes and puts its operands in either case.
Copying(name) ==
  {pop(<<"memOffset", "from", "length">>) \o m \o put(<<"memOffset", "from", "length">>) :
     m \in {mem("memOffset", "length")} \cup IF name = "RETURNDATACOPY" THEN {<<>>} ELSE {}}

opExtCodeCopy ==
  {pop(<<"addr", "memOffset", "from", "length">>) \o mem("memOffset", "length")
     \o put(<<"memOffset", "from", "length">>)}

opBlockhash == {pop(<<"num">>) \o get("n") \o set("n") \o new("r") \o push("r") \o put(<<"num", "n">>)}

opPop == {pop(<<"x">>) \o put(<<"x">>)}

opMload == {pop(<<"offset">>) \o mem("offset", "32") \o new("val") \o push("val") \o put(<<"offset">>)}

opMstore == {pop(<<"mStart", "val">>) \o mem("mStart", "32") \o put(<<"mStart", "val">>)}

opMstore8 == {pop(<<"off", "val">>) \o mem("off", "1")}

\* val is handed to the callback after it went back to the pool.
opSstore == {pop(<<"loc", "val">>) \o put(<<"val">>) \o use("val")}

\* opJump and opJumpi: an invalid destination ends the frame, without put.
opJump == {pop(<<"pos">>) \o put(<<"pos">>), pop(<<"pos">>) \o Step("fail", <<>>)}

opJumpi == {pop(<<"pos", "cond">>) \o put(<<"pos", "cond">>), pop(<<"pos", "cond">>) \o Step("fail", <<>>)}

opCreate ==
  {pop(<<"value", "offset", "size">>) \o mem("offset", "size") \o run \o new("r") \o push("r")
     \o put(<<"value", "offset", "size">>)}

\* A faulty variant of Calling: the operands are put before the nested call.
CallingEarlyPut(ops) ==
  {pop(<<"gas">>) \o put(<<"gas">>) \o pop(ops) \o mem("inOffset", "inSize") \o put(ops) \o run
     \o new("r") \o push("r") \o w : w \in {<<>>, mem("retOffset", "retSize")}}

\* opCall, opCallCode, opDelegateCall, opStaticCall: the operands are used
\* after the nested call, for the memory that takes the result.
Calling(ops) ==
  {pop(<<"gas">>) \o put(<<"gas">>) \o pop(ops) \o mem("inOffset", "inSize") \o run
     \o new("r") \o push("r") \o w \o put(ops) : w \in {<<>>, mem("retOffset", "retSize")}}

CallOps == <<"addr", "value", "inOffset", "inSize", "retOffset", "retSize">>

DelegateOps == <<"addr", "inOffset", "inSize", "retOffset", "retSize">>

\* opReturn and opRevert.
Returning == {pop(<<"offset", "size">>) \o mem("offset", "size") \o put(<<"offset", "size">>)}

opSuicide == {pop(<<"heir">>)}

makeLog(n) ==
  {pop(<<"mStart", "mSize">>) \o pop([i \in 1..n |-> "topic"]) \o mem("mStart", "mSize")
     \o put(<<"mStart", "mSize">>)}

\* Stack.dup(pool, n) and Stack.swap(n + 1).
makeDup(n) == {<<[do |-> "get", vs |-> <<"r">>, n |-> 0], [do |-> "copy", vs |-> <<"r">>, n |-> n]>> \o push("r")}

makeSwap(n) == {<<[do |-> "swap", vs |-> <<>>, n |-> n + 1]>>}

\* The execute field of the opcode's entry in the jump table.
Body(op) ==
  CASE op[1] \in {"ADD", "SUB", "MUL", "DIV"} -> Wrapping(op[1])
    [] op[1] = "SDIV" -> opSdiv
    [] op[1] = "MOD" -> opMod
    [] op[1] = "SMOD" -> opSmod
    [] op[1] = "EXP" -> opExp
    [] op[1] = "SIGNEXTEND" -> opSignExtend
    [] op[1] = "NOT" -> opNot
    [] op[1] \in {"LT", "GT", "EQ"} -> Compare
    [] op[1] \in {"SLT", "SGT"} -> SignedCompare
    [] op[1] = "ISZERO" -> opIszero
    [] op[1] \in {"AND", "OR", "XOR"} -> Bitwise
    [] op[1] = "BYTE" -> opByte
    [] op[1] \in {"ADDMOD", "MULMOD"} -> Modular
    [] op[1] = "SHA3" -> opSha3
    [] op[1] \in {"ADDRESS", "ORIGIN", "CALLER", "COINBASE", "TIMESTAMP", "NUMBER",
                  "DIFFICULTY", "GASLIMIT"} -> Fresh
    [] op[1] \in {"CALLVALUE", "CALLDATASIZE", "RETURNDATASIZE", "CODESIZE", "GASPRICE",
                  "PC", "MSIZE", "GAS", "PUSH"} -> Pooled
    [] op[1] \in {"BALANCE", "CALLDATALOAD", "SLOAD"} -> Looked
    [] op[1] = "EXTCODESIZE" -> opExtCodeSize
    [] op[1] \in {"CALLDATACOPY", "CODECOPY", "RETURNDATACOPY"} -> Copying(op[1])
    [] op[1] = "EXTCODECOPY" -> opExtCodeCopy
    [] op[1] = "BLOCKHASH" -> opBlockhash
    [] op[1] = "POP" -> opPop
    [] op[1] = "MLOAD" -> opMload
    [] op[1] = "MSTORE" -> opMstore
    [] op[1] = "MSTORE8" -> opMstore8
    [] op[1] = "SSTORE" -> opSstore
    [] op[1] = "JUMP" -> opJump
    [] op[1] = "JUMPI" -> opJumpi
    [] op[1] = "CREATE" -> opCreate
    [] op[1] \in {"CALL", "CALLCODE"} -> Calling(CallOps)
    [] op[1] \in {"DELEGATECALL", "STATICCALL"} -> Calling(DelegateOps)
    [] op[1] \in {"RETURN", "REVERT"} -> Returning
    [] op[1] = "SELFDESTRUCT" -> opSuicide
    [] op[1] = "LOG" -> makeLog(op[2])
    [] op[1] = "DUP" -> makeDup(op[2])
    [] op[1] = "SWAP" -> makeSwap(op[2])
    [] op[1] \in {"STOP", "JUMPDEST"} -> {<<>>}

-----------------------------------------------------------------------------
(* The interpreter.                                                        *)
\* A frame: its stack, the locals of the instruction that runs (object and
\* position from the top at which it was popped), the steps left of it, and
\* the halts and memorySize entries of its opcode.
NewFrame == [st |-> <<>>, env |-> <<>>, popped |-> 0, todo |-> <<>>, halts |-> FALSE, mem |-> {}]

Init == frames = <<NewFrame>> /\ pool = <<>>

Top == frames[Len(frames)]
Below == SubSeq(frames, 1, Len(frames) - 1)
Idle == frames # <<>> /\ Top.todo = <<>>
Doing(do) == frames # <<>> /\ Top.todo # <<>> /\ Head(Top.todo).do = do
Now == Head(Top.todo)
Object(v) == Top.env[v].id

Objects(f) == {f.st[i] : i \in DOMAIN f.st} \cup {f.env[v].id : v \in DOMAIN f.env}
InPool == {pool[i] : i \in DOMAIN pool}
Used == InPool \cup UNION {Objects(frames[i]) : i \in DOMAIN frames}
Unused == CHOOSE n \in 1..(Cardinality(Used) + 1) : n \notin Used

\* The locals that a suspended instruction still refers to, as a sequence.
RECURSIVE Pending(_)
Pending(f) ==
  IF f.todo = <<>> THEN <<>>
  ELSE LET rest == Pending([f EXCEPT !.todo = Tail(@)])
           vs == Head(f.todo).vs
           mine == [i \in DOMAIN vs |-> IF vs[i] \in DOMAIN f.env THEN f.env[vs[i]].id ELSE 0]
           fresh == SelectSeq(mine, LAMBDA o : o # 0 /\ \A i \in DOMAIN rest : rest[i] # o)
       IN fresh \o rest

RECURSIVE Reach(_)
Reach(fs) == IF fs = <<>> THEN <<>> ELSE Head(fs).st \o Pending(Head(fs)) \o Reach(Tail(fs))

\* Every object that is still reachable, once for every place it is in.
Live(fs, p) == Reach(fs) \o p

\* The state with every object renamed to the place of its first occurrence.
Settle(fs, p) ==
  \E all \in {Live(fs, p)} :
  LET Name(o) == Min({i \in DOMAIN all : all[i] = o})
      Kept(f) == {v \in DOMAIN f.env : \E i \in DOMAIN f.todo :
                    \E j \in DOMAIN f.todo[i].vs : f.todo[i].vs[j] = v}
  IN /\ frames' = [k \in DOMAIN fs |->
                     [fs[k] EXCEPT !.st = [i \in DOMAIN @ |-> Name(@[i])],
                                   !.env = [v \in Kept(fs[k]) |-> [@[v] EXCEPT !.id = Name(@)]]]]
     /\ pool' = [i \in DOMAIN p |-> Name(p[i])]

\* The top frame after its next step.
Go(f) == frames' = Append(Below, [f EXCEPT !.todo = Tail(@)])

-----------------------------------------------------------------------------
\* The function of makeStackFunc.
validateStack(st, o) == Len(st) >= o.pop /\ Len(st) + o.push - o.pop <= StackLimit

\* One turn of Run's loop up to execute, for an opcode that passes the checks.
Fetch ==
  /\ Idle
  /\ \E table \in {JumpTable} : \E op \in DOMAIN table :
       /\ validateStack(Top.st, table[op])
       /\ \E b \in Body(op) :
            frames' = Append(Below,
              [Top EXCEPT !.todo = b \o Step("end", <<>>), !.env = <<>>, !.popped = 0,
                          !.halts = table[op].halts, !.mem = table[op].mem])
  /\ UNCHANGED pool

\* An error ends the frame: invalid opcode, stack, write protection, gas,
\* or abort; or the opcode itself fails.  Its stack is dropped.
Error ==
  /\ Idle \/ Doing("fail")
  /\ Settle(Below, pool)

\* The end of an instruction: a halting one ends the frame.
EndOp ==
  /\ Doing("end")
  /\ Settle(IF Top.halts THEN Below ELSE Append(Below, [Top EXCEPT !.todo = <<>>]), pool)

\* Stack.pop, for each variable in turn.
Pop ==
  /\ Doing("pop")
  /\ LET vs == Now.vs
         n == Len(vs)
         At(i) == [id |-> Top.st[Len(Top.st) + 1 - i], back |-> Top.popped + i - 1]
         Last(v) == Max({i \in 1..n : vs[i] = v})
     IN Go([Top EXCEPT !.st = SubSeq(@, 1, Len(@) - n), !.popped = @ + n,
                       !.env = [v \in {vs[i] : i \in 1..n} |-> At(Last(v))] @@ @])
  /\ UNCHANGED pool

Local(v, o) == [Top EXCEPT !.env = (v :> [id |-> o, back |-> 99]) @@ @]

\* Stack.peek, and new(big.Int).
Peek ==
  /\ Doing("peek")
  /\ Go(Local(Now.vs[1], Top.st[Len(Top.st)]))
  /\ UNCHANGED pool

New ==
  /\ Doing("new")
  /\ Go(Local(Now.vs[1], Unused))
  /\ UNCHANGED pool

\* intPool.get.
Get ==
  /\ Doing("get")
  /\ IF pool = <<>>
     THEN Go(Local(Now.vs[1], Unused)) /\ UNCHANGED pool
     ELSE Go(Local(Now.vs[1], pool[Len(pool)])) /\ pool' = SubSeq(pool, 1, Len(pool) - 1)

\* intPool.put: the limit is looked at once, before the integers are added.
Put ==
  /\ Doing("put")
  /\ pool' = IF Len(pool) > poolLimit THEN pool
             ELSE pool \o [i \in DOMAIN Now.vs |-> Object(Now.vs[i])]
  /\ Go(Top)

Push ==
  /\ Doing("push")
  /\ Go([Top EXCEPT !.st = Append(@, Object(Now.vs[1]))])
  /\ UNCHANGED pool

\* Stack.swap(n).
Swap ==
  /\ Doing("swap")
  /\ LET l == Len(Top.st) IN Go([Top EXCEPT !.st[l] = Top.st[l + 1 - Now.n], !.st[l + 1 - Now.n] = Top.st[l]])
  /\ UNCHANGED pool

\* Steps that move no object: values are written or read, memory accessed.
Work ==
  /\ Doing("set") \/ Doing("copy") \/ Doing("use") \/ Doing("mem")
  /\ Go(Top)
  /\ UNCHANGED pool

\* A nested call: another frame runs, or evm.Call returns without one.
Enter ==
  /\ Doing("run") /\ Len(frames) < MaxFrames
  /\ Settle(Below \o <<[Top EXCEPT !.todo = Tail(@)], NewFrame>>, pool)

Skip ==
  /\ Doing("run")
  /\ Go(Top)
  /\ UNCHANGED pool

Next ==
  \/ Fetch \/ Error \/ EndOp \/ Pop \/ Peek \/ New \/ Get \/ Put \/ Push \/ Swap
  \/ Work \/ Enter \/ Skip

Spec == Init /\ [][Next]_vars

-----------------------------------------------------------------------------
\* Between instructions no integer is in two places: on two stacks, twice on
\* one, in the pool and on a stack, or in the pool and among the operands of
\* a call that waits for its callee.  Instructions overwrite their operands
\* in place, so sharing would let one change another's value.
NoSharing ==
  frames # <<>> /\ Idle =>
    LET all == Live(frames, pool) IN Cardinality({all[i] : i \in DOMAIN all}) = Len(all)

\* What the jump table requires is what the instructions take: no pop, peek,
\* DUP or SWAP reaches below the bottom of the stack, and no instruction ends
\* with more than StackLimit items on it.
StackSafe ==
  frames # <<>> =>
    LET l == Len(Top.st)
    IN /\ Doing("pop") => l >= Len(Now.vs)
       /\ Doing("peek") => l >= 1
       /\ Doing("copy") \/ Doing("swap") => l >= Now.n
       /\ Idle => l <= StackLimit

\* Every piece of memory an instruction touches is one its memorySize function
\* has accounted for, so that it was paid for and the store resized.
MemoryCovered ==
  Doing("mem") =>
    LET Size(v) == CASE v = "32" -> -32 [] v = "1" -> -1 [] OTHER -> Top.env[v].back
    IN <<Top.env[Now.vs[1]].back, Size(Now.vs[2])>> \in Top.mem

\* An integer that is in the pool is not written to (what verifyIntegerPool
\* looks for in builds that verify the pool).
PoolUntouched == Doing("set") \/ Doing("copy") => Object(Now.vs[1]) \notin InPool

\* put looks at the limit once and adds up to six integers, the operands of
\* CALL: the pool stays within poolLimit + 6.
PoolBounded == Len(pool) <= poolLimit + 6

\* Integers, stack and memory are used by one opcode at a time, within bounds.
MachineSafe == NoSharing /\ PoolUntouched /\ PoolBounded /\ StackSafe /\ MemoryCovered
=============================================================================
