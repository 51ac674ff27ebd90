-------------------------------- MODULE EVM --------------------------------
(***************************************************************************)
(* core/vm: the call machinery of the EVM (evm.go, interpreter.go, the     *)
(* call, create and state opcodes of instructions.go and their gas         *)
(* functions) running on the database of StateDB.                          *)
(*                                                                         *)
(* The program a contract runs is arbitrary: at every step the running     *)
(* frame executes any opcode, with any operands.  Opcodes that only touch  *)
(* the operand stack, the memory or the program counter are one action     *)
(* (Plain); every way an opcode can fail (unknown opcode, stack bounds,    *)
(* bad jump, write protection, out of gas) is one action (Fault).  Gas is  *)
(* a machine word 0..MaxUint64 with its wrap-around.                       *)
(***************************************************************************)
EXTENDS StateDB

CONSTANTS
  EOAs,                  \* accounts a client calls from (vm.AccountRef)
  Deployed,              \* contracts the clients have deployed beforehand
  Precompiles,           \* addresses of the precompiled contracts
  Callees,               \* address operands of the call opcodes
  Watched,               \* address operands of BALANCE
  Heirs,                 \* address operands of SELFDESTRUCT
  Values,                \* words stored by SSTORE
  CallValues,            \* values sent along with CALL, CALLCODE and CREATE
  Topics,                \* first topics of logs
  PCs,                   \* program counters of arithmetic opcodes
  CodeLens,              \* lengths of returned deployment code
  CreateAddress,         \* crypto.CreateAddress(caller, nonce), any function of the two
  InitNonce,             \* nonce the clients give to EOAs
  NoRecursion,           \* vm.Config.NoRecursion
  MayCancel,             \* whether somebody calls EVM.Cancel
  CallCreateDepth,       \* params.CallCreateDepth (1024)
  MaxUint64,             \* largest gas word
  GasLimits,             \* gas a client hands to Call and Create
  OpCosts,               \* gas of opcodes that do not halt
  MemCosts,              \* results of memoryGasCost
  CallCosts,             \* gas operands of the call opcodes, beyond MaxUint64 too
  CallsGas, CallNewAccountGas, CallValueTransferGas, CallStipend,
  CreateGas, CreateDataGas, MaxCodeSize,
  MaxCalls,              \* bound: client calls in a behaviour
  MaxNonce               \* bound: nonces (uint64 in the code)

Word == 0..MaxUint64

\* What the parameters of params/ and the tables of gas_table.go satisfy.
ASSUME ParamsAssumption ==
  /\ MaxUint64 \in Nat
  /\ {CallsGas, CallNewAccountGas, CallValueTransferGas, CallStipend,
      CreateGas, CreateDataGas, MaxCodeSize} \subseteq Nat
  /\ CallStipend <= CallValueTransferGas
  /\ CallsGas + CallNewAccountGas + CallValueTransferGas <= MaxUint64
  /\ CallCreateDepth \in Nat /\ MaxCalls \in Nat
  /\ MaxNonce \in Nat \ {0} /\ InitNonce \in 0..MaxNonce
  /\ NoRecursion \in BOOLEAN /\ MayCancel \in BOOLEAN

\* What the inputs satisfy.  An arithmetic opcode needs two operands pushed
\* by earlier instructions, and a jump only lands on a JUMPDEST, so its
\* program counter is never 0.
ASSUME InputsAssumption ==
  /\ EOAs \cup Deployed \cup Precompiles \cup Callees \cup Watched \cup Heirs \subseteq Addr
  /\ Values \subseteq Nat /\ CallValues \subseteq Nat
  /\ EOAs \cap Deployed = {}
  /\ PCs \subseteq Nat \ {0} /\ CodeLens \subseteq Nat
  /\ GasLimits \subseteq Word /\ MemCosts \subseteq Word
  /\ OpCosts \subseteq Word \ {0} /\ CallCosts \subseteq Nat
  /\ CreateAddress \in [Addr \X (0..MaxNonce) -> Addr]

VARIABLES
  db,        \* evm.StateDB
  frames,    \* active Contracts, outermost first
  depth,     \* evm.depth
  readOnly,  \* interpreter.readOnly
  abort,     \* evm.abort
  inflight,  \* Cancel fell between the loop's test of abort and the instruction
  result,    \* error and left-over gas of the last client call
  calls      \* client calls made so far (bounded by MaxCalls)

vars == <<db, frames, depth, readOnly, abort, inflight, result, calls>>

Kinds == {"call", "callcode", "delegate", "static", "create"}

Errors == {"none", "nil", "reverted", "fail", "depth", "funds", "collision"}

\* uint64 addition and subtraction.
Add64(x, y) == IF x + y > MaxUint64 THEN x + y - MaxUint64 - 1 ELSE x + y

Sub64(x, y) == IF x >= y THEN x - y ELSE x - y + MaxUint64 + 1

\* A frame: which entry point opened it, the account whose storage it uses,
\* contract.Gas, and whether it set readOnly and has to reset it.  gas0 (the
\* gas it was given) and snap (the database when Snapshot was called) are
\* history, read by properties only.
NewContract(kind, self, gas, ro, snap) ==
  [kind |-> kind, self |-> self, gas |-> gas, ro |-> ro, gas0 |-> gas, snap |-> snap]

Top == frames[Len(frames)]

Callers == SubSeq(frames, 1, Len(frames) - 1)

\* What a return does to the caller: "contract.Gas += returnGas" in the op*
\* function of the calling frame, or the results handed to the client.
Deliver(fs, gas, err) ==
  IF fs = <<>>
  THEN /\ frames' = <<>>
       /\ result' = [err |-> err, gas |-> gas]
  ELSE /\ frames' = [fs EXCEPT ![Len(fs)].gas = Add64(@, gas)]
       /\ UNCHANGED result

\* A faulty variant of Enter: depth++ is forgotten.
EnterSameDepth(fs, frame) ==
  /\ frames' = Append(fs, frame)
  /\ UNCHANGED <<depth, result>>

\* Interpreter.Run starts on a new contract: depth++ and a fresh activation.
Enter(fs, frame) ==
  /\ frames' = Append(fs, frame)
  /\ depth' = depth + 1
  /\ UNCHANGED result

\* RunPrecompiledContract: out of gas or a failing Run consume everything.
RunPrecompiledContract(gas) ==
  {[err |-> "nil", gas |-> gas - c] : c \in {c \in OpCosts : c <= gas}}
    \cup {[err |-> "fail", gas |-> 0]}

Blocked == NoRecursion /\ depth > 0

\* EVM.Call, CallCode, DelegateCall and StaticCall up to the call of run:
\* either the call returns at once or a frame is entered.  fs are the frames
\* below, the caller having paid.  Exist is constantly true, so the branch
\* that creates a missing account never runs.
Invoke(fs, kind, caller, a, v, gas) ==
  LET pays == kind \in {"call", "callcode"}
      d1 == IF pays THEN GetBalanceEffect(db, caller) ELSE db
      d2 == IF kind = "call" THEN Transfer(d1, caller, a, v) ELSE d1
      setRO == kind = "static" /\ ~readOnly
      self == IF kind \in {"callcode", "delegate"} THEN caller ELSE a
      runs == ~Blocked /\ depth <= CallCreateDepth /\ (pays => CanTransfer(db, caller, v))
  IN
  \/ /\ Blocked
     /\ Deliver(fs, gas, "nil")
     /\ UNCHANGED <<db, depth, readOnly>>
  \/ /\ ~Blocked /\ depth > CallCreateDepth
     /\ Deliver(fs, gas, "depth")
     /\ UNCHANGED <<db, depth, readOnly>>
  \/ /\ ~Blocked /\ depth <= CallCreateDepth /\ pays /\ ~CanTransfer(db, caller, v)
     /\ db' = d1
     /\ Deliver(fs, gas, "funds")
     /\ UNCHANGED <<depth, readOnly>>
  \/ /\ runs /\ a \in Precompiles
     /\ db' = d2
     /\ \E r \in RunPrecompiledContract(gas) : Deliver(fs, r.gas, r.err)
     /\ UNCHANGED <<depth, readOnly>>
  \/ /\ runs /\ a \notin Precompiles /\ GetCode(d2, a) = 0
     /\ db' = d2
     /\ Deliver(fs, gas, "nil")
     /\ UNCHANGED <<depth, readOnly>>
  \/ /\ runs /\ a \notin Precompiles /\ GetCode(d2, a) > 0
     /\ db' = d2
     /\ readOnly' = (readOnly \/ setRO)
     /\ Enter(fs, NewContract(kind, self, gas, setRO, d1))

\* A faulty variant of Collides: no collision check.
NeverCollides(d, a) == FALSE

\* The check against an existing contract.  GetCodeHash is zero for every
\* account, so only the nonce decides.
Collides(d, a) == GetNonce(d, a) # 0

\* EVM.Create up to the call of run.  The nonce moves and the account is
\* reset before NoRecursion is looked at.
Create(fs, caller, v, gas) ==
  LET d1 == GetBalanceEffect(db, caller)
      nonce == GetNonce(d1, caller)
      d2 == SetNonce(d1, caller, nonce + 1)
      a == CreateAddress[<<caller, nonce>>]
      d3 == Transfer(SetNonce(CreateAccount(d2, a), a, 1), caller, a, v)
      funded == depth <= CallCreateDepth /\ CanTransfer(db, caller, v)
  IN
  /\ nonce < MaxNonce
  /\ UNCHANGED readOnly
  /\ \/ /\ depth > CallCreateDepth
        /\ Deliver(fs, gas, "depth")
        /\ UNCHANGED <<db, depth>>
     \/ /\ depth <= CallCreateDepth /\ ~CanTransfer(db, caller, v)
        /\ db' = d1
        /\ Deliver(fs, gas, "funds")
        /\ UNCHANGED depth
     \/ /\ funded /\ Collides(d2, a)
        /\ db' = d2
        /\ Deliver(fs, 0, "collision")
        /\ UNCHANGED depth
     \/ \* NoRecursion, or init code of length 0
        /\ funded /\ ~Collides(d2, a)
        /\ db' = d3
        /\ Deliver(fs, gas, "nil")
        /\ UNCHANGED depth
     \/ /\ funded /\ ~Collides(d2, a) /\ ~Blocked
        /\ db' = d3
        /\ Enter(fs, NewContract("create", a, gas, FALSE, d2))

-----------------------------------------------------------------------------
\* Gas of the call opcodes.

\* gas.go: callGas under the EIP-150 tables.  The subtraction wraps when the
\* frame cannot even pay base.
callGas(available, base, callCost) ==
  LET avail == Sub64(available, base)
      gas == avail - avail \div 64
  IN IF gas < callCost THEN gas ELSE callCost

\* gasCall, gasCallCode, gasDelegateCall, gasStaticCall before memory.
CallBase(kind, v) ==
  CallsGas + (IF v = 0 THEN 0
              ELSE CallValueTransferGas + IF kind = "call" THEN CallNewAccountGas ELSE 0)

\* A faulty variant of CallCost: the callee's gas is not deducted.
CallCostWithoutCallee(base, temp) == base

\* What a call opcode costs its frame: what it hands to the callee included.
CallCost(base, temp) == Add64(base, temp)

\* The two math.SafeAdd checks and UseGas of a call opcode, in order.
CallAffordable(gas, base, temp) ==
  /\ base <= MaxUint64
  /\ base + temp <= MaxUint64
  /\ CallCost(base, temp) <= gas

\* A faulty variant of Running: abort is ignored.
RunningOn == frames # <<>>

\* The loop of Run looks at abort before every instruction; the one it is about
\* to execute when Cancel is called runs all the same.
Running == frames # <<>> /\ (abort => inflight)

\* The frames after the running one has paid cost (Contract.UseGas).
UseGas(cost) == [frames EXCEPT ![Len(frames)].gas = @ - cost]

\* An opcode of the running frame that costs c and leaves the database d.
Execute(c, d) ==
  /\ Running /\ c <= Top.gas
  /\ frames' = UseGas(c)
  /\ db' = d
  /\ inflight' = FALSE
  /\ UNCHANGED <<depth, readOnly, abort, result, calls>>

-----------------------------------------------------------------------------
\* Opcodes.  Those the jump table marks "writes" need ~readOnly
\* (enforceRestrictions); CALL with a value needs it as well.

Plain == \E c \in OpCosts : Running /\ Execute(c, db)

\* opAdd, opSub, opMul (and opDiv): a result that left the 256-bit range taints
\* the storage of the contract with the program counter, whatever readOnly says.
Overflow ==
  /\ Running
  /\ \E op \in ArithOps, pc \in PCs, c \in OpCosts :
       Execute(c, SetState(db, Top.self, op, pc))

opSstore ==
  /\ Running /\ ~readOnly
  /\ \E k \in Slots, v \in Values, c \in OpCosts :
       Execute(c, SetState(db, Top.self, k, v))

opBalance ==
  /\ Running
  /\ \E a \in Watched, c \in OpCosts : Execute(c, GetBalanceEffect(db, a))

makeLog ==
  /\ Running /\ ~readOnly
  /\ \E t \in Topics, c \in OpCosts : Execute(c, AddLog(db, t))

opCall ==
  /\ Running
  /\ \E kind \in Kinds \ {"create"}, a \in Callees, v \in CallValues,
        mem \in MemCosts, callCost \in CallCosts :
       LET base == CallBase(kind, v) + mem
           temp == callGas(Top.gas, base, callCost)
           gas == IF v # 0 THEN Add64(temp, CallStipend) ELSE temp
       IN /\ kind \in {"delegate", "static"} => v = 0
          /\ readOnly /\ kind = "call" => v = 0
          /\ CallAffordable(Top.gas, base, temp)
          /\ Invoke(UseGas(CallCost(base, temp)), kind, Top.self, a, v, gas)
  /\ inflight' = FALSE
  /\ UNCHANGED <<abort, calls>>

opCreate ==
  /\ Running /\ ~readOnly
  /\ \E v \in CallValues, mem \in MemCosts :
       LET left == Top.gas - CreateGas - mem
           gas == left - left \div 64
       IN /\ CreateGas + mem <= Top.gas
          /\ Create(UseGas(CreateGas + mem + gas), Top.self, v, gas)
  /\ inflight' = FALSE
  /\ UNCHANGED <<abort, calls>>

-----------------------------------------------------------------------------
\* Leaving a frame.

\* A faulty variant of Exit: readOnly is never reset.
ExitKeepsReadOnly(err, gas, d) ==
  /\ db' = d
  /\ depth' = depth - 1
  /\ Deliver(Callers, IF err = "fail" THEN 0 ELSE gas, err)
  /\ inflight' = FALSE
  /\ UNCHANGED <<readOnly, abort, calls>>

\* The deferred depth-- and readOnly reset, and the epilogue of the entry
\* point: an error reverts to the snapshot, and consumes all gas unless the
\* code reverted itself.
Exit(err, gas, d) ==
  /\ db' = IF err = "nil" THEN d ELSE RevertToSnapshot(d, Top.snap)
  /\ depth' = depth - 1
  /\ readOnly' = (readOnly /\ ~Top.ro)
  /\ Deliver(Callers, IF err = "fail" THEN 0 ELSE gas, err)
  /\ inflight' = FALSE
  /\ UNCHANGED <<abort, calls>>

\* A faulty variant of Finish: the fee for the code is deducted unchecked.
FinishUnpaid(ret, gas, d) ==
  IF Top.kind # "create" THEN Exit("nil", gas, d)
  ELSE IF ret <= MaxCodeSize
       THEN Exit("nil", gas - ret * CreateDataGas, SetCode(d, Top.self, ret))
       ELSE Exit("fail", gas, d)

\* Run returned ret without error: Create goes on to store the code.
Finish(ret, gas, d) ==
  IF Top.kind # "create" THEN Exit("nil", gas, d)
  ELSE IF ret <= MaxCodeSize /\ ret * CreateDataGas <= gas
       THEN Exit("nil", gas - ret * CreateDataGas, SetCode(d, Top.self, ret))
       ELSE Exit("fail", gas, d)

\* STOP and RETURN.
Halt ==
  /\ Running
  /\ \E c \in MemCosts, ret \in IF Top.kind = "create" THEN CodeLens ELSE {0} :
       /\ c <= Top.gas
       /\ Finish(ret, Top.gas - c, db)

opRevert ==
  /\ Running
  /\ \E c \in MemCosts : c <= Top.gas /\ Exit("reverted", Top.gas - c, db)

Fault == Running /\ Exit("fail", 0, db)

\* SELFDESTRUCT: gasSuicide reads the balance (and so raises it) before the
\* gas is known to suffice; opSuicide reads it again and credits the
\* beneficiary without debiting the contract.
opSuicide ==
  /\ Running /\ ~readOnly
  /\ \E b \in Heirs, c \in OpCosts :
       LET self == Top.self
           d1 == HasSuicidedEffect(GetBalanceEffect(db, self), self)
           d2 == GetBalanceEffect(d1, self)
           d3 == Suicide(AddBalance(d2, b, d2.StateMap[self].balance), self)
       IN IF c <= Top.gas THEN Finish(0, Top.gas - c, d3) ELSE Exit("fail", 0, d1)

\* EVM.Cancel, by another goroutine: it finds the running frame before its test
\* of abort or past it, with the instruction it read still to be executed.
Cancel ==
  /\ MayCancel /\ ~abort
  /\ abort' = TRUE
  /\ inflight' \in IF frames = <<>> THEN {FALSE} ELSE BOOLEAN
  /\ UNCHANGED <<db, frames, depth, readOnly, result, calls>>

\* A faulty variant of Aborted: only the outermost frame looks at abort.
AbortedOutermost == Len(frames) = 1 /\ abort /\ ~inflight /\ Finish(0, Top.gas, db)

\* The loop of Run notices abort: the frame returns nil, nil.
Aborted == frames # <<>> /\ abort /\ ~inflight /\ Finish(0, Top.gas, db)

-----------------------------------------------------------------------------
\* Clients: detectors and creplayer call the EVM from an AccountRef.

ClientCall ==
  /\ frames = <<>> /\ calls < MaxCalls
  /\ \E from \in EOAs, a \in Callees, v \in CallValues, gas \in GasLimits :
       Invoke(<<>>, "call", from, a, v, gas)
  /\ calls' = calls + 1
  /\ UNCHANGED <<abort, inflight>>

ClientCreate ==
  /\ frames = <<>> /\ calls < MaxCalls
  /\ \E from \in EOAs, gas \in GasLimits : Create(<<>>, from, 0, gas)
  /\ calls' = calls + 1
  /\ UNCHANGED <<abort, inflight>>

\* The database DeployContracts leaves: funded accounts with a nonce, and the
\* funded contracts it created (their nonce is 1 since Create).
InitDB == [New EXCEPT !.StateMap = [a \in Addr |->
             CASE a \in EOAs -> [NewState EXCEPT !.balance = 100, !.nonce = InitNonce]
               [] a \in Deployed -> [NewState EXCEPT !.balance = 100, !.nonce = 1, !.code = 1]
               [] OTHER -> Blank]]

Init ==
  /\ db = InitDB
  /\ frames = <<>>
  /\ depth = 0
  /\ readOnly = FALSE
  /\ abort = FALSE /\ inflight = FALSE
  /\ result = [err |-> "none", gas |-> 0]
  /\ calls = 0

\* A step of the running interpreter.
Step ==
  \/ Plain \/ Overflow \/ opSstore \/ opBalance \/ makeLog
  \/ opCall \/ opCreate
  \/ Halt \/ opRevert \/ Fault \/ opSuicide \/ Aborted

Next == Step \/ Cancel \/ ClientCall \/ ClientCreate

\* The goroutine that runs the interpreter keeps running; clients need not call.
Spec == Init /\ [][Next]_vars /\ WF_vars(Step)

-----------------------------------------------------------------------------
\* Properties.

DB == [StateMap : [Addr -> State], Logs : Seq(Topics)]

Frame == [kind : Kinds, self : Addr, gas : Word, ro : BOOLEAN, gas0 : Word, snap : DB]

\* Type correctness: in particular contract.Gas and the left-over gas are
\* always machine words, stored words and nonces are never negative, and an
\* instruction in flight belongs to a frame.
TypeOK ==
  /\ db \in DB
  /\ frames \in Seq(Frame)
  /\ depth \in Nat
  /\ readOnly \in BOOLEAN
  /\ abort \in BOOLEAN
  /\ inflight \in BOOLEAN /\ (inflight => frames # <<>>)
  /\ result \in [err : Errors, gas : Word]
  /\ calls \in 0..MaxCalls

\* evm.depth counts the active frames exactly (the deferred depth-- of Run
\* balances depth++ on every way out), and the check "depth > CallCreateDepth"
\* in the entry points admits one frame more than CallCreateDepth.
DepthInv ==
  /\ depth = Len(frames)
  /\ depth <= CallCreateDepth + 1

\* interpreter.readOnly is set exactly while one static call that found it
\* unset is active: a nested STATICCALL neither takes the flag over nor clears
\* it on its return, and an error inside never leaves it behind.
ReadOnlyInv ==
  /\ readOnly <=> \E i \in 1..Len(frames) : frames[i].ro
  /\ \A i, j \in 1..Len(frames) : frames[i].ro /\ frames[j].ro => i = j
  /\ \A i \in 1..Len(frames) : frames[i].ro => frames[i].kind = "static"

\* No frame ever holds more gas than it was given, even though the callee's
\* gas is computed by a subtraction that can wrap (callGas), topped up by the
\* stipend, and added back on return without a check: what a caller kept plus
\* what it handed to its callee never exceeds what the caller was given.
GasInv ==
  /\ \A i \in 1..Len(frames) : frames[i].gas <= frames[i].gas0
  /\ \A i \in 1..(Len(frames) - 1) : frames[i].gas + frames[i+1].gas0 <= frames[i].gas0

\* CanTransfer guards every debit, so no account goes below zero although
\* SubBalance itself does not check.
BalancesNonNegative == \A a \in Addr : db.StateMap[a].balance >= 0

\* What a static call must not change: nonces, code, the suicide marks, the
\* ordinary storage slots, and the logs.
Protected(d) ==
  <<[a \in Addr |-> <<d.StateMap[a].nonce, d.StateMap[a].code, d.StateMap[a].isSuicide,
                      [k \in Slots \ ArithOps |-> d.StateMap[a].storage[k]]>>],
    d.Logs>>

\* While readOnly is set no step, of whatever frame above the static call,
\* changes the protected part of the state (enforceRestrictions).
StaticProtects == readOnly => Protected(db') = Protected(db)

\* Create never replaces deployed code: the collision check on the nonce sees
\* every account that has code, also the one whose constructor is running.
CodeImmutable == \A a \in Addr : GetCode(db, a) # 0 => GetCode(db', a) = GetCode(db, a)

\* Nonces never fall, although Create resets the account it creates.
NonceMonotone == \A a \in Addr : GetNonce(db', a) >= GetNonce(db, a)

\* With NoRecursion a client call writes to no storage but that of the
\* contract it called: every nested call returns at once, and a nested CREATE
\* only ever resets accounts that have no storage.
CallLocal ==
  NoRecursion => \A a \in Addr :
    db'.StateMap[a].storage # db.StateMap[a].storage => a = frames[1].self

\* Once Cancel was called at most one more instruction takes effect, the one that
\* was past the test of abort: apart from it contract storage, logs and suicide
\* marks stay as they are while the frames unwind, and no call that starts later
\* writes any.
CancelStopsWrites ==
  abort => /\ ~inflight'
           /\ ~inflight => db'.Logs = db.Logs
           /\ ~inflight => \A a \in Addr :
                /\ db'.StateMap[a].storage = db.StateMap[a].storage
                /\ db'.StateMap[a].isSuicide = db.StateMap[a].isSuicide

\* What a step may not do to the state.
KeepsState ==
  /\ StaticProtects /\ CodeImmutable /\ NonceMonotone /\ BalancesNonNegative'
  /\ CancelStopsWrites /\ CallLocal

\* No step of a call, however frames nest, fail and unwind, does any of this to
\* the state: change what a static call protects, replace code, lower a nonce,
\* overdraw an account, write more after Cancel than the instruction in flight or,
\* with NoRecursion, write to another contract's storage.
StateKept == [][KeepsState]_vars

\* Every client call returns: gas runs out if nothing else ends the loop of Run.
CallReturns == frames # <<>> ~> frames = <<>>

\* evm.go:154-157: Call "reverses the state in case of an execution error".
ErrorReversesState ==
  [][frames # <<>> /\ frames' = <<>> /\ result'.err # "nil" => db' = frames[1].snap]_vars

=============================================================================
