------------------------------ MODULE MCTools ------------------------------
(***************************************************************************)
(* The tools around the EVM, one at a time: the variable part says which   *)
(* one runs, and the others stay in their first state.                     *)
(*                                                                         *)
(*   fuzz      FuzzInt: a file with a contract and a smaller interface.    *)
(*   detector  OverFlowDetector: a token; one whose transfer takes other   *)
(*             arguments and that lacks transferFrom; one without          *)
(*             totalSupply for whose arguments there are no inputs; and a  *)
(*             contract whose ABI is not readable.                         *)
(*   inputs    InputGen: functions with up to three arguments, in words of *)
(*             12 bits.                                                    *)
(*   replay    Replayer: two blocks, one sender that overspends, and two   *)
(*             restarts.                                                   *)
(*   local     EVM with NoRecursion, as the fuzzer runs it: calls with     *)
(*             contracts that CREATE keeps colliding with.                 *)
(***************************************************************************)
EXTENDS FuzzInt

MCContracts == {"token", "owned"}
MCAddr == MCContracts \cup {"creater"}
MCBare == {"owned"}
MCSize == [c \in MCContracts |-> IF c = "token" THEN 3 ELSE 1]

VARIABLES
  part,
  \* detector
  detPhase, detTodo, contract, abi, n, Logs, transfers, products,
  Detected, Attackvector, ran, events, returned, hits,
  \* inputs
  args, k, heap, d,
  \* replay
  pc, starts, file, txs, block, missed, balance, done, refused,
  \* local
  state, frames, depth, readOnly, abort, inflight, result, calls

fuzzVars == <<db, stateBackup, phase, todo, deployVars, loopVars, callVars, logVars>>
detVars == <<detPhase, detTodo, contract, abi, n, Logs, transfers, products,
             Detected, Attackvector, ran, events, returned, hits>>
inVars == <<args, k, heap, d>>
replayVars == <<pc, starts, file, txs, block, missed, balance, done, refused>>
evmVars == <<state, frames, depth, readOnly, abort, inflight, result, calls>>
toolVars == <<part, fuzzVars, detVars, inVars, replayVars, evmVars>>

ABI(readable, packs, transferPacks, methods) ==
  [readable |-> readable, packs |-> packs, transferPacks |-> transferPacks, methods |-> methods]

Det == INSTANCE OverFlowDetector WITH
  phase <- detPhase, remaining <- detTodo,
  Contracts <- MCContracts, functionNames <- <<"transfer", "transferFrom">>,
  Products <- {"p", "q"}, Victims <- 2,
  ABIs <- {ABI(TRUE, TRUE, TRUE, {"totalSupply", "transfer", "transferFrom"}),
           ABI(TRUE, TRUE, FALSE, {"totalSupply", "transfer"}),
           ABI(TRUE, FALSE, TRUE, {"transfer", "transferFrom"}),
           ABI(FALSE, FALSE, FALSE, {})}

ASSUME Det!DetectorAssumption

In == INSTANCE InputGen WITH
  Types <- {[T |-> "address"], [T |-> "address[]"], [T |-> "bool"]}
             \cup {[T |-> "uint", size |-> s] : s \in {8, 10, 12}},
  MaxArgs <- 3, WordBits <- 12

Tx(from, value) == [from |-> from, value |-> value]

Replay == INSTANCE Replayer WITH
  i <- block, Begin <- 5, End <- 6, Grant <- 1000, MaxStarts <- 3,
  Chain <- [b \in 5..6 |-> IF b = 5 THEN <<Tx("ann", 600), Tx("bob", 250)>>
                                    ELSE <<Tx("ann", 550), Tx("ann", 900)>>]

Accounts == {"owner", "c0", "c1", "pre"}

\* Even nonces yield c0, odd ones c1, so that creations collide.
MCCreateAddress == [p \in Accounts \X (0..30) |-> IF p[2] % 2 = 0 THEN "c0" ELSE "c1"]

Local == INSTANCE EVM WITH
  db <- state, Addr <- Accounts, EOAs <- {"owner"}, Precompiles <- {"pre"},
  CreateAddress <- MCCreateAddress,
  Callees <- {"c0", "c1"}, Deployed <- {"c0", "c1"}, Watched <- {"c0"}, Heirs <- {"owner"},
  CallValues <- {0}, Topics <- {"t"}, PCs <- {7}, CodeLens <- {0, 1},
  InitNonce <- 20, NoRecursion <- TRUE, MayCancel <- FALSE, CallCreateDepth <- 1,
  MaxUint64 <- 127, GasLimits <- {60}, OpCosts <- {20}, MemCosts <- {0}, CallCosts <- {200},
  CallsGas <- 20, CallNewAccountGas <- 0, CallValueTransferGas <- 5, CallStipend <- 3,
  CreateGas <- 30, CreateDataGas <- 10, MaxCodeSize <- 1, MaxCalls <- 2, MaxNonce <- 30

ASSUME Local!ParamsAssumption /\ Local!InputsAssumption

-----------------------------------------------------------------------------
\* The other parts stay where they begin; deep, todo and args are then fixed.
ToolsInit ==
  /\ part \in {"fuzz", "detector", "inputs", "replay", "local"}
  /\ Init /\ Det!DetectorInit /\ In!Init /\ Replay!Init /\ Local!Init
  /\ part # "fuzz" => deep /\ todo = {}
  /\ part # "inputs" => args = <<>>

Fuzzes == part = "fuzz" /\ Next /\ UNCHANGED <<part, detVars, inVars, replayVars, evmVars>>
Detects == part = "detector" /\ Det!DetectorNext /\ UNCHANGED <<part, fuzzVars, inVars, replayVars, evmVars>>
Generates == part = "inputs" /\ In!Next /\ UNCHANGED <<part, fuzzVars, detVars, replayVars, evmVars>>
Replays == part = "replay" /\ Replay!Next /\ UNCHANGED <<part, fuzzVars, detVars, inVars, evmVars>>
Runs == part = "local" /\ Local!Next /\ UNCHANGED <<part, fuzzVars, detVars, inVars, replayVars>>

ToolsNext == Fuzzes \/ Detects \/ Generates \/ Replays \/ Runs

\* Fuzzer and detector are one goroutine each that keeps running; every call of
\* the EVM returns.
ToolsSpec == ToolsInit /\ [][ToolsNext]_toolVars /\ WF_toolVars(Fuzzes \/ Detects)

-----------------------------------------------------------------------------
\* The fuzzer and the detector end, by a panic if not otherwise.
ToolEnds ==
  <>(phase \in {"done", "panic"} \/ detPhase \in {"done", "panic"} \/ part \notin {"fuzz", "detector"})

\* An overflow in a call that returned without error is detected by the end of
\* the invocation, a detection rests on such a call of its own invocation, and at
\* the end every contract went through all combinations; the inputs of the calls
\* are the values at the borders of each argument's type, at their places.
DetectorExact ==
  /\ part = "detector" => Det!DetectorExact
  /\ part = "inputs" => In!BordersCalled /\ In!ProductsAligned

\* A replay that ends has executed the transactions of all blocks in order, each
\* once, but for the blocks whose fetch failed, wherever the process was killed;
\* and it refuses one for lack of funds only when its sender's are worth more
\* than AddAllMoney gave.
ReplayExact == part = "replay" => Replay!ReplayExact /\ Replay!RefusedNeedsOverspend

\* What no step may do to the state (see EVM), in the calls of the fuzzer: with
\* NoRecursion, moreover, a call writes to no storage but its own contract's.
LocalKept == [][part = "local" => Local!KeepsState]_toolVars
=============================================================================
