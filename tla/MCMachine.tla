----------------------------- MODULE MCMachine ------------------------------
(***************************************************************************)
(* The parts of the interpreter that a single frame is made of, each       *)
(* checked on its own: part says which of them a behaviour is about, the   *)
(* others stay as they are initially.  Jump destinations and memory        *)
(* (Interpreter) and the arithmetic of words are extended here.            *)
(***************************************************************************)
EXTENDS Interpreter, Arithmetic

CONSTANTS
  StackLimit, poolLimit, MaxFrames   \* Machine

VARIABLES
  part,          \* what is checked
  frames, pool   \* Machine

\* PUSH2, 7, 8, 9 or 32 at the start or before the border of a byte of the
\* bitmap; a PUSH1 inside its argument or before it; a PUSH9 cut off by the end.
PushCodes ==
  {[p \in 1..12 |-> CASE p = a -> x [] p = 3 -> 96 [] p = 12 -> 104 [] OTHER -> 91] :
     a \in {1, 8}, x \in {97, 102, 103, 104, 127}}

\* JUMPDEST; PUSH1 with argument 5b; PUSH32 with its argument and JUMPDESTs, the
\* last of which is beyond the bitmap of a program shorter than eight bytes.
MCCodes == PushCodes \cup {<<91>>, <<96, 91>>, [p \in 1..41 |-> IF p = 1 THEN 127 ELSE 91]}

MCDests == {0, 1, 2, 3, 8, 9, 10, 11, 12, 40}

S == INSTANCE Machine

stackVars == <<frames, pool>>
vars == <<part, jumpVars, stackVars, memoryVars, arg>>

MaxGas == CHOOSE g \in GasLimits : \A h \in GasLimits : g >= h

Init ==
  /\ part \in {"jump", "stack", "memory", "words"}
  /\ JumpInit
  /\ S!Init
  /\ MemoryInit
  /\ part # "memory" => gas = MaxGas
  /\ WordsInit
  /\ part # "words" => arg = <<0, 0, 0>>

Jump == part = "jump" /\ JumpNext /\ UNCHANGED <<part, stackVars, memoryVars, arg>>
Stack == part = "stack" /\ S!Next /\ UNCHANGED <<part, jumpVars, memoryVars, arg>>
Store == part = "memory" /\ MemoryNext /\ UNCHANGED <<part, jumpVars, stackVars, arg>>

Next == Jump \/ Stack \/ Store

Spec == Init /\ [][Next]_vars

-----------------------------------------------------------------------------
(* One frame: no integer is in use twice or written to while it is in the  *)
(* pool, the pool outgrows its limit by the operands of one opcode at      *)
(* most, no opcode reads below the stack or grows it beyond its limit, and *)
(* memory is accessed only where the opcode's memory function saw it.      *)
MachineSafe == part = "stack" => S!MachineSafe
=============================================================================
