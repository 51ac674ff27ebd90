------------------------------ MODULE StateDB ------------------------------
(***************************************************************************)
(* core/state/statedb.go: the in-memory state database.  A database is a   *)
(* value [StateMap, Logs]; every method is an operator from a database to  *)
(* the database it leaves behind (plus a getter where it returns a value). *)
(*                                                                         *)
(* An address without an entry in the Go map is the record Blank with      *)
(* present = FALSE: every getter answers the zero value for it, exactly as *)
(* the code does.  Code is abstracted to its length (0 = nil), a log to    *)
(* its first topic.  codeHash is not a field: no method ever assigns it.   *)
(***************************************************************************)
EXTENDS Integers, Sequences

CONSTANTS Addr,      \* account addresses
          Slots,     \* storage slots a contract's own SSTOREs use
          ArithOps   \* opcodes whose overflow is recorded: subset of {"Add","Sub","Mul","Div"}

\* Storage keys: ordinary slots and one taint cell per arithmetic opcode
\* ("Nyanpass. Overflow detected: Add" and its siblings).
Keys == Slots \cup ArithOps

Blank == [present |-> FALSE, balance |-> 0, nonce |-> 0, code |-> 0,
          isSuicide |-> FALSE, storage |-> [k \in Keys |-> 0]]

NewState == [Blank EXCEPT !.present = TRUE]

New == [StateMap |-> [a \in Addr |-> Blank], Logs |-> <<>>]

State == [present : BOOLEAN, balance : Int, nonce : Nat, code : Nat,
          isSuicide : BOOLEAN, storage : [Keys -> Nat]]

\* The "if _, ok := StateMap[addr]; !ok { StateMap[addr] = &State{...} }"
\* prologue shared by the writers and by GetState and HasSuicided.
Touch(d, a) ==
  IF d.StateMap[a].present THEN d ELSE [d EXCEPT !.StateMap[a] = NewState]

CreateAccount(d, a) == [d EXCEPT !.StateMap[a] = NewState]

SubBalance(d, a, v) ==
  IF d.StateMap[a].present THEN [d EXCEPT !.StateMap[a].balance = @ - v] ELSE d

AddBalance(d, a, v) == [Touch(d, a) EXCEPT !.StateMap[a].balance = @ + v]

\* GetBalance first adds 100 to the account it reads: the effect of a read.
GetBalanceEffect(d, a) == AddBalance(d, a, 100)

GetNonce(d, a) == d.StateMap[a].nonce

SetNonce(d, a, n) == [Touch(d, a) EXCEPT !.StateMap[a].nonce = n]

GetCode(d, a) == d.StateMap[a].code

SetCode(d, a, c) == [Touch(d, a) EXCEPT !.StateMap[a].code = c]

GetState(d, a, k) == d.StateMap[a].storage[k]

SetState(d, a, k, v) == [Touch(d, a) EXCEPT !.StateMap[a].storage[k] = v]

Suicide(d, a) == [Touch(d, a) EXCEPT !.StateMap[a].isSuicide = TRUE]

HasSuicidedEffect(d, a) == Touch(d, a)

\* Empty and Exist answer TRUE for every address.
Empty(d, a) == TRUE

AddLog(d, topic) == [d EXCEPT !.Logs = Append(@, topic)]

\* RevertToSnapshot discards its argument and changes nothing.
RevertToSnapshot(d, snapshot) == d

\* core/evm.go: Transfer.  (CanTransfer is GetBalanceEffect and a comparison.)
Transfer(d, from, to, v) == AddBalance(SubBalance(d, from, v), to, v)

CanTransfer(d, a, v) == GetBalanceEffect(d, a).StateMap[a].balance >= v
=============================================================================
