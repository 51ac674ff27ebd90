------------------------------ MODULE FuzzInt ------------------------------
(***************************************************************************)
(* detectors: the storage fuzzer.  ContractUtils (contractutils.go)        *)
(* compiles and deploys the contracts of a file and locates the storage of *)
(* their getters; FuzzInt (fuzzint.go) then mutates that storage, calls    *)
(* every method with random input, and reports a call that returned        *)
(* without error while the main contract carries an overflow taint.        *)
(*                                                                         *)
(* The EVM call is its outcome (Execution): ContractUtils runs the EVM     *)
(* with NoRecursion, so the storage of the called contract and the logs    *)
(* are all the fuzzer reads that can change (CallLocal in EVM), and        *)
(* RevertToSnapshot undoes neither when the call fails.  A contract is its *)
(* own address.  The user interface is left out.                           *)
(***************************************************************************)
EXTENDS StateDB, FiniteSets

CONSTANTS
  Creater,            \* cu.ContractCreater
  Contracts,          \* contracts in the compiler's output
  Bare,               \* those of them with an empty Bin: interfaces, abstract contracts
  Size,               \* number of methods and events of each contract
  None,               \* nil: no main contract, no backup yet
  Methods,            \* methods of the main contract
  Const,              \* those of them that are constant
  Getters,            \* parameterless numeric ones that are not skipped
  Values,             \* words written to storage
  PC,                 \* program counter of the overflowing instruction
  Topics,             \* topics of logs
  StorageMutateNum, MaxRuns,
  ReportLimit         \* reports of a method after which it is left (5)

ASSUME FuzzAssumption ==
  /\ Addr = Contracts \cup {Creater} /\ Creater \notin Contracts /\ None \notin Addr
  /\ Bare \subseteq Contracts
  /\ Size \in [Contracts -> Nat]
  /\ Slots \cap ArithOps = {}
  /\ Getters \subseteq Const /\ Const \subseteq Methods /\ IsFiniteSet(Methods)
  /\ Values \subseteq Nat /\ PC \in Nat \ {0}
  /\ StorageMutateNum \in Nat /\ MaxRuns \in Nat /\ ReportLimit \in Nat

VARIABLES
  db,            \* cu.state
  stateBackup,   \* cu.stateBackup
  deep,          \* whether copier.Copy copies maps (external library)
  phase,         \* control state
  todo,          \* contracts to deploy, getters to probe, methods to fuzz
  MainContract,  \* cu.MainContract, or None
  ok,            \* history: contracts deployed with a readable ABI
  constantsLoc,  \* storage slots found by TouchSload
  i, j,          \* loop counters of FuzzContracts
  err,           \* err of the last call
  found,         \* overflowStateExist
  attackVectorCnt,
  rows,          \* rows written to the buffered log; each says whether its own call overflowed
  disk,          \* how many of them have reached the file
  own,           \* history: the last call overflowed
  ever,          \* history: the main contract overflowed at some time
  due            \* history: calls that overflowed and returned without error

deployVars == <<MainContract, ok, constantsLoc, deep>>
loopVars == <<i, j, attackVectorCnt>>
callVars == <<err, found, own, ever, due>>
logVars == <<rows, disk>>
vars == <<db, stateBackup, phase, todo, deployVars, loopVars, callVars, logVars>>

\* Run returns at once, with nil, when there is no code.
Inert(c, ops, failed) == c \in Bare => ops = {} /\ ~failed

\* What a call of contract c can do: d after writes to its slots, a log, and
\* overflows of the opcodes in ops; without code only the transfer.
Execution(d, c, ops) ==
  LET paid == Transfer(GetBalanceEffect(d, Creater), Creater, c, 0)
      cells == [k \in Keys |-> IF k \in ops THEN PC ELSE GetState(paid, c, k)]
      taken == [paid EXCEPT !.StateMap[c].storage = cells]
      wrote == {taken} \cup {SetState(taken, c, p[1], p[2]) : p \in Slots \X Values}
  IN IF c \in Bare THEN {paid} ELSE wrote \cup {AddLog(p[1], p[2]) : p \in wrote \X Topics}

CheckOverflowStorage(d) == \E op \in ArithOps : GetState(d, MainContract, op) # 0

\* copier.Copy(to, from): always the slice of logs; the map of accounts is
\* copied, or shared by the two from then on.
Copy(to, from) == IF deep THEN from ELSE [to EXCEPT !.Logs = from.Logs]

Init ==
  /\ db = SetNonce(AddBalance(New, Creater, 100), Creater, 20)
  /\ stateBackup = None
  /\ deep \in BOOLEAN
  /\ phase = "deploy"
  \* solc failed, or its output lists the contracts
  /\ todo \in {{}, Contracts}
  /\ MainContract = None /\ ok = {} /\ constantsLoc = {}
  /\ i = 0 /\ j = 0 /\ attackVectorCnt = 0
  /\ err = FALSE /\ found = FALSE /\ own = FALSE /\ ever = FALSE /\ due = 0
  /\ rows = <<>> /\ disk = 0

-----------------------------------------------------------------------------
\* methodsandeventscount.
Best == IF MainContract = None THEN 0 ELSE Size[MainContract]

\* The code a constructor leaves.
CodeOf(c) == IF c \in Bare THEN 0 ELSE 1

\* DeployContracts, one iteration over the compiler's output (a Go map, so in
\* any order): Create runs the constructor, if there is one, and sets the code; an
\* error of Create or an unreadable ABI skips the contract; a contract with strictly
\* more methods and events than every one before becomes the main contract, also
\* one that has no code.
DeployContract ==
  /\ phase = "deploy"
  /\ \E c \in todo, ops \in SUBSET ArithOps, created \in BOOLEAN, readable \in BOOLEAN :
       LET success == created /\ readable
           n == GetNonce(db, Creater)
           born == SetNonce(CreateAccount(SetNonce(db, Creater, n + 1), c), c, 1)
       IN /\ Inert(c, ops, ~created)
          /\ \E d \in Execution(born, c, ops) :
               db' = AddBalance(IF created THEN SetCode(d, c, CodeOf(c)) ELSE d, c, 100)
          /\ ok' = IF success THEN ok \cup {c} ELSE ok
          /\ IF success /\ Size[c] > Best
             THEN MainContract' = c /\ ever' = (ops # {})
             ELSE UNCHANGED <<MainContract, ever>>
          /\ todo' = todo \ {c}
  /\ UNCHANGED <<stateBackup, deep, phase, constantsLoc, loopVars, err, found, own, due, logVars>>

Deployed ==
  /\ phase = "deploy" /\ todo = {}
  /\ phase' = "probe"
  /\ todo' = IF MainContract = None THEN {} ELSE Getters
  /\ UNCHANGED <<db, stateBackup, deployVars, loopVars, callVars, logVars>>

\* GetStorageLoc and TouchSload: call a getter, note the first slot it loads (the
\* zero slot when it loads none).
\* The call is neither backed up nor restored.
TouchSload ==
  /\ phase = "probe"
  /\ \E g \in todo, ops \in SUBSET ArithOps, loc \in Slots :
       /\ Inert(MainContract, ops, FALSE)
       /\ db' \in Execution(db, MainContract, ops)
       /\ ever' = (ever \/ ops # {})
       /\ constantsLoc' = constantsLoc \cup {loc}
       /\ todo' = todo \ {g}
  /\ UNCHANGED <<stateBackup, deep, phase, MainContract, ok, loopVars, err, found, own, due, logVars>>

\* FuzzContracts starts: log.Panic when the log file cannot be created.
StartFuzz ==
  /\ phase = "probe" /\ todo = {}
  /\ phase' \in {"method", "panic"}
  /\ todo' = IF MainContract = None THEN {} ELSE Methods
  /\ UNCHANGED <<db, stateBackup, deployVars, loopVars, callVars, logVars>>

-----------------------------------------------------------------------------
\* The loops of FuzzContracts.

NextMethod ==
  /\ phase = "method"
  /\ \E m \in todo : todo' = todo \ {m} /\ phase' = IF m \in Const THEN "method" ELSE "mutate"
  /\ IF phase' = "mutate" THEN i' = 0 /\ attackVectorCnt' = 0 ELSE UNCHANGED <<i, attackVectorCnt>>
  /\ UNCHANGED <<db, stateBackup, deployVars, j, callVars, logVars>>

\* No final w.Flush: what is still buffered is lost.
FuzzDone ==
  /\ phase = "method" /\ todo = {}
  /\ phase' = "done"
  /\ UNCHANGED <<db, stateBackup, todo, deployVars, loopVars, callVars, logVars>>

FuzzStorage ==
  /\ phase = "mutate" /\ i < StorageMutateNum
  /\ \E val \in [constantsLoc -> Values] :
       db' = [db EXCEPT !.StateMap[MainContract].storage =
                [k \in Keys |-> IF k \in constantsLoc THEN val[k] ELSE @[k]]]
  /\ j' = 0
  /\ phase' = "run"
  /\ UNCHANGED <<stateBackup, todo, deployVars, i, attackVectorCnt, callVars, logVars>>

MutationsDone ==
  /\ phase = "mutate" /\ i = StorageMutateNum
  /\ phase' = "method"
  /\ UNCHANGED <<db, stateBackup, todo, deployVars, loopVars, callVars, logVars>>

RunsDone ==
  /\ phase = "run" /\ j = MaxRuns
  /\ i' = i + 1
  /\ phase' = "mutate"
  /\ UNCHANGED <<db, stateBackup, todo, deployVars, j, attackVectorCnt, callVars, logVars>>

BackupStates ==
  /\ phase = "run" /\ j < MaxRuns
  /\ stateBackup' = Copy(New, db)
  /\ phase' = "call"
  /\ UNCHANGED <<db, todo, deployVars, loopVars, callVars, logVars>>

Call ==
  /\ phase = "call"
  /\ \E ops \in SUBSET ArithOps :
       /\ db' \in Execution(db, MainContract, ops)
       /\ err' \in BOOLEAN /\ Inert(MainContract, ops, err')
       /\ own' = (ops # {})
       /\ ever' = (ever \/ own')
       /\ due' = IF own' /\ ~err' THEN due + 1 ELSE due
  /\ phase' = "check"
  /\ UNCHANGED <<stateBackup, todo, deployVars, loopVars, found, logVars>>

\* A faulty variant of CheckAndRestore: restores before it checks.
RestoreAndCheck ==
  /\ phase = "check"
  /\ db' = Copy(db, stateBackup)
  /\ found' = CheckOverflowStorage(db')
  /\ phase' = "report"
  /\ UNCHANGED <<stateBackup, todo, deployVars, loopVars, err, own, ever, due, logVars>>

\* CheckOverflowStorage, then RestoreStates.
CheckAndRestore ==
  /\ phase = "check"
  /\ found' = CheckOverflowStorage(db)
  /\ db' = Copy(db, stateBackup)
  /\ phase' = "report"
  /\ UNCHANGED <<stateBackup, todo, deployVars, loopVars, err, own, ever, due, logVars>>

\* GenTable writes to a bufio.Writer, which passes on what does not fit; one
\* report too many flushes it and leaves the method.
Report ==
  /\ phase = "report"
  /\ LET hit == ~err /\ found
     IN /\ rows' = IF hit THEN Append(rows, own) ELSE rows
        /\ attackVectorCnt' = IF hit THEN attackVectorCnt + 1 ELSE attackVectorCnt
  /\ IF attackVectorCnt' > ReportLimit
     THEN disk' = Len(rows') /\ phase' = "method" /\ UNCHANGED j
     ELSE disk' \in disk..Len(rows') /\ phase' = "run" /\ j' = j + 1
  /\ UNCHANGED <<db, stateBackup, todo, deployVars, i, callVars>>

Next ==
  \/ DeployContract \/ Deployed \/ TouchSload \/ StartFuzz
  \/ NextMethod \/ FuzzDone \/ FuzzStorage \/ MutationsDone \/ RunsDone
  \/ BackupStates \/ Call \/ CheckAndRestore \/ Report

\* One goroutine that keeps running; every call of the EVM returns.
Spec == Init /\ [][Next]_vars /\ WF_vars(Next)

-----------------------------------------------------------------------------
\* Type correctness of the fuzzer's state.
TypeOK ==
  /\ db.StateMap \in [Addr -> State] /\ db.Logs \in Seq(Topics)
  /\ phase \in {"deploy", "probe", "method", "mutate", "run", "call", "check",
                "report", "done", "panic"}
  /\ MainContract \in Contracts \cup {None} /\ constantsLoc \subseteq Slots
  /\ i \in 0..StorageMutateNum /\ j \in 0..MaxRuns
  /\ attackVectorCnt \in 0..(ReportLimit + 1)
  /\ rows \in Seq(BOOLEAN) /\ disk \in 0..Len(rows)

\* In whatever order the Go map yields the contracts, and whichever of them
\* fail, the main contract is a largest deployed one, and there is one as soon
\* as a deployed contract has a method or an event.  It has code unless it is an
\* interface or abstract: nothing makes the fuzzer prefer a contract that can run.
MainIsLargest ==
  phase # "deploy" =>
    /\ MainContract # None => /\ MainContract \in ok
                              /\ GetCode(db, MainContract) = 0 <=> MainContract \in Bare
    /\ \A c \in ok : Size[c] > 0 => MainContract # None /\ Size[c] <= Size[MainContract]

\* Nothing is missed: of the calls so far, each that overflowed and returned
\* without error has its row, although the state it left is rolled back
\* before the report.
OverflowsReported ==
  phase \notin {"check", "report"} => due = Cardinality({n \in DOMAIN rows : rows[n]})

\* Nothing is invented: there is no row unless the main contract overflowed
\* at some time.
ReportsJustified == rows # <<>> => ever

\* When the main contract has no code every call of a method returns without error,
\* and still none is reported: no taint of another contract gets into its storage,
\* although databases are backed up and restored as a whole.
NoCodeNoReport == MainContract \in Bare => rows = <<>> /\ ~found

\* A taint that was there when a run was backed up outlives the run, and when
\* backups share the account map so does the taint of every call, failed or
\* not: from then on each call without error is reported.
TaintSticks ==
  /\ ~deep /\ ever => CheckOverflowStorage(db)
  /\ deep /\ stateBackup # None /\ CheckOverflowStorage(stateBackup) => CheckOverflowStorage(db)

\* Rows lost at the end: the method that reached the report limit has all
\* rows written so far on disk, and every other method loses at most ReportLimit.
LossBounded ==
  /\ attackVectorCnt > ReportLimit => disk = Len(rows)
  /\ Len(rows) - disk <= ReportLimit * Cardinality(Methods \ Const)

\* The fuzzer ends.
Terminates == <>(phase \in {"done", "panic"})

\* fuzzint.go:22: "if we get a Overflow Event without revert, overflow
\* detected": a reported call overflowed itself.
ReportedCallOverflowed == \A k \in 1..Len(rows) : rows[k]

\* The fuzzer picks the right contract, reports the overflows it saw and no
\* others, and loses no more of its report than the limit.
FuzzerSound ==
  /\ TypeOK /\ MainIsLargest
  /\ OverflowsReported /\ ReportsJustified /\ NoCodeNoReport /\ TaintSticks /\ LossBounded
=============================================================================
