--------------------------- MODULE FuzzInt_proofs ---------------------------
(***************************************************************************)
(* Proof that the fuzzer reports every overflow it saw and no others,      *)
(* picks the right contract and loses a bounded part of its report, for    *)
(* all values of the constants and for both kinds of copy.                 *)
(***************************************************************************)
EXTENDS FuzzInt, FiniteSetTheorems, TLAPS

-----------------------------------------------------------------------------
\* Databases.

DB == [StateMap : [Addr -> State], Logs : Seq(Topics)]

\* Accounts that are present in d keep their code and storage in e.
Keeps(d, e) ==
  \A a \in Addr : d.StateMap[a].present =>
    /\ e.StateMap[a].present
    /\ e.StateMap[a].code = d.StateMap[a].code
    /\ e.StateMap[a].storage = d.StateMap[a].storage

\* Replacing one account leaves the other accounts alone.
LEMMA Put ==
  ASSUME NEW d \in DB, NEW a \in Addr, NEW s \in State
  PROVE  LET e == [d EXCEPT !.StateMap[a] = s]
         IN  /\ e \in DB /\ e.StateMap[a] = s
             /\ \A b \in Addr \ {a} : e.StateMap[b] = d.StateMap[b]
<1>1. [d EXCEPT !.StateMap[a] = s]
        = [StateMap |-> [d.StateMap EXCEPT ![a] = s], Logs |-> d.Logs]
  BY DEF DB
<1>2. d.StateMap \in [Addr -> State] /\ d.Logs \in Seq(Topics)
  BY Zenon DEF DB
<1> QED
  BY <1>1, <1>2, Zenon DEF DB

\* The zero account and the account the writers create are accounts.
LEMMA BlankType ==
  /\ Blank \in State /\ NewState \in State
  /\ NewState.present /\ NewState.storage = [k \in Keys |-> 0]
<1>1. [k \in Keys |-> 0] \in [Keys -> Nat]
  BY Zenon
<1>2. Blank \in State
  BY <1>1 DEF Blank, State
<1>3. NewState \in State
  BY <1>2, Zenon DEF NewState, State
<1> QED
  BY <1>2, <1>3, Zenon DEF NewState, Blank

\* The prologue of the writers creates a missing account and nothing else.
LEMMA TouchKeeps ==
  ASSUME NEW d \in DB, NEW a \in Addr
  PROVE  LET t == Touch(d, a) IN t \in DB /\ Keeps(d, t) /\ t.StateMap[a].present
<1>1. CASE d.StateMap[a].present
  BY <1>1, Zenon DEF Touch, Keeps
<1>2. CASE ~d.StateMap[a].present
  <2>1. PICK t : t = [d EXCEPT !.StateMap[a] = NewState]
    BY Zenon
  <2>2. t \in DB /\ t.StateMap[a] = NewState /\ \A b \in Addr \ {a} : t.StateMap[b] = d.StateMap[b]
    BY <2>1, Put, BlankType
  <2>3. Keeps(d, t)
    BY <1>2, <2>2, Zenon DEF Keeps
  <2> QED
    BY <1>2, <2>1, <2>2, <2>3, BlankType, Zenon DEF Touch
<1> QED
  BY <1>1, <1>2, Zenon

\* An account whose present flag, code and storage stay is kept.
LEMMA PutKeeps ==
  ASSUME NEW d \in DB, NEW a \in Addr, NEW s \in State,
         s.present = d.StateMap[a].present, s.code = d.StateMap[a].code,
         s.storage = d.StateMap[a].storage
  PROVE  LET e == [d EXCEPT !.StateMap[a] = s] IN e \in DB /\ Keeps(d, e)
BY Put DEF Keeps

\* Two changes that keep accounts keep them together.
LEMMA KeepsTrans ==
  ASSUME NEW d, NEW e, NEW f, Keeps(d, e), Keeps(e, f)
  PROVE  Keeps(d, f)
BY Zenon DEF Keeps

\* AddBalance keeps code and storage, also where it creates the account.
LEMMA AddBalanceKeeps ==
  ASSUME NEW d \in DB, NEW a \in Addr, NEW v \in Int
  PROVE  LET e == AddBalance(d, a, v) IN e \in DB /\ Keeps(d, e)
<1>1. PICK t : t = Touch(d, a)
  BY Zenon
<1>2. t \in DB /\ Keeps(d, t)
  BY <1>1, TouchKeeps, Zenon
<1>3. PICK s : s = t.StateMap[a]
  BY Zenon
<1>4. s \in State
  BY <1>2, <1>3, Zenon DEF DB
<1>5. PICK u : u = [s EXCEPT !.balance = s.balance + v]
  BY Zenon
<1>6. u \in State /\ u.present = s.present /\ u.code = s.code /\ u.storage = s.storage
  BY <1>4, <1>5 DEF State
<1>7. AddBalance(d, a, v) = [t EXCEPT !.StateMap[a] = u]
  BY <1>1, <1>2, <1>3, <1>5, Zenon DEF AddBalance, DB, State
<1> QED
  BY <1>2, <1>3, <1>6, <1>7, PutKeeps, KeepsTrans

\* So does SubBalance.
LEMMA SubBalanceKeeps ==
  ASSUME NEW d \in DB, NEW a \in Addr, NEW v \in Int
  PROVE  LET e == SubBalance(d, a, v) IN e \in DB /\ Keeps(d, e)
<1>1. CASE ~d.StateMap[a].present
  BY <1>1, Zenon DEF SubBalance, Keeps
<1>2. CASE d.StateMap[a].present
  <2>1. PICK s : s = d.StateMap[a]
    BY Zenon
  <2>2. s \in State
    BY <2>1, Zenon DEF DB
  <2>3. PICK u : u = [s EXCEPT !.balance = s.balance - v]
    BY Zenon
  <2>4. u \in State /\ u.present = s.present /\ u.code = s.code /\ u.storage = s.storage
    BY <2>2, <2>3 DEF State
  <2>5. SubBalance(d, a, v) = [d EXCEPT !.StateMap[a] = u]
    BY <1>2, <2>1, <2>3, Zenon DEF SubBalance, DB, State
  <2> QED
    BY <2>1, <2>4, <2>5, PutKeeps
<1> QED
  BY <1>1, <1>2, Zenon

\* So does SetNonce.
LEMMA SetNonceKeeps ==
  ASSUME NEW d \in DB, NEW a \in Addr, NEW n \in Nat
  PROVE  LET e == SetNonce(d, a, n) IN e \in DB /\ Keeps(d, e)
<1>1. PICK t : t = Touch(d, a)
  BY Zenon
<1>2. t \in DB /\ Keeps(d, t)
  BY <1>1, TouchKeeps, Zenon
<1>3. PICK s : s = t.StateMap[a]
  BY Zenon
<1>4. s \in State
  BY <1>2, <1>3, Zenon DEF DB
<1>5. PICK u : u = [s EXCEPT !.nonce = n]
  BY Zenon
<1>6. u \in State /\ u.present = s.present /\ u.code = s.code /\ u.storage = s.storage
  BY <1>4, <1>5, Zenon DEF State
<1>7. SetNonce(d, a, n) = [t EXCEPT !.StateMap[a] = u]
  BY <1>1, <1>2, <1>3, <1>5, Zenon DEF SetNonce, DB, State
<1> QED
  BY <1>2, <1>3, <1>6, <1>7, PutKeeps, KeepsTrans

\* CreateAccount empties the account it is given and no other.
LEMMA CreateAccountEmpties ==
  ASSUME NEW d \in DB, NEW a \in Addr
  PROVE  LET e == CreateAccount(d, a)
         IN  /\ e \in DB /\ e.StateMap[a] = NewState
             /\ \A b \in Addr \ {a} : e.StateMap[b] = d.StateMap[b]
BY Put, BlankType DEF CreateAccount

\* SetCode of an account that is present leaves its storage alone.
LEMMA SetCodeOnly ==
  ASSUME NEW d \in DB, NEW a \in Addr, NEW n \in Nat, d.StateMap[a].present
  PROVE  LET e == SetCode(d, a, n)
         IN  /\ e \in DB /\ e.StateMap[a].present /\ e.StateMap[a].code = n
             /\ e.StateMap[a].storage = d.StateMap[a].storage
             /\ \A b \in Addr \ {a} : e.StateMap[b] = d.StateMap[b]
<1>1. PICK s : s = d.StateMap[a]
  BY Zenon
<1>2. s \in State
  BY <1>1, Zenon DEF DB
<1>3. PICK u : u = [s EXCEPT !.code = n]
  BY Zenon
<1>4. u \in State /\ u.present = s.present /\ u.code = n /\ u.storage = s.storage
  BY <1>2, <1>3, Zenon DEF State
<1>5. SetCode(d, a, n) = [d EXCEPT !.StateMap[a] = u]
  BY <1>1, <1>3, Zenon DEF SetCode, Touch, DB, State
<1> QED
  BY <1>1, <1>4, <1>5, Put

\* Replacing the storage of one account.
LEMMA PutStorage ==
  ASSUME NEW d \in DB, NEW a \in Addr, NEW st \in [Keys -> Nat]
  PROVE  LET e == [d EXCEPT !.StateMap[a].storage = st]
         IN  /\ e \in DB /\ e.StateMap[a].present = d.StateMap[a].present
             /\ e.StateMap[a].code = d.StateMap[a].code
             /\ e.StateMap[a].storage = st
             /\ \A b \in Addr \ {a} : e.StateMap[b] = d.StateMap[b]
<1>1. PICK s : s = d.StateMap[a]
  BY Zenon
<1>2. s \in State
  BY <1>1, Zenon DEF DB
<1>3. PICK u : u = [s EXCEPT !.storage = st]
  BY Zenon
<1>4. u \in State /\ u.present = s.present /\ u.code = s.code /\ u.storage = st
  BY <1>2, <1>3, Zenon DEF State
<1>5. [d EXCEPT !.StateMap[a].storage = st] = [d EXCEPT !.StateMap[a] = u]
  BY <1>1, <1>3, Zenon DEF DB, State
<1> QED
  BY <1>1, <1>4, <1>5, Put

\* SetState changes one cell of an account that is present.
LEMMA SetStateOnly ==
  ASSUME NEW d \in DB, NEW a \in Addr, NEW k \in Keys, NEW v \in Nat, d.StateMap[a].present
  PROVE  LET e == SetState(d, a, k, v)
         IN  /\ e \in DB /\ e.StateMap[a].present
             /\ e.StateMap[a].code = d.StateMap[a].code
             /\ e.StateMap[a].storage = [d.StateMap[a].storage EXCEPT ![k] = v]
             /\ \A b \in Addr \ {a} : e.StateMap[b] = d.StateMap[b]
<1>1. PICK st : st = [d.StateMap[a].storage EXCEPT ![k] = v]
  BY Zenon
<1>2. d.StateMap[a] \in State
  BY Zenon DEF DB
<1>3. st \in [Keys -> Nat]
  BY <1>1, <1>2, Zenon DEF State
<1>4. SetState(d, a, k, v) = [d EXCEPT !.StateMap[a].storage = st]
  BY <1>1, <1>2, Zenon DEF SetState, Touch, DB, State
<1> QED
  BY <1>1, <1>3, <1>4, PutStorage

\* AddLog leaves the accounts alone.
LEMMA AddLogKeeps ==
  ASSUME NEW d \in DB, NEW t \in Topics
  PROVE  AddLog(d, t) \in DB /\ AddLog(d, t).StateMap = d.StateMap
<1>1. AddLog(d, t) \in DB
  BY SMTT(30) DEF AddLog, DB
<1>2. AddLog(d, t).StateMap = d.StateMap
  BY Zenon DEF AddLog, DB
<1> QED
  BY <1>1, <1>2, Zenon

-----------------------------------------------------------------------------
\* Calls.

\* The taint cells that a call of c which overflows in ops leaves, and nothing
\* else of what the fuzzer reads later.
Called(d, e, c, ops) ==
  /\ e.StateMap[c].present
  /\ e.StateMap[c].code = d.StateMap[c].code
  /\ \A op \in ArithOps :
       e.StateMap[c].storage[op] = IF op \in ops THEN PC ELSE d.StateMap[c].storage[op]
  /\ \A b \in Addr \ {c} : d.StateMap[b].present =>
       /\ e.StateMap[b].present
       /\ e.StateMap[b].code = d.StateMap[b].code
       /\ e.StateMap[b].storage = d.StateMap[b].storage

\* What every execution of a contract that is present leaves.
LEMMA ExecutionCalls ==
  ASSUME NEW d \in DB, NEW c \in Contracts, NEW ops \in SUBSET ArithOps,
         NEW failed, Inert(c, ops, failed),
         d.StateMap[c].present, NEW e \in Execution(d, c, ops)
  PROVE  e \in DB /\ Called(d, e, c, ops)
<1>0. c \in Addr /\ Creater \in Addr /\ 0 \in Int /\ 100 \in Int
  BY FuzzAssumption
<1> DEFINE paid == Transfer(GetBalanceEffect(d, Creater), Creater, c, 0)
           cells == [k \in Keys |-> IF k \in ops THEN PC ELSE GetState(paid, c, k)]
           taken == [paid EXCEPT !.StateMap[c].storage = cells]
           wrote == {taken} \cup {SetState(taken, c, p[1], p[2]) : p \in Slots \X Values}
<1>1. Execution(d, c, ops) = IF c \in Bare THEN {paid} ELSE wrote \cup {AddLog(p[1], p[2]) : p \in wrote \X Topics}
  BY Zenon DEF Execution
<1> HIDE DEF wrote, taken, cells, paid
<1>2. paid \in DB /\ Keeps(d, paid)
  <2>1. PICK d1 : d1 = GetBalanceEffect(d, Creater)
    BY Zenon
  <2>2. d1 \in DB /\ Keeps(d, d1)
    BY <1>0, <2>1, AddBalanceKeeps DEF GetBalanceEffect
  <2>3. PICK d2 : d2 = SubBalance(d1, Creater, 0)
    BY Zenon
  <2>4. d2 \in DB /\ Keeps(d1, d2)
    BY <1>0, <2>2, <2>3, SubBalanceKeeps, Zenon
  <2>5. paid = AddBalance(d2, c, 0)
    BY <2>1, <2>3, Zenon DEF Transfer, paid
  <2>6. paid \in DB /\ Keeps(d2, paid)
    BY <1>0, <2>4, <2>5, AddBalanceKeeps, Zenon
  <2>7. Keeps(d, d2)
    BY <2>2, <2>4, KeepsTrans, Zenon
  <2> QED
    BY <2>6, <2>7, KeepsTrans, Zenon
<1>4. /\ paid.StateMap[c].present /\ paid.StateMap[c].code = d.StateMap[c].code
      /\ paid.StateMap[c].storage = d.StateMap[c].storage
      /\ paid.StateMap[c].storage \in [Keys -> Nat]
  BY <1>0, <1>2, Zenon DEF Keeps, DB, State
<1>4a. CASE c \in Bare
  <2>1. e = paid /\ ops = {}
    BY <1>1, <1>4a, Zenon DEF Inert
  <2> QED
    BY <1>2, <1>4, <2>1, Zenon DEF Called, Keeps
<1>5. cells \in [Keys -> Nat]
  BY <1>4, FuzzAssumption, Zenon DEF GetState, cells
<1>7. /\ taken \in DB /\ taken.StateMap[c].present
      /\ taken.StateMap[c].code = d.StateMap[c].code
      /\ taken.StateMap[c].storage = cells
      /\ \A b \in Addr \ {c} : taken.StateMap[b] = paid.StateMap[b]
  BY <1>0, <1>2, <1>4, <1>5, PutStorage DEF taken
<1>8. Called(d, taken, c, ops)
  BY <1>2, <1>4, <1>7 DEF Called, Keeps, Keys, GetState, cells
<1>9. \A w \in wrote : w = taken \/ \E k \in Slots, v \in Values : w = SetState(taken, c, k, v)
  BY Zenon DEF wrote
<1>10. ASSUME c \notin Bare
       PROVE  e \in wrote \/ \E w \in wrote, t \in Topics : e = AddLog(w, t)
  <2>1. e \in wrote \cup {AddLog(p[1], p[2]) : p \in wrote \X Topics}
    BY <1>1, <1>10, Zenon
  <2> QED
    BY <2>1, Zenon
<1>11. ASSUME NEW w \in wrote
       PROVE  w \in DB /\ Called(d, w, c, ops)
  <2>1. CASE w = taken
    BY <1>7, <1>8, <2>1, Zenon
  <2>2. ASSUME NEW k \in Slots, NEW v \in Values, w = SetState(taken, c, k, v)
        PROVE  w \in DB /\ Called(d, w, c, ops)
    <3>1. k \in Keys /\ k \notin ArithOps /\ v \in Nat
      BY FuzzAssumption, Zenon DEF Keys
    <3>2. /\ w \in DB /\ w.StateMap[c].present
          /\ w.StateMap[c].code = taken.StateMap[c].code
          /\ w.StateMap[c].storage = [taken.StateMap[c].storage EXCEPT ![k] = v]
          /\ \A b \in Addr \ {c} : w.StateMap[b] = taken.StateMap[b]
      BY <1>0, <1>7, <2>2, <3>1, SetStateOnly
    <3>3. \A op \in ArithOps : w.StateMap[c].storage[op] = taken.StateMap[c].storage[op]
      BY <1>5, <1>7, <3>1, <3>2, Zenon DEF Keys
    <3> QED
      BY <1>8, <3>2, <3>3 DEF Called
  <2> QED
    BY <1>9, <2>1, <2>2, Zenon
<1>12. ASSUME NEW w \in wrote, NEW t \in Topics, e = AddLog(w, t)
       PROVE  e \in DB /\ Called(d, e, c, ops)
  <2>1. w \in DB /\ Called(d, w, c, ops)
    BY <1>11, Zenon
  <2>2. e \in DB /\ e.StateMap = w.StateMap
    BY <1>12, <2>1, AddLogKeeps, Zenon
  <2> QED
    BY <2>1, <2>2, Zenon DEF Called
<1> QED
  BY <1>4a, <1>10, <1>11, <1>12, Zenon

-----------------------------------------------------------------------------
\* The inductive invariant.

\* Contract m of d carries a taint (CheckOverflowStorage).
Tainted(d, m) == \E op \in ArithOps : d.StateMap[m].storage[op] # 0

\* Contract m of d was deployed.
Live(d, m) == d.StateMap[m].present /\ (d.StateMap[m].code = 0 <=> m \in Bare)

\* The phases before FuzzContracts, and those of its inner loops.
Early == {"deploy", "probe", "panic"}
Loops == {"mutate", "run", "call", "check", "report"}

\* The types.
Typed ==
  /\ db \in DB /\ deep \in BOOLEAN
  /\ phase \in Early \cup Loops \cup {"method", "done"}
  /\ MainContract \in Contracts \cup {None} /\ ok \subseteq Contracts
  /\ constantsLoc \subseteq Slots
  /\ i \in 0..StorageMutateNum /\ j \in 0..MaxRuns
  /\ attackVectorCnt \in 0..(ReportLimit + 1)
  /\ rows \in Seq(BOOLEAN) /\ disk \in 0..Len(rows) /\ due \in Nat
  /\ err \in BOOLEAN /\ found \in BOOLEAN /\ own \in BOOLEAN /\ ever \in BOOLEAN

\* The loop counters have not reached their bounds inside the loops.
Counted ==
  /\ phase \in Loops \ {"mutate"} => i < StorageMutateNum
  /\ phase \in {"call", "check", "report"} => j < MaxRuns
  /\ phase \in Loops => attackVectorCnt <= ReportLimit

\* What is left to do, and that only a main contract is fuzzed.
Pending ==
  /\ phase = "deploy" => todo \subseteq Contracts \ ok
  /\ phase = "probe" /\ todo # {} => MainContract # None
  /\ phase = "method" /\ todo # {} => MainContract # None
  /\ phase \in Loops => MainContract # None
  /\ phase \in Loops \cup {"method"} => todo \subseteq Methods

\* MainIsLargest, in every phase.
Largest ==
  /\ MainContract # None => MainContract \in ok /\ Live(db, MainContract)
  /\ \A c \in ok : Size[c] > 0 => MainContract # None /\ Size[c] <= Size[MainContract]

\* The backup of a deep copy is a database of the main contract, whose taints the
\* database has too.
Backed ==
  stateBackup # None \/ phase \in {"call", "check"} =>
    /\ MainContract # None /\ stateBackup \in DB
    /\ deep => Live(stateBackup, MainContract)
    /\ deep /\ Tainted(stateBackup, MainContract) => ever /\ Tainted(db, MainContract)

\* Where taints come from, and that without a deep copy they stay.
Taints ==
  /\ ever => MainContract # None /\ MainContract \notin Bare
  /\ MainContract # None /\ Tainted(db, MainContract) => ever
  /\ ~deep /\ ever => Tainted(db, MainContract)
  /\ found => ever
  /\ rows # <<>> => ever

\* The rows whose call overflowed.
Hits(r) == {n \in DOMAIN r : r[n]}

\* Every overflow of a call without error has its row, or is about to.
Reported ==
  /\ phase \notin {"check", "report"} => due = Cardinality(Hits(rows))
  /\ phase \in {"check", "report"} =>
       due = Cardinality(Hits(rows)) + (IF own /\ ~err THEN 1 ELSE 0)
  /\ phase = "check" /\ own => Tainted(db, MainContract)
  /\ phase = "report" /\ own => found

\* The methods that were begun.
Begun == Cardinality((Methods \ Const) \ todo)

\* Rows in the buffer: at most ReportLimit of each method that was begun.
Buffered ==
  /\ phase \in Early => rows = <<>> /\ disk = 0 /\ stateBackup = None /\ ~found
  /\ phase \in {"method", "done"} => Len(rows) - disk <= ReportLimit * Begun
  /\ phase \in Loops =>
       Begun \in Nat \ {0} /\ Len(rows) - disk <= ReportLimit * (Begun - 1) + attackVectorCnt
  /\ attackVectorCnt > ReportLimit => disk = Len(rows)

FInv ==
  /\ Typed /\ Counted /\ Pending /\ Largest
  /\ Backed /\ Taints /\ Reported /\ Buffered

\* A row more.
LEMMA HitsAppend ==
  ASSUME NEW r \in Seq(BOOLEAN), NEW b \in BOOLEAN
  PROVE  /\ Cardinality(Hits(r)) \in Nat
         /\ Cardinality(Hits(Append(r, b))) = Cardinality(Hits(r)) + (IF b THEN 1 ELSE 0)
<1>1. Hits(r) \subseteq 1..Len(r)
  BY DEF Hits
<1>2. IsFiniteSet(Hits(r))
  BY <1>1, FS_Interval, FS_Subset
<1>3. Cardinality(Hits(r)) \in Nat
  BY <1>2, FS_CardinalityType, Zenon
<1>4. Len(r) + 1 \notin Hits(r)
  BY <1>1
<1>5. Hits(Append(r, b)) = IF b THEN Hits(r) \cup {Len(r) + 1} ELSE Hits(r)
  <2>1. DOMAIN Append(r, b) = 1..(Len(r) + 1) /\ DOMAIN r = 1..Len(r) /\ Len(r) \in Nat
    OBVIOUS
  <2>2. Append(r, b)[Len(r) + 1] = b /\ \A n \in 1..Len(r) : Append(r, b)[n] = r[n]
    OBVIOUS
  <2> QED
    BY <2>1, <2>2 DEF Hits
<1>6. Cardinality(Hits(r) \cup {Len(r) + 1}) = Cardinality(Hits(r)) + 1
  BY <1>2, <1>4, FS_AddElement, Zenon
<1> QED
  BY <1>3, <1>5, <1>6

\* There are finitely many methods to begin.
LEMMA BegunType ==
  ASSUME NEW t
  PROVE  LET n == Cardinality((Methods \ Const) \ t)
         IN  n \in Nat /\ n <= Cardinality(Methods \ Const)
<1>1. IsFiniteSet(Methods \ Const)
  BY FuzzAssumption, FS_Subset, Zenon
<1> QED
  BY <1>1, FS_Subset, FS_CardinalityType, Zenon

\* Initially.
LEMMA InitInv == Init => FInv
<1> SUFFICES ASSUME Init PROVE FInv
  BY Zenon
<1>1. New \in DB
  <2>1. New.StateMap \in [Addr -> State]
    BY BlankType, Zenon DEF New
  <2>2. New.Logs \in Seq(Topics)
    BY DEF New
  <2> QED
    BY <2>1, <2>2, Zenon DEF New, DB
<1>2. Creater \in Addr /\ 100 \in Int /\ 20 \in Nat
  BY FuzzAssumption
<1>3. AddBalance(New, Creater, 100) \in DB
  BY <1>1, <1>2, AddBalanceKeeps, Zenon
<1>4. db \in DB
  BY <1>2, <1>3, SetNonceKeeps, Zenon DEF Init
<1>5. Typed
  <2>1. rows \in Seq(BOOLEAN) /\ disk \in 0..Len(rows)
    BY DEF Init
  <2>2. /\ i \in 0..StorageMutateNum /\ j \in 0..MaxRuns
        /\ attackVectorCnt \in 0..(ReportLimit + 1) /\ due \in Nat
    BY FuzzAssumption DEF Init
  <2>3. /\ err \in BOOLEAN /\ found \in BOOLEAN /\ own \in BOOLEAN /\ ever \in BOOLEAN
        /\ deep \in BOOLEAN
    BY Zenon DEF Init
  <2> QED
    BY <1>4, <2>1, <2>2, <2>3, Zenon DEF Init, Typed, Early
<1>6. Counted /\ Pending /\ Largest
  BY Zenon DEF Init, Counted, Pending, Largest, Loops
<1>7. Backed /\ Taints
  BY Zenon DEF Init, Backed, Taints
<1>8. Hits(<<>>) = {}
  BY DEF Hits
<1>9. Reported
  BY <1>8, FS_EmptySet, Zenon DEF Init, Reported
<1>10. Buffered
  BY FuzzAssumption, Zenon DEF Init, Buffered, Early, Loops
<1> QED
  BY <1>5, <1>6, <1>7, <1>9, <1>10, Zenon DEF FInv

-----------------------------------------------------------------------------
\* Steps that touch neither the database nor the report.

\* What such a step keeps when it does not lead into a call.
LEMMA ControlKeeps ==
  ASSUME FInv, UNCHANGED <<db, stateBackup, deployVars, callVars, logVars>>,
         phase \notin {"call", "check", "report"}, phase' \notin {"call", "check", "report"}
  PROVE  Largest' /\ Backed' /\ Taints' /\ Reported'
<1>1. Largest'
  BY Zenon DEF FInv, Largest, deployVars
<1>2. Backed'
  BY Zenon DEF FInv, Backed, deployVars, callVars
<1>3. Taints'
  BY Zenon DEF FInv, Taints, deployVars, callVars, logVars
<1>4. Reported'
  BY Zenon DEF FInv, Reported, deployVars, callVars, logVars
<1> QED
  BY <1>1, <1>2, <1>3, <1>4, Zenon

\* Rows of a method more fit the bound.
LEMMA OneMore ==
  ASSUME NEW n \in Nat
  PROVE  /\ ReportLimit * n \in Nat
         /\ ReportLimit * (n + 1) = ReportLimit * n + ReportLimit
BY FuzzAssumption

\* Leaving the deployment: nothing was called or reported yet.
LEMMA DeployedInv == FInv /\ Deployed => FInv'
<1> SUFFICES ASSUME FInv, Deployed PROVE FInv'
  BY Zenon
<1>1. Largest' /\ Backed' /\ Taints' /\ Reported'
  BY ControlKeeps, Zenon DEF Deployed
<1>2. Typed'
  BY Zenon DEF FInv, Typed, Deployed, Early, deployVars, loopVars, callVars, logVars
<1>3. Counted' /\ Pending'
  BY Zenon DEF FInv, Counted, Pending, Deployed, Loops, deployVars
<1>4. Buffered'
  BY Zenon DEF FInv, Buffered, Deployed, Early, Loops, deployVars, loopVars, callVars, logVars
<1> QED
  BY <1>1, <1>2, <1>3, <1>4, Zenon DEF FInv

\* FuzzContracts starts with an empty report.
LEMMA StartFuzzInv == FInv /\ StartFuzz => FInv'
<1> SUFFICES ASSUME FInv, StartFuzz PROVE FInv'
  BY Zenon
<1>1. Largest' /\ Backed' /\ Taints' /\ Reported'
  BY ControlKeeps, Zenon DEF StartFuzz
<1>2. Typed'
  BY Zenon DEF FInv, Typed, StartFuzz, Early, deployVars, loopVars, callVars, logVars
<1>3. Counted' /\ Pending'
  BY Zenon DEF FInv, Counted, Pending, StartFuzz, Loops, deployVars
<1>4. Buffered'
  <2>1. rows = <<>> /\ disk = 0 /\ UNCHANGED <<rows, disk, attackVectorCnt, stateBackup, found>>
    BY Zenon DEF FInv, Buffered, StartFuzz, Early, loopVars, callVars, logVars
  <2>2. Begun' \in Nat
    BY BegunType, Zenon DEF Begun
  <2>3. Len(rows') - disk' <= ReportLimit * Begun'
    BY <2>1, <2>2, OneMore
  <2> QED
    BY <2>1, <2>3, Zenon DEF FInv, Buffered, StartFuzz, Early, Loops
<1> QED
  BY <1>1, <1>2, <1>3, <1>4, Zenon DEF FInv

\* FuzzContracts ends with what is buffered.
LEMMA FuzzDoneInv == FInv /\ FuzzDone => FInv'
<1> SUFFICES ASSUME FInv, FuzzDone PROVE FInv'
  BY Zenon
<1>1. Largest' /\ Backed' /\ Taints' /\ Reported'
  BY ControlKeeps, Zenon DEF FuzzDone
<1>2. Typed'
  BY Zenon DEF FInv, Typed, FuzzDone, deployVars, loopVars, callVars, logVars
<1>3. Counted' /\ Pending'
  BY Zenon DEF FInv, Counted, Pending, FuzzDone, Loops, deployVars
<1>4. Begun' = Begun
  BY Zenon DEF Begun, FuzzDone
<1>5. Buffered'
  BY <1>4, Zenon DEF FInv, Buffered, FuzzDone, Early, Loops, deployVars, loopVars, callVars, logVars
<1> QED
  BY <1>1, <1>2, <1>3, <1>5, Zenon DEF FInv

\* The next method: one more is begun unless it is constant.
LEMMA NextMethodInv == FInv /\ NextMethod => FInv'
<1> SUFFICES ASSUME FInv, NextMethod PROVE FInv'
  BY Zenon
<1>1. PICK m \in todo : todo' = todo \ {m} /\ phase' = IF m \in Const THEN "method" ELSE "mutate"
  BY Zenon DEF NextMethod
<1>2. Largest' /\ Backed' /\ Taints' /\ Reported'
  BY <1>1, ControlKeeps, Zenon DEF NextMethod
<1>3. Typed'
  BY <1>1, FuzzAssumption DEF FInv, Typed, NextMethod, Loops, deployVars, loopVars, callVars, logVars
<1>4. Counted'
  BY <1>1, FuzzAssumption DEF FInv, Counted, NextMethod, Loops
<1>5. Pending'
  BY <1>1, Zenon DEF FInv, Pending, NextMethod, Loops, deployVars
<1>6. Buffered'
  <2>1. Begun \in Nat
    BY BegunType, Zenon DEF Begun
  <2>2. todo \subseteq Methods /\ phase = "method"
    BY Zenon DEF FInv, Pending, NextMethod
  <2>3. /\ Len(rows) - disk <= ReportLimit * Begun /\ UNCHANGED <<rows, disk>>
        /\ attackVectorCnt > ReportLimit => disk = Len(rows)
    BY <2>2, Zenon DEF FInv, Buffered, NextMethod, logVars
  <2>4. CASE m \in Const
    <3>1. Begun' = Begun
      <4>1. (Methods \ Const) \ todo' = (Methods \ Const) \ todo
        BY <1>1, <2>4, Zenon
      <4> QED
        BY <4>1, Zenon DEF Begun
    <3> QED
      BY <1>1, <2>3, <2>4, <3>1, Zenon DEF Buffered, NextMethod, Early, Loops
  <2>5. CASE m \notin Const
    <3>1. Begun' = Begun + 1
      <4>1. (Methods \ Const) \ todo' = ((Methods \ Const) \ todo) \cup {m}
        BY <1>1, <2>2, <2>5, Zenon
      <4>2. IsFiniteSet((Methods \ Const) \ todo)
        BY FuzzAssumption, FS_Subset, Zenon
      <4> QED
        BY <4>1, <4>2, <1>1, FS_AddElement, Zenon DEF Begun
    <3>2. Begun' \in Nat \ {0} /\ Begun' - 1 = Begun
      BY <2>1, <3>1
    <3>3. attackVectorCnt' = 0 /\ phase' = "mutate"
      BY <1>1, <2>5, Zenon DEF NextMethod
    <3>4. Len(rows') - disk' <= ReportLimit * (Begun' - 1) + attackVectorCnt'
      <4>1. PICK x \in Nat : x = ReportLimit * Begun
        BY <2>1, OneMore, Zenon
      <4>2. Len(rows) - disk <= x /\ x + 0 = x
        BY <2>3, <4>1
      <4> QED
        BY <2>3, <3>2, <3>3, <4>1, <4>2, Zenon
    <3> QED
      BY <3>2, <3>3, <3>4, FuzzAssumption DEF Buffered, Early, Loops
  <2> QED
    BY <2>4, <2>5, Zenon
<1> QED
  BY <1>2, <1>3, <1>4, <1>5, <1>6, Zenon DEF FInv

\* A method that did not reach the limit leaves at most ReportLimit rows.
LEMMA MutationsDoneInv == FInv /\ MutationsDone => FInv'
<1> SUFFICES ASSUME FInv, MutationsDone PROVE FInv'
  BY Zenon
<1>1. Largest' /\ Backed' /\ Taints' /\ Reported'
  BY ControlKeeps, Zenon DEF MutationsDone
<1>2. Typed'
  BY Zenon DEF FInv, Typed, MutationsDone, deployVars, loopVars, callVars, logVars
<1>3. Counted' /\ Pending'
  BY Zenon DEF FInv, Counted, Pending, MutationsDone, Loops, deployVars
<1>4. Buffered'
  <2>1. Begun' = Begun
    BY Zenon DEF Begun, MutationsDone
  <2>2. /\ Begun \in Nat \ {0} /\ Len(rows) - disk <= ReportLimit * (Begun - 1) + attackVectorCnt
        /\ attackVectorCnt <= ReportLimit /\ UNCHANGED <<rows, disk, attackVectorCnt>>
    BY Zenon DEF FInv, Buffered, Counted, MutationsDone, Loops, loopVars, logVars
  <2>3. PICK n \in Nat : Begun = n + 1
    BY <2>2
  <2>4. PICK x \in Nat : x = ReportLimit * n /\ ReportLimit * Begun = x + ReportLimit
    BY <2>3, OneMore, Zenon
  <2>5. Begun - 1 = n
    BY <2>3
  <2>6. Len(rows) \in Nat /\ disk \in Nat /\ attackVectorCnt \in Nat
    BY FuzzAssumption DEF FInv, Typed
  <2>7. Len(rows) - disk <= ReportLimit * Begun
    BY <2>2, <2>4, <2>5, <2>6, FuzzAssumption
  <2> QED
    BY <2>1, <2>2, <2>7, Zenon DEF FInv, Buffered, MutationsDone, Early, Loops
<1> QED
  BY <1>1, <1>2, <1>3, <1>4, Zenon DEF FInv

\* The next mutation.
LEMMA RunsDoneInv == FInv /\ RunsDone => FInv'
<1> SUFFICES ASSUME FInv, RunsDone PROVE FInv'
  BY Zenon
<1>1. Largest' /\ Backed' /\ Taints' /\ Reported'
  BY ControlKeeps, Zenon DEF RunsDone
<1>2. Typed'
  BY FuzzAssumption DEF FInv, Typed, Counted, RunsDone, Loops, deployVars, loopVars, callVars, logVars
<1>3. Counted' /\ Pending'
  BY Zenon DEF FInv, Counted, Pending, RunsDone, Loops, deployVars
<1>4. Begun' = Begun
  BY Zenon DEF Begun, RunsDone
<1>5. Buffered'
  BY <1>4, Zenon DEF FInv, Buffered, RunsDone, Early, Loops, logVars
<1> QED
  BY <1>1, <1>2, <1>3, <1>5, Zenon DEF FInv

-----------------------------------------------------------------------------
\* Steps that change the database.

\* The main contract is an account.
LEMMA MainType ==
  ASSUME Typed, MainContract # None
  PROVE  MainContract \in Contracts /\ MainContract \in Addr
BY FuzzAssumption, Zenon DEF Typed

\* A call leaves the main contract deployed, and tainted if it was or overflowed.
LEMMA CalledTaints ==
  ASSUME NEW d \in DB, NEW e \in DB, NEW m \in Contracts, NEW ops \in SUBSET ArithOps,
         Called(d, e, m, ops)
  PROVE  /\ Live(d, m) => Live(e, m)
         /\ Tainted(e, m) <=> ops # {} \/ Tainted(d, m)
<1>1. Live(d, m) => Live(e, m)
  BY Zenon DEF Called, Live
<1>2. Tainted(d, m) => Tainted(e, m)
  BY FuzzAssumption, Zenon DEF Called, Tainted
<1>3. ops # {} => Tainted(e, m)
  BY FuzzAssumption DEF Called, Tainted
<1>4. Tainted(e, m) => ops # {} \/ Tainted(d, m)
  BY Zenon DEF Called, Tainted
<1> QED
  BY <1>1, <1>2, <1>3, <1>4, Zenon

\* Steps after deployment that leave Main, ok and the copier alone, and the main
\* contract deployed, keep Largest.
LEMMA LargestKept ==
  ASSUME Largest, UNCHANGED <<MainContract, ok>>,
         MainContract # None => (Live(db, MainContract) => Live(db', MainContract))
  PROVE  Largest'
BY Zenon DEF Largest

\* A probed getter may taint the main contract, and is not backed up.
LEMMA TouchSloadInv == FInv /\ TouchSload => FInv'
<1> SUFFICES ASSUME FInv, TouchSload PROVE FInv'
  BY Zenon
<1>1. PICK g \in todo, ops \in SUBSET ArithOps, loc \in Slots :
        /\ Inert(MainContract, ops, FALSE)
        /\ db' \in Execution(db, MainContract, ops)
        /\ ever' = (ever \/ ops # {})
        /\ constantsLoc' = constantsLoc \cup {loc}
        /\ todo' = todo \ {g}
  BY Zenon DEF TouchSload
<1>2. MainContract # None /\ MainContract \in Contracts /\ phase = "probe" /\ db \in DB
  BY <1>1, MainType, Zenon DEF FInv, Pending, TouchSload, Typed
<1>3. Live(db, MainContract)
  BY <1>2, Zenon DEF FInv, Largest
<1>4. db' \in DB /\ Called(db, db', MainContract, ops)
  BY <1>1, <1>2, <1>3, ExecutionCalls, Zenon DEF Live
<1>5. /\ Live(db', MainContract)
      /\ Tainted(db', MainContract) <=> ops # {} \/ Tainted(db, MainContract)
  BY <1>2, <1>3, <1>4, CalledTaints, Zenon
<1>6. UNCHANGED <<stateBackup, deep, phase, MainContract, ok, loopVars, err, found, own, due, logVars>>
  BY Zenon DEF TouchSload
<1>7. ever' \in BOOLEAN /\ (ever' <=> ever \/ ops # {})
  BY <1>1, Zenon
<1>8. Typed'
  BY <1>1, <1>4, <1>6, <1>7, Zenon DEF FInv, Typed, loopVars, logVars
<1>9. Counted' /\ Pending'
  BY <1>1, <1>2, <1>6, Zenon DEF FInv, Counted, Pending, Loops, loopVars
<1>10. Largest'
  BY <1>5, <1>6, LargestKept DEF FInv
<1>11. Backed'
  BY <1>2, <1>6, Zenon DEF FInv, Backed, Buffered, Early
<1>12. Taints'
  BY <1>1, <1>2, <1>5, <1>6, <1>7, Zenon DEF FInv, Taints, logVars, Inert
<1>13. Reported'
  BY <1>2, <1>6 DEF FInv, Reported, logVars
<1>14. Buffered'
  BY <1>2, <1>6 DEF FInv, Buffered, Early, Loops, loopVars, logVars
<1> QED
  BY <1>8, <1>9, <1>10, <1>11, <1>12, <1>13, <1>14, Zenon DEF FInv

\* Mutating storage touches no taint cell.
LEMMA FuzzStorageInv == FInv /\ FuzzStorage => FInv'
<1> SUFFICES ASSUME FInv, FuzzStorage PROVE FInv'
  BY Zenon
<1>1. PICK val \in [constantsLoc -> Values] :
        db' = [db EXCEPT !.StateMap[MainContract].storage =
                 [k \in Keys |-> IF k \in constantsLoc THEN val[k] ELSE @[k]]]
  BY Zenon DEF FuzzStorage
<1>2. /\ MainContract # None /\ MainContract \in Contracts /\ MainContract \in Addr
      /\ phase = "mutate" /\ phase' = "run" /\ db \in DB /\ j' = 0 /\ i < StorageMutateNum
  BY MainType, Zenon DEF FInv, Pending, FuzzStorage, Typed, Loops
<1> DEFINE old == db.StateMap[MainContract].storage
           st == [k \in Keys |-> IF k \in constantsLoc THEN val[k] ELSE old[k]]
<1>3. old \in [Keys -> Nat]
  BY <1>2, Zenon DEF DB, State
<1>4. st \in [Keys -> Nat]
  BY <1>3, FuzzAssumption, Zenon
<1>5. db' = [db EXCEPT !.StateMap[MainContract].storage = st]
  BY <1>1, <1>2, Zenon
<1>6. \A op \in ArithOps : st[op] = old[op]
  BY FuzzAssumption, Zenon DEF FInv, Typed, Keys
<1> HIDE DEF st
<1>7. /\ db' \in DB /\ db'.StateMap[MainContract].storage = st
      /\ db'.StateMap[MainContract].present = db.StateMap[MainContract].present
      /\ db'.StateMap[MainContract].code = db.StateMap[MainContract].code
  BY <1>2, <1>4, <1>5, PutStorage
<1>8. /\ Live(db, MainContract) => Live(db', MainContract)
      /\ Tainted(db', MainContract) <=> Tainted(db, MainContract)
  BY <1>6, <1>7, Zenon DEF Live, Tainted
<1>9. UNCHANGED <<stateBackup, todo, deployVars, i, attackVectorCnt, callVars, logVars>>
  BY Zenon DEF FuzzStorage
<1>10. Typed'
  BY <1>2, <1>7, <1>9, FuzzAssumption DEF FInv, Typed, Loops, deployVars, callVars, logVars
<1>11. Counted' /\ Pending'
  BY <1>2, <1>9, Zenon DEF FInv, Counted, Pending, Loops, deployVars
<1>12. Largest'
  BY <1>8, <1>9, LargestKept, Zenon DEF FInv, deployVars
<1>13. Backed'
  BY <1>2, <1>8, <1>9, Zenon DEF FInv, Backed, deployVars, callVars
<1>14. Taints'
  BY <1>2, <1>8, <1>9, Zenon DEF FInv, Taints, deployVars, callVars, logVars
<1>15. Reported'
  BY <1>2, <1>9, Zenon DEF FInv, Reported, callVars, logVars
<1>16. Begun' = Begun
  BY <1>9, Zenon DEF Begun
<1>17. Buffered'
  BY <1>2, <1>9, <1>16, Zenon DEF FInv, Buffered, Early, Loops, logVars
<1> QED
  BY <1>10, <1>11, <1>12, <1>13, <1>14, <1>15, <1>17, Zenon DEF FInv

\* A backup of a tainted main contract is itself justified.
LEMMA BackupStatesInv == FInv /\ BackupStates => FInv'
<1> SUFFICES ASSUME FInv, BackupStates PROVE FInv'
  BY Zenon
<1>1. /\ phase = "run" /\ j < MaxRuns /\ stateBackup' = Copy(New, db) /\ phase' = "call"
      /\ UNCHANGED <<db, todo, deployVars, loopVars, callVars, logVars>>
  BY Zenon DEF BackupStates
<1>2. MainContract # None /\ Live(db, MainContract) /\ db \in DB
  BY <1>1, Zenon DEF FInv, Pending, Largest, Typed, Loops
<1>3. Typed' /\ Counted' /\ Pending'
  BY <1>1, Zenon DEF FInv, Typed, Counted, Pending, Loops, deployVars, loopVars, callVars, logVars
<1>4. Largest' /\ Taints' /\ Reported'
  BY <1>1, Zenon DEF FInv, Largest, Taints, Reported, deployVars, callVars, logVars
<1>5. stateBackup' \in DB
  <2>1. CASE deep
    BY <1>1, <1>2, <2>1, Zenon DEF Copy
  <2>2. CASE ~deep
    <3>1. stateBackup' = [StateMap |-> [a \in Addr |-> Blank], Logs |-> db.Logs]
      BY <1>1, <2>2, Zenon DEF Copy, New
    <3> QED
      BY <1>2, <3>1, BlankType, Zenon DEF DB
  <2> QED
    BY <2>1, <2>2, Zenon
<1>6. deep => stateBackup' = db
  BY <1>1, Zenon DEF Copy
<1>7. Tainted(db, MainContract) => ever
  BY <1>2, Zenon DEF FInv, Taints
<1>8. Backed'
  BY <1>1, <1>2, <1>5, <1>6, <1>7, Zenon DEF Backed, deployVars, callVars
<1>9. Begun' = Begun
  BY <1>1 DEF Begun
<1>10. Buffered'
  BY <1>1, <1>9, Zenon DEF FInv, Buffered, Early, Loops, loopVars, logVars
<1> QED
  BY <1>3, <1>4, <1>8, <1>10, Zenon DEF FInv

\* A fuzzed call that overflows leaves a taint, also when it fails.
LEMMA CallInv == FInv /\ Call => FInv'
<1> SUFFICES ASSUME FInv, Call PROVE FInv'
  BY Zenon
<1>1. PICK ops \in SUBSET ArithOps :
        /\ db' \in Execution(db, MainContract, ops)
        /\ err' \in BOOLEAN /\ Inert(MainContract, ops, err')
        /\ own' = (ops # {})
        /\ ever' = (ever \/ own')
        /\ due' = IF own' /\ ~err' THEN due + 1 ELSE due
  BY Zenon DEF Call
<1>2. /\ phase = "call" /\ phase' = "check"
      /\ UNCHANGED <<stateBackup, todo, deployVars, loopVars, found, logVars>>
  BY Zenon DEF Call
<1>3. MainContract # None /\ MainContract \in Contracts /\ db \in DB
  BY <1>2, MainType, Zenon DEF FInv, Pending, Typed, Loops
<1>4. Live(db, MainContract)
  BY <1>3, Zenon DEF FInv, Largest
<1>5. db' \in DB /\ Called(db, db', MainContract, ops)
  BY <1>1, <1>3, <1>4, ExecutionCalls, Zenon DEF Live
<1>6. /\ Live(db', MainContract)
      /\ Tainted(db', MainContract) <=> ops # {} \/ Tainted(db, MainContract)
  BY <1>3, <1>4, <1>5, CalledTaints, Zenon
<1>7. own' \in BOOLEAN /\ (own' <=> ops # {})
  BY <1>1, Zenon
<1>8. ever' \in BOOLEAN /\ (ever' <=> ever \/ own')
  BY <1>1, Zenon
<1>9. Typed'
  BY <1>1, <1>2, <1>5, <1>7, <1>8 DEF FInv, Typed, Loops, deployVars, loopVars, logVars
<1>10. Counted' /\ Pending'
  BY <1>2, Zenon DEF FInv, Counted, Pending, Loops, deployVars, loopVars
<1>11. Largest'
  BY <1>2, <1>6, LargestKept, Zenon DEF FInv, deployVars
<1>12. Backed'
  BY <1>2, <1>6, <1>8, Zenon DEF FInv, Backed, deployVars
<1>13. Taints'
  BY <1>1, <1>2, <1>3, <1>6, <1>7, <1>8, Zenon DEF FInv, Taints, deployVars, logVars, Inert
<1>14. Reported'
  <2>1. due = Cardinality(Hits(rows)) /\ Cardinality(Hits(rows)) \in Nat
    BY <1>2, HitsAppend, Zenon DEF FInv, Reported, Typed
  <2>2. due' = Cardinality(Hits(rows)) + (IF own' /\ ~err' THEN 1 ELSE 0)
    BY <1>1, <2>1
  <2> QED
    BY <1>2, <1>6, <1>7, <2>2, Zenon DEF Reported, deployVars, logVars
<1>15. Begun' = Begun
  BY <1>2, Zenon DEF Begun
<1>16. Buffered'
  BY <1>2, <1>15, Zenon DEF FInv, Buffered, Early, Loops, loopVars, logVars
<1> QED
  BY <1>9, <1>10, <1>11, <1>12, <1>13, <1>14, <1>16, Zenon DEF FInv

\* The taint is looked for before the state is rolled back.
LEMMA CheckAndRestoreInv == FInv /\ CheckAndRestore => FInv'
<1> SUFFICES ASSUME FInv, CheckAndRestore PROVE FInv'
  BY Zenon
<1>1. /\ phase = "check" /\ phase' = "report"
      /\ found' = CheckOverflowStorage(db) /\ db' = Copy(db, stateBackup)
      /\ UNCHANGED <<stateBackup, todo, deployVars, loopVars, err, own, ever, due, logVars>>
  BY Zenon DEF CheckAndRestore
<1>2. MainContract # None /\ db \in DB /\ deep \in BOOLEAN
  BY <1>1, Zenon DEF FInv, Pending, Typed, Loops
<1>3. found' \in BOOLEAN /\ (found' <=> Tainted(db, MainContract))
  <2>1. CheckOverflowStorage(db) <=> Tainted(db, MainContract)
    BY Zenon DEF CheckOverflowStorage, Tainted, GetState
  <2>2. CheckOverflowStorage(db) \in BOOLEAN
    BY Zenon DEF CheckOverflowStorage
  <2> QED
    BY <1>1, <2>1, <2>2, Zenon
<1>4. /\ stateBackup \in DB
      /\ deep => Live(stateBackup, MainContract)
      /\ deep /\ Tainted(stateBackup, MainContract) => ever /\ Tainted(db, MainContract)
  BY <1>1, Zenon DEF FInv, Backed
<1>5. deep => db' = stateBackup
  BY <1>1, Zenon DEF Copy
<1>6. ~deep => db' \in DB /\ db'.StateMap = db.StateMap
  <2> SUFFICES ASSUME ~deep PROVE db' \in DB /\ db'.StateMap = db.StateMap
    BY Zenon
  <2>1. db' = [db EXCEPT !.Logs = stateBackup.Logs]
    BY <1>1, Zenon DEF Copy
  <2>2. stateBackup.Logs \in Seq(Topics)
    BY <1>4, Zenon DEF DB
  <2> QED
    BY <1>2, <2>1, <2>2, Zenon DEF DB
<1>7. db' \in DB
  BY <1>2, <1>4, <1>5, <1>6
<1>8. Live(db, MainContract) => Live(db', MainContract)
  BY <1>4, <1>5, <1>6, Zenon DEF Live
<1>9. /\ deep => (Tainted(db', MainContract) <=> Tainted(stateBackup, MainContract))
      /\ ~deep => (Tainted(db', MainContract) <=> Tainted(db, MainContract))
  BY <1>5, <1>6, Zenon DEF Tainted
<1>10. Typed'
  BY <1>1, <1>3, <1>7, Zenon DEF FInv, Typed, Loops, deployVars, loopVars, logVars
<1>11. Counted' /\ Pending'
  BY <1>1, Zenon DEF FInv, Counted, Pending, Loops, deployVars, loopVars
<1>12. Largest'
  BY <1>1, <1>8, LargestKept, Zenon DEF FInv, deployVars
<1>13. Backed'
  BY <1>1, <1>2, <1>4, <1>9 DEF Backed, deployVars
<1>14. Taints'
  BY <1>1, <1>2, <1>3, <1>4, <1>9, Zenon DEF FInv, Taints, deployVars, logVars
<1>15. Reported'
  BY <1>1, <1>3, Zenon DEF FInv, Reported, logVars
<1>16. Begun' = Begun
  BY <1>1 DEF Begun
<1>17. Buffered'
  BY <1>1, <1>16 DEF FInv, Buffered, Early, Loops, loopVars, logVars
<1> QED
  BY <1>10, <1>11, <1>12, <1>13, <1>14, <1>15, <1>17, Zenon DEF FInv

\* A report adds the row that is due, and flushes when it is one too many.
LEMMA ReportInv == FInv /\ Report => FInv'
<1> SUFFICES ASSUME FInv, Report PROVE FInv'
  BY Zenon
<1> DEFINE hit == ~err /\ found
<1>1. /\ phase = "report"
      /\ rows' = IF hit THEN Append(rows, own) ELSE rows
      /\ attackVectorCnt' = IF hit THEN attackVectorCnt + 1 ELSE attackVectorCnt
      /\ IF attackVectorCnt' > ReportLimit
         THEN disk' = Len(rows') /\ phase' = "method" /\ UNCHANGED j
         ELSE disk' \in disk..Len(rows') /\ phase' = "run" /\ j' = j + 1
      /\ UNCHANGED <<db, stateBackup, todo, deployVars, i, callVars>>
  BY Zenon DEF Report
<1>2. /\ rows \in Seq(BOOLEAN) /\ own \in BOOLEAN /\ err \in BOOLEAN /\ found \in BOOLEAN
      /\ disk \in 0..Len(rows) /\ Len(rows) \in Nat /\ j \in 0..MaxRuns
      /\ attackVectorCnt \in 0..ReportLimit /\ j < MaxRuns /\ ReportLimit \in Nat /\ MaxRuns \in Nat
  BY <1>1, FuzzAssumption DEF FInv, Typed, Counted, Loops
<1>3. /\ rows' \in Seq(BOOLEAN)
      /\ Len(rows') = Len(rows) + (attackVectorCnt' - attackVectorCnt)
      /\ attackVectorCnt' \in 0..(ReportLimit + 1) /\ attackVectorCnt' >= attackVectorCnt
  <2>1. CASE hit
    <3>1. Append(rows, own) \in Seq(BOOLEAN) /\ Len(Append(rows, own)) = Len(rows) + 1
      BY <1>2
    <3>2. rows' = Append(rows, own) /\ attackVectorCnt' = attackVectorCnt + 1
      BY <1>1, <2>1, Zenon
    <3> QED
      BY <1>2, <3>1, <3>2
  <2>2. CASE ~hit
    BY <1>1, <1>2, <2>2
  <2> QED
    BY <2>1, <2>2, Zenon
<1>4. disk' \in disk..Len(rows') /\ disk' \in 0..Len(rows') /\ j' \in 0..MaxRuns
  BY <1>1, <1>2, <1>3
<1>5. Typed'
  BY <1>1, <1>3, <1>4, Zenon DEF FInv, Typed, Loops, deployVars, callVars
<1>6. Counted'
  BY <1>1, <1>2, <1>3 DEF FInv, Counted, Loops
<1>7. Pending'
  BY <1>1, Zenon DEF FInv, Pending, Loops, deployVars
<1>8. Largest'
  BY <1>1, Zenon DEF FInv, Largest, deployVars
<1>9. Backed'
  BY <1>1, Zenon DEF FInv, Backed, deployVars, callVars
<1>10. Taints'
  BY <1>1, Zenon DEF FInv, Taints, deployVars, callVars
<1>11. Reported'
  <2>1. due = Cardinality(Hits(rows)) + (IF own /\ ~err THEN 1 ELSE 0)
    BY <1>1, Zenon DEF FInv, Reported
  <2>2. own /\ ~err <=> hit /\ own
    BY <1>1, Zenon DEF FInv, Reported
  <2>3. Cardinality(Hits(rows')) = Cardinality(Hits(rows)) + (IF hit /\ own THEN 1 ELSE 0)
    BY <1>1, <1>2, HitsAppend
  <2> QED
    BY <1>1, <2>1, <2>2, <2>3, Zenon DEF Reported, callVars
<1>12. Buffered'
  <2>1. Begun' = Begun
    BY <1>1, Zenon DEF Begun
  <2>2. Begun \in Nat \ {0} /\ Len(rows) - disk <= ReportLimit * (Begun - 1) + attackVectorCnt
    BY <1>1, Zenon DEF FInv, Buffered, Loops
  <2>3. CASE attackVectorCnt' > ReportLimit
    <3>1. disk' = Len(rows') /\ phase' = "method"
      BY <1>1, <2>3, Zenon
    <3>2. Len(rows') - disk' = 0 /\ ReportLimit * Begun \in Nat
      BY <1>2, <1>3, <2>2, <3>1, OneMore
    <3> QED
      BY <2>1, <3>1, <3>2 DEF Buffered, Early, Loops
  <2>4. CASE ~(attackVectorCnt' > ReportLimit)
    <3>1. PICK x \in Nat : x = ReportLimit * (Begun - 1)
      BY <2>2, OneMore
    <3>2. Len(rows') - disk' <= x + attackVectorCnt'
      <4>1. Len(rows) - disk <= x + attackVectorCnt
        BY <2>2, <3>1, Zenon
      <4>2. /\ Len(rows) \in Int /\ disk \in Int /\ disk' \in Int /\ disk' >= disk
            /\ attackVectorCnt \in Int /\ attackVectorCnt' \in Int
        BY <1>2, <1>3, <1>4
      <4>3. \A l, d, e, n, m, y \in Int : l - d <= y + n /\ e >= d => (l + m - n) - e <= y + m
        OBVIOUS
      <4>4. Len(rows') = Len(rows) + attackVectorCnt' - attackVectorCnt /\ x \in Int
        BY <1>3
      <4> QED
        BY <4>1, <4>2, <4>3, <4>4, Zenon
    <3> QED
      BY <1>1, <2>1, <2>2, <2>4, <3>1, <3>2, Zenon DEF Buffered, Early, Loops
  <2> QED
    BY <2>3, <2>4, Zenon
<1> QED
  BY <1>5, <1>6, <1>7, <1>8, <1>9, <1>10, <1>11, <1>12, Zenon DEF FInv

\* One iteration of DeployContracts, with what it deploys.
LEMMA DeployContractInv == FInv /\ DeployContract => FInv'
<1> SUFFICES ASSUME FInv, DeployContract PROVE FInv'
  BY Zenon
<1>1. PICK c \in todo, ops \in SUBSET ArithOps, created \in BOOLEAN, readable \in BOOLEAN :
        LET success == created /\ readable
            n == GetNonce(db, Creater)
            born == SetNonce(CreateAccount(SetNonce(db, Creater, n + 1), c), c, 1)
        IN /\ Inert(c, ops, ~created)
           /\ \E d \in Execution(born, c, ops) :
                db' = AddBalance(IF created THEN SetCode(d, c, CodeOf(c)) ELSE d, c, 100)
           /\ ok' = IF success THEN ok \cup {c} ELSE ok
           /\ IF success /\ Size[c] > Best
              THEN MainContract' = c /\ ever' = (ops # {})
              ELSE UNCHANGED <<MainContract, ever>>
           /\ todo' = todo \ {c}
  BY Zenon DEF DeployContract
<1> DEFINE n == GetNonce(db, Creater)
           born == SetNonce(CreateAccount(SetNonce(db, Creater, n + 1), c), c, 1)
           taken == created /\ readable /\ Size[c] > Best
<1>2. PICK d \in Execution(born, c, ops) :
        /\ Inert(c, ops, ~created)
        /\ db' = AddBalance(IF created THEN SetCode(d, c, CodeOf(c)) ELSE d, c, 100)
  BY <1>1, Zenon
<1>3. /\ ok' = IF created /\ readable THEN ok \cup {c} ELSE ok
      /\ taken => MainContract' = c /\ ever' = (ops # {})
      /\ ~taken => UNCHANGED <<MainContract, ever>>
      /\ todo' = todo \ {c}
  BY <1>1, Zenon
<1>4. /\ phase = "deploy"
      /\ UNCHANGED <<stateBackup, deep, phase, constantsLoc, loopVars, err, found, own, due, logVars>>
  BY Zenon DEF DeployContract
<1>5. /\ db \in DB /\ c \in Contracts /\ c \notin ok /\ c \in Addr /\ Creater \in Addr
      /\ rows = <<>> /\ ~found /\ stateBackup = None /\ c # None
      /\ MainContract \in Contracts \cup {None}
  BY <1>4, FuzzAssumption, Zenon DEF FInv, Typed, Pending, Buffered, Early
\* The account of the new contract is empty, the others are kept.
<1>6. /\ born \in DB /\ born.StateMap[c].present /\ born.StateMap[c].storage = [k \in Keys |-> 0]
      /\ \A b \in Addr \ {c} : db.StateMap[b].present =>
           /\ born.StateMap[b].present
           /\ born.StateMap[b].code = db.StateMap[b].code
           /\ born.StateMap[b].storage = db.StateMap[b].storage
  <2>1. PICK d1 : d1 = SetNonce(db, Creater, n + 1)
    BY Zenon
  <2>2. n + 1 \in Nat /\ 1 \in Nat
    BY <1>5 DEF GetNonce, DB, State
  <2>3. d1 \in DB /\ Keeps(db, d1)
    BY <1>5, <2>1, <2>2, SetNonceKeeps, Zenon
  <2>4. PICK d2 : d2 = CreateAccount(d1, c)
    BY Zenon
  <2>5. d2 \in DB /\ d2.StateMap[c] = NewState /\ \A b \in Addr \ {c} : d2.StateMap[b] = d1.StateMap[b]
    BY <1>5, <2>3, <2>4, CreateAccountEmpties, Zenon
  <2>6. born = SetNonce(d2, c, 1)
    BY <2>1, <2>4, Zenon
  <2>7. born \in DB /\ Keeps(d2, born)
    BY <1>5, <2>2, <2>5, <2>6, SetNonceKeeps, Zenon
  <2> HIDE DEF born
  <2> QED
    BY <1>5, <2>3, <2>5, <2>7, BlankType DEF Keeps
<1> HIDE DEF born
<1>7. d \in DB /\ Called(born, d, c, ops)
  BY <1>2, <1>5, <1>6, ExecutionCalls, Zenon
<1>8. /\ db' \in DB /\ db'.StateMap[c].present
      /\ db'.StateMap[c].storage = d.StateMap[c].storage
      /\ created => db'.StateMap[c].code = CodeOf(c)
      /\ \A b \in Addr \ {c} : d.StateMap[b].present =>
           /\ db'.StateMap[b].present
           /\ db'.StateMap[b].code = d.StateMap[b].code
           /\ db'.StateMap[b].storage = d.StateMap[b].storage
  <2>1. PICK x : x = IF created THEN SetCode(d, c, CodeOf(c)) ELSE d
    BY Zenon
  <2>2. d.StateMap[c].present /\ CodeOf(c) \in Nat /\ 100 \in Int
    BY <1>7 DEF Called, CodeOf
  <2>3. /\ x \in DB /\ x.StateMap[c].present
        /\ x.StateMap[c].storage = d.StateMap[c].storage
        /\ created => x.StateMap[c].code = CodeOf(c)
        /\ \A b \in Addr \ {c} : x.StateMap[b] = d.StateMap[b]
    <3>1. CASE created
      BY <1>5, <1>7, <2>1, <2>2, <3>1, SetCodeOnly
    <3>2. CASE ~created
      BY <1>7, <2>1, <2>2, <3>2, Zenon
    <3> QED
      BY <3>1, <3>2, Zenon
  <2>4. db' \in DB /\ Keeps(x, db')
    BY <1>2, <1>5, <2>1, <2>2, <2>3, AddBalanceKeeps
  <2> QED
    BY <1>5, <2>3, <2>4, Zenon DEF Keeps
<1>9. /\ created => Live(db', c)
      /\ Tainted(db', c) <=> ops # {}
  <2>1. \A op \in ArithOps : db'.StateMap[c].storage[op] = IF op \in ops THEN PC ELSE 0
    BY <1>6, <1>7, <1>8 DEF Called, Keys
  <2> QED
    BY <1>8, <2>1, FuzzAssumption DEF Live, Tainted, CodeOf
<1>10. ASSUME NEW m \in ok, Live(db, m)
       PROVE  Live(db', m) /\ (Tainted(db', m) <=> Tainted(db, m))
  <2>1. m \in Addr \ {c} /\ db.StateMap[m].present
    BY <1>5, <1>10, FuzzAssumption, Zenon DEF FInv, Typed, Live
  <2>2. /\ db'.StateMap[m].present /\ db'.StateMap[m].code = db.StateMap[m].code
        /\ db'.StateMap[m].storage = db.StateMap[m].storage
    BY <1>6, <1>7, <1>8, <2>1, Zenon DEF Called
  <2> QED
    BY <1>10, <2>2, Zenon DEF Live, Tainted
<1>11. ever' \in BOOLEAN /\ (taken => (ever' <=> ops # {}))
  <2>1. CASE taken
    BY <1>3, <2>1, Zenon
  <2>2. CASE ~taken
    BY <1>3, <2>2, Zenon DEF FInv, Typed
  <2> QED
    BY <2>1, <2>2, Zenon
<1>12. Typed'
  BY <1>3, <1>4, <1>5, <1>8, <1>11, Zenon DEF FInv, Typed, loopVars, logVars
<1>13. Counted' /\ Pending'
  BY <1>3, <1>4, <1>5 DEF FInv, Counted, Pending, Loops
<1>14. Largest'
  <2>1. MainContract' # None => MainContract' \in ok' /\ Live(db', MainContract')
    BY <1>3, <1>5, <1>9, <1>10, Zenon DEF FInv, Largest
  <2>2. \A b \in ok' : Size[b] \in Nat
    BY <1>3, <1>5, FuzzAssumption DEF FInv, Typed
  <2>3. ASSUME NEW b \in ok', Size[b] > 0
        PROVE  MainContract' # None /\ Size[b] <= Size[MainContract']
    <3>1. CASE taken
      <4>1. MainContract' = c /\ c # None /\ Size[c] > Best /\ Size[c] \in Nat
        BY <1>3, <1>5, <3>1, FuzzAssumption
      <4>2. CASE b = c
        BY <4>1, <4>2
      <4>3. CASE b # c
        <5>1. b \in ok
          BY <1>3, <4>3, Zenon
        <5>2. MainContract # None /\ Size[b] <= Size[MainContract]
          BY <2>3, <5>1 DEF FInv, Largest
        <5>3. Best = Size[MainContract] /\ Size[MainContract] \in Nat
          BY <1>5, <5>2, FuzzAssumption, Zenon DEF Best
        <5> QED
          BY <2>2, <4>1, <5>2, <5>3
      <4> QED
        BY <4>2, <4>3, Zenon
    <3>2. CASE ~taken
      <4>1. MainContract' = MainContract
        BY <1>3, <3>2
      <4>2. CASE b \in ok
        BY <2>3, <4>1, <4>2, Zenon DEF FInv, Largest
      <4>3. CASE b \notin ok
        <5>1. b = c /\ ~(Size[c] > Best) /\ Size[c] \in Nat
          BY <1>3, <1>5, <3>2, <4>3, FuzzAssumption, Zenon
        <5>2. MainContract # None
          BY <2>3, <5>1, Zenon DEF Best
        <5>3. Best = Size[MainContract] /\ Size[MainContract] \in Nat
          BY <1>5, <5>2, FuzzAssumption, Zenon DEF Best
        <5> QED
          BY <4>1, <5>1, <5>2, <5>3
      <4> QED
        BY <4>2, <4>3, Zenon
    <3> QED
      BY <3>1, <3>2, Zenon
  <2> QED
    BY <2>1, <2>3, Zenon DEF Largest
<1>15. Backed'
  BY <1>4, <1>5, Zenon DEF Backed
<1>16. Taints'
  <2>1. CASE taken
    BY <1>2, <1>3, <1>4, <1>5, <1>9, <1>11, <2>1 DEF Taints, logVars, Inert
  <2>2. CASE ~taken
    <3>1. MainContract # None => MainContract \in ok /\ Live(db, MainContract)
      BY Zenon DEF FInv, Largest
    <3> QED
      BY <1>3, <1>4, <1>5, <1>10, <2>2, <3>1 DEF FInv, Taints, logVars
  <2> QED
    BY <2>1, <2>2, Zenon
<1>17. Reported'
  BY <1>4, Zenon DEF FInv, Reported, logVars
<1>18. Buffered'
  BY <1>4, Zenon DEF FInv, Buffered, Early, Loops, loopVars, logVars
<1> QED
  BY <1>12, <1>13, <1>14, <1>15, <1>16, <1>17, <1>18, Zenon DEF FInv

-----------------------------------------------------------------------------
\* The invariant is kept by every step.
LEMMA FuzzInductive == FInv /\ [Next]_vars => FInv'
<1> SUFFICES ASSUME FInv, [Next]_vars PROVE FInv'
  OBVIOUS
<1>1. CASE Next
  BY <1>1, DeployContractInv, DeployedInv, TouchSloadInv, StartFuzzInv, NextMethodInv, FuzzDoneInv,
     FuzzStorageInv, MutationsDoneInv, RunsDoneInv, BackupStatesInv, CallInv, CheckAndRestoreInv,
     ReportInv
     DEF Next
<1>2. CASE UNCHANGED vars
  <2>1. /\ UNCHANGED <<db, stateBackup, phase, todo, MainContract, ok, constantsLoc, deep>>
        /\ UNCHANGED <<i, j, attackVectorCnt, err, found, own, ever, due, rows, disk>>
    BY <1>2, Zenon DEF vars, deployVars, loopVars, callVars, logVars
  <2>2. Typed' /\ Counted' /\ Pending'
    BY <2>1 DEF FInv, Typed, Counted, Pending
  <2>3. Largest' /\ Backed' /\ Taints' /\ Reported'
    BY <2>1, Zenon DEF FInv, Largest, Backed, Taints, Reported
  <2>4. Buffered'
    BY <2>1, Zenon DEF FInv, Buffered, Begun
  <2> QED
    BY <2>2, <2>3, <2>4, Zenon DEF FInv
<1> QED
  BY <1>1, <1>2

\* The invariant gives what FuzzerSound promises.
LEMMA InvSound == FInv => FuzzerSound
<1> SUFFICES ASSUME FInv PROVE FuzzerSound
  BY Zenon
<1>1. TypeOK
  BY Zenon DEF FInv, Typed, TypeOK, DB, Early, Loops
<1>2. MainIsLargest
  BY Zenon DEF FInv, Largest, Live, MainIsLargest, GetCode
<1>3. OverflowsReported
  BY Zenon DEF FInv, Reported, Hits, OverflowsReported
<1>4. ReportsJustified /\ NoCodeNoReport
  BY Zenon DEF FInv, Taints, ReportsJustified, NoCodeNoReport
<1>5. \A d : CheckOverflowStorage(d) <=> Tainted(d, MainContract)
  BY Zenon DEF CheckOverflowStorage, Tainted, GetState
<1>6. TaintSticks
  BY <1>5, Zenon DEF FInv, Taints, Backed, TaintSticks
<1>7. LossBounded
  <2>1. PICK b \in Nat : b = Begun /\ b <= Cardinality(Methods \ Const)
    BY BegunType, Zenon DEF Begun
  <2>2. PICK m \in Nat : m = Cardinality(Methods \ Const)
    BY BegunType, FS_CardinalityType, FS_Subset, FuzzAssumption, Zenon
  <2>3. ReportLimit * b <= ReportLimit * m /\ ReportLimit * b \in Nat /\ ReportLimit * m \in Nat
    <3>1. PICK k \in Nat : m = b + k
      BY <2>1, <2>2
    <3>2. ReportLimit * (b + k) = ReportLimit * b + ReportLimit * k /\ ReportLimit * k \in Nat
      BY <2>1, <3>1, FuzzAssumption
    <3> QED
      BY <2>1, <2>2, <3>1, <3>2, OneMore
  <2>4. Len(rows) - disk <= ReportLimit * b
    <3>1. Len(rows) \in Nat /\ disk \in Nat /\ attackVectorCnt \in Nat /\ ReportLimit \in Nat
      BY FuzzAssumption DEF FInv, Typed
    <3>2. CASE phase \in Early
      <4>1. rows = <<>> /\ disk = 0
        BY <3>2, Zenon DEF FInv, Buffered
      <4>2. Len(rows) - disk = 0
        BY <4>1
      <4> QED
        BY <2>3, <4>2
    <3>3. CASE phase \in {"method", "done"}
      BY <2>1, <3>3, Zenon DEF FInv, Buffered
    <3>4. CASE phase \in Loops
      <4>1. /\ b # 0 /\ Len(rows) - disk <= ReportLimit * (b - 1) + attackVectorCnt
            /\ attackVectorCnt <= ReportLimit
        BY <2>1, <3>4, Zenon DEF FInv, Buffered, Counted
      <4>2. PICK k \in Nat : b = k + 1
        BY <4>1
      <4>3. PICK x \in Nat : x = ReportLimit * k /\ ReportLimit * b = x + ReportLimit
        BY <4>2, OneMore, Zenon
      <4>4. b - 1 = k
        BY <4>2
      <4> QED
        BY <3>1, <4>1, <4>3, <4>4
    <3> QED
      BY <3>2, <3>3, <3>4, Zenon DEF FInv, Typed
  <2>5. Len(rows) - disk <= ReportLimit * m
    BY <2>3, <2>4 DEF FInv, Typed
  <2> QED
    BY <2>2, <2>5, Zenon DEF FInv, Buffered, LossBounded
<1> QED
  BY <1>1, <1>2, <1>3, <1>4, <1>6, <1>7, Zenon DEF FuzzerSound

\* In every behaviour of the fuzzer, whichever contracts a file has, whichever of
\* them fail, whatever the calls do and however copier.Copy copies, the main
\* contract is a largest one, every overflow of a call that returned without error
\* has a row, there are no rows without an overflow, taints stay, and the rows that
\* never reach the file are bounded.
THEOREM FuzzerIsSound == Spec => []FuzzerSound
<1>1. Spec => []FInv
  BY InitInv, FuzzInductive, PTL DEF Spec
<1> QED
  BY <1>1, InvSound, PTL
=============================================================================
