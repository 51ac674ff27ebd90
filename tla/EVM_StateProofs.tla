-------------------------- MODULE EVM_StateProofs --------------------------
(***************************************************************************)
(* Proofs of what no step of EVM does to the state database, for all       *)
(* values of the constants: change what a static call protects, replace    *)
(* code, lower a nonce, overdraw an account, write to the storage of       *)
(* another contract under NoRecursion, or write anything after Cancel.     *)
(***************************************************************************)
EXTENDS EVM_proofs

-----------------------------------------------------------------------------
\* Databases.  CreateAccount resets whatever it finds, so the proofs rest on
\* what an account with nonce 0 looks like.

\* Every account is solvent; one that is missing is blank; and one with nonce 0,
\* which Create would take for free, has no code, storage or suicide mark.
CleanAccount(s) ==
  /\ s.balance >= 0
  /\ s.present \/ s = Blank
  /\ s.nonce = 0 => s.code = 0 /\ ~s.isSuicide /\ s.storage = [k \in Keys |-> 0]

Clean(d) == \A a \in Addr : CleanAccount(d.StateMap[a])

\* What the proofs read of an account besides GetNonce and GetCode.
Balance(d, a) == d.StateMap[a].balance
Dead(d, a) == d.StateMap[a].isSuicide
Storage(d, a) == d.StateMap[a].storage

\* The lemmas on the operators of StateDB look into the accounts; the ones on
\* the steps of EVM that follow do not.
USE DEF Balance, Dead, Storage, GetNonce, GetCode

\* The account b has the same nonce, code, suicide mark and storage in d and e.
Same(d, e, b) ==
  /\ GetNonce(e, b) = GetNonce(d, b)
  /\ GetCode(e, b) = GetCode(d, b)
  /\ Dead(e, b) = Dead(d, b)
  /\ Storage(e, b) = Storage(d, b)

\* At most balances differ between d and e.
Quiet(d, e) == e.Logs = d.Logs /\ \A b \in Addr : Same(d, e, b)

\* Replacing one account leaves the other accounts and the logs alone.
LEMMA PutKept ==
  ASSUME NEW d \in DB, NEW a \in Addr, NEW s \in State
  PROVE  LET e == [d EXCEPT !.StateMap[a] = s]
         IN  /\ e \in DB /\ e.Logs = d.Logs /\ e.StateMap[a] = s
             /\ \A b \in Addr \ {a} : e.StateMap[b] = d.StateMap[b]
             /\ Clean(d) /\ CleanAccount(s) => Clean(e)
<1> DEFINE e == [d EXCEPT !.StateMap[a] = s]
<1>1. e
        = [StateMap |-> [d.StateMap EXCEPT ![a] = s], Logs |-> d.Logs]
  BY DEF DB
<1>2. d.StateMap \in [Addr -> State]
  BY Zenon DEF DB
<1>3. /\ e \in DB /\ e.Logs = d.Logs /\ e.StateMap[a] = s
      /\ \A b \in Addr \ {a} : e.StateMap[b] = d.StateMap[b]
  BY <1>1, <1>2, PutAccount, Zenon
<1> HIDE DEF e
<1>4. Clean(d) /\ CleanAccount(s) => Clean(e)
  BY <1>3, Zenon DEF Clean
<1> QED
  BY <1>3, <1>4, Zenon DEF e

\* The fields of the blank account and of the one the writers create.
LEMMA BlankFields ==
  /\ ~Blank.present /\ NewState.present /\ Blank.isSuicide = NewState.isSuicide
  /\ \A s \in {Blank, NewState} :
       /\ s.balance = 0 /\ s.nonce = 0 /\ s.code = 0
       /\ ~s.isSuicide /\ s.storage = [k \in Keys |-> 0]
BY DEF Blank, NewState

\* Touching an account (the prologue of the writers) changes at most that it is
\* present.
LEMMA TouchKept ==
  ASSUME NEW d \in DB, Clean(d), NEW a \in Addr
  PROVE  LET t == Touch(d, a)
         IN  /\ t \in DB /\ Clean(t) /\ Quiet(d, t)
             /\ t.StateMap[a].present
             /\ \A b \in Addr : Balance(t, b) = Balance(d, b)
<1>1. CASE d.StateMap[a].present
  BY <1>1, Zenon DEF Touch, Quiet, Same
<1>2. CASE ~d.StateMap[a].present
  <2> DEFINE t == [d EXCEPT !.StateMap[a] = NewState]
  <2>1. Touch(d, a) = t
    BY <1>2, Zenon DEF Touch
  <2>2. /\ t \in DB /\ t.Logs = d.Logs /\ t.StateMap[a] = NewState
        /\ \A b \in Addr \ {a} : t.StateMap[b] = d.StateMap[b]
    BY PutKept, BlankType
  <2>3. d.StateMap[a] = Blank
    BY <1>2, Zenon DEF Clean, CleanAccount
  <2> HIDE DEF t
  <2>4. Quiet(d, t) /\ \A b \in Addr : Balance(t, b) = Balance(d, b)
    BY <2>2, <2>3, BlankFields DEF Quiet, Same
  <2>5. Clean(t)
    <3>1. CleanAccount(NewState)
      BY BlankFields DEF CleanAccount
    <3> QED
      BY <3>1, PutKept, BlankType, Zenon DEF t
  <2> QED
    BY <2>1, <2>2, <2>4, <2>5, BlankFields, Zenon
<1> QED
  BY <1>1, <1>2, Zenon

\* AddBalance of what leaves the account solvent changes only its balance.
LEMMA AddBalanceKept ==
  ASSUME NEW d \in DB, Clean(d), NEW a \in Addr, NEW v \in Int,
         Balance(d, a) + v >= 0
  PROVE  LET e == AddBalance(d, a, v)
         IN  /\ e \in DB /\ Clean(e) /\ Quiet(d, e)
             /\ Balance(e, a) = Balance(d, a) + v
             /\ \A b \in Addr \ {a} : Balance(e, b) = Balance(d, b)
<1> DEFINE t == Touch(d, a)
           s == t.StateMap[a]
           u == [s EXCEPT !.balance = s.balance + v]
           e == [t EXCEPT !.StateMap[a] = u]
<1>1. /\ t \in DB /\ Clean(t) /\ Quiet(d, t) /\ s.present
      /\ \A b \in Addr : Balance(t, b) = Balance(d, b)
  BY TouchKept, Zenon
<1> HIDE DEF t
<1>2. s \in State
  BY <1>1, Zenon DEF DB
<1>3. u \in State
  BY <1>2 DEF State
<1>4. /\ u.present = s.present /\ u.balance = s.balance + v /\ u.nonce = s.nonce /\ u.code = s.code
      /\ u.isSuicide = s.isSuicide /\ u.storage = s.storage
  BY <1>2, Zenon DEF State
<1>5. AddBalance(d, a, v) = e
  BY <1>1, <1>2, Zenon DEF AddBalance, t, DB, State
<1> HIDE DEF u, s
<1>6. /\ e \in DB /\ e.Logs = t.Logs /\ e.StateMap[a] = u
      /\ \A b \in Addr \ {a} : e.StateMap[b] = t.StateMap[b]
  BY <1>1, <1>3, PutKept
<1> HIDE DEF e
<1>7. Quiet(d, e)
  BY <1>1, <1>4, <1>6 DEF Quiet, Same, s
<1>8. Clean(e)
  <2>1. CleanAccount(s)
    BY <1>1, Zenon DEF Clean, s
  <2>2. CleanAccount(u)
    BY <1>1, <1>4, <2>1, Zenon DEF CleanAccount, s
  <2> QED
    BY <1>1, <1>3, <2>2, PutKept, Zenon DEF e
<1> QED
  BY <1>1, <1>4, <1>5, <1>6, <1>7, <1>8, Zenon DEF s

\* SubBalance of what the account has.
LEMMA SubBalanceKept ==
  ASSUME NEW d \in DB, Clean(d), NEW a \in Addr, NEW v \in Nat,
         Balance(d, a) >= v
  PROVE  LET e == SubBalance(d, a, v)
         IN  e \in DB /\ Clean(e) /\ Quiet(d, e)
<1>1. CASE ~d.StateMap[a].present
  BY <1>1, Zenon DEF SubBalance, Quiet, Same
<1>2. CASE d.StateMap[a].present
  <2> DEFINE s == d.StateMap[a]
             u == [s EXCEPT !.balance = s.balance - v]
             e == [d EXCEPT !.StateMap[a] = u]
  <2>1. s \in State
    BY Zenon DEF DB
  <2>2. u \in State
    BY <2>1 DEF State
  <2>3. /\ u.present = s.present /\ u.balance = s.balance - v /\ u.nonce = s.nonce /\ u.code = s.code
        /\ u.isSuicide = s.isSuicide /\ u.storage = s.storage /\ s.balance \in Int
    BY <2>1, Zenon DEF State
  <2>4. SubBalance(d, a, v) = e
    BY <1>2, <2>1, Zenon DEF SubBalance, DB, State
  <2> HIDE DEF u
  <2>5. /\ e \in DB /\ e.Logs = d.Logs /\ e.StateMap[a] = u
        /\ \A b \in Addr \ {a} : e.StateMap[b] = d.StateMap[b]
    BY <2>2, PutKept
  <2> HIDE DEF e
  <2>6. Quiet(d, e)
    BY <2>3, <2>5, Zenon DEF Quiet, Same
  <2>7. Clean(e)
    <3>1. CleanAccount(s)
      BY Zenon DEF Clean
    <3>2. CleanAccount(u)
      BY <1>2, <2>3, <3>1 DEF CleanAccount
    <3> QED
      BY <2>2, <3>2, PutKept, Zenon DEF e
  <2> QED
    BY <2>4, <2>5, <2>6, <2>7, Zenon
<1> QED
  BY <1>1, <1>2, Zenon

\* Transfer of what the sender has.
LEMMA TransferKept ==
  ASSUME NEW d \in DB, Clean(d), NEW a \in Addr, NEW b \in Addr, NEW v \in Nat,
         Balance(d, a) >= v
  PROVE  LET e == Transfer(d, a, b, v)
         IN  e \in DB /\ Clean(e) /\ Quiet(d, e)
<1> DEFINE c == SubBalance(d, a, v)
           e == AddBalance(c, b, v)
<1>1. c \in DB /\ Clean(c) /\ Quiet(d, c)
  BY SubBalanceKept, Zenon
<1> HIDE DEF c
<1>2. Balance(c, b) \in Int /\ Balance(c, b) >= 0
  BY <1>1, GetterType, Zenon DEF Clean, CleanAccount
<1>3. Balance(c, b) + v >= 0
  BY <1>2
<1>4. e \in DB /\ Clean(e) /\ Quiet(c, e)
  BY <1>1, <1>3, AddBalanceKept
<1> HIDE DEF e
<1>5. Quiet(d, e)
  BY <1>1, <1>4 DEF Quiet, Same
<1> QED
  BY <1>4, <1>5, Zenon DEF Transfer, c, e

\* Reading a balance raises it.
LEMMA GetBalanceKept ==
  ASSUME NEW d \in DB, Clean(d), NEW a \in Addr
  PROVE  LET e == GetBalanceEffect(d, a)
         IN  e \in DB /\ Clean(e) /\ Quiet(d, e)
<1>1. Balance(d, a) \in Int /\ Balance(d, a) >= 0
  BY GetterType, Zenon DEF Clean, CleanAccount
<1>2. Balance(d, a) + 100 >= 0
  BY <1>1
<1> QED
  BY <1>2, AddBalanceKept DEF GetBalanceEffect

\* What the writers have in common: they touch an account and replace it.
LEMMA PutTouched ==
  ASSUME NEW d \in DB, Clean(d), NEW a \in Addr, NEW s \in State, CleanAccount(s)
  PROVE  LET e == [Touch(d, a) EXCEPT !.StateMap[a] = s]
         IN  /\ e \in DB /\ Clean(e) /\ e.Logs = d.Logs /\ e.StateMap[a] = s
             /\ \A b \in Addr \ {a} :
                  Same(d, e, b) /\ Balance(e, b) = Balance(d, b)
<1> DEFINE t == Touch(d, a)
           e == [t EXCEPT !.StateMap[a] = s]
<1>1. /\ t \in DB /\ Clean(t) /\ Quiet(d, t)
      /\ \A b \in Addr : Balance(t, b) = Balance(d, b)
  BY TouchKept, Zenon
<1> HIDE DEF t
<1>2. /\ e \in DB /\ Clean(e) /\ e.Logs = t.Logs /\ e.StateMap[a] = s
      /\ \A b \in Addr \ {a} : e.StateMap[b] = t.StateMap[b]
  BY <1>1, PutKept
<1> HIDE DEF e
<1>3. /\ e.Logs = d.Logs
      /\ \A b \in Addr \ {a} :
           Same(d, e, b) /\ Balance(e, b) = Balance(d, b)
  BY <1>1, <1>2 DEF Quiet, Same
<1> QED
  BY <1>2, <1>3, Zenon DEF t, e

\* SetNonce to what is not 0, as Create does for caller and contract.
LEMMA SetNonceKept ==
  ASSUME NEW d \in DB, Clean(d), NEW a \in Addr, NEW n \in Nat \ {0}
  PROVE  LET e == SetNonce(d, a, n)
         IN  /\ e \in DB /\ Clean(e) /\ e.Logs = d.Logs
             /\ \A b \in Addr \ {a} : Same(d, e, b)
             /\ \A b \in Addr : Balance(e, b) = Balance(d, b)
             /\ GetCode(e, a) = GetCode(d, a)
             /\ Dead(e, a) = Dead(d, a)
             /\ Storage(e, a) = Storage(d, a)
             /\ GetNonce(e, a) = n
<1> DEFINE t == Touch(d, a)
           s == t.StateMap[a]
           u == [s EXCEPT !.nonce = n]
           e == [t EXCEPT !.StateMap[a] = u]
<1>1. /\ t \in DB /\ Clean(t) /\ Quiet(d, t) /\ s.present
      /\ \A b \in Addr : Balance(t, b) = Balance(d, b)
  BY TouchKept, Zenon
<1> HIDE DEF t
<1>2. s \in State /\ CleanAccount(s)
  BY <1>1, Zenon DEF DB, Clean
<1>3. u \in State
  BY <1>2, Zenon DEF State
<1>4. /\ u.nonce = n /\ u.present = s.present /\ u.balance = s.balance
      /\ u.code = s.code /\ u.isSuicide = s.isSuicide /\ u.storage = s.storage
  BY <1>2, Zenon DEF State
<1>5. SetNonce(d, a, n) = e
  BY <1>1, <1>2, Zenon DEF SetNonce, t, DB, State
<1>6. Same(d, t, a)
  BY <1>1, Zenon DEF Quiet
<1>7. t.StateMap[a] = s
  BY Zenon
<1> HIDE DEF u, s
<1>8. CleanAccount(u)
  BY <1>1, <1>2, <1>4, <1>6, <1>7, Zenon DEF CleanAccount, Same
<1>9. /\ e \in DB /\ Clean(e) /\ e.Logs = d.Logs /\ e.StateMap[a] = u
      /\ \A b \in Addr \ {a} :
           Same(d, e, b) /\ Balance(e, b) = Balance(d, b)
  BY <1>3, <1>8, PutTouched DEF t
<1> HIDE DEF e
<1> QED
  BY <1>1, <1>4, <1>5, <1>6, <1>7, <1>9 DEF Same

\* SetCode of an account that has a nonce.
LEMMA SetCodeKept ==
  ASSUME NEW d \in DB, Clean(d), NEW a \in Addr, NEW n \in Nat,
         GetNonce(d, a) # 0
  PROVE  LET e == SetCode(d, a, n)
         IN  /\ e \in DB /\ Clean(e) /\ e.Logs = d.Logs
             /\ \A b \in Addr \ {a} : Same(d, e, b)
             /\ \A b \in Addr : Balance(e, b) = Balance(d, b)
             /\ GetNonce(e, a) = GetNonce(d, a)
             /\ Dead(e, a) = Dead(d, a)
             /\ Storage(e, a) = Storage(d, a)
             /\ GetCode(e, a) = n
<1> DEFINE t == Touch(d, a)
           s == t.StateMap[a]
           u == [s EXCEPT !.code = n]
           e == [t EXCEPT !.StateMap[a] = u]
<1>1. /\ t \in DB /\ Clean(t) /\ Quiet(d, t) /\ s.present
      /\ \A b \in Addr : Balance(t, b) = Balance(d, b)
  BY TouchKept, Zenon
<1> HIDE DEF t
<1>2. s \in State /\ CleanAccount(s)
  BY <1>1, Zenon DEF DB, Clean
<1>3. u \in State
  BY <1>2, Zenon DEF State
<1>4. /\ u.code = n /\ u.present = s.present /\ u.balance = s.balance
      /\ u.nonce = s.nonce /\ u.isSuicide = s.isSuicide /\ u.storage = s.storage
  BY <1>2, Zenon DEF State
<1>5. SetCode(d, a, n) = e
  BY <1>1, <1>2, Zenon DEF SetCode, t, DB, State
<1>6. Same(d, t, a)
  BY <1>1, Zenon DEF Quiet
<1>7. t.StateMap[a] = s
  BY Zenon
<1> HIDE DEF u, s
<1>8. CleanAccount(u)
  BY <1>1, <1>2, <1>4, <1>6, <1>7, Zenon DEF CleanAccount, Same
<1>9. /\ e \in DB /\ Clean(e) /\ e.Logs = d.Logs /\ e.StateMap[a] = u
      /\ \A b \in Addr \ {a} :
           Same(d, e, b) /\ Balance(e, b) = Balance(d, b)
  BY <1>3, <1>8, PutTouched DEF t
<1> HIDE DEF e
<1> QED
  BY <1>1, <1>4, <1>5, <1>6, <1>7, <1>9 DEF Same

\* Suicide of an account that has a nonce.
LEMMA SuicideKept ==
  ASSUME NEW d \in DB, Clean(d), NEW a \in Addr,
         GetNonce(d, a) # 0
  PROVE  LET e == Suicide(d, a)
         IN  /\ e \in DB /\ Clean(e) /\ e.Logs = d.Logs
             /\ \A b \in Addr \ {a} : Same(d, e, b)
             /\ \A b \in Addr : Balance(e, b) = Balance(d, b)
             /\ GetNonce(e, a) = GetNonce(d, a)
             /\ GetCode(e, a) = GetCode(d, a)
             /\ Storage(e, a) = Storage(d, a)
<1> DEFINE t == Touch(d, a)
           s == t.StateMap[a]
           u == [s EXCEPT !.isSuicide = TRUE]
           e == [t EXCEPT !.StateMap[a] = u]
<1>1. /\ t \in DB /\ Clean(t) /\ Quiet(d, t) /\ s.present
      /\ \A b \in Addr : Balance(t, b) = Balance(d, b)
  BY TouchKept, Zenon
<1> HIDE DEF t
<1>2. s \in State /\ CleanAccount(s)
  BY <1>1, Zenon DEF DB, Clean
<1>3. u \in State
  BY <1>2, Zenon DEF State
<1>4. /\ u.isSuicide = TRUE /\ u.present = s.present /\ u.balance = s.balance
      /\ u.nonce = s.nonce /\ u.code = s.code /\ u.storage = s.storage
  BY <1>2, Zenon DEF State
<1>5. Suicide(d, a) = e
  BY <1>1, <1>2, Zenon DEF Suicide, t, DB, State
<1>6. Same(d, t, a)
  BY <1>1, Zenon DEF Quiet
<1>7. t.StateMap[a] = s
  BY Zenon
<1> HIDE DEF u, s
<1>8. CleanAccount(u)
  BY <1>1, <1>2, <1>4, <1>6, <1>7, Zenon DEF CleanAccount, Same
<1>9. /\ e \in DB /\ Clean(e) /\ e.Logs = d.Logs /\ e.StateMap[a] = u
      /\ \A b \in Addr \ {a} :
           Same(d, e, b) /\ Balance(e, b) = Balance(d, b)
  BY <1>3, <1>8, PutTouched DEF t
<1> HIDE DEF e
<1> QED
  BY <1>1, <1>4, <1>5, <1>6, <1>7, <1>9 DEF Same

\* SetState of an account that has a nonce: one storage cell of one account.
LEMMA SetStateKept ==
  ASSUME NEW d \in DB, Clean(d), NEW a \in Addr, NEW k \in Keys, NEW n \in Nat,
         GetNonce(d, a) # 0
  PROVE  LET e == SetState(d, a, k, n)
         IN  /\ e \in DB /\ Clean(e) /\ e.Logs = d.Logs
             /\ \A b \in Addr \ {a} : Same(d, e, b)
             /\ \A b \in Addr : Balance(e, b) = Balance(d, b)
             /\ GetNonce(e, a) = GetNonce(d, a)
             /\ GetCode(e, a) = GetCode(d, a)
             /\ Dead(e, a) = Dead(d, a)
             /\ \A x \in Keys \ {k} : Storage(e, a)[x] = Storage(d, a)[x]
<1> DEFINE t == Touch(d, a)
           s == t.StateMap[a]
           u == [s EXCEPT !.storage = [s.storage EXCEPT ![k] = n]]
           e == [t EXCEPT !.StateMap[a] = u]
<1>1. /\ t \in DB /\ Clean(t) /\ Quiet(d, t) /\ s.present
      /\ \A b \in Addr : Balance(t, b) = Balance(d, b)
  BY TouchKept, Zenon
<1> HIDE DEF t
<1>2. s \in State /\ CleanAccount(s)
  BY <1>1, Zenon DEF DB, Clean
<1>3. u \in State
  BY <1>2, Zenon DEF State
<1>4. /\ u.storage = [s.storage EXCEPT ![k] = n] /\ u.present = s.present /\ u.balance = s.balance
      /\ u.nonce = s.nonce /\ u.code = s.code /\ u.isSuicide = s.isSuicide
  BY <1>2, Zenon DEF State
<1>5. SetState(d, a, k, n) = e
  BY <1>1, <1>2, Zenon DEF SetState, t, DB, State
<1>6. Same(d, t, a)
  BY <1>1, Zenon DEF Quiet
<1>7. t.StateMap[a] = s
  BY Zenon
<1> HIDE DEF u, s
<1>8. CleanAccount(u)
  BY <1>1, <1>2, <1>4, <1>6, <1>7, Zenon DEF CleanAccount, Same
<1>9. /\ e \in DB /\ Clean(e) /\ e.Logs = d.Logs /\ e.StateMap[a] = u
      /\ \A b \in Addr \ {a} :
           Same(d, e, b) /\ Balance(e, b) = Balance(d, b)
  BY <1>3, <1>8, PutTouched, SMTT(30) DEF t
<1> HIDE DEF e
<1>10. s.storage \in [Keys -> Nat]
  BY <1>2, Zenon DEF State
<1>11. \A x \in Keys \ {k} : u.storage[x] = s.storage[x]
  BY <1>4, <1>10, Zenon
<1>12. s.storage = Storage(d, a)
  BY <1>6, <1>7, Zenon DEF Same
<1>13. \A x \in Keys \ {k} : Storage(e, a)[x] = Storage(d, a)[x]
  BY <1>9, <1>11, <1>12, Zenon
<1>14. /\ GetNonce(e, a) = GetNonce(d, a)
       /\ GetCode(e, a) = GetCode(d, a)
       /\ Dead(e, a) = Dead(d, a)
       /\ \A b \in Addr : Balance(e, b) = Balance(d, b)
  BY <1>1, <1>4, <1>6, <1>7, <1>9 DEF Same
<1> QED
  BY <1>5, <1>9, <1>13, <1>14, Zenon

\* CreateAccount of an account with nonce 0 takes away its balance and nothing
\* else.
LEMMA CreateAccountKept ==
  ASSUME NEW d \in DB, Clean(d), NEW a \in Addr, GetNonce(d, a) = 0
  PROVE  LET e == CreateAccount(d, a)
         IN  /\ e \in DB /\ Clean(e) /\ Quiet(d, e)
             /\ \A b \in Addr \ {a} : Balance(e, b) = Balance(d, b)
<1> DEFINE e == [d EXCEPT !.StateMap[a] = NewState]
<1>1. CleanAccount(NewState)
  BY BlankFields DEF CleanAccount
<1>2. /\ e \in DB /\ Clean(e) /\ e.Logs = d.Logs /\ e.StateMap[a] = NewState
      /\ \A b \in Addr \ {a} : e.StateMap[b] = d.StateMap[b]
  BY <1>1, BlankType, PutKept
<1> HIDE DEF e
<1>3. Same(d, e, a)
  <2>1. Dead(d, a) \in BOOLEAN
    BY Zenon DEF DB, State
  <2>2. NewState.isSuicide = FALSE
    BY Zenon DEF NewState, Blank
  <2>3. CleanAccount(d.StateMap[a])
    BY Zenon DEF Clean
  <2>4. Dead(d, a) = NewState.isSuicide
    BY <2>1, <2>2, <2>3, Zenon DEF CleanAccount
  <2> QED
    BY <1>2, <2>3, <2>4, BlankFields, Zenon DEF Same, CleanAccount
<1>4. Quiet(d, e)
  BY <1>2, <1>3, Zenon DEF Quiet, Same
<1> QED
  BY <1>2, <1>4, Zenon DEF e, CreateAccount

\* What Clean says of an account, in terms of what is read of it.
LEMMA CleanReads ==
  ASSUME NEW d \in DB, Clean(d), NEW a \in Addr
  PROVE  /\ Balance(d, a) \in Int /\ Balance(d, a) >= 0
         /\ GetNonce(d, a) = 0 => GetCode(d, a) = 0
BY GetterType, Zenon DEF Clean, CleanAccount

\* CanTransfer compares the balance that is left by reading it.
LEMMA CanTransferReads ==
  \A d, a, v : CanTransfer(d, a, v) <=> Balance(GetBalanceEffect(d, a), a) >= v
BY Zenon DEF CanTransfer

HIDE DEF Balance, Dead, Storage, GetNonce, GetCode

-----------------------------------------------------------------------------
\* Frames.

\* The accounts the frames run for have a nonce, the one a constructor runs for
\* has no code yet and no second constructor; no constructor runs above a static
\* call; and NoRecursion allows a single frame.
Owned(fs, d) ==
  /\ \A i \in 1..Len(fs) : GetNonce(d, fs[i].self) # 0
  /\ \A i \in 1..Len(fs) : fs[i].kind = "create" => GetCode(d, fs[i].self) = 0
  /\ \A i, j \in 1..Len(fs) :
       fs[i].kind = "create" /\ fs[j].kind = "create" /\ fs[i].self = fs[j].self => i = j
  /\ \A i, j \in 1..Len(fs) : fs[i].ro /\ i <= j => fs[j].kind # "create"
  /\ NoRecursion => Len(fs) <= 1

\* The inductive invariant: the one of EVM_proofs, and what the database and the
\* frames say of each other.
SInv == IInv /\ Clean(db) /\ Owned(frames, db)

\* The frames of gs are those of fs but for their gas.
SameShape(fs, gs) ==
  /\ Len(gs) = Len(fs)
  /\ \A i \in 1..Len(fs) :
       gs[i].self = fs[i].self /\ gs[i].kind = fs[i].kind /\ gs[i].ro = fs[i].ro

\* Changing the gas of the top frame keeps the shape.
LEMMA TopGasShape ==
  ASSUME NEW fs \in Seq(Frame), fs # <<>>, NEW g \in Word
  PROVE  LET gs == [fs EXCEPT ![Len(fs)].gas = g]
         IN  gs \in Seq(Frame) /\ SameShape(fs, gs)
<1> DEFINE gs == [fs EXCEPT ![Len(fs)].gas = g]
<1>1. /\ gs \in Seq(Frame) /\ Len(gs) = Len(fs)
      /\ \A i \in 1..(Len(fs) - 1) : gs[i] = fs[i]
      /\ gs[Len(fs)] = [fs[Len(fs)] EXCEPT !.gas = g]
      /\ gs[Len(fs)].ro = fs[Len(fs)].ro /\ gs[Len(fs)].kind = fs[Len(fs)].kind
  BY SetTopGas, Zenon
<1> HIDE DEF gs
<1>2. fs[Len(fs)] \in Frame
  OBVIOUS
<1>3. gs[Len(fs)].self = fs[Len(fs)].self
  BY <1>1, <1>2, Zenon DEF Frame
<1> QED
  BY <1>1, <1>3 DEF SameShape, gs

\* A return keeps the shape of the callers.
LEMMA DeliverShape ==
  ASSUME NEW fs \in Seq(Frame), NEW gas \in Word, NEW err, Deliver(fs, gas, err)
  PROVE  SameShape(fs, frames')
<1>1. CASE fs = <<>>
  BY <1>1, Zenon DEF Deliver, SameShape
<1>2. CASE fs # <<>>
  <2> DEFINE g == Add64(fs[Len(fs)].gas, gas)
  <2>1. fs[Len(fs)] \in Frame
    BY <1>2
  <2>2. fs[Len(fs)].gas \in Word
    BY <2>1, Zenon DEF Frame
  <2>3. g \in Word
    BY <2>2, Word64, Zenon
  <2>4. frames' = [fs EXCEPT ![Len(fs)].gas = g]
    BY <1>2, Zenon DEF Deliver
  <2> HIDE DEF g
  <2> QED
    BY <1>2, <2>3, <2>4, TopGasShape, Zenon
<1> QED
  BY <1>1, <1>2, Zenon

\* So does paying for an opcode.
LEMMA UseGasShape ==
  ASSUME IInv, frames # <<>>, NEW cost \in Nat, cost <= Top.gas
  PROVE  UseGas(cost) \in Seq(Frame) /\ SameShape(frames, UseGas(cost))
<1>1. frames \in Seq(Frame) /\ Top \in Frame
  BY DEF IInv, TypeOK, Top
<1>2. Top.gas \in Word
  BY <1>1, Zenon DEF Frame
<1>3. Top.gas - cost \in Word
  BY <1>2, ParamsAssumption, SMTT(30) DEF Word
<1>4. UseGas(cost) = [frames EXCEPT ![Len(frames)].gas = Top.gas - cost]
  BY Zenon DEF UseGas, Top
<1> QED
  BY <1>1, <1>3, <1>4, TopGasShape, Zenon

\* Owned depends on the shape of the frames, on which accounts have a nonce, and
\* on the code of those a constructor runs for.
LEMMA OwnedShape ==
  ASSUME NEW fs \in Seq(Frame), NEW gs, SameShape(fs, gs), NEW d, NEW e, Owned(fs, d),
         \A b \in Addr : GetNonce(d, b) # 0 => GetNonce(e, b) # 0,
         \A i \in 1..Len(fs) : fs[i].kind = "create" /\ GetCode(d, fs[i].self) = 0
                                => GetCode(e, fs[i].self) = 0
  PROVE  Owned(gs, e)
<1>1. \A i \in 1..Len(fs) : fs[i].self \in Addr
  <2>1. \A i \in 1..Len(fs) : fs[i] \in Frame
    OBVIOUS
  <2> QED
    BY <2>1, Zenon DEF Frame
<1> QED
  BY <1>1, Zenon DEF Owned, SameShape

\* Entering a frame.
LEMMA PushOwned ==
  ASSUME NEW fs \in Seq(Frame), NEW d, Owned(fs, d), NEW f,
         GetNonce(d, f.self) # 0,
         f.kind = "create" => /\ GetCode(d, f.self) = 0
                              /\ \A i \in 1..Len(fs) : fs[i].self # f.self /\ ~fs[i].ro
                              /\ ~f.ro,
         NoRecursion => fs = <<>>
  PROVE  Owned(Append(fs, f), d)
<1> DEFINE gs == Append(fs, f)
<1>1. /\ Len(gs) = Len(fs) + 1 /\ Len(fs) \in Nat
      /\ gs[Len(fs) + 1] = f
      /\ \A i \in 1..Len(fs) : gs[i] = fs[i]
  OBVIOUS
<1> HIDE DEF gs
<1>2. \A i \in 1..Len(gs) : i \in 1..Len(fs) \/ i = Len(fs) + 1
  BY <1>1
<1>3. NoRecursion => Len(gs) <= 1
  BY <1>1
<1>4. \A i, j \in 1..Len(gs) : i <= j /\ i = Len(fs) + 1 => j = i
  BY <1>1
<1> QED
  BY <1>1, <1>2, <1>3, <1>4 DEF Owned, gs

\* Leaving a frame.
LEMMA PopOwned ==
  ASSUME NEW fs \in Seq(Frame), fs # <<>>, NEW d, Owned(fs, d)
  PROVE  Owned(SubSeq(fs, 1, Len(fs) - 1), d)
<1> DEFINE gs == SubSeq(fs, 1, Len(fs) - 1)
<1>1. /\ Len(gs) = Len(fs) - 1
      /\ \A i \in 1..(Len(fs) - 1) : gs[i] = fs[i]
  BY Pop, Zenon
<1> HIDE DEF gs
<1>2. 1..Len(gs) \subseteq 1..Len(fs) /\ Len(gs) <= Len(fs)
  BY <1>1
<1>3. \A i \in 1..Len(gs) : gs[i] = fs[i]
  BY <1>1, Zenon
<1>4. NoRecursion => Len(gs) <= 1
  <2>1. Len(fs) \in Nat /\ (NoRecursion => Len(fs) <= 1)
    BY DEF Owned
  <2> QED
    BY <1>1, <2>1
<1> HIDE DEF gs
<1>5. Owned(gs, d)
  BY <1>2, <1>3, <1>4, Zenon DEF Owned
<1> QED
  BY <1>5, Zenon DEF gs

-----------------------------------------------------------------------------
\* Steps.

\* What a step may leave of the database: the part of KeepsState that is about
\* d, and what Cancel has stopped.
Allowed(d) ==
  /\ d \in DB /\ Clean(d)
  /\ \A b \in Addr : GetNonce(d, b) >= GetNonce(db, b)
  /\ \A b \in Addr : GetCode(db, b) # 0 => GetCode(d, b) = GetCode(db, b)
  /\ \A b \in Addr : Storage(d, b) # Storage(db, b)
                       => frames # <<>> /\ b = Top.self
  /\ readOnly => /\ d.Logs = db.Logs
                 /\ \A b \in Addr :
                      /\ GetNonce(d, b) = GetNonce(db, b)
                      /\ GetCode(d, b) = GetCode(db, b)
                      /\ Dead(d, b) = Dead(db, b)
                      /\ \A k \in Slots \ ArithOps :
                           Storage(d, b)[k] = Storage(db, b)[k]
  /\ abort /\ ~inflight => /\ d.Logs = db.Logs
                           /\ \A b \in Addr : /\ Storage(d, b) = Storage(db, b)
                                               /\ Dead(d, b) = Dead(db, b)

\* A step that leaves what is allowed keeps the state.
LEMMA AllowedKept ==
  ASSUME SInv, Allowed(db'), abort => ~inflight'
  PROVE  KeepsState
<1>1. StaticProtects
  <2> SUFFICES ASSUME readOnly PROVE Protected(db') = Protected(db)
    BY Zenon DEF StaticProtects
  <2>1. ASSUME NEW a \in Addr
        PROVE  /\ GetNonce(db', a) = GetNonce(db, a)
               /\ GetCode(db', a) = GetCode(db, a)
               /\ Dead(db', a) = Dead(db, a)
               /\ [k \in Slots \ ArithOps |-> Storage(db', a)[k]]
                    = [k \in Slots \ ArithOps |-> Storage(db, a)[k]]
    BY Zenon DEF Allowed
  <2>2. db'.Logs = db.Logs
    BY Zenon DEF Allowed
  <2> QED
    BY <2>1, <2>2, Zenon DEF Protected, GetNonce, GetCode, Dead, Storage
<1>2. CodeImmutable /\ NonceMonotone
  BY Zenon DEF Allowed, CodeImmutable, NonceMonotone, GetCode, GetNonce
<1>3. BalancesNonNegative'
  BY Zenon DEF Allowed, Clean, CleanAccount, BalancesNonNegative
<1>4. CallLocal
  <2>1. frames \in Seq(Frame) /\ (NoRecursion => Len(frames) <= 1)
    <3>1. IInv /\ Owned(frames, db)
      BY Zenon DEF SInv
    <3> QED
      BY <3>1, Zenon DEF IInv, TypeOK, Owned
  <2>2. NoRecursion /\ frames # <<>> => Len(frames) = 1
    <3>1. frames # <<>> => Len(frames) \in Nat \ {0}
      BY <2>1
    <3>2. \A n \in Nat \ {0} : n <= 1 => n = 1
      OBVIOUS
    <3> QED
      BY <2>1, <3>1, <3>2, Zenon
  <2> QED
    BY <2>2, Zenon DEF Allowed, CallLocal, Top, Storage
<1>5. CancelStopsWrites
  BY Zenon DEF Allowed, CancelStopsWrites, Storage, Dead
<1> QED
  BY <1>1, <1>2, <1>3, <1>4, <1>5, Zenon DEF KeepsState

\* A step that changes at most balances leaves what is allowed.
LEMMA QuietAllowed ==
  ASSUME SInv, NEW d \in DB, Clean(d), Quiet(db, d)
  PROVE  Allowed(d)
<1>1. \A b \in Addr : GetNonce(d, b) >= GetNonce(db, b)
  <2>1. \A b \in Addr : GetNonce(d, b) \in Nat
    BY GetterType, Zenon DEF GetNonce
  <2>2. \A b \in Addr : GetNonce(d, b) = GetNonce(db, b)
    BY Zenon DEF Quiet, Same
  <2>3. \A n \in Nat : n >= n
    OBVIOUS
  <2> QED
    BY <2>1, <2>2, <2>3, Zenon
<1> QED
  BY <1>1, Zenon DEF Allowed, Quiet, Same

\* Owned survives a step that keeps the shape of the frames and at most changes
\* balances.
LEMMA QuietOwned ==
  ASSUME SInv, NEW gs, SameShape(frames, gs), NEW d, Quiet(db, d)
  PROVE  Owned(gs, d)
<1>1. frames \in Seq(Frame) /\ Owned(frames, db)
  BY Zenon DEF SInv, IInv, TypeOK
<1>2. \A i \in 1..Len(frames) : frames[i].self \in Addr
  <2>1. \A i \in 1..Len(frames) : frames[i] \in Frame
    BY <1>1
  <2> QED
    BY <2>1, Zenon DEF Frame
<1>3. /\ \A b \in Addr : GetNonce(db, b) # 0 => GetNonce(d, b) # 0
      /\ \A i \in 1..Len(frames) :
           frames[i].kind = "create" /\ GetCode(db, frames[i].self) = 0
             => GetCode(d, frames[i].self) = 0
  BY <1>2, Zenon DEF Quiet, Same
<1> QED
  BY <1>1, <1>3, OwnedShape, Zenon

\* The calls: money moves, and perhaps a frame is entered.
LEMMA InvokeState ==
  ASSUME SInv, NEW fs \in Seq(Frame), SameShape(frames, fs),
         NEW kind \in Kinds \ {"create"}, NEW caller \in Addr, NEW a \in Addr,
         NEW v \in Nat, NEW gas \in Word,
         kind # "call" => frames # <<>> /\ caller = Top.self,
         Invoke(fs, kind, caller, a, v, gas)
  PROVE  Allowed(db') /\ Owned(frames', db')
<1> DEFINE pays == kind \in {"call", "callcode"}
           d1 == IF pays THEN GetBalanceEffect(db, caller) ELSE db
           d2 == IF kind = "call" THEN Transfer(d1, caller, a, v) ELSE d1
           setRO == kind = "static" /\ ~readOnly
           self == IF kind \in {"callcode", "delegate"} THEN caller ELSE a
           runs == ~Blocked /\ (pays => CanTransfer(db, caller, v))
           enters == /\ runs /\ db' = d2 /\ GetCode(d2, a) > 0
                     /\ frames' = Append(fs, NewContract(kind, self, gas, setRO, d1))
<1>1. db \in DB /\ Clean(db) /\ frames \in Seq(Frame) /\ Owned(frames, db) /\ depth = Len(frames)
  BY Zenon DEF SInv, IInv, TypeOK, DepthInv
<1>2. Quiet(db, db)
  BY Zenon DEF Quiet, Same
<1>3. d1 \in DB /\ Clean(d1) /\ Quiet(db, d1)
  BY <1>1, <1>2, GetBalanceKept, Zenon
<1>4. ASSUME runs
      PROVE  d2 \in DB /\ Clean(d2) /\ Quiet(db, d2)
  <2>1. CASE kind # "call"
    BY <1>3, <2>1, Zenon
  <2>2. CASE kind = "call"
    <3>1. Balance(d1, caller) >= v
      BY <1>4, <2>2, CanTransferReads, Zenon
    <3> HIDE DEF d1
    <3>2. d2 = Transfer(d1, caller, a, v)
      BY <2>2, Zenon
    <3>3. d2 \in DB /\ Clean(d2) /\ Quiet(d1, d2)
      BY <1>3, <3>1, <3>2, TransferKept, Zenon
    <3> HIDE DEF d2
    <3> QED
      BY <1>3, <3>3, Zenon DEF Quiet, Same
  <2> QED
    BY <2>1, <2>2, Zenon
<1>5. \/ \E g \in Word : \E e : Deliver(fs, g, e) /\ (db' = db \/ db' = d1 \/ (runs /\ db' = d2))
      \/ enters
  <2>1. \A r \in RunPrecompiledContract(gas) : r.gas \in Word
    BY ParamsAssumption, InputsAssumption, SMTT(30) DEF RunPrecompiledContract, Word
  <2> HIDE DEF d1, d2
  <2>2. \/ Deliver(fs, gas, "nil") /\ db' = db
        \/ Deliver(fs, gas, "depth") /\ db' = db
        \/ Deliver(fs, gas, "funds") /\ db' = d1
        \/ runs /\ db' = d2 /\ \E r \in RunPrecompiledContract(gas) : Deliver(fs, r.gas, r.err)
        \/ runs /\ db' = d2 /\ Deliver(fs, gas, "nil")
        \/ enters
    BY Zenon DEF Invoke, Enter, d1, d2
  <2> HIDE DEF enters, runs
  <2> QED
    BY <2>1, <2>2, Zenon
<1>6. ASSUME NEW g \in Word, NEW e, Deliver(fs, g, e),
             db' = db \/ db' = d1 \/ (runs /\ db' = d2)
      PROVE  Allowed(db') /\ Owned(frames', db')
  <2>1. SameShape(fs, frames')
    BY <1>6, DeliverShape, Zenon
  <2>2. SameShape(frames, frames')
    BY <2>1, Zenon DEF SameShape
  <2> HIDE DEF runs, d1, d2
  <2>3. db' \in DB /\ Clean(db') /\ Quiet(db, db')
    BY <1>1, <1>2, <1>3, <1>4, <1>6, Zenon
  <2> QED
    BY <2>2, <2>3, QuietAllowed, QuietOwned, Zenon
<1>7. ASSUME enters
      PROVE  Allowed(db') /\ Owned(frames', db')
  <2> DEFINE f == NewContract(kind, self, gas, setRO, d1)
  <2>1. d2 \in DB /\ Clean(d2) /\ Quiet(db, d2) /\ db' = d2
    BY <1>4, <1>7, Zenon
  <2>2. frames' = Append(fs, f) /\ f.self = self /\ f.kind = kind
    BY <1>7, Zenon DEF NewContract
  <2>3. Owned(fs, d2)
    BY <2>1, QuietOwned, Zenon
  <2>4. NoRecursion => fs = <<>>
    <3> SUFFICES ASSUME NoRecursion PROVE fs = <<>>
      BY Zenon
    <3>1. Len(frames) = 0
      BY <1>1, <1>7 DEF Blocked
    <3>2. Len(fs) = 0
      BY <3>1, Zenon DEF SameShape
    <3> QED
      BY <3>2
  <2>5. GetNonce(d2, a) # 0
    <3>1. GetCode(d2, a) # 0
      BY <1>7, <2>1, GetterType DEF GetCode
    <3> HIDE DEF d2
    <3> QED
      BY <2>1, <3>1, CleanReads, Zenon
  <2>6. self # a => GetNonce(d2, caller) # 0
    <3> SUFFICES ASSUME self # a PROVE GetNonce(d2, caller) # 0
      BY Zenon
    <3>1. frames # <<>> /\ caller = Top.self
      BY Zenon
    <3>2. Len(frames) \in 1..Len(frames)
      BY <1>1, <3>1
    <3>3. GetNonce(db, caller) # 0
      BY <1>1, <3>1, <3>2, Zenon DEF Owned, Top
    <3> HIDE DEF d2
    <3> QED
      BY <2>1, <3>3, Zenon DEF Quiet, Same
  <2>7. GetNonce(d2, f.self) # 0 /\ f.kind # "create"
    BY <2>2, <2>5, <2>6, Zenon
  <2> HIDE DEF f, d2
  <2>8. Owned(frames', d2)
    BY <2>2, <2>3, <2>4, <2>7, PushOwned, Zenon
  <2> QED
    BY <2>1, <2>8, QuietAllowed, Zenon
<1> HIDE DEF enters, runs, d1, d2
<1> QED
  BY <1>5, <1>6, <1>7, Zenon

\* A step that raises nonces and may move money, outside static calls.
Raised(d, e) ==
  /\ e.Logs = d.Logs
  /\ \A b \in Addr : /\ GetNonce(e, b) >= GetNonce(d, b)
                      /\ GetCode(e, b) = GetCode(d, b)
                      /\ Dead(e, b) = Dead(d, b)
                      /\ Storage(e, b) = Storage(d, b)

\* Such a step leaves what is allowed, and keeps Owned.
LEMMA RaisedKept ==
  ASSUME SInv, ~readOnly, NEW gs, SameShape(frames, gs), NEW d \in DB, Clean(d), Raised(db, d)
  PROVE  Allowed(d) /\ Owned(gs, d)
<1>1. frames \in Seq(Frame) /\ Owned(frames, db) /\ db \in DB
  BY Zenon DEF SInv, IInv, TypeOK
<1>2. \A i \in 1..Len(frames) : frames[i].self \in Addr
  <2>1. \A i \in 1..Len(frames) : frames[i] \in Frame
    BY <1>1
  <2> QED
    BY <2>1, Zenon DEF Frame
<1>3. \A b \in Addr : GetNonce(db, b) # 0 => GetNonce(d, b) # 0
  <2>1. \A b \in Addr : GetNonce(d, b) \in Nat /\ GetNonce(db, b) \in Nat
    BY <1>1, GetterType, Zenon DEF GetNonce
  <2> QED
    BY <2>1 DEF Raised
<1>4. \A i \in 1..Len(frames) :
        frames[i].kind = "create" /\ GetCode(db, frames[i].self) = 0
          => GetCode(d, frames[i].self) = 0
  BY <1>2, Zenon DEF Raised
<1>5. Owned(gs, d)
  BY <1>1, <1>3, <1>4, OwnedShape, Zenon
<1> QED
  BY <1>5, Zenon DEF Allowed, Raised

\* EVM.Create: the nonce of the caller, the reset of the account and its nonce.
LEMMA CreateState ==
  ASSUME SInv, ~readOnly, NEW fs \in Seq(Frame), SameShape(frames, fs),
         NEW caller \in Addr, NEW v \in Nat, NEW gas \in Word,
         Create(fs, caller, v, gas)
  PROVE  Allowed(db') /\ Owned(frames', db')
<1> DEFINE d1 == GetBalanceEffect(db, caller)
           nonce == GetNonce(d1, caller)
           d2 == SetNonce(d1, caller, nonce + 1)
           a == CreateAddress[<<caller, nonce>>]
           c == CreateAccount(d2, a)
           e == SetNonce(c, a, 1)
           d3 == Transfer(e, caller, a, v)
           funded == CanTransfer(db, caller, v) /\ GetNonce(d2, a) = 0
           enters == /\ funded /\ ~Blocked /\ db' = d3
                     /\ frames' = Append(fs, NewContract("create", a, gas, FALSE, d2))
<1>1. /\ db \in DB /\ Clean(db) /\ frames \in Seq(Frame) /\ Owned(frames, db)
      /\ depth = Len(frames) /\ ReadOnlyInv
  BY Zenon DEF SInv, IInv, TypeOK, DepthInv
<1>2. d1 \in DB /\ Clean(d1) /\ Quiet(db, d1)
  BY <1>1, GetBalanceKept, Zenon
<1>3. CanTransfer(db, caller, v) => Balance(d1, caller) >= v
  BY CanTransferReads, Zenon
<1>4. \/ \E g \in Word : \E r : Deliver(fs, g, r) /\ (db' \in {db, d1, d2} \/ (funded /\ db' = d3))
      \/ enters
  <2> HIDE DEF d1, d2, d3
  <2>1. \/ Deliver(fs, gas, "depth") /\ db' = db
        \/ Deliver(fs, gas, "funds") /\ db' = d1
        \/ Deliver(fs, 0, "collision") /\ db' = d2
        \/ Deliver(fs, gas, "nil") /\ funded /\ db' = d3
        \/ enters
    BY Zenon DEF Create, Enter, Collides, d1, d2, d3
  <2>2. 0 \in Word
    BY ParamsAssumption DEF Word
  <2> HIDE DEF enters, funded
  <2> QED
    BY <2>1, <2>2, Zenon
<1>5. nonce < MaxNonce
  BY Zenon DEF Create
<1> HIDE DEF d1
<1>6. nonce \in Nat /\ nonce = GetNonce(d1, caller)
  BY <1>2, GetterType, Zenon DEF GetNonce
<1> HIDE DEF nonce
<1>7. a \in Addr
  <2>1. nonce \in Nat /\ nonce < MaxNonce
    BY <1>5, <1>6, Zenon
  <2>2. nonce \in 0..MaxNonce
    BY <2>1, ParamsAssumption
  <2>3. CreateAddress \in [Addr \X (0..MaxNonce) -> Addr]
    BY InputsAssumption, Zenon
  <2> QED
    BY <2>2, <2>3, Zenon
<1> HIDE DEF a
<1>8. /\ d2 \in DB /\ Clean(d2) /\ Raised(db, d2)
      /\ GetNonce(d2, caller) # 0
      /\ Balance(d2, caller) = Balance(d1, caller)
  <2>1. nonce + 1 \in Nat \ {0}
    BY <1>6
  <2>2. /\ d2 \in DB /\ Clean(d2) /\ d2.Logs = d1.Logs
        /\ \A b \in Addr \ {caller} : Same(d1, d2, b)
        /\ \A b \in Addr : Balance(d2, b) = Balance(d1, b)
        /\ GetNonce(d2, caller) = nonce + 1
        /\ GetCode(d2, caller) = GetCode(d1, caller)
        /\ Dead(d2, caller) = Dead(d1, caller)
        /\ Storage(d2, caller) = Storage(d1, caller)
    BY <1>2, <2>1, SetNonceKept, Zenon
  <2> HIDE DEF d2
  <2>3. \A b \in Addr : GetNonce(d1, b) \in Nat
    BY <1>2, GetterType, Zenon DEF GetNonce
  <2>4. \A b \in Addr : GetNonce(d2, b) >= GetNonce(d1, b)
    <3>1. \A x \in Nat : x >= x /\ x + 1 >= x
      OBVIOUS
    <3>2. \A b \in Addr : \/ GetNonce(d2, b) = GetNonce(d1, b)
                           \/ GetNonce(d2, b) = GetNonce(d1, b) + 1
      BY <1>6, <2>2, Zenon DEF Same
    <3> QED
      BY <2>3, <3>1, <3>2, Zenon
  <2>5. Raised(db, d2)
    BY <1>2, <2>2, <2>4, Zenon DEF Raised, Quiet, Same
  <2> QED
    BY <1>6, <2>1, <2>2, <2>5, Zenon
<1> HIDE DEF d2
<1>9. ASSUME funded
      PROVE  /\ d3 \in DB /\ Clean(d3) /\ Raised(db, d3) /\ Raised(d2, d3)
             /\ GetNonce(d3, a) = 1 /\ GetCode(d3, a) = 0
  <2>1. GetNonce(d2, a) = 0 /\ a # caller
    BY <1>8, <1>9 DEF GetNonce
  <2>2. /\ c \in DB /\ Clean(c) /\ Quiet(d2, c)
        /\ \A b \in Addr \ {a} : Balance(c, b) = Balance(d2, b)
    BY <1>7, <1>8, <2>1, CreateAccountKept, SMTT(30)
  <2> HIDE DEF c
  <2>3. /\ e \in DB /\ Clean(e) /\ e.Logs = c.Logs
        /\ \A b \in Addr \ {a} : Same(c, e, b)
        /\ \A b \in Addr : Balance(e, b) = Balance(c, b)
        /\ GetNonce(e, a) = 1
        /\ GetCode(e, a) = GetCode(c, a)
        /\ Dead(e, a) = Dead(c, a)
        /\ Storage(e, a) = Storage(c, a)
    <3>1. 1 \in Nat \ {0}
      OBVIOUS
    <3> QED
      BY <1>7, <2>2, <3>1, SetNonceKept
  <2> HIDE DEF e
  <2>4. Balance(e, caller) >= v
    BY <1>3, <1>8, <1>9, <2>1, <2>2, <2>3, Zenon
  <2>5. d3 \in DB /\ Clean(d3) /\ Quiet(e, d3)
    BY <1>7, <2>3, <2>4, TransferKept, Zenon
  <2> HIDE DEF d3
  <2>6. \A b \in Addr : GetNonce(d2, b) \in Nat /\ GetNonce(d3, b) \in Nat
    BY <1>8, <2>5, GetterType, Zenon DEF GetNonce
  <2>7. /\ \A b \in Addr \ {a} : GetNonce(d3, b) = GetNonce(d2, b)
        /\ GetNonce(d3, a) = 1
    BY <1>7, <2>2, <2>3, <2>5, SMTT(30) DEF Quiet, Same
  <2>8. \A b \in Addr : GetNonce(d3, b) >= GetNonce(d2, b)
    <3>1. \A x \in Nat : x >= x /\ x >= 0
      OBVIOUS
    <3> QED
      BY <2>1, <2>6, <2>7, <3>1, Zenon
  <2>9. Raised(d2, d3)
    BY <1>7, <2>2, <2>3, <2>5, <2>8 DEF Raised, Quiet, Same
  <2>10. Raised(db, d3)
    <3>1. \A b \in Addr : GetNonce(db, b) \in Nat
      BY <1>1, GetterType, Zenon DEF GetNonce
    <3>2. \A b \in Addr : GetNonce(d3, b) >= GetNonce(db, b)
      <4>1. \A x, y, z \in Nat : x >= y /\ y >= z => x >= z
        OBVIOUS
      <4>2. \A b \in Addr : /\ GetNonce(d3, b) >= GetNonce(d2, b)
                            /\ GetNonce(d2, b) >= GetNonce(db, b)
        BY <1>8, <2>9, Zenon DEF Raised
      <4> QED
        BY <2>6, <3>1, <4>1, <4>2, Zenon
    <3> QED
      BY <1>8, <2>9, <3>2, Zenon DEF Raised
  <2>11. GetCode(d3, a) = 0
    BY <1>7, <1>8, <2>1, <2>9, CleanReads, Zenon DEF Raised
  <2> QED
    BY <2>5, <2>7, <2>9, <2>10, <2>11, Zenon
<1>10. ASSUME NEW g \in Word, NEW r, Deliver(fs, g, r),
              db' \in {db, d1, d2} \/ (funded /\ db' = d3)
       PROVE  Allowed(db') /\ Owned(frames', db')
  <2>1. SameShape(fs, frames')
    BY <1>10, DeliverShape, Zenon
  <2>2. SameShape(frames, frames')
    BY <2>1, Zenon DEF SameShape
  <2> HIDE DEF funded, d3
  <2>3. CASE db' \in {db, d1}
    <3>1. Quiet(db, db)
      BY Zenon DEF Quiet, Same
    <3>2. db' \in DB /\ Clean(db') /\ Quiet(db, db')
      BY <1>1, <1>2, <2>3, <3>1, Zenon
    <3> QED
      BY <2>2, <3>2, QuietAllowed, QuietOwned, Zenon
  <2>4. CASE db' = d2 \/ (funded /\ db' = d3)
    <3>1. db' \in DB /\ Clean(db') /\ Raised(db, db')
      BY <1>8, <1>9, <2>4, Zenon
    <3> QED
      BY <2>2, <3>1, RaisedKept, Zenon
  <2> QED
    BY <1>10, <2>3, <2>4, Zenon
<1>11. ASSUME enters
       PROVE  Allowed(db') /\ Owned(frames', db')
  <2> DEFINE f == NewContract("create", a, gas, FALSE, d2)
  <2>1. /\ d3 \in DB /\ Clean(d3) /\ Raised(db, d3)
        /\ GetNonce(d3, a) = 1 /\ GetCode(d3, a) = 0
    BY <1>9, <1>11, Zenon
  <2>2. frames' = Append(fs, f) /\ db' = d3
    BY <1>11, Zenon
  <2>3. f.self = a /\ f.ro = FALSE
    BY Zenon DEF NewContract
  <2> HIDE DEF d3, f
  <2>4. Allowed(d3) /\ Owned(fs, d3)
    BY <2>1, RaisedKept, Zenon
  <2>5. NoRecursion => fs = <<>>
    <3> SUFFICES ASSUME NoRecursion PROVE fs = <<>>
      BY Zenon
    <3>1. Len(frames) = 0
      BY <1>1, <1>11 DEF Blocked
    <3>2. Len(fs) = 0
      BY <3>1, Zenon DEF SameShape
    <3> QED
      BY <3>2
  <2>6. \A i \in 1..Len(fs) : fs[i].self # a /\ ~fs[i].ro
    <3>1. Owned(fs, d2)
      BY <1>8, RaisedKept, Zenon
    <3>2. GetNonce(d2, a) = 0
      BY <1>11 DEF GetNonce
    <3>3. \A i \in 1..Len(fs) : ~fs[i].ro
      BY <1>1, Zenon DEF ReadOnlyInv, SameShape
    <3> QED
      BY <3>1, <3>2, <3>3, Zenon DEF Owned
  <2>7. Owned(frames', d3)
    BY <2>1, <2>2, <2>3, <2>4, <2>5, <2>6, PushOwned, SMTT(30)
  <2> QED
    BY <2>2, <2>4, <2>7, Zenon
<1> HIDE DEF enters, funded, d3
<1> QED
  BY <1>4, <1>10, <1>11, Zenon

\* The running frame: its account has a nonce, and if it is a constructor's, the
\* account has no code and no static call is active.
LEMMA TopOwned ==
  ASSUME SInv, frames # <<>>
  PROVE  /\ frames \in Seq(Frame) /\ Len(frames) \in 1..Len(frames)
         /\ Top \in Frame /\ Top.self \in Addr /\ Top.gas \in Word
         /\ db \in DB /\ Clean(db) /\ Owned(frames, db)
         /\ GetNonce(db, Top.self) # 0
         /\ Top.kind = "create" => ~readOnly /\ GetCode(db, Top.self) = 0
<1>1. frames \in Seq(Frame) /\ db \in DB /\ Clean(db) /\ Owned(frames, db) /\ ReadOnlyInv
  BY Zenon DEF SInv, IInv, TypeOK
<1>2. Len(frames) \in 1..Len(frames)
  BY <1>1
<1>3. Top \in Frame
  BY <1>1, <1>2 DEF Top
<1>4. Top.self \in Addr /\ Top.gas \in Word
  BY <1>3, Zenon DEF Frame
<1>5. \A i \in 1..Len(frames) : i <= Len(frames)
  BY <1>1
<1>6. Top.kind = "create" => ~readOnly
  BY <1>1, <1>2, <1>5, Zenon DEF Owned, ReadOnlyInv, Top
<1> QED
  BY <1>1, <1>2, <1>3, <1>4, <1>6, Zenon DEF Owned, Top

\* Nonces that are allowed are still there.
LEMMA AllowedNonce ==
  ASSUME SInv, NEW d, Allowed(d)
  PROVE  \A b \in Addr : GetNonce(db, b) # 0 => GetNonce(d, b) # 0
<1>1. db \in DB /\ d \in DB
  BY Zenon DEF SInv, IInv, TypeOK, Allowed
<1>2. \A b \in Addr : GetNonce(db, b) \in Nat /\ GetNonce(d, b) \in Nat
  BY <1>1, GetterType, Zenon DEF GetNonce
<1>3. \A x, y \in Nat : y >= x /\ x # 0 => y # 0
  OBVIOUS
<1> QED
  BY <1>2, <1>3, Zenon DEF Allowed

\* Leaving the running frame: only a constructor's account may have got code.
LEMMA ExitState ==
  ASSUME SInv, frames # <<>>, NEW err, NEW gas \in Word, NEW d, Allowed(d),
         \A b \in Addr : \/ GetCode(d, b) = GetCode(db, b)
                         \/ b = Top.self /\ Top.kind = "create",
         Exit(err, gas, d)
  PROVE  Allowed(db') /\ Owned(frames', db')
<1> DEFINE n == Len(frames)
<1>1. frames \in Seq(Frame) /\ n \in 1..n /\ Owned(frames, db)
  BY TopOwned, Zenon
<1>2. Callers \in Seq(Frame) /\ Len(Callers) = n - 1 /\ \A i \in 1..(n - 1) : Callers[i] = frames[i]
  BY <1>1, Pop, Zenon DEF Callers
<1>3. Owned(Callers, db)
  BY <1>1, PopOwned, Zenon DEF Callers
<1>4. \A i \in 1..Len(Callers) : i \in 1..n /\ i # n /\ Callers[i].self \in Addr
  <2>1. \A i \in 1..Len(Callers) : Callers[i] \in Frame
    BY <1>2
  <2>2. \A i \in 1..Len(Callers) : i \in 1..n /\ i # n
    BY <1>1, <1>2
  <2> QED
    BY <2>1, <2>2, Zenon DEF Frame
<1>5. ASSUME NEW i \in 1..Len(Callers), Callers[i].kind = "create"
      PROVE  GetCode(d, Callers[i].self) = GetCode(db, Callers[i].self)
  <2>1. Callers[i] = frames[i] /\ i \in 1..n /\ i # n
    BY <1>2, <1>4, Zenon
  <2>2. ~(frames[i].self = Top.self /\ Top.kind = "create")
    BY <1>1, <1>5, <2>1 DEF Owned, Top
  <2> QED
    BY <1>4, <2>1, <2>2, Zenon
<1>6. Owned(Callers, d)
  <2>1. SameShape(Callers, Callers)
    BY Zenon DEF SameShape
  <2> QED
    BY <1>2, <1>3, <1>5, <2>1, AllowedNonce, OwnedShape
<1>7. db' = d
  BY Zenon DEF Exit, RevertToSnapshot
<1>8. SameShape(Callers, frames')
  <2> DEFINE g == IF err = "fail" THEN 0 ELSE gas
  <2>1. g \in Word
    BY ParamsAssumption DEF Word
  <2>2. Deliver(Callers, g, err)
    BY Zenon DEF Exit
  <2> HIDE DEF g
  <2> QED
    BY <1>2, <2>1, <2>2, DeliverShape, Zenon
<1>9. Owned(frames', d)
  BY <1>2, <1>6, <1>8, OwnedShape, Zenon
<1> QED
  BY <1>7, <1>9, Zenon

\* Run returned without error: Create stores the code.
LEMMA FinishState ==
  ASSUME SInv, frames # <<>>, NEW ret \in Nat, NEW gas \in Word, gas <= Top.gas,
         NEW d, Allowed(d), \A b \in Addr : GetCode(d, b) = GetCode(db, b),
         Finish(ret, gas, d)
  PROVE  Allowed(db') /\ Owned(frames', db')
<1>1. CASE Exit("nil", gas, d) \/ Exit("fail", gas, d)
  BY <1>1, ExitState, Zenon
<1>2. CASE /\ Top.kind = "create" /\ ret * CreateDataGas <= gas
           /\ Exit("nil", gas - ret * CreateDataGas, SetCode(d, Top.self, ret))
  <2> DEFINE fee == ret * CreateDataGas
             e == SetCode(d, Top.self, ret)
             x == Top.self
  <2>1. fee \in Nat
    BY ParamsAssumption
  <2>2. fee <= gas /\ Exit("nil", gas - fee, e)
    BY <1>2, Zenon
  <2> HIDE DEF fee
  <2>3. gas - fee \in Word
    BY <2>1, <2>2, ParamsAssumption DEF Word
  <2>4. /\ x \in Addr /\ GetNonce(db, x) # 0
        /\ ~readOnly /\ GetCode(db, x) = 0
    BY <1>2, TopOwned, Zenon
  <2>5. d \in DB /\ Clean(d) /\ GetNonce(d, x) # 0
    BY <2>4, AllowedNonce, Zenon DEF Allowed
  <2>6. /\ e \in DB /\ Clean(e) /\ e.Logs = d.Logs
        /\ \A b \in Addr \ {x} : Same(d, e, b)
        /\ GetNonce(e, x) = GetNonce(d, x)
        /\ Dead(e, x) = Dead(d, x)
        /\ Storage(e, x) = Storage(d, x)
    BY <2>4, <2>5, SetCodeKept
  <2> HIDE DEF e, x
  <2>7. \A b \in Addr : /\ GetNonce(e, b) = GetNonce(d, b)
                        /\ Dead(e, b) = Dead(d, b)
                        /\ Storage(e, b) = Storage(d, b)
    BY <2>6, Zenon DEF Same
  <2>8. \A b \in Addr : GetCode(e, b) = GetCode(db, b) \/ b = x
    BY <2>6, Zenon DEF Same
  <2>9. Allowed(e)
    BY <2>4, <2>6, <2>7, <2>8, Zenon DEF Allowed
  <2> QED
    BY <1>2, <2>2, <2>3, <2>8, <2>9, ExitState, Zenon DEF x
<1> QED
  BY <1>1, <1>2, Zenon DEF Finish

\* An opcode that stays in its frame.
LEMMA ExecuteState ==
  ASSUME SInv, NEW c \in OpCosts, NEW d, Allowed(d),
         \A b \in Addr : GetCode(d, b) = GetCode(db, b),
         Execute(c, d)
  PROVE  Allowed(db') /\ Owned(frames', db')
<1>1. /\ frames # <<>> /\ c \in Nat /\ c <= Top.gas
      /\ frames' = UseGas(c) /\ db' = d /\ IInv
  BY InputsAssumption, ParamsAssumption DEF Execute, Running, Word, SInv
<1>2. frames \in Seq(Frame) /\ Owned(frames, db)
  BY <1>1, TopOwned, Zenon
<1>3. SameShape(frames, frames')
  BY <1>1, UseGasShape, Zenon
<1>4. \A i \in 1..Len(frames) : frames[i].self \in Addr
  <2>1. \A i \in 1..Len(frames) : frames[i] \in Frame
    BY <1>2
  <2> QED
    BY <2>1, Zenon DEF Frame
<1>5. \A i \in 1..Len(frames) :
        frames[i].kind = "create" /\ GetCode(db, frames[i].self) = 0
          => GetCode(d, frames[i].self) = 0
  BY <1>4, Zenon
<1>6. Owned(frames', d)
  BY <1>2, <1>3, <1>5, AllowedNonce, OwnedShape
<1> QED
  BY <1>1, <1>6, Zenon

\* SSTORE and the taint of an overflow: one cell of the running contract.
LEMMA StoreAllowed ==
  ASSUME SInv, frames # <<>>, abort => inflight, NEW k \in Keys, NEW n \in Nat,
         readOnly => k \in ArithOps
  PROVE  LET d == SetState(db, Top.self, k, n)
         IN  Allowed(d) /\ \A b \in Addr : GetCode(d, b) = GetCode(db, b)
<1> DEFINE x == Top.self
           d == SetState(db, x, k, n)
<1>1. /\ x \in Addr /\ db \in DB /\ Clean(db) /\ GetNonce(db, x) # 0
  BY TopOwned, Zenon
<1>2. /\ d \in DB /\ Clean(d) /\ d.Logs = db.Logs
      /\ \A b \in Addr \ {x} : Same(db, d, b)
      /\ GetNonce(d, x) = GetNonce(db, x)
      /\ GetCode(d, x) = GetCode(db, x)
      /\ Dead(d, x) = Dead(db, x)
      /\ \A y \in Keys \ {k} : Storage(d, x)[y] = Storage(db, x)[y]
  BY <1>1, SetStateKept
<1> HIDE DEF d, x
<1>3. \A b \in Addr : /\ GetNonce(d, b) = GetNonce(db, b)
                      /\ GetCode(d, b) = GetCode(db, b)
                      /\ Dead(d, b) = Dead(db, b)
                      /\ b = x \/ Storage(d, b) = Storage(db, b)
  BY <1>2, Zenon DEF Same
<1>4. \A b \in Addr : GetNonce(d, b) >= GetNonce(db, b)
  <2>1. \A b \in Addr : GetNonce(db, b) \in Nat
    BY <1>1, GetterType, Zenon DEF GetNonce
  <2>2. \A y \in Nat : y >= y
    OBVIOUS
  <2> QED
    BY <1>3, <2>1, <2>2, Zenon
<1>5. readOnly => \A b \in Addr : \A y \in Slots \ ArithOps :
                   Storage(d, b)[y] = Storage(db, b)[y]
  BY <1>2, <1>3, Zenon DEF Keys
<1>6. Allowed(d)
  BY <1>2, <1>3, <1>4, <1>5, Zenon DEF Allowed, x
<1> QED
  BY <1>3, <1>6, Zenon DEF d, x

\* LOG.
LEMMA LogAllowed ==
  ASSUME SInv, ~readOnly, abort => inflight, NEW t \in Topics
  PROVE  LET d == AddLog(db, t)
         IN  Allowed(d) /\ \A b \in Addr : GetCode(d, b) = GetCode(db, b)
<1> DEFINE d == AddLog(db, t)
<1>1. db \in DB /\ Clean(db)
  BY Zenon DEF SInv, IInv, TypeOK
<1>2. d \in DB
  BY <1>1, LogType, Zenon
<1>3. d.StateMap = db.StateMap
  BY <1>1, Zenon DEF AddLog, DB
<1> HIDE DEF d
<1>4. Clean(d)
  BY <1>1, <1>3, Zenon DEF Clean
<1>5. \A b \in Addr : GetNonce(d, b) >= GetNonce(db, b)
  <2>1. \A b \in Addr : GetNonce(db, b) \in Nat
    BY <1>1, GetterType, Zenon DEF GetNonce
  <2>2. \A y \in Nat : y >= y
    OBVIOUS
  <2> QED
    BY <1>3, <2>1, <2>2, Zenon DEF GetNonce
<1>6. Allowed(d)
  BY <1>2, <1>3, <1>4, <1>5, SMTT(30) DEF Allowed, GetNonce, GetCode, Dead, Storage
<1> QED
  BY <1>3, <1>6, Zenon DEF d, GetCode

\* A call opcode of the running frame.
LEMMA opCallState ==
  ASSUME SInv, opCall
  PROVE  Allowed(db') /\ Owned(frames', db')
<1>1. IInv /\ frames # <<>>
  BY Zenon DEF SInv, opCall, Running
<1>2. PICK kind \in Kinds \ {"create"}, a \in Callees, v \in CallValues,
           mem \in MemCosts, callCost \in CallCosts :
        LET base == CallBase(kind, v) + mem
            temp == callGas(Top.gas, base, callCost)
            gas == IF v # 0 THEN Add64(temp, CallStipend) ELSE temp
        IN /\ CallAffordable(Top.gas, base, temp)
           /\ Invoke(UseGas(CallCost(base, temp)), kind, Top.self, a, v, gas)
  BY DEF opCall
<1> DEFINE base == CallBase(kind, v) + mem
           temp == callGas(Top.gas, base, callCost)
           gas == IF v # 0 THEN Add64(temp, CallStipend) ELSE temp
           fs == UseGas(CallCost(base, temp))
<1>3. Top.self \in Addr /\ Top.gas \in Word
  BY <1>1, TopOwned, Zenon
<1>4. v \in Nat /\ a \in Addr /\ mem \in Nat /\ callCost \in Nat
  BY InputsAssumption, ParamsAssumption DEF Word
<1>5. base \in Nat /\ CallStipend \in Word
  BY <1>4, ParamsAssumption DEF CallBase, Word
<1> HIDE DEF base
<1>6. temp \in Word /\ CallCost(base, temp) = base + temp /\ base + temp <= Top.gas
  BY <1>2, <1>3, <1>4, <1>5, CallPays, Zenon DEF base
<1> HIDE DEF temp
<1>7. gas \in Word
  BY <1>5, <1>6, Word64, Zenon
<1>8. base + temp \in Nat
  BY <1>5, <1>6, ParamsAssumption DEF Word
<1>9. Invoke(fs, kind, Top.self, a, v, gas)
  BY <1>2, Zenon DEF base, temp
<1>10. fs \in Seq(Frame) /\ SameShape(frames, fs)
  BY <1>1, <1>6, <1>8, UseGasShape, Zenon
<1> HIDE DEF gas, fs
<1> QED
  BY <1>1, <1>3, <1>4, <1>7, <1>9, <1>10, InvokeState, Zenon

\* CREATE.
LEMMA opCreateState ==
  ASSUME SInv, opCreate
  PROVE  Allowed(db') /\ Owned(frames', db')
<1>1. IInv /\ frames # <<>> /\ ~readOnly
  BY Zenon DEF SInv, opCreate, Running
<1>2. PICK v \in CallValues, mem \in MemCosts :
        LET left == Top.gas - CreateGas - mem
            gas == left - left \div 64
        IN /\ CreateGas + mem <= Top.gas
           /\ Create(UseGas(CreateGas + mem + gas), Top.self, v, gas)
  BY Zenon DEF opCreate
<1> DEFINE left == Top.gas - CreateGas - mem
           gas == left - left \div 64
           cost == CreateGas + mem + gas
           fs == UseGas(cost)
<1>3. Top.self \in Addr /\ Top.gas \in Word
  BY <1>1, TopOwned, Zenon
<1>4. v \in Nat /\ mem \in Nat /\ CreateGas \in Nat
  BY InputsAssumption, ParamsAssumption DEF Word
<1>5. left \in Word /\ left = Top.gas - (CreateGas + mem)
  <2>1. \A x \in Word : \A p, q \in Nat : p + q <= x => x - p - q \in Word /\ x - p - q = x - (p + q)
    BY ParamsAssumption DEF Word
  <2> QED
    BY <1>2, <1>3, <1>4, <2>1, Zenon
<1> HIDE DEF left
<1>6. gas \in Word /\ gas <= left
  BY <1>5, ParamsAssumption DEF Word
<1> HIDE DEF gas
<1>7. cost \in Nat /\ cost <= Top.gas
  <2>1. \A x, y, z \in Word : \A p, q \in Nat :
          y = x - (p + q) /\ z <= y => p + q + z \in Nat /\ p + q + z <= x
    BY ParamsAssumption DEF Word
  <2> QED
    BY <1>3, <1>4, <1>5, <1>6, <2>1, Zenon
<1> HIDE DEF cost
<1>8. fs \in Seq(Frame) /\ SameShape(frames, fs)
  BY <1>1, <1>7, UseGasShape, Zenon
<1>9. Create(fs, Top.self, v, gas)
  BY <1>2, Zenon DEF left, gas, cost
<1> HIDE DEF fs
<1> QED
  BY <1>1, <1>3, <1>4, <1>6, <1>8, <1>9, CreateState, Zenon

\* SELFDESTRUCT.
LEMMA opSuicideState ==
  ASSUME SInv, opSuicide
  PROVE  Allowed(db') /\ Owned(frames', db')
<1>1. frames # <<>> /\ (abort => inflight) /\ ~readOnly
  BY Zenon DEF opSuicide, Running
<1>2. PICK b \in Heirs, c \in OpCosts :
       LET self == Top.self
           d1 == HasSuicidedEffect(GetBalanceEffect(db, self), self)
           d2 == GetBalanceEffect(d1, self)
           d3 == Suicide(AddBalance(d2, b, Balance(d2, self)), self)
       IN IF c <= Top.gas THEN Finish(0, Top.gas - c, d3) ELSE Exit("fail", 0, d1)
  BY Zenon DEF opSuicide, Balance
<1> DEFINE self == Top.self
           d0 == GetBalanceEffect(db, self)
           d1 == HasSuicidedEffect(d0, self)
           d2 == GetBalanceEffect(d1, self)
           e == AddBalance(d2, b, Balance(d2, self))
           d3 == Suicide(e, self)
<1>3. /\ self \in Addr /\ Top.gas \in Word /\ db \in DB /\ Clean(db)
      /\ GetNonce(db, self) # 0
  BY <1>1, TopOwned, Zenon
<1>4. b \in Addr /\ c \in Nat
  BY InputsAssumption, ParamsAssumption DEF Word
<1> HIDE DEF self
<1>5. d0 \in DB /\ Clean(d0) /\ Quiet(db, d0)
  BY <1>3, GetBalanceKept, Zenon
<1> HIDE DEF d0
<1>6. d1 \in DB /\ Clean(d1) /\ Quiet(d0, d1)
  BY <1>3, <1>5, TouchKept, Zenon DEF HasSuicidedEffect
<1> HIDE DEF d1
<1>7. Quiet(db, d1)
  BY <1>5, <1>6, Zenon DEF Quiet, Same
<1>8. d2 \in DB /\ Clean(d2) /\ Quiet(d1, d2)
  BY <1>3, <1>6, GetBalanceKept, Zenon
<1> HIDE DEF d2
<1>9. e \in DB /\ Clean(e) /\ Quiet(d2, e)
  <2> DEFINE v == Balance(d2, self)
             w == Balance(d2, b)
  <2>1. v \in Int /\ w \in Int
    BY <1>3, <1>4, <1>8, CleanReads, Zenon
  <2>2. v >= 0 /\ w >= 0
    BY <1>3, <1>4, <1>8, CleanReads
  <2> HIDE DEF v, w
  <2>3. w + v >= 0
    BY <2>1, <2>2
  <2>4. Balance(d2, b) + v >= 0
    BY <2>3, Zenon DEF w
  <2>5. LET f == AddBalance(d2, b, v) IN f \in DB /\ Clean(f) /\ Quiet(d2, f)
    BY <1>4, <1>8, <2>1, <2>4, AddBalanceKept, Zenon
  <2> QED
    BY <2>5, Zenon DEF v
<1> HIDE DEF e
<1>10. Quiet(db, e)
  BY <1>7, <1>8, <1>9, Zenon DEF Quiet, Same
<1>11. /\ d3 \in DB /\ Clean(d3) /\ d3.Logs = e.Logs
       /\ \A x \in Addr \ {self} : Same(e, d3, x)
       /\ GetNonce(d3, self) = GetNonce(e, self)
       /\ GetCode(d3, self) = GetCode(e, self)
       /\ Storage(d3, self) = Storage(e, self)
  <2>1. GetNonce(e, self) # 0
    BY <1>3, <1>10, Zenon DEF Quiet, Same
  <2> QED
    BY <1>3, <1>9, <2>1, SuicideKept, Zenon
<1> HIDE DEF d3
<1>12. \A x \in Addr : /\ GetNonce(d3, x) = GetNonce(db, x)
                       /\ GetCode(d3, x) = GetCode(db, x)
                       /\ Storage(d3, x) = Storage(db, x)
  BY <1>10, <1>11, Zenon DEF Quiet, Same
<1>13. Allowed(d3)
  <2>1. \A x \in Addr : GetNonce(db, x) \in Nat
    BY <1>3, GetterType, Zenon DEF GetNonce
  <2>2. \A y \in Nat : y >= y
    OBVIOUS
  <2>3. \A x \in Addr : GetNonce(d3, x) >= GetNonce(db, x)
    BY <1>12, <2>1, <2>2, Zenon
  <2> QED
    BY <1>1, <1>11, <1>12, <2>3, Zenon DEF Allowed
<1>14. Allowed(d1) /\ \A x \in Addr : GetCode(d1, x) = GetCode(db, x)
  <2>1. Allowed(d1)
    BY <1>6, <1>7, QuietAllowed, Zenon
  <2> QED
    BY <1>7, <2>1, Zenon DEF Quiet, Same
<1>15. CASE c <= Top.gas /\ Finish(0, Top.gas - c, d3)
  <2>1. Top.gas - c \in Word /\ Top.gas - c <= Top.gas
    <3>1. \A x \in Word : c <= x => x - c \in Word /\ x - c <= x
      BY <1>4, ParamsAssumption DEF Word
    <3> QED
      BY <1>3, <1>15, <3>1, Zenon
  <2> QED
    BY <1>1, <1>12, <1>13, <1>15, <2>1, FinishState, ZeroType, Zenon
<1>16. CASE Exit("fail", 0, d1)
  <2>1. 0 \in Word
    BY ParamsAssumption DEF Word
  <2> QED
    BY <1>1, <1>14, <1>16, <2>1, ExitState, Zenon
<1> QED
  BY <1>2, <1>15, <1>16, Zenon DEF self, d0, d1, d2, e, d3

\* Every step of the interpreter, one case per opcode or way out of a frame.
LEMMA StepState ==
  ASSUME SInv, Step
  PROVE  Allowed(db') /\ Owned(frames', db')
<1>1. frames # <<>>
  BY Zenon DEF Step, Plain, Overflow, opSstore, opBalance, makeLog, opCall, opCreate,
         Halt, opRevert, Fault, opSuicide, Aborted, Running
<1>2. /\ db \in DB /\ Clean(db) /\ Top.self \in Addr /\ Top.gas \in Word
      /\ GetNonce(db, Top.self) # 0
  BY <1>1, TopOwned, Zenon
<1>3. Allowed(db)
  <2>1. Quiet(db, db)
    BY DEF Quiet, Same
  <2> QED
    BY <1>2, <2>1, QuietAllowed, Zenon
<1>4. CASE Plain
  BY <1>3, <1>4, ExecuteState, Zenon DEF Plain
<1>5. CASE Overflow
  <2>1. PICK op \in ArithOps, pc \in PCs, c \in OpCosts :
          Execute(c, SetState(db, Top.self, op, pc))
    BY <1>5 DEF Overflow
  <2>2. op \in Keys /\ pc \in Nat /\ (abort => inflight)
    BY <1>5, InputsAssumption, Zenon DEF Keys, Overflow, Running
  <2> QED
    BY <1>1, <2>1, <2>2, StoreAllowed, ExecuteState, Zenon
<1>6. CASE opSstore
  <2>1. PICK k \in Slots, v \in Values, c \in OpCosts :
          Execute(c, SetState(db, Top.self, k, v))
    BY <1>6, Zenon DEF opSstore
  <2>2. k \in Keys /\ v \in Nat /\ (abort => inflight) /\ ~readOnly
    BY <1>6, InputsAssumption, Zenon DEF Keys, opSstore, Running
  <2> QED
    BY <1>1, <2>1, <2>2, StoreAllowed, ExecuteState, Zenon
<1>7. CASE opBalance
  <2>1. PICK a \in Watched, c \in OpCosts : Execute(c, GetBalanceEffect(db, a))
    BY <1>7, Zenon DEF opBalance
  <2> DEFINE d == GetBalanceEffect(db, a)
  <2>2. d \in DB /\ Clean(d) /\ Quiet(db, d)
    BY <1>2, GetBalanceKept, InputsAssumption, Zenon
  <2>3. Execute(c, d)
    BY <2>1, Zenon
  <2> HIDE DEF d
  <2>4. Allowed(d) /\ \A b \in Addr : GetCode(d, b) = GetCode(db, b)
    BY <2>2, QuietAllowed, Zenon DEF Quiet, Same
  <2> QED
    BY <2>3, <2>4, ExecuteState, Zenon
<1>8. CASE makeLog
  <2>1. PICK t \in Topics, c \in OpCosts : Execute(c, AddLog(db, t))
    BY <1>8, Zenon DEF makeLog
  <2>2. (abort => inflight) /\ ~readOnly
    BY <1>8, Zenon DEF makeLog, Running
  <2> QED
    BY <2>1, <2>2, LogAllowed, ExecuteState, Zenon
<1>9. CASE opCall
  BY <1>9, opCallState, Zenon
<1>10. CASE opCreate
  BY <1>10, opCreateState, Zenon
<1>11. \A c \in MemCosts : c <= Top.gas => Top.gas - c \in Word /\ Top.gas - c <= Top.gas
  <2>1. \A x, c \in Word : c <= x => x - c \in Word /\ x - c <= x
    BY ParamsAssumption DEF Word
  <2>2. MemCosts \subseteq Word
    BY InputsAssumption, Zenon
  <2> QED
    BY <1>2, <2>1, <2>2, Zenon
<1>12. 0 \in Word /\ Top.gas <= Top.gas
  BY <1>2, ParamsAssumption DEF Word
<1>13. CASE Halt
  <2>1. PICK c \in MemCosts, ret \in IF Top.kind = "create" THEN CodeLens ELSE {0} :
          c <= Top.gas /\ Finish(ret, Top.gas - c, db)
    BY <1>13, Zenon DEF Halt
  <2>2. ret \in Nat
    BY InputsAssumption
  <2> QED
    BY <1>1, <1>3, <1>11, <2>1, <2>2, FinishState, Zenon
<1>14. CASE opRevert
  <2>1. PICK c \in MemCosts : c <= Top.gas /\ Exit("reverted", Top.gas - c, db)
    BY <1>14, Zenon DEF opRevert
  <2> QED
    BY <1>1, <1>3, <1>11, <2>1, ExitState, Zenon
<1>15. CASE Fault
  BY <1>1, <1>3, <1>12, <1>15, ExitState, Zenon DEF Fault
<1>16. CASE opSuicide
  BY <1>16, opSuicideState, Zenon
<1>17. CASE Aborted
  BY <1>1, <1>2, <1>3, <1>12, <1>17, FinishState, ZeroType, Zenon DEF Aborted
<1> QED
  BY <1>4, <1>5, <1>6, <1>7, <1>8, <1>9, <1>10, <1>13, <1>14, <1>15, <1>16, <1>17, Zenon DEF Step

\* A call by a client.
LEMMA ClientState ==
  ASSUME SInv, ClientCall \/ ClientCreate
  PROVE  Allowed(db') /\ Owned(frames', db')
<1>1. frames = <<>>
  BY Zenon DEF ClientCall, ClientCreate
<1>2. ~readOnly
  BY <1>1 DEF SInv, IInv, ReadOnlyInv
<1>3. <<>> \in Seq(Frame) /\ SameShape(frames, <<>>)
  BY <1>1 DEF SameShape
<1>4. CASE ClientCall
  <2>1. PICK from \in EOAs, a \in Callees, v \in CallValues, gas \in GasLimits :
          Invoke(<<>>, "call", from, a, v, gas)
    BY <1>4, Zenon DEF ClientCall
  <2>2. from \in Addr /\ a \in Addr /\ v \in Nat /\ gas \in Word /\ "call" \in Kinds \ {"create"}
    BY InputsAssumption, Zenon DEF Kinds
  <2> QED
    BY <1>3, <2>1, <2>2, InvokeState, Zenon
<1>5. CASE ClientCreate
  <2>1. PICK from \in EOAs, gas \in GasLimits : Create(<<>>, from, 0, gas)
    BY <1>5, Zenon DEF ClientCreate
  <2>2. from \in Addr /\ gas \in Word
    BY InputsAssumption, Zenon
  <2> QED
    BY <1>2, <1>3, <2>1, <2>2, CreateState, ZeroType, Zenon
<1> QED
  BY <1>4, <1>5, Zenon

\* Any step of the system: it leaves what is allowed, and keeps the invariant.
LEMMA NextState ==
  ASSUME SInv, Next
  PROVE  Allowed(db') /\ SInv'
<1>1. IInv'
  BY Inductive DEF SInv
<1>2. Allowed(db') /\ Owned(frames', db')
  <2>1. CASE Step
    BY <2>1, StepState, Zenon
  <2>2. CASE ClientCall \/ ClientCreate
    BY <2>2, ClientState, Zenon
  <2>3. CASE Cancel
    <3>1. db' = db /\ frames' = frames
      BY <2>3, Zenon DEF Cancel
    <3>2. db \in DB /\ Clean(db) /\ Owned(frames, db) /\ Quiet(db, db)
      BY Zenon DEF SInv, IInv, TypeOK, Quiet, Same
    <3>3. Allowed(db)
      BY <3>2, QuietAllowed, Zenon
    <3> QED
      BY <3>1, <3>2, <3>3, Zenon
  <2> QED
    BY <2>1, <2>2, <2>3, Zenon DEF Next
<1>3. Clean(db')
  BY <1>2, Zenon DEF Allowed
<1> QED
  BY <1>1, <1>2, <1>3, Zenon DEF SInv

\* After Cancel at most the instruction that was past the test of abort executes:
\* every step of the interpreter comes back to that test.
LEMMA OneInFlight ==
  ASSUME SInv, Next, abort
  PROVE  ~inflight'
<1>1. CASE Step
  <2>1. ASSUME NEW c, NEW d, Execute(c, d)
        PROVE  ~inflight'
    BY <2>1, Zenon DEF Execute
  <2>2. ASSUME NEW err, NEW gas, NEW d, Exit(err, gas, d)
        PROVE  ~inflight'
    BY <2>2, Zenon DEF Exit
  <2>3. ASSUME NEW ret, NEW gas, NEW d, Finish(ret, gas, d)
        PROVE  ~inflight'
    BY <2>2, <2>3, Zenon DEF Finish
  <2>4. opCall \/ opCreate => ~inflight'
    BY Zenon DEF opCall, opCreate
  <2>5. Plain \/ Overflow \/ opSstore \/ opBalance \/ makeLog => ~inflight'
    BY <2>1, Zenon DEF Plain, Overflow, opSstore, opBalance, makeLog
  <2>6. Halt \/ opRevert \/ Fault \/ Aborted => ~inflight'
    BY <2>2, <2>3, Zenon DEF Halt, opRevert, Fault, Aborted
  <2>7. opSuicide => ~inflight'
    BY <2>2, <2>3, Zenon DEF opSuicide
  <2> QED
    BY <1>1, <2>4, <2>5, <2>6, <2>7, Zenon DEF Step
<1>2. CASE ClientCall \/ ClientCreate
  <2>1. frames = <<>> /\ inflight' = inflight
    BY <1>2, Zenon DEF ClientCall, ClientCreate
  <2> QED
    BY <2>1, Zenon DEF SInv, IInv, TypeOK
<1>3. CASE Cancel
  BY <1>3, Zenon DEF Cancel
<1> QED
  BY <1>1, <1>2, <1>3, Zenon DEF Next

\* The database the clients start from is clean, and no frame is active.
LEMMA InitState == Init => SInv
<1> SUFFICES ASSUME Init PROVE SInv
  BY Zenon
<1>1. db = InitDB /\ frames = <<>>
  BY Zenon DEF Init
<1>2. Clean(InitDB)
  <2> DEFINE acc(a) == CASE a \in EOAs -> [NewState EXCEPT !.balance = 100, !.nonce = InitNonce]
                         [] a \in Deployed -> [NewState EXCEPT !.balance = 100, !.nonce = 1, !.code = 1]
                         [] OTHER -> Blank
  <2>1. CleanAccount([NewState EXCEPT !.balance = 100, !.nonce = InitNonce])
    <3> DEFINE s == [NewState EXCEPT !.balance = 100, !.nonce = InitNonce]
    <3>1. NewState \in State
      BY BlankType, Zenon
    <3>2. /\ s.present = NewState.present /\ s.isSuicide = NewState.isSuicide
          /\ s.storage = NewState.storage /\ s.balance = 100 /\ s.nonce = InitNonce /\ s.code = 0
      BY <3>1, BlankFields, Zenon DEF State
    <3> HIDE DEF s
    <3>3. CleanAccount(s)
      BY <3>2, BlankFields DEF CleanAccount
    <3> QED
      BY <3>3, Zenon DEF s
  <2>2. CleanAccount([NewState EXCEPT !.balance = 100, !.nonce = 1, !.code = 1])
    <3> DEFINE s == [NewState EXCEPT !.balance = 100, !.nonce = 1, !.code = 1]
    <3>1. NewState \in State
      BY BlankType, Zenon
    <3>2. /\ s.present = NewState.present /\ s.isSuicide = NewState.isSuicide
          /\ s.storage = NewState.storage /\ s.balance = 100 /\ s.nonce = 1 /\ s.code = 1
      BY <3>1, BlankFields, Zenon DEF State
    <3> HIDE DEF s
    <3>3. CleanAccount(s)
      BY <3>2, BlankFields DEF CleanAccount
    <3> QED
      BY <3>3, Zenon DEF s
  <2>3. CleanAccount(Blank)
    BY BlankFields DEF CleanAccount
  <2>4. ASSUME NEW a \in Addr
        PROVE  CleanAccount(acc(a))
    <3>1. CASE a \in EOAs
      BY <2>1, <3>1, InputsAssumption, Zenon
    <3>2. CASE a \in Deployed
      BY <2>2, <3>2, InputsAssumption, Zenon
    <3>3. CASE a \notin EOAs /\ a \notin Deployed
      BY <2>3, <3>3, Zenon
    <3> QED
      BY <3>1, <3>2, <3>3, Zenon
  <2>5. InitDB.StateMap = [a \in Addr |-> acc(a)]
    BY Zenon DEF InitDB, New
  <2> HIDE DEF acc
  <2> QED
    BY <2>4, <2>5, Zenon DEF Clean
<1>3. Owned(<<>>, db)
  BY DEF Owned
<1> QED
  BY <1>1, <1>2, <1>3, InitIInv, Zenon DEF SInv

\* The invariant is inductive.
LEMMA StateInductive == SInv /\ [Next]_vars => SInv'
<1> SUFFICES ASSUME SInv, [Next]_vars PROVE SInv'
  BY Zenon
<1>1. CASE Next
  BY <1>1, NextState, Zenon
<1>2. CASE UNCHANGED vars
  <2>1. IInv'
    BY <1>2, Inductive, Zenon DEF SInv
  <2>2. db' = db /\ frames' = frames
    BY <1>2, Zenon DEF vars
  <2> QED
    BY <2>1, <2>2, Zenon DEF SInv
<1> QED
  BY <1>1, <1>2, Zenon

\* Accounts with nonce 0 are empty, every running frame's account has a nonce,
\* and constructors run one per account and never above a static call, in every
\* reachable state of the EVM.
THEOREM StateInvariance == Spec => []SInv
BY InitState, StateInductive, PTL DEF Spec

\* No account is ever overdrawn, although SubBalance checks nothing and a
\* creation resets the balance of what it creates.
THEOREM Solvent == Spec => []BalancesNonNegative
<1>1. SInv => BalancesNonNegative
  BY Zenon DEF SInv, Clean, CleanAccount, BalancesNonNegative
<1> QED
  BY <1>1, StateInvariance, PTL

\* No step changes what a static call protects, replaces code, lowers a nonce,
\* overdraws an account, writes storage, logs or suicide marks after EVM.Cancel
\* (neither the frames that unwind nor the clients' later calls do) or, with
\* NoRecursion, writes to the storage of another contract than the one called.
THEOREM StateIsKept == Spec => StateKept
<1>1. SInv /\ [Next]_vars => [KeepsState]_vars
  BY NextState, OneInFlight, AllowedKept, Zenon
<1> QED
  BY <1>1, StateInvariance, PTL DEF Spec, StateKept
=============================================================================
