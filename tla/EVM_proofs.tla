----------------------------- MODULE EVM_proofs -----------------------------
(***************************************************************************)
(* Proofs that every step of EVM preserves its type invariant and the      *)
(* invariants on the call depth, the read-only flag and the gas of nested  *)
(* frames, for all values of the constants.                                *)
(***************************************************************************)
EXTENDS EVM, TLAPS, SequenceTheorems

-----------------------------------------------------------------------------
\* The operations of StateDB map databases to databases.

\* Zero, the value of absent balances and nonces, is an integer and a natural.
LEMMA ZeroType == 0 \in Int /\ 0 \in Nat
OBVIOUS

\* Replacing one account of a database yields a database.
LEMMA PutAccount ==
  ASSUME NEW d \in DB, NEW a \in Addr, NEW s \in State
  PROVE  [d EXCEPT !.StateMap[a] = s] \in DB
<1>1. [d.StateMap EXCEPT ![a] = s] \in [Addr -> State]
  BY Zenon DEF DB
<1>2. [d EXCEPT !.StateMap[a] = s]
        = [StateMap |-> [d.StateMap EXCEPT ![a] = s], Logs |-> d.Logs]
  BY DEF DB
<1> QED
  BY <1>1, <1>2, Zenon DEF DB

\* The zero account and the account the writers create are accounts.
LEMMA BlankType == Blank \in State /\ NewState \in State
<1>1. [k \in Keys |-> 0] \in [Keys -> Nat]
  BY Zenon
<1>2. Blank \in State
  BY <1>1 DEF Blank, State
<1>3. NewState \in State
  BY <1>2, Zenon DEF NewState, State
<1> QED
  BY <1>2, <1>3, Zenon

\* A missing account is created by the writers of StateDB and by CreateAccount.
LEMMA TouchType ==
  ASSUME NEW d \in DB, NEW a \in Addr
  PROVE  Touch(d, a) \in DB /\ CreateAccount(d, a) \in DB
BY PutAccount, BlankType, Zenon DEF Touch, CreateAccount

\* Assigning one field of an account: balance, nonce, code, mark, storage cell.
LEMMA PutField ==
  ASSUME NEW d \in DB, NEW a \in Addr, NEW v \in Int, NEW n \in Nat
  PROVE  /\ [d EXCEPT !.StateMap[a].balance = @ + v] \in DB
         /\ [d EXCEPT !.StateMap[a].balance = @ - v] \in DB
         /\ [d EXCEPT !.StateMap[a].nonce = n] \in DB
         /\ [d EXCEPT !.StateMap[a].code = n] \in DB
         /\ [d EXCEPT !.StateMap[a].isSuicide = TRUE] \in DB
         /\ \A k \in Keys : [d EXCEPT !.StateMap[a].storage[k] = n] \in DB
<1> DEFINE s == d.StateMap[a]
<1>0. s \in State
  BY Zenon DEF DB
<1>1. [d EXCEPT !.StateMap[a].balance = @ + v] \in DB
  <2>1. [s EXCEPT !.balance = s.balance + v] \in State
    BY <1>0 DEF State
  <2>2. [d EXCEPT !.StateMap[a].balance = @ + v]
          = [d EXCEPT !.StateMap[a] = [s EXCEPT !.balance = s.balance + v]]
    BY <1>0, Zenon DEF DB, State
  <2> QED
    BY <2>1, <2>2, PutAccount, Zenon
<1>2. [d EXCEPT !.StateMap[a].balance = @ - v] \in DB
  <2>1. [s EXCEPT !.balance = s.balance - v] \in State
    BY <1>0 DEF State
  <2>2. [d EXCEPT !.StateMap[a].balance = @ - v]
          = [d EXCEPT !.StateMap[a] = [s EXCEPT !.balance = s.balance - v]]
    BY <1>0, Zenon DEF DB, State
  <2> QED
    BY <2>1, <2>2, PutAccount, Zenon
<1>3. [d EXCEPT !.StateMap[a].nonce = n] \in DB
  <2>1. [s EXCEPT !.nonce = n] \in State
    BY <1>0, Zenon DEF State
  <2>2. [d EXCEPT !.StateMap[a].nonce = n] = [d EXCEPT !.StateMap[a] = [s EXCEPT !.nonce = n]]
    BY <1>0, Zenon DEF DB, State
  <2> QED
    BY <2>1, <2>2, PutAccount, Zenon
<1>4. [d EXCEPT !.StateMap[a].code = n] \in DB
  <2>1. [s EXCEPT !.code = n] \in State
    BY <1>0, Zenon DEF State
  <2>2. [d EXCEPT !.StateMap[a].code = n] = [d EXCEPT !.StateMap[a] = [s EXCEPT !.code = n]]
    BY <1>0, Zenon DEF DB, State
  <2> QED
    BY <2>1, <2>2, PutAccount, Zenon
<1>5. [d EXCEPT !.StateMap[a].isSuicide = TRUE] \in DB
  <2>1. [s EXCEPT !.isSuicide = TRUE] \in State
    BY <1>0, Zenon DEF State
  <2>2. [d EXCEPT !.StateMap[a].isSuicide = TRUE]
          = [d EXCEPT !.StateMap[a] = [s EXCEPT !.isSuicide = TRUE]]
    BY <1>0, Zenon DEF DB, State
  <2> QED
    BY <2>1, <2>2, PutAccount, Zenon
<1>6. ASSUME NEW k \in Keys
      PROVE  [d EXCEPT !.StateMap[a].storage[k] = n] \in DB
  <2> DEFINE st == [s.storage EXCEPT ![k] = n]
  <2>1. st \in [Keys -> Nat]
    BY <1>0, Zenon DEF State
  <2>2. [s EXCEPT !.storage = st] \in State
    BY <1>0, <2>1, Zenon DEF State
  <2>3. [d EXCEPT !.StateMap[a].storage[k] = n]
          = [d EXCEPT !.StateMap[a] = [s EXCEPT !.storage = st]]
    BY <1>0, Zenon DEF DB, State
  <2> QED
    BY <2>2, <2>3, PutAccount, Zenon
<1> QED
  BY <1>1, <1>2, <1>3, <1>4, <1>5, <1>6, Zenon

\* AddBalance, SubBalance, GetBalance and Transfer map databases to databases.
LEMMA BalanceType ==
  ASSUME NEW d \in DB, NEW a \in Addr, NEW b \in Addr, NEW v \in Int
  PROVE  /\ AddBalance(d, a, v) \in DB
         /\ SubBalance(d, a, v) \in DB
         /\ GetBalanceEffect(d, a) \in DB
         /\ Transfer(d, a, b, v) \in DB
<1>1. \A e \in DB, x \in Addr, w \in Int : AddBalance(e, x, w) \in DB
  BY TouchType, PutField, Zenon DEF AddBalance
<1>2. SubBalance(d, a, v) \in DB
  BY PutField, Zenon DEF SubBalance
<1> QED
  BY <1>1, <1>2 DEF GetBalanceEffect, Transfer

\* So do SetNonce, SetCode, SetState, Suicide and HasSuicided.
LEMMA WriterType ==
  ASSUME NEW d \in DB, NEW a \in Addr, NEW n \in Nat
  PROVE  /\ SetNonce(d, a, n) \in DB
         /\ SetCode(d, a, n) \in DB
         /\ \A k \in Keys : SetState(d, a, k, n) \in DB
         /\ Suicide(d, a) \in DB
         /\ HasSuicidedEffect(d, a) \in DB
<1> DEFINE t == Touch(d, a)
<1>1. t \in DB
  BY TouchType, Zenon
<1> HIDE DEF t
<1>2. /\ [t EXCEPT !.StateMap[a].nonce = n] \in DB
      /\ [t EXCEPT !.StateMap[a].code = n] \in DB
      /\ [t EXCEPT !.StateMap[a].isSuicide = TRUE] \in DB
      /\ \A k \in Keys : [t EXCEPT !.StateMap[a].storage[k] = n] \in DB
  BY <1>1, PutField, ZeroType, Zenon
<1> QED
  BY <1>1, <1>2, Zenon DEF SetNonce, SetCode, SetState, Suicide, HasSuicidedEffect, t

\* The getters answer with natural numbers.
LEMMA GetterType ==
  ASSUME NEW d \in DB, NEW a \in Addr
  PROVE  /\ GetNonce(d, a) \in Nat
         /\ GetCode(d, a) \in Nat
         /\ d.StateMap[a].balance \in Int
<1>1. d.StateMap[a] \in State
  BY Zenon DEF DB
<1> QED
  BY <1>1, Zenon DEF State, GetNonce, GetCode

\* AddLog appends to the logs of a database.
LEMMA LogType ==
  ASSUME NEW d \in DB, NEW t \in Topics
  PROVE  AddLog(d, t) \in DB
BY SMTT(30) DEF AddLog, DB

-----------------------------------------------------------------------------
\* Gas arithmetic.

\* uint64 arithmetic yields words, and is exact where it does not wrap.
LEMMA Word64 ==
  ASSUME NEW x \in Word, NEW y \in Word
  PROVE  /\ Add64(x, y) \in Word /\ Sub64(x, y) \in Word
         /\ x + y <= MaxUint64 => Add64(x, y) = x + y
         /\ y <= x => Sub64(x, y) = x - y
BY ParamsAssumption DEF Add64, Sub64, Word

\* callGas (gas.go) yields a word, whether its subtraction wraps or not.
LEMMA CallGasType ==
  ASSUME NEW gas \in Word, NEW base \in Word, NEW c \in Nat
  PROVE  callGas(gas, base, c) \in Word
<1> DEFINE avail == Sub64(gas, base)
<1>1. avail \in Word
  BY Word64, Zenon
<1> HIDE DEF avail
<1>2. avail - avail \div 64 \in Word
  BY <1>1, ParamsAssumption DEF Word
<1> QED
  BY <1>2, ParamsAssumption DEF callGas, avail, Word

\* A call opcode that passes the two SafeAdd checks and UseGas did not wrap:
\* it costs its base price plus what the callee gets.
LEMMA CallPays ==
  ASSUME NEW gas \in Word, NEW base \in Nat, NEW c \in Nat,
         CallAffordable(gas, base, callGas(gas, base, c))
  PROVE  /\ callGas(gas, base, c) \in Word
         /\ CallCost(base, callGas(gas, base, c)) = base + callGas(gas, base, c)
         /\ base + callGas(gas, base, c) <= gas
<1>1. base \in Word
  BY ParamsAssumption DEF CallAffordable, Word
<1>2. callGas(gas, base, c) \in Word
  BY <1>1, CallGasType, Zenon
<1> QED
  BY <1>1, <1>2, Word64, Zenon DEF CallAffordable, CallCost, Word

-----------------------------------------------------------------------------
\* The stack of frames.  The three invariants speak of the frames, the depth
\* counter and the flag; the lemmas below say what a push, a pop and a change
\* of the top frame's gas do to them.

Stacked(fs) ==
  /\ fs \in Seq(Frame)
  /\ \A i \in 1..Len(fs) : fs[i].gas <= fs[i].gas0
  /\ \A i \in 1..(Len(fs) - 1) : fs[i].gas + fs[i+1].gas0 <= fs[i].gas0

Flagged(fs, ro) ==
  /\ ro <=> \E i \in 1..Len(fs) : fs[i].ro
  /\ \A i, j \in 1..Len(fs) : fs[i].ro /\ fs[j].ro => i = j
  /\ \A i \in 1..Len(fs) : fs[i].ro => fs[i].kind = "static"

\* Changing the gas of the top frame to g changes nothing else.
LEMMA SetTopGas ==
  ASSUME NEW fs \in Seq(Frame), fs # <<>>, NEW g \in Word
  PROVE  LET gs == [fs EXCEPT ![Len(fs)].gas = g]
         IN  /\ gs \in Seq(Frame) /\ Len(gs) = Len(fs) /\ gs # <<>>
             /\ \A i \in 1..(Len(fs) - 1) : gs[i] = fs[i]
             /\ gs[Len(fs)] = [fs[Len(fs)] EXCEPT !.gas = g]
             /\ gs[Len(fs)].gas = g /\ gs[Len(fs)].gas0 = fs[Len(fs)].gas0
             /\ gs[Len(fs)].ro = fs[Len(fs)].ro /\ gs[Len(fs)].kind = fs[Len(fs)].kind
<1> DEFINE n == Len(fs)
           top == [fs[n] EXCEPT !.gas = g]
           gs == [fs EXCEPT ![n] = top]
<1>1. n \in 1..n /\ fs[n] \in Frame
  OBVIOUS
<1>2. top \in Frame
  BY <1>1, Zenon DEF Frame
<1>3. top.gas = g /\ top.gas0 = fs[n].gas0 /\ top.ro = fs[n].ro /\ top.kind = fs[n].kind
  BY <1>1, Zenon DEF Frame
<1>4. [fs EXCEPT ![Len(fs)].gas = g] = gs
  BY Zenon
<1> HIDE DEF top
<1>5. gs \in Seq(Frame) /\ Len(gs) = n /\ gs # <<>>
  BY <1>1, <1>2
<1>6. gs[n] = top /\ \A i \in 1..(n - 1) : gs[i] = fs[i]
  BY <1>1, <1>2
<1> QED
  BY <1>3, <1>4, <1>5, <1>6, Zenon DEF top

\* Gas of the top frame may sink, or rise up to what the frame was given.
LEMMA TopGasStacked ==
  ASSUME NEW fs, Stacked(fs), fs # <<>>, NEW g \in Word, g <= fs[Len(fs)].gas0
  PROVE  Stacked([fs EXCEPT ![Len(fs)].gas = g])
<1> DEFINE gs == [fs EXCEPT ![Len(fs)].gas = g]
<1>1. fs \in Seq(Frame)
  BY Zenon DEF Stacked
<1>2. /\ gs \in Seq(Frame) /\ Len(gs) = Len(fs) /\ gs # <<>>
      /\ \A i \in 1..(Len(fs) - 1) : gs[i] = fs[i]
      /\ gs[Len(fs)].gas = g /\ gs[Len(fs)].gas0 = fs[Len(fs)].gas0
  BY <1>1, SetTopGas
<1> HIDE DEF gs
<1>3. \A i \in 1..Len(gs) : gs[i].gas <= gs[i].gas0
  BY <1>1, <1>2 DEF Stacked
<1>4. \A i \in 1..Len(gs) : gs[i].gas0 = fs[i].gas0
  BY <1>1, <1>2
<1>5. \A i \in 1..(Len(gs) - 1) : gs[i].gas + gs[i+1].gas0 <= gs[i].gas0
  BY <1>1, <1>2, <1>4 DEF Stacked
<1> QED
  BY <1>2, <1>3, <1>5, Zenon DEF Stacked, gs

\* The flag does not depend on gas.
LEMMA TopGasFlagged ==
  ASSUME NEW fs \in Seq(Frame), fs # <<>>, NEW g \in Word, NEW ro, Flagged(fs, ro)
  PROVE  Flagged([fs EXCEPT ![Len(fs)].gas = g], ro)
<1> DEFINE gs == [fs EXCEPT ![Len(fs)].gas = g]
<1>1. /\ Len(gs) = Len(fs)
      /\ \A i \in 1..(Len(fs) - 1) : gs[i] = fs[i]
      /\ gs[Len(fs)].ro = fs[Len(fs)].ro /\ gs[Len(fs)].kind = fs[Len(fs)].kind
  BY SetTopGas
<1> HIDE DEF gs
<1>2. \A i \in 1..Len(gs) : gs[i].ro = fs[i].ro /\ gs[i].kind = fs[i].kind
  BY <1>1
<1> QED
  BY <1>1, <1>2, Zenon DEF Flagged, gs

\* Entering a frame that gets no more gas than its caller gave up.
LEMMA PushStacked ==
  ASSUME NEW fs, Stacked(fs), NEW f \in Frame, f.gas = f.gas0,
         fs # <<>> => fs[Len(fs)].gas + f.gas0 <= fs[Len(fs)].gas0
  PROVE  Stacked(Append(fs, f))
<1> DEFINE gs == Append(fs, f)
<1>1. fs \in Seq(Frame)
  BY Zenon DEF Stacked
<1>2. /\ gs \in Seq(Frame) /\ Len(gs) = Len(fs) + 1
      /\ gs[Len(fs) + 1] = f
      /\ \A i \in 1..Len(fs) : gs[i] = fs[i]
  BY <1>1
<1> HIDE DEF gs
<1>3. f.gas <= f.gas0
  BY ParamsAssumption DEF Frame, Word
<1>4. \A i \in 1..Len(gs) : gs[i].gas <= gs[i].gas0
  BY <1>1, <1>2, <1>3 DEF Stacked
<1>5. ASSUME NEW i \in 1..(Len(gs) - 1)
      PROVE  gs[i].gas + gs[i+1].gas0 <= gs[i].gas0
  <2>1. CASE i = Len(fs)
    BY <1>1, <1>2, <2>1
  <2>2. CASE i # Len(fs)
    <3>1. i \in 1..(Len(fs) - 1) /\ gs[i] = fs[i] /\ gs[i+1] = fs[i+1]
      BY <1>1, <1>2, <2>2
    <3> QED
      BY <3>1, Zenon DEF Stacked
  <2> QED
    BY <2>1, <2>2, Zenon
<1> QED
  BY <1>2, <1>4, <1>5, Zenon DEF Stacked, gs

\* A new frame takes the flag only if nobody has it.
LEMMA PushFlagged ==
  ASSUME NEW fs \in Seq(Frame), NEW ro \in BOOLEAN, Flagged(fs, ro), NEW f \in Frame,
         f.ro => ~ro /\ f.kind = "static"
  PROVE  Flagged(Append(fs, f), ro \/ f.ro)
<1> DEFINE gs == Append(fs, f)
<1>1. /\ Len(gs) = Len(fs) + 1
      /\ gs[Len(fs) + 1] = f
      /\ \A i \in 1..Len(fs) : gs[i] = fs[i]
  OBVIOUS
<1> HIDE DEF gs
<1>2. \A i \in 1..Len(gs) : i \in 1..Len(fs) \/ i = Len(fs) + 1
  BY <1>1
<1>3. 1..Len(fs) \subseteq 1..Len(gs) /\ Len(fs) + 1 \in 1..Len(gs)
  BY <1>1
<1>4. (ro \/ f.ro) <=> \E i \in 1..Len(gs) : gs[i].ro
  BY <1>1, <1>2, <1>3, Zenon DEF Flagged
<1>5. \A i, j \in 1..Len(gs) : gs[i].ro /\ gs[j].ro => i = j
  BY <1>1, <1>2, <1>3, Zenon DEF Flagged
<1>6. \A i \in 1..Len(gs) : gs[i].ro => gs[i].kind = "static"
  BY <1>1, <1>2, Zenon DEF Flagged
<1> QED
  BY <1>4, <1>5, <1>6, Zenon DEF Flagged, gs

\* Leaving a frame: its caller is on top again.
LEMMA Pop ==
  ASSUME NEW fs \in Seq(Frame), fs # <<>>
  PROVE  LET gs == SubSeq(fs, 1, Len(fs) - 1)
         IN  /\ gs \in Seq(Frame) /\ Len(gs) = Len(fs) - 1
             /\ \A i \in 1..(Len(fs) - 1) : gs[i] = fs[i]
<1> DEFINE n == Len(fs) - 1
           gs == SubSeq(fs, 1, n)
<1>1. n \in Nat /\ \A i \in 1..n : fs[i] \in Frame
  OBVIOUS
<1> HIDE DEF n
<1>2. /\ gs \in Seq(Frame)
      /\ Len(gs) = IF 1 <= n THEN n - 1 + 1 ELSE 0
      /\ \A i \in 1..(n - 1 + 1) : gs[i] = fs[1 + i - 1]
  BY <1>1, SubSeqProperties
<1>3. Len(gs) = n /\ \A i \in 1..n : gs[i] = fs[i]
  BY <1>1, <1>2
<1> QED
  BY <1>2, <1>3, Zenon DEF n

\* The frames below the one a return leaves still bound each other's gas.
LEMMA PopStacked ==
  ASSUME NEW fs, Stacked(fs), fs # <<>>
  PROVE  Stacked(SubSeq(fs, 1, Len(fs) - 1))
<1> DEFINE gs == SubSeq(fs, 1, Len(fs) - 1)
<1>1. fs \in Seq(Frame)
  BY Zenon DEF Stacked
<1>2. /\ gs \in Seq(Frame) /\ Len(gs) = Len(fs) - 1
      /\ \A i \in 1..(Len(fs) - 1) : gs[i] = fs[i]
  BY <1>1, Pop, Zenon
<1> HIDE DEF gs
<1> QED
  BY <1>1, <1>2 DEF Stacked, gs

\* The frame that took the flag gives it back.
LEMMA PopFlagged ==
  ASSUME NEW fs \in Seq(Frame), fs # <<>>, NEW ro \in BOOLEAN, Flagged(fs, ro)
  PROVE  Flagged(SubSeq(fs, 1, Len(fs) - 1), ro /\ ~fs[Len(fs)].ro)
<1> DEFINE gs == SubSeq(fs, 1, Len(fs) - 1)
<1>1. /\ Len(gs) = Len(fs) - 1
      /\ \A i \in 1..(Len(fs) - 1) : gs[i] = fs[i]
  BY Pop, Zenon
<1> HIDE DEF gs
<1>2. /\ 1..Len(gs) \subseteq 1..Len(fs) /\ Len(fs) \in 1..Len(fs)
      /\ \A i \in 1..Len(fs) : i \in 1..Len(gs) \/ i = Len(fs)
      /\ Len(fs) \notin 1..Len(gs)
  BY <1>1
<1>3. \A i \in 1..Len(gs) : gs[i] = fs[i]
  BY <1>1, Zenon
<1> QED
  BY <1>2, <1>3, SMTT(30) DEF Flagged, gs

-----------------------------------------------------------------------------
\* The inductive invariant: TypeOK, DepthInv, ReadOnlyInv and GasInv together.
\* Core is its part that calls and returns touch.

IInv == TypeOK /\ DepthInv /\ ReadOnlyInv /\ GasInv

Core ==
  /\ db \in DB
  /\ Stacked(frames) /\ Flagged(frames, readOnly)
  /\ depth = Len(frames) /\ depth <= CallCreateDepth + 1
  /\ readOnly \in BOOLEAN
  /\ result \in [err : Errors, gas : Word]

AbortOK == abort \in BOOLEAN /\ inflight \in BOOLEAN /\ (inflight => frames # <<>>)

\* IInv is Core, which calls and returns of evm.go touch, what Cancel touches,
\* and the count of the clients' calls.
LEMMA IInvCore == IInv <=> Core /\ AbortOK /\ calls \in 0..MaxCalls
BY DEF IInv, Core, AbortOK, TypeOK, DepthInv, ReadOnlyInv, GasInv, Stacked, Flagged

\* The same of the state after a step.
LEMMA IInvCorePrime == IInv' <=> Core' /\ AbortOK' /\ calls' \in 0..MaxCalls
BY DEF IInv, Core, AbortOK, TypeOK, DepthInv, ReadOnlyInv, GasInv, Stacked, Flagged

\* A return adds the left-over gas to the caller, or gives it to the client.
LEMMA DeliverCore ==
  ASSUME NEW fs, Stacked(fs), NEW gas \in Word, NEW err \in Errors,
         fs # <<>> => fs[Len(fs)].gas + gas <= fs[Len(fs)].gas0,
         result \in [err : Errors, gas : Word],
         Deliver(fs, gas, err)
  PROVE  /\ Stacked(frames') /\ Len(frames') = Len(fs)
         /\ \A ro : Flagged(fs, ro) => Flagged(frames', ro)
         /\ result' \in [err : Errors, gas : Word]
<1>1. CASE fs = <<>>
  BY <1>1 DEF Deliver
<1>2. CASE fs # <<>>
  <2> DEFINE n == Len(fs)
             g == Add64(fs[n].gas, gas)
  <2>1. fs \in Seq(Frame) /\ fs[n] \in Frame
    BY <1>2 DEF Stacked
  <2>2. fs[n].gas \in Word /\ fs[n].gas0 \in Word
    BY <2>1, Zenon DEF Frame
  <2>3. fs[n].gas + gas <= fs[n].gas0
    BY <1>2, Zenon
  <2>9. \A x, y, z \in Word : x + y <= z => x + y <= MaxUint64
    BY ParamsAssumption DEF Word
  <2>10. fs[n].gas + gas <= MaxUint64
    BY <2>2, <2>3, <2>9, Zenon
  <2>4. g \in Word /\ g <= fs[n].gas0
    BY <2>2, <2>3, <2>10, Word64, Zenon
  <2>5. frames' = [fs EXCEPT ![Len(fs)].gas = g] /\ result' = result
    BY <1>2, Zenon DEF Deliver
  <2> HIDE DEF g
  <2>6. Stacked(frames')
    BY <1>2, <2>4, <2>5, TopGasStacked, Zenon
  <2>7. Len(frames') = Len(fs)
    BY <1>2, <2>1, <2>4, <2>5, SetTopGas, Zenon
  <2>8. ASSUME NEW ro, Flagged(fs, ro)
        PROVE  Flagged(frames', ro)
    BY <1>2, <2>1, <2>4, <2>5, <2>8, TopGasFlagged, Zenon
  <2> QED
    BY <2>5, <2>6, <2>7, <2>8, Zenon
<1> QED
  BY <1>1, <1>2, Zenon

\* Run starts on a new frame.
LEMMA EnterCore ==
  ASSUME NEW fs, Stacked(fs), Flagged(fs, readOnly), readOnly \in BOOLEAN,
         depth = Len(fs), depth <= CallCreateDepth,
         NEW kind \in Kinds, NEW self \in Addr, NEW gas \in Word, NEW ro \in BOOLEAN, NEW snap \in DB,
         ro => ~readOnly /\ kind = "static",
         fs # <<>> => fs[Len(fs)].gas + gas <= fs[Len(fs)].gas0,
         result \in [err : Errors, gas : Word],
         db' \in DB, readOnly' = (readOnly \/ ro),
         Enter(fs, NewContract(kind, self, gas, ro, snap))
  PROVE  Core'
<1> DEFINE f == NewContract(kind, self, gas, ro, snap)
<1>1. f \in Frame /\ f.gas = gas /\ f.gas0 = gas /\ f.ro = ro /\ f.kind = kind
  BY Zenon DEF NewContract, Frame
<1>2. frames' = Append(fs, f) /\ depth' = depth + 1 /\ result' = result
  BY Zenon DEF Enter
<1> HIDE DEF f
<1>3. fs \in Seq(Frame)
  BY Zenon DEF Stacked
<1>4. Stacked(frames')
  BY <1>1, <1>2, PushStacked, Zenon
<1>5. Flagged(frames', readOnly')
  BY <1>1, <1>2, <1>3, PushFlagged, Zenon
<1>6. depth' = Len(frames') /\ depth' <= CallCreateDepth + 1
  BY <1>2, <1>3, ParamsAssumption
<1> QED
  BY <1>2, <1>4, <1>5, <1>6, Zenon DEF Core

\* A call (Call, CallCode, DelegateCall, StaticCall) whose caller, if it is a
\* frame, has given up the gas it passes.
LEMMA InvokeCore ==
  ASSUME Core, NEW fs, Stacked(fs), Flagged(fs, readOnly), depth = Len(fs),
         NEW kind \in Kinds \ {"create"}, NEW caller \in Addr, NEW a \in Addr,
         NEW v \in Nat, NEW gas \in Word,
         fs # <<>> => fs[Len(fs)].gas + gas <= fs[Len(fs)].gas0,
         Invoke(fs, kind, caller, a, v, gas)
  PROVE  Core'
<1> DEFINE pays == kind \in {"call", "callcode"}
           d1 == IF pays THEN GetBalanceEffect(db, caller) ELSE db
           d2 == IF kind = "call" THEN Transfer(d1, caller, a, v) ELSE d1
           setRO == kind = "static" /\ ~readOnly
           self == IF kind \in {"callcode", "delegate"} THEN caller ELSE a
           returns(g, e) == /\ g \in Word /\ g <= gas /\ e \in Errors
                            /\ Deliver(fs, g, e) /\ db' \in DB
                            /\ UNCHANGED <<depth, readOnly>>
           enters == /\ db' = d2 /\ depth <= CallCreateDepth
                     /\ readOnly' = (readOnly \/ setRO)
                     /\ Enter(fs, NewContract(kind, self, gas, setRO, d1))
<1>1. d1 \in DB
  <2>1. db \in DB
    BY Zenon DEF Core
  <2> QED
    BY <2>1, BalanceType, ZeroType, Zenon
<1>2. d2 \in DB
  <2> HIDE DEF d1
  <2> QED
    BY <1>1, BalanceType
<1>3. \/ \E g, e : returns(g, e)
      \/ enters
  <2>1. gas \in Word /\ gas <= gas /\ 0 \in Word /\ 0 <= gas
    BY ParamsAssumption DEF Word
  <2>2. \A c \in OpCosts : c <= gas => gas - c \in Word /\ gas - c <= gas
    BY ParamsAssumption, InputsAssumption DEF Word
  <2>3. \A r \in RunPrecompiledContract(gas) : r.gas \in Word /\ r.gas <= gas /\ r.err \in Errors
    BY <2>1, <2>2 DEF RunPrecompiledContract, Errors
  <2>4. db \in DB
    BY Zenon DEF Core
  <2>5. {"nil", "depth", "funds"} \subseteq Errors
    BY Zenon DEF Errors
  <2> HIDE DEF d1, d2
  <2>6. \/ Deliver(fs, gas, "nil") /\ UNCHANGED <<db, depth, readOnly>>
        \/ Deliver(fs, gas, "depth") /\ UNCHANGED <<db, depth, readOnly>>
        \/ db' = d1 /\ Deliver(fs, gas, "funds") /\ UNCHANGED <<depth, readOnly>>
        \/ /\ db' = d2 /\ UNCHANGED <<depth, readOnly>>
           /\ \E r \in RunPrecompiledContract(gas) : Deliver(fs, r.gas, r.err)
        \/ db' = d2 /\ Deliver(fs, gas, "nil") /\ UNCHANGED <<depth, readOnly>>
        \/ enters
    BY Zenon DEF Invoke, d1, d2
  <2> HIDE DEF enters
  <2> QED
    BY <1>1, <1>2, <2>1, <2>3, <2>4, <2>5, <2>6, Zenon
<1>4. ASSUME NEW g, NEW e, returns(g, e)
      PROVE  Core'
  <2>1. fs # <<>> => fs[Len(fs)].gas + g <= fs[Len(fs)].gas0
    <3>1. fs # <<>> => fs[Len(fs)].gas \in Word /\ fs[Len(fs)].gas0 \in Word
      <4>1. fs # <<>> => fs[Len(fs)] \in Frame
        BY DEF Stacked
      <4> QED
        BY <4>1, Zenon DEF Frame
    <3>2. \A x, y, z, w \in Word : x + y <= z /\ w <= y => x + w <= z
      BY ParamsAssumption DEF Word
    <3> QED
      BY <1>4, <3>1, <3>2, Zenon
  <2>2. result \in [err : Errors, gas : Word]
    BY Zenon DEF Core
  <2>3. /\ Stacked(frames') /\ Len(frames') = Len(fs)
        /\ Flagged(frames', readOnly)
        /\ result' \in [err : Errors, gas : Word]
    BY <1>4, <2>1, <2>2, DeliverCore, Zenon
  <2> QED
    BY <1>4, <2>3, Zenon DEF Core
<1>5. ASSUME enters
      PROVE  Core'
  <2>1. self \in Addr /\ setRO \in BOOLEAN /\ kind \in Kinds
    BY Zenon
  <2>2. setRO => ~readOnly /\ kind = "static"
    BY Zenon
  <2>3. readOnly \in BOOLEAN /\ result \in [err : Errors, gas : Word]
    BY Zenon DEF Core
  <2>4. db' \in DB
    BY <1>2, <1>5, Zenon
  <2> HIDE DEF d1, d2, self, setRO
  <2> QED
    BY <1>1, <1>5, <2>1, <2>2, <2>3, <2>4, EnterCore, Zenon
<1> HIDE DEF enters, returns
<1> QED
  BY <1>3, <1>4, <1>5, Zenon

\* A creation whose caller, if it is a frame, has given up the gas it passes.
LEMMA CreateCore ==
  ASSUME Core, NEW fs, Stacked(fs), Flagged(fs, readOnly), depth = Len(fs),
         NEW caller \in Addr, NEW v \in Nat, NEW gas \in Word,
         fs # <<>> => fs[Len(fs)].gas + gas <= fs[Len(fs)].gas0,
         Create(fs, caller, v, gas)
  PROVE  Core'
<1> DEFINE d1 == GetBalanceEffect(db, caller)
           nonce == GetNonce(d1, caller)
           d2 == SetNonce(d1, caller, nonce + 1)
           a == CreateAddress[<<caller, nonce>>]
           d3 == Transfer(SetNonce(CreateAccount(d2, a), a, 1), caller, a, v)
           enters == /\ db' = d3 /\ depth <= CallCreateDepth
                     /\ readOnly' = readOnly
                     /\ Enter(fs, NewContract("create", a, gas, FALSE, d2))
<1>1. db \in DB /\ readOnly \in BOOLEAN /\ result \in [err : Errors, gas : Word]
  BY Zenon DEF Core
<1>2. d1 \in DB
  BY <1>1, BalanceType, ZeroType, Zenon
<1> HIDE DEF d1
<1>3. nonce \in Nat /\ nonce < MaxNonce
  BY <1>2, GetterType, Zenon DEF Create, d1
<1>4. a \in Addr
  BY <1>3, InputsAssumption, ParamsAssumption, SMTT(30)
<1> HIDE DEF nonce, a
<1>5. d2 \in DB
  BY <1>2, <1>3, WriterType
<1> HIDE DEF d2
<1>6. d3 \in DB
  <2>1. SetNonce(CreateAccount(d2, a), a, 1) \in DB
    BY <1>4, <1>5, TouchType, WriterType, Zenon
  <2> QED
    BY <1>4, <2>1, BalanceType
<1> HIDE DEF d3
<1>7. \/ Deliver(fs, gas, "depth") /\ UNCHANGED <<db, depth, readOnly>>
      \/ db' = d1 /\ Deliver(fs, gas, "funds") /\ UNCHANGED <<depth, readOnly>>
      \/ db' = d2 /\ Deliver(fs, 0, "collision") /\ UNCHANGED <<depth, readOnly>>
      \/ db' = d3 /\ Deliver(fs, gas, "nil") /\ UNCHANGED <<depth, readOnly>>
      \/ enters
  BY Zenon DEF Create, d1, nonce, d2, a, d3
<1>8. ASSUME NEW g \in {0, gas}, NEW e \in Errors, Deliver(fs, g, e), db' \in DB,
             UNCHANGED <<depth, readOnly>>
      PROVE  Core'
  <2>1. g \in Word
    BY ParamsAssumption DEF Word
  <2>2. fs # <<>> => fs[Len(fs)].gas + g <= fs[Len(fs)].gas0
    <3>1. fs # <<>> => fs[Len(fs)].gas \in Word /\ fs[Len(fs)].gas0 \in Word
      <4>1. fs # <<>> => fs[Len(fs)] \in Frame
        BY DEF Stacked
      <4> QED
        BY <4>1, Zenon DEF Frame
    <3>2. \A x, y, z \in Word : x + y <= z => x + 0 <= z
      BY ParamsAssumption DEF Word
    <3> QED
      BY <3>1, <3>2, Zenon
  <2>3. /\ Stacked(frames') /\ Len(frames') = Len(fs)
        /\ Flagged(frames', readOnly)
        /\ result' \in [err : Errors, gas : Word]
    BY <1>1, <1>8, <2>1, <2>2, DeliverCore, Zenon
  <2> QED
    BY <1>8, <2>3, Zenon DEF Core
<1>9. ASSUME enters
      PROVE  Core'
  <2>1. "create" \in Kinds /\ FALSE \in BOOLEAN
    BY Zenon DEF Kinds
  <2>2. db' \in DB /\ readOnly' = (readOnly \/ FALSE)
    BY <1>1, <1>6, <1>9, Zenon
  <2> QED
    BY <1>1, <1>4, <1>5, <1>9, <2>1, <2>2, EnterCore, Zenon
<1> HIDE DEF enters
<1>10. {"depth", "funds", "collision", "nil"} \subseteq Errors
  BY Zenon DEF Errors
<1> QED
  BY <1>1, <1>2, <1>5, <1>6, <1>7, <1>8, <1>9, <1>10, Zenon

\* Leaving the running frame with at most the gas it has.
LEMMA ExitCore ==
  ASSUME IInv, frames # <<>>, NEW err \in Errors, NEW gas \in Word, gas <= Top.gas,
         NEW d \in DB, Exit(err, gas, d)
  PROVE  IInv'
<1> DEFINE n == Len(frames)
           g == IF err = "fail" THEN 0 ELSE gas
<1>1. Core /\ AbortOK /\ calls \in 0..MaxCalls
  BY IInvCore, Zenon
<1>2. frames \in Seq(Frame) /\ n \in Nat \ {0}
  BY <1>1 DEF Core, Stacked
<1>3. Stacked(Callers) /\ Len(Callers) = n - 1 /\ \A i \in 1..(n - 1) : Callers[i] = frames[i]
  BY <1>1, <1>2, PopStacked, Pop, Zenon DEF Callers, Core
<1>4. Flagged(Callers, readOnly /\ ~Top.ro)
  BY <1>1, <1>2, PopFlagged, Zenon DEF Callers, Top, Core
<1>5. g \in Word /\ g <= Top.gas
  <2>1. Top.gas \in Word
    <3>1. Top \in Frame
      BY <1>2 DEF Top
    <3> QED
      BY <3>1, Zenon DEF Frame
  <2> QED
    BY <2>1, ParamsAssumption DEF Word
<1>6. Callers # <<>> => Callers[Len(Callers)].gas + g <= Callers[Len(Callers)].gas0
  <2> SUFFICES ASSUME Callers # <<>>
               PROVE  Callers[n - 1].gas + g <= Callers[n - 1].gas0
    BY <1>3, Zenon
  <2>1. n - 1 \in 1..(n - 1) /\ n \in 1..n
    BY <1>2, <1>3
  <2>2. /\ frames[n - 1].gas + frames[n].gas0 <= frames[n - 1].gas0
        /\ frames[n].gas <= frames[n].gas0
    BY <1>1, <1>2, <2>1 DEF Core, Stacked
  <2>3. {frames[n - 1].gas, frames[n - 1].gas0, frames[n].gas, frames[n].gas0} \subseteq Word
    <3>1. frames[n - 1] \in Frame /\ frames[n] \in Frame
      BY <1>2, <2>1
    <3> HIDE DEF n
    <3> QED
      BY <3>1, Zenon DEF Frame
  <2>4. \A p, q, r, s, t \in Word : p + q <= r /\ s <= q /\ t <= s => p + t <= r
    BY ParamsAssumption DEF Word
  <2> QED
    BY <1>3, <1>5, <2>1, <2>2, <2>3, <2>4 DEF Top
<1>7. /\ Stacked(frames') /\ Len(frames') = n - 1
      /\ Flagged(frames', readOnly /\ ~Top.ro)
      /\ result' \in [err : Errors, gas : Word]
  <2>1. Deliver(Callers, g, err) /\ result \in [err : Errors, gas : Word]
    BY <1>1, Zenon DEF Exit, Core
  <2> HIDE DEF g
  <2> QED
    BY <1>3, <1>4, <1>5, <1>6, <2>1, DeliverCore, Zenon
<1>8. db' \in DB /\ depth' = depth - 1 /\ readOnly' = (readOnly /\ ~Top.ro)
  BY Zenon DEF Exit, RevertToSnapshot
<1>9. Core'
  <2>1. readOnly \in BOOLEAN /\ depth = n /\ depth <= CallCreateDepth + 1
    BY <1>1, Zenon DEF Core
  <2>2. depth' = Len(frames') /\ depth' <= CallCreateDepth + 1
    BY <1>2, <1>7, <1>8, <2>1, ParamsAssumption
  <2>3. readOnly' \in BOOLEAN
    BY <1>8, Zenon
  <2>4. Flagged(frames', readOnly')
    BY <1>7, <1>8, Zenon
  <2> QED
    BY <1>7, <1>8, <2>2, <2>3, <2>4, Zenon DEF Core
<1> QED
  BY <1>1, <1>9, IInvCorePrime, Zenon DEF Exit, AbortOK

\* Contract.UseGas keeps the stack as it is but for the gas of its top.
LEMMA Paid ==
  ASSUME IInv, frames # <<>>, NEW cost \in Nat, cost <= Top.gas
  PROVE  LET fs == UseGas(cost)
         IN  /\ Stacked(fs) /\ Flagged(fs, readOnly) /\ depth = Len(fs) /\ fs # <<>>
             /\ fs[Len(fs)].gas = Top.gas - cost /\ fs[Len(fs)].gas0 = Top.gas0
             /\ Top \in Frame /\ Top.gas <= Top.gas0
<1> DEFINE g == Top.gas - cost
<1>1. Core /\ Stacked(frames) /\ Flagged(frames, readOnly) /\ depth = Len(frames)
  BY IInvCore, Zenon DEF Core
<1>2. frames \in Seq(Frame) /\ Top \in Frame /\ Top.gas <= Top.gas0
  BY <1>1 DEF Stacked, Top
<1>3. Top.gas \in Word /\ Top.gas0 \in Word
  BY <1>2, Zenon DEF Frame
<1>4. g \in Word /\ g <= Top.gas0
  <2>1. \A x, y \in Word : x <= y /\ cost <= x => x - cost \in Word /\ x - cost <= y
    BY ParamsAssumption DEF Word
  <2> QED
    BY <1>2, <1>3, <2>1, Zenon
<1>5. UseGas(cost) = [frames EXCEPT ![Len(frames)].gas = g]
  BY Zenon DEF UseGas, Top
<1> HIDE DEF g
<1>6. Stacked(UseGas(cost)) /\ Flagged(UseGas(cost), readOnly)
  <2>1. g <= frames[Len(frames)].gas0
    BY <1>4, Zenon DEF Top
  <2>2. Stacked([frames EXCEPT ![Len(frames)].gas = g])
    BY <1>1, <1>4, <2>1, TopGasStacked, Zenon
  <2>3. Flagged([frames EXCEPT ![Len(frames)].gas = g], readOnly)
    BY <1>1, <1>2, <1>4, TopGasFlagged, Zenon
  <2> QED
    BY <1>5, <2>2, <2>3, Zenon
<1>7. /\ Len(UseGas(cost)) = Len(frames) /\ UseGas(cost) # <<>>
      /\ UseGas(cost)[Len(frames)].gas = g /\ UseGas(cost)[Len(frames)].gas0 = Top.gas0
  BY <1>2, <1>4, <1>5, SetTopGas DEF Top
<1> QED
  BY <1>1, <1>2, <1>6, <1>7, Zenon DEF g

\* An opcode that stays in its frame.
LEMMA ExecuteCore ==
  ASSUME IInv, NEW c \in OpCosts, NEW d \in DB, Execute(c, d)
  PROVE  IInv'
<1>1. Core /\ AbortOK /\ calls \in 0..MaxCalls
  BY IInvCore, Zenon
<1>2. frames # <<>> /\ c \in Nat /\ c <= Top.gas
  BY InputsAssumption, ParamsAssumption DEF Execute, Running, Word
<1>3. Stacked(frames') /\ Flagged(frames', readOnly) /\ depth = Len(frames')
  BY <1>2, Paid, Zenon DEF Execute
<1>4. Core'
  BY <1>1, <1>3, Zenon DEF Core, Execute
<1> QED
  BY <1>1, <1>4, IInvCorePrime, Zenon DEF Execute, AbortOK

\* Run returned without error: with Create's epilogue or without.
LEMMA FinishCore ==
  ASSUME IInv, frames # <<>>, NEW ret \in Nat, NEW gas \in Word, gas <= Top.gas,
         NEW d \in DB, Finish(ret, gas, d)
  PROVE  IInv'
<1>1. "nil" \in Errors /\ "fail" \in Errors
  BY Zenon DEF Errors
<1>2. CASE Exit("nil", gas, d)
  BY <1>1, <1>2, ExitCore, Zenon
<1>3. CASE Exit("fail", gas, d)
  BY <1>1, <1>3, ExitCore, Zenon
<1>4. CASE /\ ret * CreateDataGas <= gas
           /\ Exit("nil", gas - ret * CreateDataGas, SetCode(d, Top.self, ret))
  <2> DEFINE fee == ret * CreateDataGas
  <2>1. fee \in Nat
    BY ParamsAssumption
  <2> HIDE DEF fee
  <2>2. Core
    BY IInvCore, Zenon
  <2>3. Top \in Frame
    BY <2>2 DEF Core, Stacked, Top
  <2>4. Top.self \in Addr /\ Top.gas \in Word
    BY <2>3, Zenon DEF Frame
  <2>5. gas - fee \in Word /\ gas - fee <= Top.gas
    <3>1. fee <= gas
      BY <1>4, Zenon DEF fee
    <3>2. \A x, y \in Word : x <= y /\ fee <= x => x - fee \in Word /\ x - fee <= y
      BY <2>1, ParamsAssumption, SMTT(30) DEF Word
    <3> QED
      BY <2>4, <3>1, <3>2, Zenon
  <2>6. SetCode(d, Top.self, ret) \in DB
    BY <2>4, WriterType, Zenon
  <2>7. Exit("nil", gas - fee, SetCode(d, Top.self, ret))
    BY <1>4, Zenon DEF fee
  <2> QED
    BY <1>1, <2>5, <2>6, <2>7, ExitCore, Zenon
<1> QED
  BY <1>2, <1>3, <1>4, Zenon DEF Finish

\* The call opcodes: what the callee gets (its gas and the stipend) is covered
\* by what the caller pays, since a value transfer costs more than the stipend.
LEMMA opCallCore ==
  ASSUME IInv, opCall
  PROVE  IInv'
<1>1. Core /\ AbortOK /\ calls \in 0..MaxCalls /\ frames # <<>>
  BY IInvCore, Zenon DEF opCall, Running
<1>2. PICK kind \in Kinds \ {"create"}, a \in Callees, v \in CallValues,
           mem \in MemCosts, callCost \in CallCosts :
        LET base == CallBase(kind, v) + mem
            temp == callGas(Top.gas, base, callCost)
            gas == IF v # 0 THEN Add64(temp, CallStipend) ELSE temp
        IN /\ CallAffordable(Top.gas, base, temp)
           /\ Invoke(UseGas(CallCost(base, temp)), kind, Top.self, a, v, gas)
  BY DEF opCall
<1> DEFINE base == CallBase(kind, v) + mem
           temp == callGas(Top.gas, base, callCost)
           gas == IF v # 0 THEN Add64(temp, CallStipend) ELSE temp
           fs == UseGas(CallCost(base, temp))
<1>3. Top \in Frame
  BY <1>1 DEF Core, Stacked, Top
<1>4. Top.self \in Addr /\ Top.gas \in Word /\ Top.gas0 \in Word
  BY <1>3, Zenon DEF Frame
<1>5. v \in Nat /\ a \in Addr /\ mem \in Nat /\ callCost \in Nat
  BY InputsAssumption, ParamsAssumption DEF Word
<1>6. base \in Nat /\ (v # 0 => CallStipend <= base) /\ CallStipend \in Word
  BY <1>5, ParamsAssumption DEF CallBase, Word
<1> HIDE DEF base
<1>7. temp \in Word /\ CallCost(base, temp) = base + temp /\ base + temp <= Top.gas
  BY <1>2, <1>4, <1>5, <1>6, CallPays, Zenon DEF base
<1> HIDE DEF temp
<1>8. gas \in Word /\ gas <= base + temp
  <2>1. Top.gas <= MaxUint64 /\ temp \in Nat /\ Top.gas \in Nat
    BY <1>4, <1>7, ParamsAssumption DEF Word
  <2>2. CASE v # 0
    <3>1. temp + CallStipend <= base + temp /\ temp + CallStipend <= MaxUint64
      BY <1>6, <1>7, <2>1, <2>2, ParamsAssumption
    <3> QED
      BY <1>6, <1>7, <2>2, <3>1, Word64, Zenon
  <2>3. CASE v = 0
    BY <1>6, <1>7, <2>1, <2>3
  <2> QED
    BY <2>2, <2>3, Zenon
<1> HIDE DEF gas
<1>9. base + temp \in Nat
  BY <1>6, <1>7, ParamsAssumption DEF Word
<1>10. /\ Stacked(fs) /\ Flagged(fs, readOnly) /\ depth = Len(fs)
       /\ fs[Len(fs)].gas = Top.gas - (base + temp) /\ fs[Len(fs)].gas0 = Top.gas0
       /\ Top.gas <= Top.gas0
  BY <1>1, <1>7, <1>9, Paid, Zenon
<1>11. fs[Len(fs)].gas + gas <= fs[Len(fs)].gas0
  <2>1. \A x, y, z \in Word : \A p \in Nat : z <= p /\ p <= x /\ x <= y => x - p + z <= y
    BY ParamsAssumption DEF Word
  <2> QED
    BY <1>4, <1>7, <1>8, <1>9, <1>10, <2>1, Zenon
<1>12. Invoke(fs, kind, Top.self, a, v, gas)
  BY <1>2, Zenon DEF base, temp, gas
<1> HIDE DEF fs
<1>13. Core'
  BY <1>1, <1>4, <1>5, <1>8, <1>10, <1>11, <1>12, InvokeCore, Zenon
<1> QED
  BY <1>1, <1>13, IInvCorePrime, Zenon DEF opCall, AbortOK

\* CREATE hands over all but one 64th of what is left after its own cost.
LEMMA opCreateCore ==
  ASSUME IInv, opCreate
  PROVE  IInv'
<1>1. Core /\ AbortOK /\ calls \in 0..MaxCalls /\ frames # <<>>
  BY IInvCore, Zenon DEF opCreate, Running
<1>2. PICK v \in CallValues, mem \in MemCosts :
        LET left == Top.gas - CreateGas - mem
            gas == left - left \div 64
        IN /\ CreateGas + mem <= Top.gas
           /\ Create(UseGas(CreateGas + mem + gas), Top.self, v, gas)
  BY Zenon DEF opCreate
<1> DEFINE left == Top.gas - CreateGas - mem
           gas == left - left \div 64
           cost == CreateGas + mem + gas
           fs == UseGas(cost)
<1>3. Top \in Frame
  BY <1>1 DEF Core, Stacked, Top
<1>4. Top.self \in Addr /\ Top.gas \in Word /\ Top.gas0 \in Word
  BY <1>3, Zenon DEF Frame
<1>5. v \in Nat /\ mem \in Nat /\ CreateGas \in Nat
  BY InputsAssumption, ParamsAssumption DEF Word
<1>6. left \in Word /\ left = Top.gas - (CreateGas + mem)
  <2>1. \A x \in Word : \A p, q \in Nat : p + q <= x => x - p - q \in Word /\ x - p - q = x - (p + q)
    BY ParamsAssumption DEF Word
  <2> QED
    BY <1>2, <1>4, <1>5, <2>1, Zenon
<1> HIDE DEF left
<1>7. gas \in Word /\ gas <= left
  BY <1>6, ParamsAssumption DEF Word
<1> HIDE DEF gas
<1>8. cost \in Nat /\ cost <= Top.gas /\ gas <= cost
  <2>1. \A x, y, z \in Word : \A p, q \in Nat :
          y = x - (p + q) /\ z <= y => p + q + z \in Nat /\ p + q + z <= x /\ z <= p + q + z
    BY ParamsAssumption DEF Word
  <2> QED
    BY <1>4, <1>5, <1>6, <1>7, <2>1, Zenon
<1> HIDE DEF cost
<1>9. /\ Stacked(fs) /\ Flagged(fs, readOnly) /\ depth = Len(fs)
      /\ fs[Len(fs)].gas = Top.gas - cost /\ fs[Len(fs)].gas0 = Top.gas0
      /\ Top.gas <= Top.gas0
  BY <1>1, <1>8, Paid, Zenon
<1>10. fs[Len(fs)].gas + gas <= fs[Len(fs)].gas0
  <2>1. \A x, y, z \in Word : \A p \in Nat : z <= p /\ p <= x /\ x <= y => x - p + z <= y
    BY ParamsAssumption DEF Word
  <2> QED
    BY <1>4, <1>7, <1>8, <1>9, <2>1, Zenon
<1>11. Create(fs, Top.self, v, gas)
  BY <1>2, Zenon DEF left, gas, cost
<1> HIDE DEF fs
<1>12. Core'
  BY <1>1, <1>4, <1>5, <1>7, <1>9, <1>10, <1>11, CreateCore, Zenon
<1> QED
  BY <1>1, <1>12, IInvCorePrime, Zenon DEF opCreate, AbortOK

\* SELFDESTRUCT: the balance reads of gasSuicide and opSuicide, the credit and
\* the mark, then the frame is left.
LEMMA opSuicideCore ==
  ASSUME IInv, opSuicide
  PROVE  IInv'
<1>1. Core /\ frames # <<>>
  BY IInvCore, Zenon DEF opSuicide, Running
<1>2. PICK b \in Heirs, c \in OpCosts :
       LET self == Top.self
           d1 == HasSuicidedEffect(GetBalanceEffect(db, self), self)
           d2 == GetBalanceEffect(d1, self)
           d3 == Suicide(AddBalance(d2, b, d2.StateMap[self].balance), self)
       IN IF c <= Top.gas THEN Finish(0, Top.gas - c, d3) ELSE Exit("fail", 0, d1)
  BY Zenon DEF opSuicide
<1> DEFINE self == Top.self
           d1 == HasSuicidedEffect(GetBalanceEffect(db, self), self)
           d2 == GetBalanceEffect(d1, self)
           d3 == Suicide(AddBalance(d2, b, d2.StateMap[self].balance), self)
<1>3. Top \in Frame /\ db \in DB
  BY <1>1 DEF Core, Stacked, Top
<1>4. self \in Addr /\ Top.gas \in Word
  BY <1>3, Zenon DEF Frame
<1>5. b \in Addr /\ c \in Nat
  BY InputsAssumption, ParamsAssumption DEF Word
<1> HIDE DEF self
<1>6. d1 \in DB
  <2>1. GetBalanceEffect(db, self) \in DB
    BY <1>3, <1>4, BalanceType, ZeroType, Zenon
  <2> QED
    BY <1>4, <2>1, WriterType, ZeroType, Zenon
<1> HIDE DEF d1
<1>7. d2 \in DB
  BY <1>4, <1>6, BalanceType, ZeroType, Zenon
<1> HIDE DEF d2
<1>8. d3 \in DB
  <2>1. d2.StateMap[self].balance \in Int
    BY <1>4, <1>7, GetterType, Zenon
  <2>2. AddBalance(d2, b, d2.StateMap[self].balance) \in DB
    BY <1>5, <1>7, <2>1, BalanceType, Zenon
  <2> QED
    BY <1>4, <2>2, WriterType, ZeroType, Zenon
<1> HIDE DEF d3
<1>9. CASE c <= Top.gas /\ Finish(0, Top.gas - c, d3)
  <2>1. \A x \in Word : c <= x => x - c \in Word /\ x - c <= x
    BY <1>5, ParamsAssumption DEF Word
  <2> QED
    BY <1>1, <1>4, <1>8, <1>9, <2>1, FinishCore, Zenon
<1>10. CASE Exit("fail", 0, d1)
  <2>1. 0 \in Word /\ 0 <= Top.gas /\ "fail" \in Errors
    BY <1>4, ParamsAssumption DEF Word, Errors
  <2> QED
    BY <1>1, <1>6, <1>10, <2>1, ExitCore, Zenon
<1> QED
  BY <1>2, <1>9, <1>10, Zenon DEF self, d1, d2, d3

-----------------------------------------------------------------------------
\* The theorems.

\* The database the clients start from is well typed.
LEMMA InitDBType == InitDB \in DB
<1> DEFINE acc(a) == CASE a \in EOAs -> [NewState EXCEPT !.balance = 100, !.nonce = InitNonce]
                       [] a \in Deployed -> [NewState EXCEPT !.balance = 100, !.nonce = 1, !.code = 1]
                       [] OTHER -> Blank
<1>1. InitNonce \in Nat
  BY ParamsAssumption
<1>2. [NewState EXCEPT !.balance = 100, !.nonce = InitNonce] \in State
  <2>1. [NewState EXCEPT !.balance = 100] \in State
    BY BlankType DEF State
  <2>2. [[NewState EXCEPT !.balance = 100] EXCEPT !.nonce = InitNonce] \in State
    BY <1>1, <2>1, Zenon DEF State
  <2> QED
    BY <2>2, Zenon
<1>3. [NewState EXCEPT !.balance = 100, !.nonce = 1, !.code = 1] \in State
  <2>1. [NewState EXCEPT !.balance = 100] \in State
    BY BlankType DEF State
  <2>2. [[NewState EXCEPT !.balance = 100] EXCEPT !.nonce = 1] \in State
    BY <2>1, Zenon DEF State
  <2>3. [[[NewState EXCEPT !.balance = 100] EXCEPT !.nonce = 1] EXCEPT !.code = 1] \in State
    BY <2>2, Zenon DEF State
  <2> QED
    BY <2>3, Zenon
<1>4. ASSUME NEW a \in Addr
      PROVE  acc(a) \in State
  <2>1. CASE a \in EOAs
    BY <1>2, <2>1, InputsAssumption, Zenon
  <2>2. CASE a \in Deployed
    BY <1>3, <2>2, InputsAssumption, Zenon
  <2>3. CASE a \notin EOAs /\ a \notin Deployed
    BY <2>3, BlankType, Zenon
  <2> QED
    BY <2>1, <2>2, <2>3, Zenon
<1> HIDE DEF acc
<1>5. [a \in Addr |-> acc(a)] \in [Addr -> State]
  BY <1>4, Zenon
<1>6. InitDB = [StateMap |-> [a \in Addr |-> acc(a)], Logs |-> <<>>]
  BY DEF InitDB, New, acc
<1> QED
  BY <1>5, <1>6 DEF DB

\* A new activation of the EVM satisfies the invariant.
LEMMA InitIInv == Init => IInv
<1> SUFFICES ASSUME Init PROVE IInv
  BY Zenon
<1>1. frames = <<>> /\ depth = 0 /\ readOnly = FALSE /\ db \in DB
  BY InitDBType, Zenon DEF Init
<1>2. Stacked(frames) /\ Flagged(frames, readOnly)
  BY <1>1 DEF Stacked, Flagged
<1>3. result \in [err : Errors, gas : Word]
  BY ParamsAssumption DEF Errors, Word, Init
<1>4. depth = Len(frames) /\ depth <= CallCreateDepth + 1
  BY <1>1, ParamsAssumption
<1>5. readOnly \in BOOLEAN
  BY <1>1, Zenon
<1>6. Core
  BY <1>1, <1>2, <1>3, <1>4, <1>5, Zenon DEF Core
<1>7. AbortOK /\ calls \in 0..MaxCalls
  <2>1. abort = FALSE /\ inflight = FALSE /\ calls = 0
    BY Zenon DEF Init
  <2>2. 0 \in 0..MaxCalls
    BY ParamsAssumption
  <2> QED
    BY <2>1, <2>2, Zenon DEF AbortOK
<1> QED
  BY <1>6, <1>7, IInvCore, Zenon

\* A call by a client has no frame below it.
LEMMA ClientCore ==
  ASSUME IInv, ClientCall \/ ClientCreate
  PROVE  IInv'
<1>1. Core /\ AbortOK /\ calls \in 0..MaxCalls
  BY IInvCore, Zenon
<1>2. /\ frames = <<>> /\ calls < MaxCalls /\ calls' = calls + 1
      /\ AbortOK'
  <2>1. /\ frames = <<>> /\ calls < MaxCalls /\ calls' = calls + 1
        /\ abort' = abort /\ inflight' = inflight
    BY Zenon DEF ClientCall, ClientCreate
  <2>2. inflight = FALSE
    BY <1>1, <2>1, Zenon DEF AbortOK
  <2>3. AbortOK'
    BY <1>1, <2>1, <2>2, Zenon DEF AbortOK
  <2> QED
    BY <2>1, <2>3, Zenon
<1>3. Stacked(<<>>) /\ Flagged(<<>>, readOnly) /\ depth = Len(<<>>)
  BY <1>1, <1>2, Zenon DEF Core
<1>4. CASE ClientCall
  <2>1. PICK from \in EOAs, a \in Callees, v \in CallValues, gas \in GasLimits :
          Invoke(<<>>, "call", from, a, v, gas)
    BY <1>4, Zenon DEF ClientCall
  <2>2. from \in Addr /\ a \in Addr /\ v \in Nat /\ gas \in Word /\ "call" \in Kinds \ {"create"}
    BY InputsAssumption, Zenon DEF Kinds
  <2>3. Core'
    BY <1>1, <1>3, <2>1, <2>2, InvokeCore, Zenon
  <2> QED
    BY <1>1, <1>2, <2>3, IInvCorePrime, ParamsAssumption
<1>5. CASE ClientCreate
  <2>1. PICK from \in EOAs, gas \in GasLimits : Create(<<>>, from, 0, gas)
    BY <1>5, Zenon DEF ClientCreate
  <2>2. from \in Addr /\ gas \in Word
    BY InputsAssumption, Zenon
  <2>3. Core'
    BY <1>1, <1>3, <2>1, <2>2, CreateCore, Zenon
  <2> QED
    BY <1>1, <1>2, <2>3, IInvCorePrime, ParamsAssumption
<1> QED
  BY <1>4, <1>5, Zenon

\* Every step of the interpreter keeps the invariant, one case per opcode or
\* way out of a frame.
LEMMA StepIInv ==
  ASSUME IInv, Step
  PROVE  IInv'
<1>1. Core
  BY IInvCore, Zenon
<1>2. db \in DB /\ frames \in Seq(Frame)
  BY <1>1, Zenon DEF Core, Stacked
<1>3. frames # <<>>
  BY Zenon DEF Step, Plain, Overflow, opSstore, opBalance, makeLog, opCall, opCreate,
         Halt, opRevert, Fault, opSuicide, Aborted, Running
<1>4. Top \in Frame
  BY <1>2, <1>3 DEF Top
<1>5. Top.self \in Addr /\ Top.gas \in Word
  BY <1>4, Zenon DEF Frame
<1>6. CASE Plain
  BY <1>2, <1>6, ExecuteCore, Zenon DEF Plain
<1>7. CASE Overflow
  <2>1. PICK op \in ArithOps, pc \in PCs, c \in OpCosts :
          Execute(c, SetState(db, Top.self, op, pc))
    BY <1>7, Zenon DEF Overflow
  <2>2. op \in Keys /\ pc \in Nat
    BY InputsAssumption, Zenon DEF Keys
  <2>3. SetState(db, Top.self, op, pc) \in DB
    BY <1>2, <1>5, <2>2, WriterType, Zenon
  <2> QED
    BY <2>1, <2>3, ExecuteCore, Zenon
<1>8. CASE opSstore
  <2>1. PICK k \in Slots, v \in Values, c \in OpCosts :
          Execute(c, SetState(db, Top.self, k, v))
    BY <1>8, Zenon DEF opSstore
  <2>2. k \in Keys /\ v \in Nat
    BY InputsAssumption, Zenon DEF Keys
  <2>3. SetState(db, Top.self, k, v) \in DB
    BY <1>2, <1>5, <2>2, WriterType, Zenon
  <2> QED
    BY <2>1, <2>3, ExecuteCore, Zenon
<1>9. CASE opBalance
  <2>1. PICK a \in Watched, c \in OpCosts : Execute(c, GetBalanceEffect(db, a))
    BY <1>9, Zenon DEF opBalance
  <2>2. GetBalanceEffect(db, a) \in DB
    BY <1>2, BalanceType, InputsAssumption, ZeroType, Zenon
  <2> QED
    BY <2>1, <2>2, ExecuteCore, Zenon
<1>10. CASE makeLog
  <2>1. PICK t \in Topics, c \in OpCosts : Execute(c, AddLog(db, t))
    BY <1>10, Zenon DEF makeLog
  <2>2. AddLog(db, t) \in DB
    BY <1>2, LogType, Zenon
  <2> QED
    BY <2>1, <2>2, ExecuteCore, Zenon
<1>11. CASE opCall
  BY <1>11, opCallCore, Zenon
<1>12. CASE opCreate
  BY <1>12, opCreateCore, Zenon
<1>13. \A c \in MemCosts : c <= Top.gas => Top.gas - c \in Word /\ Top.gas - c <= Top.gas
  <2>1. \A x, c \in Word : c <= x => x - c \in Word /\ x - c <= x
    BY ParamsAssumption DEF Word
  <2>2. MemCosts \subseteq Word
    BY InputsAssumption, Zenon
  <2> QED
    BY <1>5, <2>1, <2>2, Zenon
<1>14. 0 \in Word /\ 0 <= Top.gas /\ Top.gas <= Top.gas /\ "reverted" \in Errors /\ "fail" \in Errors
  BY <1>5, ParamsAssumption DEF Word, Errors
<1>15. CASE Halt
  <2>1. PICK c \in MemCosts, ret \in IF Top.kind = "create" THEN CodeLens ELSE {0} :
          c <= Top.gas /\ Finish(ret, Top.gas - c, db)
    BY <1>15, Zenon DEF Halt
  <2>2. ret \in Nat
    BY InputsAssumption
  <2> QED
    BY <1>2, <1>3, <1>13, <2>1, <2>2, FinishCore, Zenon
<1>16. CASE opRevert
  <2>1. PICK c \in MemCosts : c <= Top.gas /\ Exit("reverted", Top.gas - c, db)
    BY <1>16, Zenon DEF opRevert
  <2> QED
    BY <1>2, <1>3, <1>13, <1>14, <2>1, ExitCore, Zenon
<1>17. CASE Fault
  BY <1>2, <1>3, <1>14, <1>17, ExitCore, Zenon DEF Fault
<1>18. CASE opSuicide
  BY <1>18, opSuicideCore, Zenon
<1>19. CASE Aborted
  BY <1>2, <1>3, <1>5, <1>14, <1>19, FinishCore, ZeroType, Zenon DEF Aborted
<1> QED
  BY <1>6, <1>7, <1>8, <1>9, <1>10, <1>11, <1>12, <1>15, <1>16, <1>17, <1>18, <1>19, Zenon DEF Step

\* The four invariants together are inductive.
LEMMA Inductive == IInv /\ [Next]_vars => IInv'
<1> SUFFICES ASSUME IInv, [Next]_vars PROVE IInv'
  BY Zenon
<1>1. CASE Step
  BY <1>1, StepIInv, Zenon
<1>2. CASE Cancel
  <2>1. Core /\ AbortOK' /\ calls' \in 0..MaxCalls
    BY <1>2, IInvCore, Zenon DEF Cancel, AbortOK
  <2>2. Core'
    BY <1>2, <2>1, Zenon DEF Cancel, Core
  <2> QED
    BY <2>1, <2>2, IInvCorePrime, Zenon
<1>3. CASE ClientCall \/ ClientCreate
  BY <1>3, ClientCore, Zenon
<1>4. CASE UNCHANGED vars
  <2>1. Core /\ AbortOK' /\ calls' \in 0..MaxCalls
    BY <1>4, IInvCore, Zenon DEF vars, AbortOK
  <2>2. Core'
    BY <1>4, <2>1, Zenon DEF vars, Core
  <2> QED
    BY <2>1, <2>2, IInvCorePrime, Zenon
<1> QED
  BY <1>1, <1>2, <1>3, <1>4, Zenon DEF Next

\* The conjunction of the four invariants holds in every reachable state of the
\* EVM, whatever contracts run and whatever the gas parameters are.
THEOREM Invariance == Spec => []IInv
BY InitIInv, Inductive, PTL DEF Spec

\* Type correctness: contract.Gas and the left-over gas handed to the client
\* stay machine words although they are computed with unchecked arithmetic.
THEOREM TypeCorrect == Spec => []TypeOK
<1>1. IInv => TypeOK
  BY Zenon DEF IInv
<1> QED
  BY <1>1, Invariance, PTL

\* evm.depth is the number of active frames, and is at most CallCreateDepth + 1.
THEOREM DepthCorrect == Spec => []DepthInv
<1>1. IInv => DepthInv
  BY Zenon DEF IInv
<1> QED
  BY <1>1, Invariance, PTL

\* interpreter.readOnly is set exactly while the static call that set it is
\* active, whichever way the calls inside it end.
THEOREM ReadOnlyCorrect == Spec => []ReadOnlyInv
<1>1. IInv => ReadOnlyInv
  BY Zenon DEF IInv
<1> QED
  BY <1>1, Invariance, PTL

\* Calls never create gas: the unchecked "contract.Gas += returnGas" of the
\* call opcodes never lifts a frame above what it was given, even though
\* callGas may wrap and the stipend is added on top.
THEOREM GasCorrect == Spec => []GasInv
<1>1. IInv => GasInv
  BY Zenon DEF IInv
<1> QED
  BY <1>1, Invariance, PTL
=============================================================================
