--------------------------- MODULE Drivers_proofs ---------------------------
(***************************************************************************)
(* Proofs about the drivers, for every set of files and of workers and     *)
(* every capacity of the channel: no file is lost or run twice, and the    *)
(* drivers implement TaskSet.  Then those about the detector that main2    *)
(* runs on each file, for any contracts, ABIs, functions and inputs.       *)
(***************************************************************************)
EXTENDS Drivers, OverFlowDetector, TLAPS, FiniteSetTheorems, SequenceTheorems

\* The worker dispatcher starts.
Chosen == CHOOSE w \in Workers : TRUE

Buffered(f) == \E k \in 1..Len(chan) : chan[k] = f
InWork(f) == \E w \in Workers : worker[w] = f

\* Every listed file is in one place: among those to be sent, in the channel,
\* with a worker, or processed.  This is TaskConserved without cardinalities.
Apart ==
  /\ \A j, k \in 1..Len(chan) : chan[j] = chan[k] => j = k
  /\ \A v, w \in Workers : worker[v] \in Files /\ worker[v] = worker[w] => v = w
  /\ \A f \in Files :
       /\ count[f] \in {0, 1}
       /\ f \in todo => ~Buffered(f) /\ ~InWork(f) /\ count[f] = 0
       /\ Buffered(f) => ~InWork(f) /\ count[f] = 0
       /\ InWork(f) => count[f] = 0
       /\ f \in listed <=> (f \in todo \/ Buffered(f) \/ InWork(f) \/ count[f] = 1)

\* What main has done by the time it is where it is: the channel is closed only
\* by main2, after its last task, and only then do workers leave.
Course ==
  /\ main = "stat" => listed = {}
  /\ main \in {"close", "wait"} => todo = {}
  /\ main = "close" => driver = "main2"
  /\ closed => driver = "main2" /\ todo = {} /\ main \notin {"stat", "send", "close"}
  /\ main = "wait" /\ driver = "main2" => closed
  /\ driver = "main2" => \A w \in Workers : worker[w] = "gone" => closed /\ chan = <<>>
  /\ driver = "dispatcher" => worker[Chosen] # "gone"

\* The WaitGroup counts the workers that have not left.
Counted == wg = Cardinality({w \in Workers : worker[w] # "gone"})

IInv == TypeOK /\ Apart /\ Course /\ Counted

-----------------------------------------------------------------------------
\* There is a worker for dispatcher to start.
LEMMA ChosenWorker == Chosen \in Workers
BY DriversAssumption, Zenon DEF Chosen

\* The words a worker's state can be besides a file are no files.
LEMMA Words == "idle" \notin Files /\ "gone" \notin Files
BY DriversAssumption, Zenon

\* A step that leaves the workers alone leaves the counter right.
LEMMA CountedSame ==
  ASSUME Counted, worker' = worker, wg' = wg
  PROVE  Counted'
BY Zenon DEF Counted

\* The invariant holds when the goroutines have been started.
LEMMA InitIInv == Init => IInv
<1> SUFFICES ASSUME Init
             PROVE  IInv
  BY Zenon
<1> DEFINE started == IF driver = "main2" THEN Workers ELSE {Chosen}
<1>1. /\ worker = [w \in Workers |-> IF w \in started THEN "idle" ELSE "gone"]
      /\ wg = Cardinality(started)
  BY Zenon DEF Init, Chosen
<1>2. started \subseteq Workers /\ IsFiniteSet(started)
  BY ChosenWorker, DriversAssumption, FS_Subset
<1>3. Counted
  <2>1. {w \in Workers : worker[w] # "gone"} = started
    BY <1>1, <1>2, Zenon
  <2> QED
    BY <1>1, <2>1, Zenon DEF Counted
<1>4. TypeOK
  <2>1. wg \in Nat
    BY <1>1, <1>2, FS_CardinalityType, Zenon
  <2>2. worker \in [Workers -> Files \cup {"idle", "gone"}]
    BY <1>1, Zenon
  <2>3. chan \in Seq(Files) /\ count \in [Files -> Nat]
    BY DEF Init
  <2>4. listening \in BOOLEAN
    BY Zenon DEF Init
  <2> QED
    BY <2>1, <2>2, <2>3, <2>4, Zenon DEF Init, TypeOK
<1>5. Apart
  BY <1>1, Words DEF Init, Apart, Buffered, InWork
<1>6. Course
  BY <1>1, ChosenWorker, Zenon DEF Init, Course
<1> QED
  BY <1>3, <1>4, <1>5, <1>6 DEF IInv

-----------------------------------------------------------------------------
(* One lemma for each step that moves a file or a goroutine.               *)

\* Listing puts every listed file among those to be sent.
LEMMA StatIInv == IInv /\ Stat => IInv'
<1> SUFFICES ASSUME IInv, Stat
             PROVE  IInv'
  BY Zenon
<1> USE DEF IInv, Stat
<1>1. TypeOK'
  BY Zenon DEF TypeOK
<1>2. Counted'
  BY CountedSame
<1>3. Apart'
  BY DEF Apart, Buffered, InWork, TypeOK, Course
<1>4. Course'
  BY Zenon DEF Course
<1> QED
  BY <1>1, <1>2, <1>3, <1>4, Zenon

\* Sending moves a file from those to be sent into the channel.
LEMMA SendIInv == IInv /\ Send => IInv'
<1> SUFFICES ASSUME IInv, Send
             PROVE  IInv'
  BY Zenon
<1> PICK f \in todo : chan' = Append(chan, f) /\ todo' = todo \ {f}
  BY Zenon DEF Send
<1>1. f \in Files /\ chan \in Seq(Files)
  BY Zenon DEF IInv, TypeOK
<1>2. /\ Len(chan') = Len(chan) + 1
      /\ \A k \in 1..Len(chan) : chan'[k] = chan[k]
      /\ chan'[Len(chan) + 1] = f
      /\ Len(chan) \in Nat /\ chan' \in Seq(Files)
  BY <1>1
<1>3. TypeOK'
  BY <1>2, Zenon DEF IInv, TypeOK, Send
<1>4. Counted'
  BY CountedSame, Zenon DEF IInv, Send
<1>5. \A g \in Files : /\ Buffered(g)' <=> Buffered(g) \/ g = f
                       /\ InWork(g)' <=> InWork(g)
  BY <1>1, <1>2 DEF Buffered, InWork, Send
<1>6. Apart'
  <2>1. ~Buffered(f)
    BY <1>1, Zenon DEF IInv, Apart
  <2>2. \A j, k \in 1..Len(chan') : chan'[j] = chan'[k] => j = k
    BY <1>2, <2>1 DEF IInv, Apart, Buffered
  <2> QED
    BY <1>1, <1>5, <2>2 DEF IInv, Apart, Send
<1>7. Course'
  BY Zenon DEF IInv, Course, Send
<1> QED
  BY <1>3, <1>4, <1>6, <1>7, Zenon DEF IInv

\* A worker takes the first file of the channel.
LEMMA ReceiveIInv == ASSUME NEW w \in Workers PROVE IInv /\ Receive(w) => IInv'
<1> SUFFICES ASSUME IInv, Receive(w)
             PROVE  IInv'
  BY Zenon
<1> DEFINE f == Head(chan)
<1>1. /\ chan \in Seq(Files) /\ chan # <<>>
      /\ worker' = [worker EXCEPT ![w] = f] /\ chan' = Tail(chan)
      /\ worker \in [Workers -> Files \cup {"idle", "gone"}] /\ worker[w] = "idle"
  BY Zenon DEF IInv, TypeOK, Receive
<1>2. /\ Len(chan) \in Nat /\ Len(chan) > 0 /\ Len(chan') = Len(chan) - 1
      /\ \A k \in 1..Len(chan') : chan'[k] = chan[k + 1]
      /\ f = chan[1] /\ f \in Files /\ chan' \in Seq(Files)
  BY <1>1
<1> HIDE DEF f
<1>3. /\ worker' \in [Workers -> Files \cup {"idle", "gone"}] /\ worker'[w] = f
      /\ \A v \in Workers : v # w => worker'[v] = worker[v]
  BY <1>1, <1>2, Zenon
<1>4. TypeOK'
  BY <1>2, <1>3, Zenon DEF IInv, TypeOK, Receive
<1>5. Counted'
  <2>1. {v \in Workers : worker'[v] # "gone"} = {v \in Workers : worker[v] # "gone"}
    BY <1>1, <1>2, <1>3, Words, Zenon
  <2> QED
    BY <2>1, Zenon DEF IInv, Counted, Receive
<1>6. Buffered(f)
  BY <1>2 DEF Buffered
<1>7. \A g \in Files : /\ Buffered(g)' <=> Buffered(g) /\ g # f
                       /\ InWork(g)' <=> InWork(g) \/ g = f
  <2> TAKE g \in Files
  <2>1. InWork(g)' <=> InWork(g) \/ g = f
    BY <1>1, <1>3, Words DEF InWork
  <2>2. ASSUME Buffered(g)'
        PROVE  Buffered(g) /\ g # f
    <3>1. PICK k \in 1..Len(chan') : chan'[k] = g
      BY <2>2, Zenon DEF Buffered
    <3>2. k + 1 \in 1..Len(chan) /\ chan[k + 1] = g /\ k + 1 # 1
      BY <1>2, <3>1
    <3> QED
      BY <1>2, <3>2 DEF Buffered, IInv, Apart
  <2>3. ASSUME Buffered(g), g # f
        PROVE  Buffered(g)'
    <3>1. PICK k \in 1..Len(chan) : chan[k] = g
      BY <2>3, Zenon DEF Buffered
    <3>2. k # 1
      BY <1>2, <2>3, <3>1
    <3>3. k - 1 \in 1..Len(chan') /\ chan'[k - 1] = g
      BY <1>2, <3>1, <3>2
    <3> QED
      BY <3>3, Zenon DEF Buffered
  <2> QED
    BY <2>1, <2>2, <2>3, Zenon
<1>8. Apart'
  <2>1. \A j, k \in 1..Len(chan') : chan'[j] = chan'[k] => j = k
    <3> TAKE j, k \in 1..Len(chan')
    <3>1. j + 1 \in 1..Len(chan) /\ k + 1 \in 1..Len(chan)
      BY <1>2
    <3> QED
      BY <1>2, <3>1, SMTT(30) DEF IInv, Apart
  <2>2. \A u, v \in Workers : worker'[u] \in Files /\ worker'[u] = worker'[v] => u = v
    <3>1. \A v \in Workers : worker[v] # f
      BY <1>2, <1>6, Zenon DEF IInv, Apart, InWork
    <3> QED
      BY <1>3, <3>1, Zenon DEF IInv, Apart
  <2>3. todo' = todo /\ listed' = listed /\ count' = count
    BY Zenon DEF Receive
  <2>4. \A g \in Files :
       /\ count[g] \in {0, 1}
       /\ g \in todo => ~Buffered(g) /\ ~InWork(g) /\ count[g] = 0
       /\ Buffered(g) => ~InWork(g) /\ count[g] = 0
       /\ InWork(g) => count[g] = 0
       /\ g \in listed <=> (g \in todo \/ Buffered(g) \/ InWork(g) \/ count[g] = 1)
    BY Zenon DEF IInv, Apart
  <2>5. \A g \in Files :
       /\ count'[g] \in {0, 1}
       /\ g \in todo' => ~Buffered(g)' /\ ~InWork(g)' /\ count'[g] = 0
       /\ Buffered(g)' => ~InWork(g)' /\ count'[g] = 0
       /\ InWork(g)' => count'[g] = 0
       /\ g \in listed' <=> (g \in todo' \/ Buffered(g)' \/ InWork(g)' \/ count'[g] = 1)
    BY <1>2, <1>6, <1>7, <2>3, <2>4
  <2> QED
    BY <2>1, <2>2, <2>5, Zenon DEF Apart
<1>9. Course'
  BY <1>1, <1>2, <1>3, Words DEF IInv, Course, Receive
<1> QED
  BY <1>4, <1>5, <1>8, <1>9, Zenon DEF IInv

\* A worker has processed its file.
LEMMA WorkIInv == ASSUME NEW w \in Workers PROVE IInv /\ Work(w) => IInv'
<1> SUFFICES ASSUME IInv, Work(w)
             PROVE  IInv'
  BY Zenon
<1> DEFINE f == worker[w]
<1>1. /\ f \in Files /\ count \in [Files -> Nat]
      /\ worker \in [Workers -> Files \cup {"idle", "gone"}]
      /\ count' = [count EXCEPT ![f] = @ + 1] /\ worker' = [worker EXCEPT ![w] = "idle"]
  BY Zenon DEF IInv, TypeOK, Work
<1>2. InWork(f) /\ count[f] = 0
  BY <1>1, Zenon DEF IInv, Apart, InWork
<1> HIDE DEF f
<1>3. /\ worker' \in [Workers -> Files \cup {"idle", "gone"}] /\ worker'[w] = "idle"
      /\ \A v \in Workers : v # w => worker'[v] = worker[v]
      /\ count' \in [Files -> Nat] /\ count'[f] = 1
      /\ \A g \in Files : g # f => count'[g] = count[g]
  BY <1>1, <1>2
<1>4. TypeOK'
  BY <1>3, Zenon DEF IInv, TypeOK, Work
<1>5. Counted'
  <2>1. {v \in Workers : worker'[v] # "gone"} = {v \in Workers : worker[v] # "gone"}
    BY <1>1, <1>3, Words DEF f
  <2> QED
    BY <2>1, Zenon DEF IInv, Counted, Work
<1>6. \A g \in Files : /\ Buffered(g)' <=> Buffered(g)
                       /\ InWork(g)' <=> InWork(g) /\ g # f
  <2>1. \A v \in Workers : worker[v] = f => v = w
    BY <1>1, Zenon DEF IInv, Apart, f
  <2> QED
    BY <1>1, <1>3, <2>1, Words DEF Buffered, InWork, Work, f
<1>7. Apart'
  <2>1. \A u, v \in Workers : worker'[u] \in Files /\ worker'[u] = worker'[v] => u = v
    BY <1>3, Words DEF IInv, Apart
  <2>2. \A j, k \in 1..Len(chan') : chan'[j] = chan'[k] => j = k
    BY Zenon DEF IInv, Apart, Work
  <2> QED
    BY <1>1, <1>2, <1>3, <1>6, <2>1, <2>2 DEF IInv, Apart, Work
<1>8. Course'
  BY <1>1, <1>3, Words DEF IInv, Course, Work
<1> QED
  BY <1>4, <1>5, <1>7, <1>8, Zenon DEF IInv

\* A worker leaves: the WaitGroup counts one less.
LEMMA LeaveIInv == ASSUME NEW w \in Workers PROVE IInv /\ Leave(w) => IInv'
<1> SUFFICES ASSUME IInv, Leave(w)
             PROVE  IInv'
  BY Zenon
<1>1. /\ worker \in [Workers -> Files \cup {"idle", "gone"}] /\ worker[w] = "idle"
      /\ worker' = [worker EXCEPT ![w] = "gone"] /\ wg' = wg - 1
  BY Zenon DEF IInv, TypeOK, Leave
<1>2. /\ worker' \in [Workers -> Files \cup {"idle", "gone"}] /\ worker'[w] = "gone"
      /\ \A v \in Workers : v # w => worker'[v] = worker[v]
  BY <1>1, Zenon
<1> DEFINE active == {v \in Workers : worker[v] # "gone"}
<1>3. IsFiniteSet(active) /\ w \in active
  BY <1>1, DriversAssumption, FS_Subset, Zenon
<1>4. {v \in Workers : worker'[v] # "gone"} = active \ {w}
  BY <1>1, <1>2, Zenon
<1>5. Cardinality(active \ {w}) = Cardinality(active) - 1 /\ IsFiniteSet(active \ {w})
  BY <1>3, FS_RemoveElement, Zenon
<1>6. wg' = Cardinality(active \ {w}) /\ wg' \in Nat
  BY <1>1, <1>5, FS_CardinalityType DEF IInv, Counted
<1>7. Counted'
  BY <1>4, <1>6, Zenon DEF Counted
<1>8. TypeOK'
  BY <1>2, <1>6 DEF IInv, TypeOK, Leave
<1>9. Apart'
  <2>1. \A g \in Files : (Buffered(g)' <=> Buffered(g)) /\ (InWork(g)' <=> InWork(g))
    BY <1>1, <1>2, Words, Zenon DEF Buffered, InWork, Leave
  <2> QED
    BY <1>2, <2>1, Words DEF IInv, Apart, Leave
<1>10. Course'
  BY <1>1, <1>2, Zenon DEF IInv, Course, Leave
<1> QED
  BY <1>7, <1>8, <1>9, <1>10, Zenon DEF IInv

\* dispatcher never gets past its wait: the worker it started is still there.
LEMMA WaitIsMain2 == IInv /\ Wait => driver = "main2" /\ \A w \in Workers : worker[w] = "gone"
<1> SUFFICES ASSUME IInv, Wait
             PROVE  driver = "main2" /\ \A w \in Workers : worker[w] = "gone"
  BY Zenon
<1> DEFINE active == {w \in Workers : worker[w] # "gone"}
<1>1. IsFiniteSet(active) /\ Cardinality(active) = 0
  BY DriversAssumption, FS_Subset, Zenon DEF IInv, Counted, Wait
<1>2. active = {}
  BY <1>1, FS_EmptySet, Zenon
<1> QED
  BY <1>2, ChosenWorker, Zenon DEF IInv, Course, TypeOK

\* The steps that move no file: main goes on, the program panics or is ended.
LEMMA ControlIInv ==
  IInv /\ (Sent \/ Close \/ Wait \/ RuntimeDeadlock \/ \E w \in Workers : Panic(w)) => IInv'
<1> SUFFICES ASSUME IInv, Sent \/ Close \/ Wait \/ RuntimeDeadlock \/ \E w \in Workers : Panic(w)
             PROVE  IInv'
  BY Zenon
<1>1. UNCHANGED <<driver, todo, chan, worker, wg, listening, listed, count>>
  BY Zenon DEF Sent, Close, Wait, RuntimeDeadlock, Panic
<1>2. TypeOK'
  BY <1>1, Zenon DEF IInv, TypeOK, Sent, Close, Wait, RuntimeDeadlock, Panic
<1>3. Counted'
  BY <1>1, CountedSame, Zenon DEF IInv
<1>4. Apart'
  BY <1>1 DEF IInv, Apart, Buffered, InWork
<1>5. Course'
  <2>1. CASE Sent
    BY <2>1, Zenon DEF IInv, Course, TypeOK, Sent
  <2>2. CASE Close
    BY <2>2 DEF IInv, Course, TypeOK, Close
  <2>3. CASE Wait
    BY <2>3, WaitIsMain2, Zenon DEF IInv, Course, TypeOK, Wait
  <2>4. CASE RuntimeDeadlock
    BY <2>4 DEF IInv, Course, TypeOK, RuntimeDeadlock
  <2>5. CASE \E w \in Workers : Panic(w)
    BY <2>5 DEF IInv, Course, TypeOK, Panic
  <2> QED
    BY <2>1, <2>2, <2>3, <2>4, <2>5
<1> QED
  BY <1>2, <1>3, <1>4, <1>5, Zenon DEF IInv

\* A step that changes nothing keeps the invariant.
LEMMA StutterIInv == IInv /\ UNCHANGED vars => IInv'
BY DEF IInv, TypeOK, Apart, Buffered, InWork, Course, Counted, vars

\* Every step keeps the invariant.
LEMMA Inductive == IInv /\ [Next]_vars => IInv'
BY StatIInv, SendIInv, ReceiveIInv, WorkIInv, LeaveIInv, ControlIInv, StutterIInv, Zenon
   DEF Next, MainNext, WorkerNext

\* The strengthened invariant holds throughout.
THEOREM Invariance == Spec => []IInv
BY InitIInv, Inductive, PTL DEF Spec

-----------------------------------------------------------------------------
\* In every state the invariant describes, each listed file is in one place.
LEMMA ConservedHere == IInv => TaskConserved
<1> SUFFICES ASSUME IInv, NEW f \in Files
             PROVE  Places(f) = IF f \in listed THEN 1 ELSE 0
  BY Zenon DEF IInv, TaskConserved
<1> DEFINE slots == {k \in DOMAIN chan : chan[k] = f}
           hands == {w \in Workers : worker[w] = f}
<1>0. chan \in Seq(Files) /\ DOMAIN chan = 1..Len(chan)
  BY DEF IInv, TypeOK
<1>1. Cardinality(slots) = IF Buffered(f) THEN 1 ELSE 0
  <2>1. CASE Buffered(f)
    <3>1. PICK k \in 1..Len(chan) : chan[k] = f
      BY <2>1, Zenon DEF Buffered
    <3>2. slots = {k}
      BY <1>0, <3>1 DEF IInv, Apart
    <3> QED
      BY <2>1, <3>2, FS_Singleton, Zenon
  <2>2. CASE ~Buffered(f)
    <3>1. slots = {}
      BY <1>0, <2>2, Zenon DEF Buffered
    <3> QED
      BY <2>2, <3>1, FS_EmptySet, Zenon
  <2> QED
    BY <2>1, <2>2, Zenon
<1>2. Cardinality(hands) = IF InWork(f) THEN 1 ELSE 0
  <2>1. CASE InWork(f)
    <3>1. PICK w \in Workers : worker[w] = f
      BY <2>1, Zenon DEF InWork
    <3>2. hands = {w}
      BY <3>1 DEF IInv, Apart
    <3> QED
      BY <2>1, <3>2, FS_Singleton, Zenon
  <2>2. CASE ~InWork(f)
    <3>1. hands = {}
      BY <2>2, Zenon DEF InWork
    <3> QED
      BY <2>2, <3>1, FS_EmptySet
  <2> QED
    BY <2>1, <2>2
<1>3. Places(f) = (IF f \in todo THEN 1 ELSE 0) + Cardinality(slots) + Cardinality(hands) + count[f]
  BY DEF Places
<1> HIDE DEF slots, hands
<1> QED
  BY <1>1, <1>2, <1>3 DEF IInv, Apart

\* Between main, the channel and the workers no listed file is ever lost or run
\* twice, whatever their number, the capacity and the schedule.
THEOREM TasksConserved == Spec => []TaskConserved
BY Invariance, ConservedHere, PTL

-----------------------------------------------------------------------------
(* The drivers implement TaskSet.                                          *)

\* A scan begins with nothing listed and nothing done.
LEMMA InitScan == Init => Scan!Init
BY DEF Init, Scan!Init, Ended

\* When wg.Wait returns, every listed file was processed.
LEMMA WaitDone == IInv /\ Wait => \A f \in Files : f \in listed <=> count[f] > 0
<1> SUFFICES ASSUME IInv, Wait, NEW f \in Files
             PROVE  f \in listed <=> count[f] > 0
  BY Zenon
<1>1. \A w \in Workers : worker[w] = "gone"
  BY WaitIsMain2, Zenon
<1>2. todo = {} /\ chan = <<>>
  BY <1>1, WaitIsMain2, ChosenWorker, Zenon DEF IInv, Course, Wait
<1>3. ~InWork(f) /\ ~Buffered(f)
  BY <1>1, <1>2, Words DEF InWork, Buffered
<1> QED
  BY <1>2, <1>3 DEF IInv, Apart

\* Every step of the drivers is a step of the scan, or changes nothing in it.
LEMMA StepScan ==
  ASSUME IInv, [Next]_vars
  PROVE  LET done == {f \in Files : count[f] > 0}
             ended == IF ~Ended THEN "no" ELSE IF main = "exit" THEN "exit" ELSE "crashed"
         IN  [Scan!Next]_<<listed, done, ended>>
<1> DEFINE done == {f \in Files : count[f] > 0}
           ended == IF ~Ended THEN "no" ELSE IF main = "exit" THEN "exit" ELSE "crashed"
<1> SUFFICES Scan!Next \/ UNCHANGED <<listed, done, ended>>
  BY Zenon
<1>1. CASE UNCHANGED vars
  BY <1>1, Zenon DEF vars, Ended
<1>2. CASE Stat
  <2>1. ended = "no" /\ listed = {} /\ done = {} /\ UNCHANGED done
    BY <1>2 DEF Stat, Ended, IInv, Course, Apart, Buffered, InWork, TypeOK
  <2>2. CASE main' = "send"
    BY <1>2, <2>1, <2>2, Zenon DEF Stat, Ended, Scan!Next, Scan!List
  <2>3. CASE main' \in {"exit", "panic"} /\ UNCHANGED listed
    BY <1>2, <2>1, <2>3, Zenon DEF Stat, Ended, Scan!Next, Scan!End
  <2> QED
    BY <1>2, <2>2, <2>3 DEF Stat
<1>3. CASE Send \/ Sent \/ \E w \in Workers : Receive(w) \/ Leave(w)
  BY <1>3, Zenon DEF Send, Sent, Receive, Leave, Ended
<1>4. CASE Close
  BY <1>4, Zenon DEF Close, Ended, IInv, Course
<1>5. CASE Wait
  <2>1. done = listed /\ ended = "no" /\ ended' = "exit" /\ UNCHANGED <<listed, done>>
    BY <1>5, WaitDone, WaitIsMain2 DEF Wait, Ended, IInv, TypeOK
  <2> QED
    BY <2>1 DEF Scan!Next, Scan!End
<1>6. CASE RuntimeDeadlock \/ \E w \in Workers : Panic(w)
  <2>1. ended = "no" /\ ended' = "crashed" /\ UNCHANGED <<listed, done>>
    BY <1>6, Zenon DEF RuntimeDeadlock, Stuck, Panic, Ended
  <2> QED
    BY <2>1 DEF Scan!Next, Scan!End
<1>7. ASSUME NEW w \in Workers, Work(w)
      PROVE  Scan!Next
  <2> DEFINE f == worker[w]
  <2>1. f \in Files /\ count[f] = 0 /\ f \in listed /\ count \in [Files -> Nat]
    BY <1>7, Zenon DEF Work, IInv, Apart, InWork, TypeOK
  <2>2. f \in listed \ done /\ done' = done \cup {f}
    BY <1>7, <2>1 DEF Work
  <2>3. ended = "no" /\ UNCHANGED <<listed, ended>>
    BY <1>7 DEF Work, Ended
  <2> QED
    BY <2>2, <2>3 DEF Scan!Next, Scan!Process
<1> QED
  BY <1>1, <1>2, <1>3, <1>4, <1>5, <1>6, <1>7 DEF Next, MainNext, WorkerNext

\* The drivers implement the scan: files are listed once, processed one by one,
\* none twice, and the program returns only when all listed files are through.
THEOREM Implements == Spec => ImplementsScan
BY Invariance, InitScan, StepScan, PTL DEF Spec, ImplementsScan, Scan!Spec

-----------------------------------------------------------------------------
(* The detector: DetectorExact is an invariant.                            *)

\* The phases of an invocation.
Inside == {"create", "attacker", "toAttacker", "toVictims", "product", "report"}

\* The combination of the m-th invocation for contract c.
Combination(c, m) ==
  <<c, functionNames[(m - 1) \div 4 + 1], ((m - 1) % 4) \div 2 = 0, ((m - 1) % 4) % 2 = 0>>

\* All combinations of the contracts in S.
Combinations(S) == S \X {functionNames[k] : k \in 1..Len(functionNames)} \X BOOLEAN \X BOOLEAN

\* What was run: all of the contracts before, and k invocations of this one.
RanUpTo(k) == ran = Combinations(Contracts \ (remaining \cup {contract}))
                      \cup {Combination(contract, m) : m \in 1..k}

\* The inductive invariant: a detection and its reasons agree wherever the
\* detector has not panicked, and ran has what the loops have been through.
DInv ==
  /\ DetectorTypes /\ events \in BOOLEAN
  /\ events <=> "overflow" \in Logs
  /\ Detected => events /\ Attackvector \in returned
  /\ phase # "panic" /\ hits # {} => Detected
  /\ phase \in Inside => n > 0
  /\ phase \in Inside \cup {"init"} => contract \in Contracts \ remaining
  /\ phase \in {"contract", "done"} => ran = Combinations(Contracts \ remaining)
  /\ phase = "init" => RanUpTo(n)
  /\ phase \in Inside => RanUpTo(n - 1)
  /\ phase = "done" => remaining = {}

\* The invocations of a contract are its combinations.
LEMMA InvocationsCombine ==
  ASSUME functionNames \in Seq(STRING), NEW c
  PROVE  {Combination(c, m) : m \in 1..Invocations} = Combinations({c})
<1> DEFINE L == Len(functionNames)
<1>0. L \in Nat /\ Invocations = 4 * L
  BY DEF Invocations
<1>1. ASSUME NEW m \in 1..Invocations
      PROVE  Combination(c, m) \in Combinations({c})
  <2>1. (m - 1) \div 4 + 1 \in 1..L
    BY <1>0
  <2> QED
    BY <2>1, Zenon DEF Combination, Combinations
<1>2. ASSUME NEW t \in Combinations({c})
      PROVE  \E m \in 1..Invocations : t = Combination(c, m)
  <2>1. PICK k \in 1..L, x \in BOOLEAN, y \in BOOLEAN : t = <<c, functionNames[k], x, y>>
    BY <1>2 DEF Combinations
  <2>2. PICK a \in {0, 2}, b \in {0, 1} : (a = 0 <=> x) /\ (b = 0 <=> y)
    <3>1. \E a \in {0, 2} : a = 0 <=> x
      BY 0 # 2, Zenon
    <3>2. \E b \in {0, 1} : b = 0 <=> y
      BY 0 # 1, Zenon
    <3> QED
      BY <3>1, <3>2, Zenon
  <2>3. PICK m : m = 4 * (k - 1) + a + b + 1
    BY Zenon
  <2>4. /\ m \in 1..Invocations
        /\ (m - 1) \div 4 + 1 = k /\ (m - 1) % 4 = a + b
    BY <1>0, <2>3
  <2>5. ((a + b) \div 2 = 0 <=> a = 0) /\ ((a + b) % 2 = 0 <=> b = 0)
    OBVIOUS
  <2>6. (((m - 1) % 4) \div 2 = 0) = x /\ (((m - 1) % 4) % 2 = 0) = y
    <3>1. (((m - 1) % 4) \div 2 = 0 <=> x) /\ (((m - 1) % 4) % 2 = 0 <=> y)
      BY <2>2, <2>4, <2>5, Zenon
    <3> QED
      BY <2>1, <3>1, Zenon
  <2> QED
    BY <2>1, <2>4, <2>6, Zenon DEF Combination
<1> QED
  BY <1>1, <1>2, Zenon

\* The parts of DInv that a step with the same invocation leaves alone.
LEMMA SameInvocation ==
  ASSUME DInv, UNCHANGED <<loopVars, n, ran>>,
         phase \in Inside, phase' \in Inside \cup {"panic"}
  PROVE  /\ phase' \in Inside => n' > 0
         /\ phase' \in Inside \cup {"init"} => contract' \in Contracts \ remaining'
         /\ phase' \in {"contract", "done"} => ran' = Combinations(Contracts \ remaining')
         /\ phase' = "init" => RanUpTo(n)'
         /\ phase' \in Inside => RanUpTo(n - 1)'
         /\ phase' = "done" => remaining' = {}
BY Zenon DEF DInv, loopVars, Inside, RanUpTo

\* A call adds its events and those only.
LEMMA CallEvents ==
  ASSUME DetectorTypes, events \in BOOLEAN, events <=> "overflow" \in Logs,
         NEW topics \in Outcomes, FunctionCall(topics)
  PROVE  /\ Logs' \in Outcomes /\ events' \in BOOLEAN
         /\ events' <=> "overflow" \in Logs'
         /\ events => events'
         /\ "overflow" \in topics => "overflow" \in Logs'
<1>1. Logs' = Logs \cup topics /\ events' = (events \/ "overflow" \in topics)
  BY Zenon DEF FunctionCall
<1>2. events' \in BOOLEAN /\ (events' <=> events \/ "overflow" \in topics)
  BY <1>1, Zenon
<1> QED
  BY <1>1, <1>2, Zenon DEF DetectorTypes, Outcomes

\* A call before the products, or none, keeps what is known of the detection.
LEMMA Prepares ==
  ASSUME DInv, UNCHANGED <<loopVars, n, ofdVars, ran, returned, hits>>,
         phase \in Inside, phase' \in Inside, products' \subseteq Products,
         transfers' \in 0..Victims,
         (\E topics \in Outcomes : FunctionCall(topics)) \/ UNCHANGED <<Logs, events>>
  PROVE  DInv'
<1>1. /\ Logs' \in Outcomes /\ events' \in BOOLEAN
      /\ events' <=> "overflow" \in Logs'
      /\ events => events'
  <2>1. CASE \E topics \in Outcomes : FunctionCall(topics)
    BY <2>1, CallEvents, Zenon DEF DInv
  <2>2. CASE UNCHANGED <<Logs, events>>
    BY <2>2, Zenon DEF DInv, DetectorTypes
  <2> QED
    BY <2>1, <2>2, Zenon
<1>2. DetectorTypes'
  BY <1>1, Zenon DEF DInv, DetectorTypes, Inside, loopVars, ofdVars
<1>3. /\ Detected' => events' /\ Attackvector' \in returned'
      /\ phase' # "panic" /\ hits' # {} => Detected'
  BY <1>1, Zenon DEF DInv, ofdVars, Inside
<1> QED
  BY <1>1, <1>2, <1>3, SameInvocation, Zenon DEF DInv

\* The invariant holds initially.
LEMMA DetectorStarts == DetectorAssumption /\ DetectorInit => DInv
<1> SUFFICES ASSUME DetectorAssumption, DetectorInit PROVE DInv
  BY Zenon
<1>1. DetectorTypes
  <2>1. n \in 0..(4 * Len(functionNames)) /\ transfers \in 0..Victims
    BY DEF DetectorAssumption, DetectorInit
  <2>2. Logs \in Outcomes /\ Detected \in BOOLEAN
    BY Zenon DEF DetectorInit, Outcomes
  <2> QED
    BY <2>1, <2>2, Zenon DEF DetectorInit, DetectorTypes
<1>2. ran = Combinations(Contracts \ remaining)
  BY Zenon DEF DetectorInit, Combinations
<1> QED
  BY <1>1, <1>2, Zenon DEF DetectorInit, DInv, Inside

\* The loop over the contracts.
LEMMA LoopSteps ==
  ASSUME DetectorAssumption, DInv,
         NextContract \/ RunDetectorDone \/ ContractDone
  PROVE  DInv'
<1>0. UNCHANGED <<Logs, transfers, ofdVars, ran, events, prodVars>>
  BY Zenon DEF NextContract, RunDetectorDone, ContractDone
<1>1. CASE NextContract
  <2>1. PICK c \in remaining, a \in ABIs : contract' = c /\ abi' = a /\ remaining' = remaining \ {c}
    BY <1>1, Zenon DEF NextContract
  <2>2. n' = 0 /\ phase' = "init" /\ phase = "contract"
    BY <1>1, Zenon DEF NextContract
  <2>3. DetectorTypes'
    BY <1>0, <2>1, <2>2 DEF DInv, DetectorTypes, ofdVars, prodVars, DetectorAssumption
  <2>4. RanUpTo(n)'
    <3>1. remaining' \cup {contract'} = remaining
      BY <2>1, Zenon
    <3>2. {Combination(contract', m) : m \in 1..n'} = {}
      BY <2>2
    <3> QED
      BY <1>0, <2>2, <3>1, <3>2, Zenon DEF DInv, RanUpTo
  <2> QED
    BY <1>0, <2>1, <2>2, <2>3, <2>4, Zenon DEF DInv, DetectorTypes, ofdVars, prodVars, Inside
<1>2. CASE RunDetectorDone
  BY <1>0, <1>2 DEF DInv, DetectorTypes, RunDetectorDone, loopVars, ofdVars, prodVars, Inside
<1>3. CASE ContractDone
  <2>1. /\ phase = "init" /\ n = Invocations /\ phase' = "contract" /\ UNCHANGED <<loopVars, n>>
    BY <1>3, Zenon DEF ContractDone
  <2>2. ran = Combinations(Contracts \ (remaining \cup {contract})) \cup Combinations({contract})
    BY <2>1, InvocationsCombine, Zenon DEF DInv, RanUpTo, DetectorAssumption
  <2>3. contract \in Contracts \ remaining
    BY <2>1, Zenon DEF DInv
  <2>4. ran = Combinations(Contracts \ remaining)
    BY <2>2, <2>3, Zenon DEF Combinations
  <2> QED
    BY <1>0, <2>1, <2>4, Zenon DEF DInv, DetectorTypes, loopVars, ofdVars, prodVars, Inside
<1> QED
  BY <1>1, <1>2, <1>3, Zenon

\* An invocation begins with a new detector and ends with its report.
LEMMA InvocationSteps ==
  ASSUME DetectorAssumption, DInv, NewDetector \/ Report
  PROVE  DInv'
<1>0. n \in Nat /\ Invocations \in Nat
  BY DEF DInv, DetectorTypes, DetectorAssumption, Invocations
<1>1. CASE NewDetector
  <2>1. /\ phase = "init" /\ n < Invocations /\ n' = n + 1
        /\ Logs' = {} /\ Detected' = FALSE /\ Attackvector' = None
        /\ events' = FALSE /\ returned' = {} /\ hits' = {}
        /\ phase' \in {"create", "panic"}
        /\ UNCHANGED <<loopVars, transfers, products, ran>>
    BY <1>1, Zenon DEF NewDetector
  <2>2. DetectorTypes'
    <3>1. n' \in 0..(4 * Len(functionNames))
      BY <1>0, <2>1 DEF Invocations
    <3>2. Logs' \in Outcomes /\ Detected' \in BOOLEAN
      BY <2>1, Zenon DEF Outcomes
    <3> QED
      BY <2>1, <3>1, <3>2, Zenon DEF DInv, DetectorTypes, loopVars
  <2>3. n' > 0 /\ n' - 1 = n
    BY <1>0, <2>1
  <2>4. RanUpTo(n - 1)'
    BY <2>1, <2>3, Zenon DEF DInv, RanUpTo, loopVars
  <2> QED
    BY <2>1, <2>2, <2>3, <2>4, Zenon DEF DInv, loopVars, Inside
<1>2. CASE Report
  <2>1. /\ phase = "report" /\ phase' = "init"
        /\ ran' = ran \cup {<<contract, function, initAttacker, initVictims>>}
        /\ UNCHANGED <<loopVars, n, Logs, transfers, ofdVars, events, prodVars>>
    BY <1>2, Zenon DEF Report
  <2>2. <<contract, function, initAttacker, initVictims>> = Combination(contract, n)
    BY Zenon DEF Combination, function, initAttacker, initVictims, i
  <2>3. n > 0 /\ RanUpTo(n - 1) /\ contract \in Contracts \ remaining
    BY <2>1, Zenon DEF DInv, Inside
  <2>4. 1..n = (1..(n - 1)) \cup {n}
    BY <1>0, <2>3
  <2>5. RanUpTo(n)'
    BY <2>1, <2>2, <2>3, <2>4, Zenon DEF RanUpTo, loopVars
  <2>6. DetectorTypes'
    BY <2>1, Zenon DEF DInv, DetectorTypes, loopVars, ofdVars, prodVars
  <2> QED
    BY <2>1, <2>3, <2>5, <2>6, Zenon DEF DInv, loopVars, ofdVars, prodVars, Inside
<1> QED
  BY <1>1, <1>2, Zenon

\* Deployment, the distribution of tokens, and the inputs.
LEMMA PreparingSteps ==
  ASSUME DetectorAssumption, DInv,
         \/ CreateContract \/ InitAttackerToken \/ InitVictimsToken
         \/ ERC20Transfer \/ GenerateInputsByABI \/ ProductsDone
  PROVE  DInv'
<1>0. transfers \in 0..Victims /\ Victims \in Nat \ {0} /\ products \subseteq Products
  BY Zenon DEF DInv, DetectorTypes, DetectorAssumption
<1>1. CASE CreateContract
  BY <1>0, <1>1, Prepares, Zenon DEF CreateContract, prodVars, Inside
<1>2. CASE InitAttackerToken
  <2>1. transfers' \in 0..Victims
    BY <1>0, <1>2 DEF InitAttackerToken, GetTotalSupply
  <2> QED
    BY <1>0, <1>2, <2>1, Prepares, Zenon DEF InitAttackerToken, GetTotalSupply, prodVars, Inside
<1>3. CASE InitVictimsToken
  <2>1. transfers' \in 0..Victims
    BY <1>0, <1>3 DEF InitVictimsToken, GetTotalSupply
  <2> QED
    BY <1>0, <1>3, <2>1, Prepares, Zenon DEF InitVictimsToken, GetTotalSupply, prodVars, Inside
<1>4. CASE ERC20Transfer
  <2>1. transfers' \in 0..Victims
    BY <1>0, <1>4 DEF ERC20Transfer
  <2> QED
    BY <1>0, <1>4, <2>1, Prepares, Zenon DEF ERC20Transfer, prodVars, Inside
<1>5. CASE GenerateInputsByABI
  BY <1>0, <1>5, Prepares, Zenon DEF GenerateInputsByABI, prodVars, Inside
<1>6. CASE ProductsDone
  BY <1>0, <1>6, Prepares, Zenon DEF ProductsDone, prodVars, Inside
<1> QED
  BY <1>1, <1>2, <1>3, <1>4, <1>5, <1>6, Zenon

\* The call of one product.
LEMMA ProductSteps ==
  ASSUME DetectorAssumption, DInv, Product
  PROVE  DInv'
<1>1. phase = "product" /\ UNCHANGED <<loopVars, n, transfers, ran>>
  BY Zenon DEF Product
<1>2. PICK p \in products :
        /\ products' = products \ {p}
        /\ IF abi.packs
           THEN \E topics \in Outcomes, failed \in BOOLEAN :
                  /\ FunctionCall(topics)
                  /\ ScanLogs(p, failed)
                  /\ returned' = IF failed THEN returned ELSE returned \cup {p}
                  /\ hits' = IF failed \/ "overflow" \notin topics THEN hits ELSE hits \cup {p}
           ELSE UNCHANGED <<phase, Logs, ofdVars, events, returned, hits>>
  BY Zenon DEF Product
<1>3. CASE ~abi.packs
  <2>1. UNCHANGED <<phase, Logs, ofdVars, events, returned, hits>>
    BY <1>2, <1>3, Zenon
  <2> QED
    BY <1>1, <1>2, <2>1, Prepares, Zenon DEF DInv, DetectorTypes, Inside
<1>4. CASE abi.packs
  <2>1. PICK topics \in Outcomes, failed \in BOOLEAN :
          /\ FunctionCall(topics)
          /\ ScanLogs(p, failed)
          /\ returned' = IF failed THEN returned ELSE returned \cup {p}
          /\ hits' = IF failed \/ "overflow" \notin topics THEN hits ELSE hits \cup {p}
    BY <1>2, <1>4, Zenon
  <2>2. /\ Logs' \in Outcomes /\ events' \in BOOLEAN
        /\ events' <=> "overflow" \in Logs'
        /\ events => events'
        /\ "overflow" \in topics => "overflow" \in Logs'
    BY <2>1, CallEvents, Zenon DEF DInv
  <2>3. p \in Products /\ phase' \in {"product", "panic"}
    BY <1>1, <2>1, Zenon DEF DInv, DetectorTypes, ScanLogs
  <2>4. /\ Detected' \in BOOLEAN /\ Attackvector' \in Products \cup {None}
        /\ Detected' => events' /\ Attackvector' \in returned'
        /\ phase' # "panic" /\ hits' # {} => Detected'
    <3>1. CASE failed
      BY <1>1, <2>1, <2>2, <3>1, Zenon DEF DInv, DetectorTypes, ScanLogs, ofdVars
    <3>2. CASE ~failed /\ "overflow" \in Logs' /\ "bare" \notin Logs'
      BY <2>1, <2>2, <2>3, <3>2, Zenon DEF ScanLogs
    <3>3. CASE ~failed /\ ("overflow" \notin Logs' \/ "bare" \in Logs')
      BY <1>1, <2>1, <2>2, <3>3, Zenon DEF DInv, DetectorTypes, ScanLogs, ofdVars
    <3> QED
      BY <3>1, <3>2, <3>3, Zenon
  <2>5. DetectorTypes'
    BY <1>1, <1>2, <2>1, <2>2, <2>3, <2>4, Zenon DEF DInv, DetectorTypes, loopVars
  <2> QED
    BY <1>1, <2>2, <2>3, <2>4, <2>5, SameInvocation, Zenon DEF DInv, Inside
<1> QED
  BY <1>3, <1>4, Zenon

\* In every behaviour of the detector, whatever the contracts are and do, no
\* overflow of a call that returned is lost, a detection rests on events of its own
\* invocation, the reported input is one that returned, and all combinations are
\* tried.
THEOREM DetectorIsExact ==
  ASSUME DetectorAssumption
  PROVE  DetectorSpec => []DetectorExact
<1>1. DetectorInit => DInv
  BY DetectorStarts, Zenon
<1>2. DInv /\ [DetectorNext]_detectorVars => DInv'
  <2> SUFFICES ASSUME DInv, [DetectorNext]_detectorVars PROVE DInv'
    BY Zenon
  <2>1. CASE DetectorNext
    BY <2>1, LoopSteps, InvocationSteps, PreparingSteps, ProductSteps, Zenon DEF DetectorNext
  <2>2. CASE UNCHANGED detectorVars
    <3>1. /\ UNCHANGED <<phase, remaining, contract, abi, n, Logs, transfers, Detected, Attackvector>>
          /\ UNCHANGED <<ran, events, products, returned, hits>>
      BY <2>2, Zenon DEF detectorVars, loopVars, ofdVars, prodVars
    <3>2. DetectorTypes'
      BY <3>1, Zenon DEF DInv, DetectorTypes
    <3>3. (RanUpTo(n) => RanUpTo(n)') /\ (RanUpTo(n - 1) => RanUpTo(n - 1)')
      BY <3>1, Zenon DEF RanUpTo
    <3> QED
      BY <3>1, <3>2, <3>3, Zenon DEF DInv
  <2> QED
    BY <2>1, <2>2, Zenon
<1>3. DInv => DetectorExact
  BY Zenon DEF DInv, DetectorExact, HitsDetected, DetectionJustified, ReportedReturned, AllCombinations,
         Combinations
<1> QED
  BY <1>1, <1>2, <1>3, PTL DEF DetectorSpec
=============================================================================
