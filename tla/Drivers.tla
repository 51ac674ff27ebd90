------------------------------ MODULE Drivers ------------------------------
(***************************************************************************)
(* main.go: the two drivers that push contract files through a buffered    *)
(* channel to worker goroutines under a WaitGroup.  main2 (the batch run   *)
(* of the overflow detector) closes the channel and then waits for the     *)
(* workers; dispatcher (the fuzzer, behind main) waits first and closes    *)
(* after.  driver says which of them runs.                                 *)
(***************************************************************************)
EXTENDS Naturals, Sequences, FiniteSets

CONSTANTS Files,       \* the contract files ReadDir can list
          Workers,     \* worker goroutines of main2 (6)
          Cap          \* capacity of the channel (16)

ASSUME DriversAssumption ==
  /\ Cap \in Nat \ {0}
  /\ IsFiniteSet(Workers)
  /\ Workers # {}
  /\ {"idle", "gone"} \cap Files = {}

VARIABLES
  driver,     \* the function that runs
  main,       \* where the main goroutine is, or how the program ended
  todo,       \* files it still has to send, in the order of their names: any order
  chan,       \* buffered tasks
  closed,     \* whether the channel is closed
  worker,     \* what each worker does: "idle", "gone" or the file it works on
  wg,         \* WaitGroup counter
  listening,  \* the profiling server got its port and waits for connections
  listed,     \* history: files listed by ReadDir
  count       \* history: how often each file was processed

vars == <<driver, main, todo, chan, closed, worker, wg, listening, listed, count>>

Ended == main \in {"exit", "panic", "deadlock"}

\* make(chan), then wg.Add(1) and go func() for every worker: dispatcher has one
\* only.  main, but not main2, has started the profiling server before.
Init ==
  /\ driver \in {"main2", "dispatcher"}
  /\ main = "stat"
  /\ todo = {} /\ chan = <<>> /\ closed = FALSE
  /\ LET started == IF driver = "main2" THEN Workers ELSE {CHOOSE w \in Workers : TRUE}
     IN /\ worker = [w \in Workers |-> IF w \in started THEN "idle" ELSE "gone"]
        /\ wg = Cardinality(started)
  /\ listening \in IF driver = "main2" THEN {FALSE} ELSE BOOLEAN
  /\ listed = {}
  /\ count = [f \in Files |-> 0]

\* os.Stat fails and the driver returns, or log.Fatal after ReadDir, or the
\* files to send are known.  A regular file is a listing of one, anything
\* else an empty one; main2 leaves some names out.
Stat ==
  /\ main = "stat"
  /\ \/ /\ main' \in {"exit", "panic"}
        /\ UNCHANGED <<todo, listed>>
     \/ /\ main' = "send"
        /\ listed' \in SUBSET Files
        /\ todo' = listed'
  /\ UNCHANGED <<driver, chan, closed, worker, wg, listening, count>>

\* tasks <- ...: blocks while the buffer is full.
Send ==
  /\ main = "send" /\ Len(chan) < Cap
  /\ \E f \in todo : chan' = Append(chan, f) /\ todo' = todo \ {f}
  /\ UNCHANGED <<driver, main, closed, worker, wg, listening, listed, count>>

\* The loop over the files is over.
Sent ==
  /\ main = "send" /\ todo = {}
  /\ main' = IF driver = "main2" THEN "close" ELSE "wait"
  /\ UNCHANGED <<driver, todo, chan, closed, worker, wg, listening, listed, count>>

\* A faulty variant of Close: the channel stays open.
CloseNothing ==
  /\ main = "close"
  /\ main' = IF driver = "main2" THEN "wait" ELSE "exit"
  /\ UNCHANGED <<driver, todo, chan, closed, worker, wg, listening, listed, count>>

Close ==
  /\ main = "close"
  /\ closed' = TRUE
  /\ main' = IF driver = "main2" THEN "wait" ELSE "exit"
  /\ UNCHANGED <<driver, todo, chan, worker, wg, listening, listed, count>>

\* A faulty variant of Wait: the counter is ignored.
WaitForNobody ==
  /\ main = "wait"
  /\ main' = IF driver = "main2" THEN "exit" ELSE "close"
  /\ UNCHANGED <<driver, todo, chan, closed, worker, wg, listening, listed, count>>

\* wg.Wait() returns.
Wait ==
  /\ main = "wait" /\ wg = 0
  /\ main' = IF driver = "main2" THEN "exit" ELSE "close"
  /\ UNCHANGED <<driver, todo, chan, closed, worker, wg, listening, listed, count>>

\* A faulty variant of Receive: the task stays in the channel.
ReceiveAndKeep(w) ==
  /\ ~Ended /\ worker[w] = "idle" /\ chan # <<>>
  /\ worker' = [worker EXCEPT ![w] = Head(chan)]
  /\ UNCHANGED <<driver, main, todo, chan, closed, wg, listening, listed, count>>

\* The next iteration of a worker's "for task := range tasks": take a task,
\* or leave the loop once the channel is closed and drained.
Receive(w) ==
  /\ ~Ended /\ worker[w] = "idle" /\ chan # <<>>
  /\ worker' = [worker EXCEPT ![w] = Head(chan)]
  /\ chan' = Tail(chan)
  /\ UNCHANGED <<driver, main, todo, closed, wg, listening, listed, count>>

\* A faulty variant of Leave: a worker leaves although tasks are buffered.
LeaveEarly(w) ==
  /\ ~Ended /\ worker[w] = "idle" /\ closed
  /\ worker' = [worker EXCEPT ![w] = "gone"]
  /\ wg' = wg - 1
  /\ UNCHANGED <<driver, main, todo, chan, closed, listening, listed, count>>

Leave(w) ==
  /\ ~Ended /\ worker[w] = "idle" /\ chan = <<>> /\ closed
  /\ worker' = [worker EXCEPT ![w] = "gone"]
  /\ wg' = wg - 1
  /\ UNCHANGED <<driver, main, todo, chan, closed, listening, listed, count>>

\* The loop body: FuzzContracts, or the solc run and the detectors.
Work(w) ==
  /\ ~Ended /\ worker[w] \in Files
  /\ count' = [count EXCEPT ![worker[w]] = @ + 1]
  /\ worker' = [worker EXCEPT ![w] = "idle"]
  /\ UNCHANGED <<driver, main, todo, chan, closed, wg, listening, listed>>

\* A panic in the loop body (log.Panic after os.Create, Topics[0] of a log
\* without topics) ends the whole program.
Panic(w) ==
  /\ ~Ended /\ worker[w] \in Files
  /\ main' = "panic"
  /\ UNCHANGED <<driver, todo, chan, closed, worker, wg, listening, listed, count>>

\* Every goroutine of the program is blocked on the channel or the WaitGroup.
Stuck ==
  /\ \/ main = "send" /\ todo # {} /\ Len(chan) = Cap
     \/ main = "wait" /\ wg > 0
  /\ \A w \in Workers : \/ worker[w] = "gone"
                        \/ worker[w] = "idle" /\ chan = <<>> /\ ~closed

\* The Go runtime ends a program whose goroutines are all asleep; a server
\* waiting for connections keeps it from doing so.
RuntimeDeadlock ==
  /\ Stuck /\ ~listening
  /\ main' = "deadlock"
  /\ UNCHANGED <<driver, todo, chan, closed, worker, wg, listening, listed, count>>

MainNext == Stat \/ Send \/ Sent \/ Close \/ Wait \/ RuntimeDeadlock

WorkerNext(w) == Receive(w) \/ Leave(w) \/ Work(w)

Next == MainNext \/ \E w \in Workers : WorkerNext(w) \/ Panic(w)

\* Every goroutine is scheduled, and the body of the loop comes to an end.
Spec == /\ Init /\ [][Next]_vars
        /\ WF_vars(MainNext)
        /\ \A w \in Workers : WF_vars(WorkerNext(w))

-----------------------------------------------------------------------------
\* Types of the channel, the workers and the WaitGroup.
TypeOK ==
  /\ driver \in {"main2", "dispatcher"}
  /\ main \in {"stat", "send", "close", "wait", "exit", "panic", "deadlock"}
  /\ todo \subseteq Files
  /\ chan \in Seq(Files)
  /\ closed \in BOOLEAN /\ listening \in BOOLEAN
  /\ worker \in [Workers -> Files \cup {"idle", "gone"}]
  /\ wg \in Nat
  /\ listed \subseteq Files
  /\ count \in [Files -> Nat]

\* How often file f is still to be sent, buffered, worked on or processed.
Places(f) ==
  (IF f \in todo THEN 1 ELSE 0)
  + Cardinality({k \in DOMAIN chan : chan[k] = f})
  + Cardinality({w \in Workers : worker[w] = f})
  + count[f]

\* A listed file is in exactly one of these places: between main, the channel
\* and the workers no task is lost, and none is run twice.
TaskConserved == TypeOK /\ \A f \in Files : Places(f) = IF f \in listed THEN 1 ELSE 0

\* A scan as TaskSet describes it.
Scan == INSTANCE TaskSet WITH
  Tasks <- Files,
  done <- {f \in Files : count[f] > 0},
  ended <- IF ~Ended THEN "no" ELSE IF main = "exit" THEN "exit" ELSE "crashed"

\* The goroutines implement the scan: in particular a driver does not return
\* from wg.Wait while a file is still buffered or being worked on.
ImplementsScan == Scan!Spec

\* Every listed file is processed, unless a panic ends the program first: the
\* hand-over through the bounded channel never stalls half-way.
AllProcessed == main = "send" ~> main = "panic" \/ \A f \in listed : count[f] = 1

\* main2 comes to an end of its own, whoever takes the last task and however the
\* workers leave, because it closes the channel before it waits.
Main2Returns == driver = "main2" ~> main \in {"exit", "panic"}

\* The driver comes to an end of its own and is not ended by the Go runtime:
\* main.go:144 says "wait for the workers to finish" of the wg.Wait.
Returns == <>(main \in {"exit", "panic"})
=============================================================================
