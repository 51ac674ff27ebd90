------------------------------ MODULE Replayer ------------------------------
(***************************************************************************)
(* creplayer (creplayer.go, serialize.go) and main4 of creplayermain.go:   *)
(* the transactions of a range of blocks are loaded from a cache file or   *)
(* fetched block by block and cached, every sender is given money, and the *)
(* transactions are replayed against one deployed contract.  The process   *)
(* can be killed anywhere and started again; only the file survives.       *)
(***************************************************************************)
EXTENDS Integers, Sequences, SequencesExt

CONSTANTS
  Chain,      \* transactions of each block: a sequence of [from, value]
  Begin, End, \* the range of blocks
  Grant,      \* money of AddAllMoney (1000 ether)
  MaxStarts   \* bound: starts of the process

Senders == {tx.from : tx \in UNION {ToSet(Chain[b]) : b \in Begin..End}}

VARIABLES
  pc,       \* control state
  starts,   \* starts of the process
  file,     \* the cache file: missing, partly or wholly written, and the list cached
  txs,      \* cr.txs
  i,        \* block to fetch
  missed,   \* history: blocks whose fetch failed, for the list in txs
  balance,  \* of the senders in cr.state
  done,     \* transactions replayed
  refused   \* history: senders of transactions refused for lack of funds

vars == <<pc, starts, file, txs, i, missed, balance, done, refused>>

\* main4 up to DeployContract: everything in memory is new.
Started ==
  /\ pc' = "load" /\ txs' = <<>> /\ i' = Begin /\ missed' = {}
  /\ balance' = [s \in Senders |-> 0] /\ done' = <<>> /\ refused' = {}

Init ==
  /\ pc = "load" /\ txs = <<>> /\ i = Begin /\ missed = {}
  /\ balance = [s \in Senders |-> 0] /\ done = <<>> /\ refused = {}
  /\ starts = 1 /\ file = [is |-> "missing", txs |-> <<>>, missed |-> {}]

Restart == starts < MaxStarts /\ starts' = starts + 1 /\ Started /\ UNCHANGED file

\* A faulty variant of Load: what can be read of an incomplete file is taken.
LoadPart ==
  /\ pc = "load"
  /\ IF file.is = "missing" THEN pc' = "fetch" /\ UNCHANGED <<txs, missed>>
     ELSE /\ pc' = "money"
          /\ txs' = file.txs /\ missed' = file.missed
  /\ UNCHANGED <<starts, file, i, balance, done, refused>>

\* Load: a file without the whole message is an error, like no file.
Load ==
  /\ pc = "load"
  /\ IF file.is # "whole" THEN pc' = "fetch" /\ UNCHANGED <<txs, missed>>
     ELSE pc' = "money" /\ txs' = file.txs /\ missed' = file.missed
  /\ UNCHANGED <<starts, file, i, balance, done, refused>>

\* One turn of the loop of FetchAllTxs.  The error of a call is logged, and the
\* block then has no transactions.
Fetch ==
  /\ pc = "fetch" /\ i <= End /\ i' = i + 1
  /\ \/ txs' = txs \o Chain[i] /\ UNCHANGED missed
     \/ missed' = missed \cup {i} /\ UNCHANGED txs
  /\ UNCHANGED <<pc, starts, file, balance, done, refused>>

\* Save: os.Create truncates, Encode writes.  Neither error is looked at.
SaveCreate ==
  /\ pc = "fetch" /\ i > End
  /\ \/ pc' = "encode" /\ file' = [is |-> "part", txs |-> <<>>, missed |-> {}]
     \/ pc' = "money" /\ UNCHANGED file
  /\ UNCHANGED <<starts, txs, i, missed, balance, done, refused>>

SaveEncode ==
  /\ pc = "encode" /\ pc' = "money"
  /\ \/ file' = [is |-> "whole", txs |-> txs, missed |-> missed]
     \/ UNCHANGED file
  /\ UNCHANGED <<starts, txs, i, missed, balance, done, refused>>

\* AddAllMoney: the map has every sender once.
AddAllMoney ==
  /\ pc = "money" /\ pc' = "replay"
  /\ balance' = [s \in Senders |->
                   balance[s] + IF \E t \in ToSet(txs) : t.from = s THEN Grant ELSE 0]
  /\ UNCHANGED <<starts, file, txs, i, missed, done, refused>>

\* TransactionExecuter: the call of the transaction and the two calls that read
\* the prices.  CanTransfer reads the balance, which adds 100 to it, in all three
\* (see StateDB); a refused or failed call is ignored, and a failed one keeps the
\* value, which the contract may also have paid back.
Execute ==
  /\ pc = "replay" /\ Len(done) < Len(txs)
  /\ LET tx == txs[Len(done) + 1]
         paid == balance[tx.from] + 100 >= tx.value
     IN /\ \E back \in {0, tx.value} :
             balance' = [balance EXCEPT ![tx.from] = @ + 300 - IF paid THEN tx.value - back ELSE 0]
        /\ refused' = IF paid THEN refused ELSE refused \cup {tx.from}
        /\ done' = Append(done, tx)
  /\ UNCHANGED <<pc, starts, file, txs, i, missed>>

End4 ==
  /\ pc = "replay" /\ Len(done) = Len(txs)
  /\ pc' = "end"
  /\ UNCHANGED <<starts, file, txs, i, missed, balance, done, refused>>

Next ==
  \/ Restart \/ Load \/ Fetch \/ SaveCreate \/ SaveEncode \/ AddAllMoney \/ Execute \/ End4

-----------------------------------------------------------------------------
\* A block's transactions, or none if its fetch failed.
Kept(b, without) == IF b \in without THEN <<>> ELSE Chain[b]

\* Whatever was killed when, a replay that ends has executed the transactions of
\* all blocks in order, each once, but for the blocks whose fetch failed in the
\* process that made the list: a cache made with a missing block keeps missing it.
ReplayExact ==
  pc = "end" => done = FlattenSeq([n \in 1..(End - Begin + 1) |-> Kept(Begin + n - 1, missed)])

\* What a sender has spent so far, at most.
Spent(s) == FoldLeft(LAMBDA n, tx : IF tx.from = s THEN n + tx.value ELSE n, 0, done)

\* A transaction is refused for lack of funds only when its sender's transactions
\* so far are worth more than the money everyone was given.
RefusedNeedsOverspend == \A s \in refused : Spent(s) > Grant
=============================================================================
