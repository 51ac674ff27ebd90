-------------------------------- MODULE Bindings --------------------------------
(* accounts/abi/bind: goroutines that deploy, call and transact with contracts *)
(* (base.go, util.go, auth.go) on a simulated chain (backends/simulated.go).   *)
(*                                                                            *)
(* A goroutine makes one request at a time, in steps: each method of the       *)
(* backend it calls holds the backend's lock, nothing holds it in between.     *)
(* A transaction is [from, nonce, to, ok]: to is a contract or Create, ok is   *)
(* whether its execution succeeds (external: the EVM).  A contract is the      *)
(* account and the nonce that created it.                                     *)
EXTENDS Integers, Sequences, SequencesExt, FiniteSets

CONSTANTS
    Clients,     \* goroutines
    Accounts,
    MaxSent,     \* bound on transactions sent
    MaxResets,   \* bound on Rollback
    MaxCalls     \* bound on requests

VARIABLES
    mined,       \* the transactions of the chain, in order
    pending,     \* those of the pending block
    request,     \* what each goroutine is doing
    panicked,    \* goroutines that panicked, each with the reason
    returned,    \* history: the result of each goroutine's last request
    raced,       \* history: goroutines whose account was used by others, or rolled
                 \* back, since they read its nonce
    seen,        \* history: whether the contract was there at the steps of a Call
    resets, requests

vars == <<mined, pending, request, panicked, returned, raced, seen, resets, requests>>

Create == <<"create">>
Idle == [op |-> "idle"]

NonceIn(txs, a) == Cardinality({i \in 1 .. Len(txs) : txs[i].from = a})

Deploys(tx, c) == tx.to = Create /\ tx.ok /\ <<tx.from, tx.nonce>> = c
HasCode(txs, c) == \E i \in 1 .. Len(txs) : Deploys(txs[i], c)

pendingState == mined \o pending

Contracts == Accounts \X (0 .. 1)

Init ==
    /\ mined = <<>> /\ pending = <<>>
    /\ request = [c \in Clients |-> Idle]
    /\ panicked = {} /\ raced = {}
    /\ returned = [c \in Clients |-> <<>>]
    /\ seen = [c \in Clients |-> {}]
    /\ resets = 0 /\ requests = 0

Panicked(c) == \E why \in {"signature", "nonce", "given nonce", "refused"} : <<c, why>> \in panicked

Goes(c, r) == request' = [request EXCEPT ![c] = r]
Returns(c, r) == Goes(c, Idle) /\ returned' = [returned EXCEPT ![c] = r]

(* transact: with the account's pending nonce or one the caller gives, with    *)
(* gas estimated or given.  All contracts have the same code, so that a        *)
(* deployment is known by its account and nonce.                               *)

PendingNonceAt(c) ==
    /\ request[c] = Idle /\ ~Panicked(c) /\ requests < MaxCalls
    /\ requests' = requests + 1
    /\ \E a \in Accounts, to \in {Create} \cup Contracts, limit \in BOOLEAN, given \in {{}, {0}, {1}} :
         Goes(c, [op |-> IF limit THEN "sign" ELSE "estimate", from |-> a, to |-> to, given |-> given # {},
                  nonce |-> IF given = {} THEN NonceIn(pendingState, a) ELSE CHOOSE n \in given : TRUE])
    /\ raced' = raced \ {c}
    /\ returned' = [returned EXCEPT ![c] = <<>>]
    /\ seen' = [seen EXCEPT ![c] = {}]
    /\ UNCHANGED <<mined, pending, panicked, resets>>

\* PendingCodeAt, then EstimateGas: no gas can be estimated without code.
Estimate(c) ==
    /\ request[c].op = "estimate"
    /\ \/ /\ request[c].to # Create => HasCode(pendingState, request[c].to)
          /\ Goes(c, [request[c] EXCEPT !.op = "gas"])
          /\ UNCHANGED returned
       \/ /\ request[c].to # Create /\ ~HasCode(pendingState, request[c].to)
          /\ Returns(c, <<"no code">>)
    /\ UNCHANGED <<mined, pending, panicked, raced, seen, resets, requests>>

EstimateGas(c) ==
    /\ request[c].op = "gas"
    /\ \/ Goes(c, [request[c] EXCEPT !.op = "sign"]) /\ UNCHANGED returned
       \/ Returns(c, <<"gas">>)
    /\ UNCHANGED <<mined, pending, panicked, raced, seen, resets, requests>>

\* Faulty variant of NonceWanted: of the chain.
NonceWantedMined(a) == NonceIn(mined, a)

NonceWanted(a) == NonceIn(pendingState, a)

CreateAddress(from, nonce) == <<from, nonce>>

\* opts.Signer: there is none, or it refuses, or it signs, rightly or not.
Sign(c) ==
    /\ request[c].op = "sign"
    /\ \/ Goes(c, [request[c] EXCEPT !.op = "send"]) /\ UNCHANGED returned
       \/ Goes(c, [request[c] EXCEPT !.op = "forged"]) /\ UNCHANGED returned
       \/ Returns(c, <<"signer">>)
    /\ UNCHANGED <<mined, pending, panicked, raced, seen, resets, requests>>

\* SendTransaction panics for a transaction without a sender, with another nonce,
\* or that cannot be added to the block (gas, balance: external).
SendPanics(c) ==
    LET r == request[c]
        why == IF r.op = "forged" THEN "signature"
               ELSE IF r.nonce = NonceWanted(r.from) THEN "refused"
               ELSE IF r.given THEN "given nonce" ELSE "nonce"
    IN  /\ r.op \in {"send", "forged"}
        /\ panicked' = panicked \cup {<<c, why>>}
        /\ Returns(c, <<>>)
        /\ UNCHANGED <<mined, pending, raced, seen, resets, requests>>

\* SendTransaction: the pending block is made again with the transaction.
\* DeployContract returns the contract's address.
SendTransaction(c) ==
    LET r == request[c]
    IN  /\ r.op = "send" /\ r.nonce = NonceWanted(r.from)
        /\ Len(mined) + Len(pending) < MaxSent
        /\ \E ok \in BOOLEAN :
             pending' = Append(pending, [from |-> r.from, nonce |-> r.nonce, to |-> r.to, ok |-> ok])
        /\ raced' = raced \cup {d \in Clients \ {c} : "from" \in DOMAIN request[d] /\ request[d].from = r.from}
        /\ IF r.to = Create
           THEN Goes(c, [op |-> "wait", from |-> r.from, nonce |-> r.nonce, address |-> CreateAddress(r.from, r.nonce)])
                /\ UNCHANGED returned
           ELSE Returns(c, <<"sent">>)
        /\ UNCHANGED <<mined, panicked, seen, resets, requests>>

(* WaitDeployed: until the transaction has a receipt, with the address it      *)
(* created, or the caller gives up.                                            *)

WaitMined(c) ==
    LET r == request[c]
    IN  /\ r.op = "wait"
        /\ \/ \E i \in 1 .. Len(mined) :
                /\ mined[i].from = r.from /\ mined[i].nonce = r.nonce /\ mined[i].to = Create
                /\ Returns(c, <<IF HasCode(mined, <<r.from, r.nonce>>) THEN "deployed" ELSE "empty", r.address>>)
           \/ Returns(c, <<"cancelled">>)
        /\ UNCHANGED <<mined, pending, panicked, raced, seen, resets, requests>>

(* Call: on the pending state or the chain, and a second look when nothing     *)
(* comes back.  A contract may return nothing, too.                            *)

State(p) == IF p THEN pendingState ELSE mined

CallContract(c) ==
    /\ request[c] = Idle /\ ~Panicked(c) /\ requests < MaxCalls
    /\ requests' = requests + 1
    /\ \E to \in Contracts, p \in BOOLEAN :
         LET there == HasCode(State(p), to)
         IN  /\ seen' = [seen EXCEPT ![c] = {there}]
             /\ \/ there /\ Returns(c, <<"output", to>>)
                \/ /\ Goes(c, [op |-> "code", to |-> to, pending |-> p])
                   /\ returned' = [returned EXCEPT ![c] = <<>>]
    /\ UNCHANGED <<mined, pending, panicked, raced, resets>>

\* The state CodeAt or PendingCodeAt looks at.
Looked(r) == State(r.pending)

CodeAt(c) ==
    /\ request[c].op = "code"
    /\ LET there == HasCode(Looked(request[c]), request[c].to)
       IN  /\ seen' = [seen EXCEPT ![c] = @ \cup {HasCode(State(request[c].pending), request[c].to)}]
           /\ Returns(c, IF there THEN <<"empty output">> ELSE <<"no code">>)
    /\ UNCHANGED <<mined, pending, panicked, raced, resets, requests>>

(* The chain *)

Commit ==
    /\ pending # <<>>
    /\ mined' = mined \o pending /\ pending' = <<>>
    /\ UNCHANGED <<request, panicked, returned, raced, seen, resets, requests>>

Rollback ==
    /\ pending # <<>> /\ resets < MaxResets
    /\ resets' = resets + 1
    /\ pending' = <<>>
    /\ raced' = Clients
    /\ UNCHANGED <<mined, request, panicked, returned, seen, requests>>

Next ==
    \/ \E c \in Clients :
         \/ PendingNonceAt(c) \/ Estimate(c) \/ EstimateGas(c) \/ Sign(c) \/ SendPanics(c) \/ SendTransaction(c) \/ WaitMined(c)
         \/ CallContract(c) \/ CodeAt(c)
    \/ Commit \/ Rollback

(* EstimateGas: a binary search for the gas that is enough; runs is the set of *)
(* gas allowances with which the call succeeds.                                *)

\* Gas that is known not to be enough.
Lowest(TxGas) == TxGas - 1

Middle(lo, hi) == (hi + lo) \div 2

RECURSIVE Search(_, _, _)
Search(lo, hi, runs) ==
  IF lo + 1 < hi
  THEN IF Middle(lo, hi) \notin runs THEN Search(Middle(lo, hi), hi, runs) ELSE Search(lo, Middle(lo, hi), runs)
  ELSE hi

Failed == -1

GasNeeded(TxGas, gas, limit, runs) ==
  LET cap == IF gas >= TxGas THEN gas ELSE limit
      hi == Search(Lowest(TxGas), cap, runs)
  IN  IF hi = cap /\ hi \notin runs THEN Failed ELSE hi

--------------------------------------------------------------------------------

\* A goroutine that asked for its nonce panics for it in SendTransaction only when
\* others sent transactions of its account, or the pending block was rolled back,
\* since: the backend does not keep it.
PanicNeedsRace == \A c \in Clients : <<c, "nonce">> \in panicked => c \in raced

\* The transactions of an account are in the order of their nonces, none twice
\* and none left out, across blocks and rollbacks.
NoncesInOrder ==
    \A i \in 1 .. Len(pendingState) :
        pendingState[i].nonce = NonceIn(SubSeq(pendingState, 1, i - 1), pendingState[i].from)

\* The address DeployContract computed when it sent the transaction is where
\* WaitDeployed finds the contract, and it says so only for a contract with code.
DeployedThere ==
    \A c \in Clients :
        returned[c] # <<>> /\ returned[c][1] \in {"deployed", "empty"} =>
            (returned[c][1] = "deployed") = HasCode(mined, returned[c][2])

\* Call says that there is no contract only if there was none at the second
\* look; a contract called and there throughout is never said to be missing.
NoCodeTrue ==
    \A c \in Clients :
        returned[c] # <<>> /\ returned[c][1] = "no code" /\ seen[c] # {} => FALSE \in seen[c]

\* The gas estimated is enough and one less is not, if more gas never hurts;
\* if it does, it is enough; and there is an estimate whenever the most gas
\* allowed is enough.
EstimateExact(TxGas, gas, limit, runs) ==
  LET cap == IF gas >= TxGas THEN gas ELSE limit
      hi == GasNeeded(TxGas, gas, limit, runs)
  IN  /\ hi # Failed => hi \in runs /\ (hi > TxGas => hi - 1 \notin runs)
      /\ cap \in runs => hi # Failed
================================================================================
