----------------------------- MODULE Transactions ------------------------------
(* core/types/transaction_signing.go and the signature and caches of          *)
(* transaction.go.                                                            *)
(*                                                                            *)
(* A signature is what the curve makes of it (external): the key that signed, *)
(* the hash signed, the recovery bit, and whether S is in the upper half;      *)
(* recovering it over another hash or with another bit gives another address. *)
(* V carries the bit and, since EIP155, the chain.  A word is Word wide (2^64  *)
(* in the code), a byte 256.                                                  *)
(*                                                                            *)
(* Below: the order by price and nonce, and the blocks of block.go.           *)
EXTENDS Integers, Sequences, FiniteSets

CONSTANTS
    Word,      \* 2^64
    Signers,   \* [k |-> "frontier" | "homestead" | "eip155", chain |-> its chain, or 0]
    Procs,     \* goroutines that share a transaction
    Payloads,
    Key,       \* who signs
    MaxTxOps   \* bound on operations started

Other == "another address"
NoAddress == "no address"
NoSig == [key |-> NoAddress, hash |-> <<>>, bit |-> 0, high |-> FALSE]

EIP155(chain) == [k |-> "eip155", chain |-> chain]
Homestead == [k |-> "homestead", chain |-> 0]
Frontier == [k |-> "frontier", chain |-> 0]

\* Faulty variant of Equal: signers of one kind are the same.
EqualKind(s, t) == s.k = t.k

Equal(s, t) == s.k = t.k /\ s.chain = t.chain

\* What a signer signs: everything but the signature, and the chain.
SigHash(s, tx) == IF s.k = "eip155" THEN <<tx.data, s.chain>> ELSE <<tx.data>>

isProtectedV(v) == v \notin {27, 28}

\* Within a word the difference wraps.
deriveChainId(v) ==
  IF v < Word
  THEN IF v \in {27, 28} THEN 0 ELSE ((v - 35) % Word) \div 2
  ELSE (v - 35) \div 2

ValidateSignatureValues(bit, sig, homestead) ==
  sig # NoSig /\ bit \in {0, 1} /\ (homestead => ~sig.high)

\* External: the address whose key made the signature.
Ecrecover(hash, sig, bit) == IF hash = sig.hash /\ bit = sig.bit THEN sig.key ELSE Other

recoverPlain(hash, sig, vb, homestead) ==
  LET abs == IF vb < 0 THEN -vb ELSE vb
      bit == (abs - 27) % 256
  IN  IF abs > 255 \/ ~ValidateSignatureValues(bit, sig, homestead) THEN NoAddress
      ELSE Ecrecover(hash, sig, bit)

\* The sender as a signer derives it, NoAddress when it fails.
SenderOf(s, tx) ==
  IF s.k = "eip155" /\ isProtectedV(tx.v)
  THEN IF deriveChainId(tx.v) # s.chain THEN NoAddress
       ELSE recoverPlain(SigHash(s, tx), tx.sig, tx.v - 2 * s.chain - 8, TRUE)
  ELSE LET plain == IF s.k = "eip155" THEN Homestead ELSE s
       IN  recoverPlain(SigHash(plain, tx), tx.sig, tx.v, s.k # "frontier")

\* V for a signature; a signer for chain 0 makes an unprotected one.
SignatureValues(s, bit) ==
  IF s.k = "eip155" /\ s.chain # 0
  THEN ((bit + 35) % 256) + 2 * s.chain
  ELSE (bit + 27) % 256

\* The curve gives a signature in the lower half, and either bit.
SignTx(tx, s, key, bit) ==
  [tx EXCEPT !.v = SignatureValues(s, bit),
             !.sig = [key |-> key, hash |-> SigHash(s, tx), bit |-> bit, high |-> FALSE]]

deriveSigner(v) == IF v # 0 /\ isProtectedV(v) THEN EIP155(deriveChainId(v)) ELSE Homestead

\* Whether UnmarshalJSON takes a transaction with this signature.
UnmarshalJSON(v, sig) ==
  LET bit == IF isProtectedV(v)
             THEN ((v % Word) - 35 - 2 * (deriveChainId(v) % Word)) % 256
             ELSE (v - 27) % 256
  IN  ValidateSignatureValues(bit, sig, FALSE)

isForked(s, head) == s <= head

\* config: the blocks of the forks and the chain.
MakeSigner(config, number) ==
  IF isForked(config.EIP155Block, number) THEN EIP155(config.ChainId)
  ELSE IF isForked(config.HomesteadBlock, number) THEN Homestead
  ELSE Frontier

NewTransaction(data) == [data |-> data, v |-> 0, sig |-> NoSig]

(* The caches of a transaction shared by goroutines *)

VARIABLES
    tx,        \* the transaction's data
    hash,      \* its cached hash, <<>> when there is none
    from,      \* its cached sender: <<>>, or the signer and the address
    pc,        \* what each goroutine is in the middle of storing
    ret,       \* history: the last result of each: the operation, its value, the right one
    reused,    \* history: the transaction was decoded into
    txOps

txVars == <<tx, hash, from, pc, ret, reused, txOps>>

Idle == <<"idle">>

TxInit ==
    /\ \E d \in Payloads, s \in Signers, bit \in {0, 1} : tx = SignTx(NewTransaction(d), s, Key, bit)
    /\ hash = <<>> /\ from = <<>>
    /\ pc = [p \in Procs |-> Idle]
    /\ ret = [p \in Procs |-> <<>>]
    /\ reused = FALSE /\ txOps = 0

Starts(p) == pc[p] = Idle /\ txOps < MaxTxOps /\ txOps' = txOps + 1

\* Sender: the cached address if the signer is the one it was derived with.
SenderLoad(p, s) ==
    LET cached == from # <<>> /\ Equal(from[1], s)
        addr == SenderOf(s, tx)
    IN  /\ Starts(p)
        /\ ret' = IF cached THEN [ret EXCEPT ![p] = <<"sender", from[2], addr>>]
                  ELSE IF addr = NoAddress THEN [ret EXCEPT ![p] = <<"sender", addr, addr>>]
                  ELSE ret
        /\ pc' = IF cached \/ addr = NoAddress THEN pc ELSE [pc EXCEPT ![p] = <<"sender", s, addr>>]
        /\ UNCHANGED <<tx, hash, from, reused>>

SenderStore(p) ==
    /\ pc[p][1] = "sender"
    /\ from' = <<pc[p][2], pc[p][3]>>
    /\ ret' = [ret EXCEPT ![p] = <<"sender", pc[p][3], SenderOf(pc[p][2], tx)>>]
    /\ pc' = [pc EXCEPT ![p] = Idle]
    /\ UNCHANGED <<tx, hash, reused, txOps>>

\* Hash: the encoding stands for its hash.
HashLoad(p) ==
    /\ Starts(p)
    /\ ret' = IF hash # <<>> THEN [ret EXCEPT ![p] = <<"hash", hash[1], tx>>] ELSE ret
    /\ pc' = IF hash # <<>> THEN pc ELSE [pc EXCEPT ![p] = <<"hash", tx>>]
    /\ UNCHANGED <<tx, hash, from, reused>>

HashStore(p) ==
    /\ pc[p][1] = "hash"
    /\ hash' = <<pc[p][2]>>
    /\ ret' = [ret EXCEPT ![p] = <<"hash", pc[p][2], tx>>]
    /\ pc' = [pc EXCEPT ![p] = Idle]
    /\ UNCHANGED <<tx, from, reused, txOps>>

\* The copy has the data only.
Copied == hash' = <<>> /\ from' = <<>>

\* WithSignature: a copy of the transaction, signed again; the goroutines go
\* on with the copy.
WithSignature(p, s, bit) ==
    /\ Starts(p)
    /\ \A q \in Procs : pc[q] = Idle
    /\ tx' = SignTx(tx, s, Key, bit)
    /\ Copied
    /\ ret' = [q \in Procs |-> <<>>]
    /\ UNCHANGED <<pc, reused>>

\* UnmarshalJSON replaces the transaction, caches and all.
UnmarshalNew(p, d) ==
    /\ Starts(p)
    /\ \A q \in Procs : pc[q] = Idle
    /\ UnmarshalJSON(tx.v, tx.sig)
    /\ tx' = [tx EXCEPT !.data = d]
    /\ hash' = <<>> /\ from' = <<>>
    /\ ret' = [q \in Procs |-> <<>>]
    /\ UNCHANGED <<pc, reused>>

\* DecodeRLP decodes into the data; the caches of hash and sender stay.
DecodeRLP(p, d) ==
    /\ Starts(p)
    /\ \A q \in Procs : pc[q] = Idle
    /\ tx' = [tx EXCEPT !.data = d]
    /\ ret' = [q \in Procs |-> <<>>]
    /\ reused' = (reused \/ hash # <<>> \/ from # <<>>)
    /\ UNCHANGED <<hash, from, pc>>

TxNext ==
    \E p \in Procs :
        \/ \E s \in Signers : SenderLoad(p, s)
        \/ SenderStore(p)
        \/ HashLoad(p) \/ HashStore(p)
        \/ \E s \in Signers, bit \in {0, 1} : WithSignature(p, s, bit)
        \/ \E d \in Payloads : UnmarshalNew(p, d) \/ DecodeRLP(p, d)

--------------------------------------------------------------------------------

\* A transaction signed with a signer has the sender that signed it, with either
\* recovery bit, on every chain but 0: there EIP155 signs the chain, but leaves
\* no trace of it in V, and another address comes out.
SignRecovers(s, bit) ==
  LET t == SignTx(NewTransaction("data"), s, "key", bit)
  IN  SenderOf(s, t) = IF s = EIP155(0) THEN Other ELSE "key"

\* A transaction signed for one chain has no sender on another, nor under the
\* rules from before EIP155, whatever the sizes of the chains' numbers.
NoReplay(s, bit, t) ==
  s.k = "eip155" /\ s.chain # 0 /\ ~Equal(s, t)
    => SenderOf(t, SignTx(NewTransaction("data"), s, "key", bit)) = NoAddress

\* What a block's signer signs, the signers of all later blocks take.
LaterAccepts(config, n, m, bit) ==
  LET t == SignTx(NewTransaction("data"), MakeSigner(config, n), "key", bit)
  IN  n <= m /\ config.ChainId # 0 /\ config.HomesteadBlock <= config.EIP155Block
        => SenderOf(MakeSigner(config, m), t) = "key"

\* A transaction JSON gives us has a signature from which the best guess of a
\* signer derives a sender.  V from 0 to 26 and from 29 to 34 are taken, too,
\* and have none: V - 35 wraps.
JsonDerivable(v, high) ==
  LET sig == [key |-> "key", hash |-> <<>>, bit |-> 0, high |-> high]
      t == [NewTransaction("data") EXCEPT !.v = v, !.sig = sig]
      small == v < 27 \/ v \in 29..34
  IN  /\ UnmarshalJSON(v, sig)
      /\ (SenderOf(deriveSigner(v), t) # NoAddress) = (~small /\ ~high)

\* However goroutines interleave, with the same signer or others, Sender and
\* Hash return what the transaction says, unless it was decoded into after
\* they were first asked.
CachesExact == ~reused => \A p \in Procs : ret[p] # <<>> => ret[p][2] = ret[p][3]

--------------------------------------------------------------------------------
(* core/types/transaction.go: TransactionsByPriceAndNonce hands out the        *)
(* transactions of several accounts, the best paid first, each account's in    *)
(* the order of its nonces.                                                   *)
(*                                                                            *)
(* The price heap is external (container/heap): heads is the set it holds and  *)
(* top the one at its root, some head with the highest price.  A transaction   *)
(* has an account it was filed under, a nonce and a price; sender gives the    *)
(* address the signer derives for an account's transactions, NoSender when it      *)
(* fails, which the code does not look at.                                    *)

CONSTANTS
    Accounts,
    NoSender,       \* the zero address, of no account
    Prices,
    MaxTxs      \* bound on the transactions of an account

VARIABLES
    given,      \* the transactions given, by account
    sender,
    txs,        \* those to come, by address
    heads,
    top,        \* the root of the heap: <<>> or one transaction
    toVisit,    \* the accounts the constructor's loop has still to visit
    phase,      \* "new", "ready" or "panic"
    out         \* history: what was taken from the top, in order

priceVars == <<given, sender, txs, heads, top, toVisit, phase, out>>

Queue(a, ps) == [i \in 1 .. Len(ps) |-> [acc |-> a, nonce |-> i, price |-> ps[i]]]

PriceInit ==
    /\ \E ps \in [Accounts -> UNION {[1 .. n -> Prices] : n \in 0 .. MaxTxs}] :
         \E listed \in SUBSET Accounts :
           /\ \A b \in Accounts \ listed : ps[b] = <<>>
           /\ given = [a \in listed |-> Queue(a, ps[a])]
    /\ \E failing \in SUBSET DOMAIN given :
         sender = [a \in Accounts |-> IF a \in failing THEN NoSender ELSE a]
    /\ txs = given
    /\ heads = {} /\ top = <<>>
    /\ toVisit = DOMAIN given
    /\ phase = "new"
    /\ out = <<>>

\* Some head with the highest price.
Roots(hs) ==
    IF hs = {} THEN {<<>>}
    ELSE {<<t>> : t \in {t \in hs : \A u \in hs : u.price <= t.price}}

Put(m, a, q) == [b \in DOMAIN m \cup {a} |-> IF b = a THEN q ELSE m[b]]

\* What the loop may visit as well once an entry was set: a new one, perhaps.
Entered(acc) == IF acc \in DOMAIN txs THEN {{}} ELSE {{}, {acc}}

\* One turn of the constructor's loop over the map, in any order.  An address
\* entered while the loop runs may be visited as well; without a transaction
\* left there, that is a panic.
Visit ==
    /\ phase = "new"
    /\ \E a \in toVisit :
         IF txs[a] = <<>>
         THEN phase' = "panic" /\ UNCHANGED <<txs, heads, toVisit>>
         ELSE LET acc == sender[txs[a][1].acc]
              IN  /\ heads' = heads \cup {txs[a][1]}
                  /\ txs' = Put(txs, acc, Tail(txs[a]))
                  /\ \E more \in Entered(acc) : toVisit' = (toVisit \ {a}) \cup more
                  /\ UNCHANGED phase
    /\ UNCHANGED <<given, sender, top, out>>

\* heap.Init, and the set is ready.
Ready ==
    /\ phase = "new" /\ toVisit = {}
    /\ phase' = "ready"
    /\ top' \in Roots(heads)
    /\ UNCHANGED <<given, sender, txs, heads, toVisit, out>>

\* heap.Fix: the root after the top was replaced by t.
Successor(hs, t) == Roots(hs)

\* The top was executed: the next of its account takes its place.
Shift ==
    /\ phase = "ready" /\ top # <<>>
    /\ LET t == top[1]
           acc == sender[t.acc]
           rest == heads \ {t}
       IN  IF acc \in DOMAIN txs /\ txs[acc] # <<>>
           THEN /\ heads' = rest \cup {txs[acc][1]}
                /\ top' \in Successor(heads', txs[acc][1])
                /\ txs' = [txs EXCEPT ![acc] = Tail(@)]
           ELSE /\ heads' = rest
                /\ top' \in Roots(rest)
                /\ UNCHANGED txs
    /\ out' = Append(out, [tx |-> top[1], shift |-> TRUE])
    /\ UNCHANGED <<given, sender, toVisit, phase>>

\* The top cannot be executed: nothing of its account comes any more.
Pop ==
    /\ phase = "ready" /\ top # <<>>
    /\ heads' = heads \ {top[1]}
    /\ top' \in Roots(heads')
    /\ out' = Append(out, [tx |-> top[1], shift |-> FALSE])
    /\ UNCHANGED <<given, sender, txs, toVisit, phase>>

PriceNext == Visit \/ Ready \/ Shift \/ Pop

--------------------------------------------------------------------------------

Derivable == \A a \in DOMAIN given : sender[a] = a

\* The transactions that may still come, in the order of their accounts.
Coming(a) ==
    LET taken == {i \in 1 .. Len(out) : out[i].tx.acc = a}
    IN  IF \E i \in taken : ~out[i].shift THEN <<>>
        ELSE SubSeq(given[a], Cardinality(taken) + 1, Len(given[a]))

\* When every sender can be derived, the top is the best paid of the next
\* transactions of the accounts: none is handed out before the one its nonce
\* follows, none is lost or handed out twice, none after a Pop of its account.
BestNext ==
    Derivable /\ phase = "ready" =>
        LET next == {Coming(a)[1] : a \in {b \in DOMAIN given : Coming(b) # <<>>}}
        IN  IF next = {} THEN top = <<>>
            ELSE top # <<>> /\ top[1] \in next /\ \A t \in next : t.price <= top[1].price

\* The constructor panics only when an account is listed without a transaction,
\* or one of its transactions has another sender than the account.
PanicNeedsUnderivable == phase = "panic" => ~Derivable \/ \E a \in DOMAIN given : given[a] = <<>>
--------------------------------------------------------------------------------
(* core/types/block.go: blocks and the headers they are made from.             *)
(*                                                                            *)
(* A header has plain fields and pointers: its integers (difficulty, number,   *)
(* time: one cell stands for the three) and its extra data.  Callers keep the  *)
(* headers they made or were given and may change them, field by field or in   *)
(* place.  Blocks copy what they take, or do not.                             *)

CONSTANTS
    MaxHeaders,   \* bound on headers
    MaxBlocks,
    MaxChanges    \* bound on what callers change

VARIABLES
    headers,      \* a sequence of [plain, bloom, big, extra]: two values, two cells
    cells,        \* a sequence of values
    held,         \* the headers callers hold
    blocks,       \* a sequence of [header, uncles, hash]; hash is the cached content
    made,         \* history: what each block contained when it was made
    shared,       \* history: blocks with parts callers can reach
    changes

blockVars == <<headers, cells, held, blocks, made, shared, changes>>

Empty == 0

BlocksInit ==
    /\ \E bloom \in {Empty, 1} : headers = <<[plain |-> 0, bloom |-> bloom, big |-> 1, extra |-> 2]>>
    /\ cells = <<0, 0>>
    /\ held = {1}
    /\ blocks = <<>> /\ made = <<>> /\ shared = {}
    /\ changes = 0

HeaderContent(hs, cs, h) ==
    [plain |-> hs[h].plain, bloom |-> hs[h].bloom, big |-> cs[hs[h].big], extra |-> cs[hs[h].extra]]

Content(hs, cs, b) ==
    [header |-> HeaderContent(hs, cs, b.header),
     uncles |-> [i \in 1 .. Len(b.uncles) |-> HeaderContent(hs, cs, b.uncles[i])]]

\* Faulty variant of CopyHeader: the extra data is shared.
CopyHeaderExtra(m, h) ==
    [headers |-> Append(m.headers, [m.headers[h] EXCEPT !.big = Len(m.cells) + 1]),
     cells |-> Append(m.cells, m.cells[m.headers[h].big])]

\* A new header with cells of its own; m is the memory: headers and cells.
CopyHeader(m, h) ==
    LET n == Len(m.cells)
    IN  [headers |-> Append(m.headers, [m.headers[h] EXCEPT !.big = n + 1, !.extra = n + 2]),
         cells |-> m.cells \o <<m.cells[m.headers[h].big], m.cells[m.headers[h].extra]>>]

Memory == [headers |-> headers, cells |-> cells]

Holds(m) == headers' = m.headers /\ cells' = m.cells /\ Len(m.headers) <= MaxHeaders

\* A block with these parts, in memory m.
Block(m, b, shares) ==
    /\ Len(blocks) < MaxBlocks
    /\ Holds(m)
    /\ blocks' = Append(blocks, b)
    /\ made' = Append(made, Content(m.headers, m.cells, b))
    /\ shared' = IF shares THEN shared \cup {Len(blocks) + 1} ELSE shared
    /\ UNCHANGED <<held, changes>>

\* NewBlock: copies of the header and of the uncles.  The bloom filter is that
\* of the receipts, if there are any; receipts stands for their filter.
NewBlock ==
    \E h \in held, us \in {<<>>} \cup {<<u>> : u \in held}, receipts \in {Empty, 2} :
        LET c == CopyHeader(Memory, h)
            n == Len(c.headers)
            d == IF receipts = Empty THEN c ELSE [c EXCEPT !.headers[n].bloom = receipts]
            e == IF us = <<>> THEN d ELSE CopyHeader(d, us[1])
        IN  Block(e, [header |-> n, uncles |-> IF us = <<>> THEN <<>> ELSE <<n + 1>>, hash |-> <<>>],
                  FALSE)

NewBlockWithHeader ==
    \E h \in held :
        LET c == CopyHeader(Memory, h)
        IN  Block(c, [header |-> Len(c.headers), uncles |-> <<>>, hash |-> <<>>], FALSE)

\* WithSeal: the header's fields are copied, what they point to is not, and the
\* uncles are those of the block.
WithSeal ==
    \E i \in 1 .. Len(blocks), h \in held :
        LET m == [Memory EXCEPT !.headers = Append(@, headers[h])]
        IN  Block(m, [header |-> Len(m.headers), uncles |-> blocks[i].uncles, hash |-> <<>>],
                  TRUE)

\* WithBody: the block's header copied, and copies of the uncles.
WithBody ==
    \E i \in 1 .. Len(blocks), u \in held :
        LET c == CopyHeader(Memory, blocks[i].header)
            d == CopyHeader(c, u)
        IN  Block(d, [header |-> Len(c.headers), uncles |-> <<Len(d.headers)>>, hash |-> <<>>],
                  FALSE)

\* Hash: computed once.
Hash(i) ==
    /\ blocks[i].hash = <<>>
    /\ blocks' = [blocks EXCEPT ![i].hash = <<HeaderContent(headers, cells, blocks[i].header)>>]
    /\ UNCHANGED <<headers, cells, held, made, shared, changes>>

\* Header: a copy for the caller.
Header(i) ==
    /\ Holds(CopyHeader(Memory, blocks[i].header))
    /\ held' = held \cup {Len(headers')}
    /\ UNCHANGED <<blocks, made, shared, changes>>

\* Uncles and Body hand out the block's own.
Uncles(i) ==
    /\ blocks[i].uncles # <<>>
    /\ held' = held \cup {blocks[i].uncles[1]}
    /\ shared' = shared \cup {j \in 1 .. Len(blocks) : blocks[j].uncles = blocks[i].uncles}
    /\ UNCHANGED <<headers, cells, blocks, made, changes>>

\* A caller changes a header it holds: a field, an integer or the extra data in
\* place.
Change(h) ==
    /\ changes < MaxChanges
    /\ changes' = changes + 1
    /\ \/ headers' = [headers EXCEPT ![h].plain = 1] /\ UNCHANGED cells
       \/ cells' = [cells EXCEPT ![headers[h].big] = 1] /\ UNCHANGED headers
       \/ cells' = [cells EXCEPT ![headers[h].extra] = 1] /\ UNCHANGED headers
    /\ UNCHANGED <<held, blocks, made, shared>>

BlocksNext ==
    \/ NewBlock \/ NewBlockWithHeader \/ WithSeal \/ WithBody
    \/ \E i \in 1 .. Len(blocks) : Hash(i) \/ Header(i) \/ Uncles(i)
    \/ \E h \in held : Change(h)

--------------------------------------------------------------------------------

\* "The input data is copied, changes to header and to the field values will not
\* affect the block": whatever callers do to the headers they made it from or
\* were given by it, a block keeps its content and its hash.  Except that a
\* sealed block shares its header's integers and extra data with the caller, and
\* that a block's uncles are handed out themselves.
BlocksFixed ==
    \A i \in 1 .. Len(blocks) :
        \/ i \in shared
        \/ /\ Content(headers, cells, blocks[i]) = made[i]
           /\ blocks[i].hash # <<>> => blocks[i].hash[1] = made[i].header
================================================================================
