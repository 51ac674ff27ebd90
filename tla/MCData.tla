------------------------------- MODULE MCData -------------------------------
(***************************************************************************)
(* Encodings, transaction types, contract interfaces and cryptography for  *)
(* TLC.  Each behaviour is about the one part named in the variable part;  *)
(* the state of the others is fixed.  The parts that are pure functions    *)
(* have their argument in arg; the first step chooses it.                  *)
(***************************************************************************)
EXTENDS Integers, Sequences, SequencesExt, FiniteSets, TLC

CONSTANTS
  MaxReads, MaxInput,                                       \* Rlp, RlpStream
  Procs, MaxTxOps,                                          \* Transactions
  Accounts, NoSender, Prices, MaxTxs,                       \* their order
  MaxHeaders, MaxBlocks, MaxChanges,                        \* blocks
  Clients, MaxSent, MaxResets, MaxCalls                     \* Bindings

VARIABLES
  part, arg,
  stream, input, reads,                                     \* RlpStream
  tx, hash, from, pc, ret, reused, txOps,                   \* Transactions
  given, sender, txs, heads, top, toVisit, phase, out,      \* their order
  headers, cells, held, blocks, made, shared, changes,      \* blocks
  mined, pending, request, panicked, returned, raced, seen, resets, requests,  \* Bindings
  power, sum,                                               \* the loop of Exp
  kind, pt, log, spoiled,                                   \* Pairing: group elements
  step, pairInput, pairs, acc, miller, pairRet              \* Pairing

(* RLP scaled to twelve byte values: 0 and 1 are single bytes, 2 to 4 tag  *)
(* strings of size 0 to 2, 5 and 6 longer strings, 7 to 11 lists likewise. *)
Single == 2
Short == 3
SizeLens == 2

\* The choice of an argument from S for the pure part one.
Choose(all, one, S) == part = all /\ part' = one /\ arg' \in S

-----------------------------------------------------------------------------
(* The parts about RLP.                                                    *)
Bytes12 == 0..11

R == INSTANCE Rlp

Uint(n) == [k |-> "uint", n |-> n]
Big == [k |-> "big"]
Flag == [k |-> "bool"]
RawT == [k |-> "raw"]
ByteArray(n) == [k |-> "bytearray", n |-> n]
Array(n, t) == [k |-> "array", n |-> n, of |-> t]
Tail1(t) == [k |-> "slice", of |-> t, tail |-> TRUE]
Struct(ts) == [k |-> "struct", fields |-> ts]
Ptr(t) == [k |-> "ptr", of |-> t, nilOK |-> FALSE]
OptPtr(t) == [k |-> "ptr", of |-> t, nilOK |-> TRUE]
Custom(t) == [k |-> "encoder", as |-> t]

Strings == {<<>>, <<0>>, <<1>>, <<2>>, <<11, 0>>, [i \in 1..12 |-> 5]}
Boxed(t, v) == <<[t |-> t, v |-> v]>>

\* Values of every kind of type, with lists whose headers take one, two and
\* three bytes.
Encodables ==
  ({Uint(2)} \X {0, 1, 3, 4, 11, 12, 143}) \cup ({Big} \X {-1, 0, 3, 4, 12, 143}) \cup
  ({Flag} \X BOOLEAN) \cup
  ({R!BytesType} \X Strings) \cup ({RawT} \X {<<1>>, <<2>>, <<8, 1>>}) \cup
  ({ByteArray(2)} \X {<<0, 0>>, <<7, 3>>}) \cup
  ({R!SliceOf(R!SliceOf(R!BytesType))} \X
     {<<>>, <<(<<>>)>>, <<(<<>>), <<(<<>>), <<4>>>>>>, [i \in 1..4 |-> <<[j \in 1..i |-> 7], <<1>>>>]}) \cup
  ({Array(2, Uint(1))} \X ({0, 2, 9} \X {0, 4})) \cup
  {<<Struct(<<Uint(1), R!BytesType, Tail1(Uint(1))>>), <<u, b, t>>>> :
     u \in {0, 5}, b \in Strings, t \in {<<>>, <<0>>, <<2, 7>>}} \cup
  {<<Struct(<<OptPtr(Struct(<<Uint(1)>>)), Ptr(Uint(1))>>), <<p, q>>>> :
     p \in {<<>>, <<(<<6>>)>>}, q \in {<<>>, <<0>>, <<8>>}} \cup
  {<<Struct(<<OptPtr(ByteArray(2)), R!IfaceType>>), <<p, x>>>> :
     p \in {<<>>, <<(<<6, 1>>)>>},
     x \in {<<>>, Boxed(Uint(1), 5), Boxed(R!SliceOf(Uint(1)), <<1, 2, 0>>)}} \cup
  ({Custom(Struct(<<R!SliceOf(Custom(Uint(1)))>>))} \X {<<(<<>>)>>, <<(<<0, 1, 11>>)>>})

\* Types in which every value has one encoding.
Plain ==
  { Uint(1), Uint(2), Big, Flag, R!BytesType, ByteArray(2), R!IfaceType, R!SliceOf(Uint(1)),
    R!SliceOf(R!SliceOf(R!BytesType)), Array(2, Uint(1)), Ptr(R!BytesType),
    Struct(<<Uint(1), R!BytesType>>), Struct(<<Uint(1), Tail1(R!BytesType)>>) }

\* All short inputs, and longer ones whose first value has a size of its own.
Encoded ==
  BoundedSeq(Bytes12, MaxInput) \cup
  {<<tag, n>> \o x : tag \in {5, 6, 10, 11}, n \in {0, 2, 3, 4}, x \in [1..3 -> {0, 1, 2, 3, 7, 8, 9}]}

S == INSTANCE RlpStream WITH s <- stream,
       Inputs <- {h \o x : h \in {<<4>>, <<9>>, <<10, 0>>, <<10, 3>>, <<10, 8>>}, x \in [1..3 -> {0, 3, 5, 8, 9}]}

NoStream == S!NewStream(<<>>, TRUE)

codecVars == <<stream, input, reads>>

CodecIdle == stream = NoStream /\ input = <<>> /\ reads = 0

CodecInit ==
  \/ part \in {"values", "inputs"} /\ arg = <<>> /\ CodecIdle
  \/ part = "stream" /\ arg = <<>> /\ S!Init

CodecNext ==
  \/ Choose("values", "value", Encodables \X (1..4)) /\ UNCHANGED codecVars
  \/ Choose("inputs", "bytes", Encoded) /\ UNCHANGED codecVars
  \/ part = "stream" /\ S!Next /\ UNCHANGED <<part, arg>>

-----------------------------------------------------------------------------
(* The parts about transactions, receipts and blocks.                      *)
(* Hashes of three bytes, addresses and bloom filters of two.                  *)
HashLen == 3
AddressLen == 2
BloomLen == 2

(* A bloom filter of twelve bits in three bytes; the hash of bytes is some     *)
(* three bits that overlap with those of others.                               *)
Topics2 == BoundedSeq(0..2, 2)
BitsOf == [b \in Topics2 |->
             LET n == FoldLeft(LAMBDA m, x : 3 * m + x + 1, 0, b)
             IN  {n % 12, (5 * n + 2) % 12, (7 * n + 6) % 12}]

C == INSTANCE CoreTypes WITH Bits <- 12, PerByte <- 4

Addresses2 == {<<0, 0>>, <<9, 1>>}

ReceiptLogs ==
  { [Address |-> a, Topics |-> ts, Data |-> d, BlockNumber |-> n, TxHash |-> h, TxIndex |-> 1,
     BlockHash |-> h, Index |-> 12, Removed |-> gone] :
    a \in {<<9, 1>>}, ts \in {<<>>, <<(<<7, 11, 1>>), <<0, 0, 0>>>>}, d \in {<<>>, <<1>>, <<0, 4>>},
    n \in {0, 13}, h \in {<<7, 11, 1>>}, gone \in {FALSE} }

Receipts ==
  { [C!NewReceipt(root, failed, gas) EXCEPT
       !.Logs = logs, !.Bloom = bloom, !.TxHash = h, !.ContractAddress = a, !.GasUsed = 2] :
    root \in {<<>>, <<2>>, <<0, 0, 0>>, <<1, 2, 3>>, <<1, 2, 3, 4>>}, failed \in BOOLEAN, gas \in {0, 143},
    logs \in {<<>>} \cup {<<l>> : l \in ReceiptLogs} \cup {<<l, l>> : l \in ReceiptLogs},
    bloom \in {<<1, 0>>}, h \in {<<7, 11, 1>>}, a \in Addresses2 }

Txs ==
  { <<nonce, price, 13, to, 0, data, v, r, r>> :
    nonce \in {0, 5}, price \in {1, 13}, to \in {<<>>, <<(<<9, 1>>)>>}, data \in {<<>>, <<3>>, <<1, 2, 3, 4>>},
    v \in {0, 27, 28}, r \in {0, 100} }

Header0 ==
  <<(<<7, 11, 1>>), <<0, 0, 0>>, <<9, 1>>, <<1, 2, 3>>, <<1, 2, 3>>, <<1, 2, 3>>, <<0, 1>>, 14,
    2, 5, 3, 77, <<1, 1>>, <<0, 0, 1>>, <<4, 4, 4>>>>

Sized ==
  ({C!Transaction} \X Txs) \cup
  ({C!extblock} \X
    ({<<Header0>>} \X {<<>>, <<(<<(<<1, 1, 1, <<>>, 0, <<>>, 27, 1, 1>>)>>)>>} \X {<<>>, <<(<<Header0>>)>>})) \cup
  ({C!storageblock} \X ({<<Header0>>} \X {<<>>} \X {<<>>, <<(<<Header0>>)>>} \X {0, 30}))

(* A word is 1024 wide; chains of one and two bytes, and around those whose V  *)
(* passes a byte or a word.                                                    *)
Chains == {0, 1, 4, 109, 110, 111, 494, 495, 600}

X == INSTANCE Transactions WITH
       Word <- 1024, Payloads <- {"p", "q"}, Key <- "key",
       Signers <- {[k |-> "frontier", chain |-> 0], [k |-> "eip155", chain |-> 1], [k |-> "eip155", chain |-> 2]}

AllSigners == {X!Frontier, X!Homestead} \cup {X!EIP155(c) : c \in Chains}

Configs == [ChainId : {0, 1, 300}, HomesteadBlock : 0..2, EIP155Block : 0..3]

txVars == <<tx, hash, from, pc, ret, reused, txOps>>
priceVars == <<given, sender, txs, heads, top, toVisit, phase, out>>
blockVars == <<headers, cells, held, blocks, made, shared, changes>>
typesVars == <<txVars, priceVars, blockVars>>

NoTx == /\ tx = X!NewTransaction("p") /\ hash = <<>> /\ from = <<>> /\ pc = [p \in Procs |-> X!Idle]
        /\ ret = [p \in Procs |-> <<>>] /\ reused = FALSE /\ txOps = 0
NoPrices == /\ given = <<>> /\ sender = <<>> /\ txs = <<>> /\ heads = {} /\ top = <<>>
            /\ toVisit = {} /\ phase = "none" /\ out = <<>>
NoBlocks == /\ headers = <<>> /\ cells = <<>> /\ held = {} /\ blocks = <<>> /\ made = <<>>
            /\ shared = {} /\ changes = 0

TypesChoose ==
  \/ Choose("receipts", "receipt", Receipts)
  \/ Choose("sizes", "size", Sized \X {<<>>, <<0>>, <<8, 1>>})
  \/ Choose("blooms", "bloom", {<<(<<l>>)>> : l \in BoundedSeq(Topics2, 2)} \cup
                               {<<(<<l>>), <<m, l>>>> : l, m \in BoundedSeq(Topics2, 1)})
  \/ Choose("additions", "added", BoundedSeq(Topics2, 3))
  \/ Choose("pairs of signers", "signers", AllSigners \X AllSigners \X {0, 1})
  \/ Choose("configs", "config", Configs \X (0..4) \X (0..4) \X {0, 1})
  \/ Choose("jsons", "json", (0..1300) \X BOOLEAN)

TypesIdle == NoTx /\ NoPrices /\ NoBlocks

TypesInit ==
  \/ /\ part \in {"receipts", "sizes", "blooms", "additions", "pairs of signers", "configs", "jsons"}
     /\ arg = <<>> /\ TypesIdle
  \/ part = "tx" /\ arg = <<>> /\ X!TxInit /\ NoPrices /\ NoBlocks
  \/ part = "price" /\ arg = <<>> /\ X!PriceInit /\ NoTx /\ NoBlocks
  \/ part = "block" /\ arg = <<>> /\ X!BlocksInit /\ NoTx /\ NoPrices

TypesNext ==
  \/ TypesChoose /\ UNCHANGED <<txVars, priceVars, blockVars>>
  \/ /\ UNCHANGED <<part, arg>>
     /\ \/ part = "tx" /\ X!TxNext /\ UNCHANGED <<priceVars, blockVars>>
        \/ part = "price" /\ X!PriceNext /\ UNCHANGED <<txVars, blockVars>>
        \/ part = "block" /\ X!BlocksNext /\ UNCHANGED <<txVars, priceVars>>

-----------------------------------------------------------------------------
(* The parts about contract interfaces: call data, names, topics, gas      *)
(* estimates, and bindings on a simulated chain.                           *)
(* Four bytes of four values make a word. *)
A == INSTANCE Abi WITH W <- 4, Radix <- 4, AddrLen <- 2, FuncLen <- 3, Native <- {1, 2},
       Draws <- {0, 3}, MaxLen <- 2, Near <- 2

Text(base, size, dims) == [base |-> base, size |-> size, dims |-> dims]
Type(base, size, dims) == A!NewType(Text(base, size, dims))

Scalars ==
  { Type("uint", 1, <<>>), Type("int", 2, <<>>), Type("int", 4, <<>>), Type("bool", -1, <<>>),
    Type("address", -1, <<>>), Type("string", -1, <<>>), Type("bytes", -1, <<>>), Type("bytes", 3, <<>>),
    Type("function", -1, <<>>) }
Arrays ==
  { Type("uint", 1, <<2>>), Type("uint", 1, <<-1>>), Type("int", 4, <<-1>>), Type("uint", 1, <<2, 2>>),
    Type("uint", 1, <<2, -1>>), Type("bytes", -1, <<-1>>), Type("string", -1, <<1>>), Type("bytes", 3, <<2>>),
    Type("uint", 1, <<0>>), Type("address", -1, <<-1>>) }

RECURSIVE Values(_)
Values(t) ==
  CASE t.T = "uint" -> {0, 3}
    [] t.T = "int" -> {-1, 0, 5}
    [] t.T = "bool" -> BOOLEAN
    [] t.T = "address" -> {<<0, 1>>, <<3, 0>>}
    [] t.T \in {"string", "bytes"} -> {<<>>, <<2>>, <<1, 0, 3, 0, 2>>}
    [] t.T = "fixedbytes" -> {<<1, 0, 0>>, <<0, 2, 3>>}
    [] t.T = "function" -> {<<0, 1, 3>>}
    [] t.T = "slice" -> BoundedSeq(Values(t.elem), 2)
    [] t.T = "array" -> [1 .. t.size -> Values(t.elem)]

Packed ==
  UNION {{<<(<<t>>), <<v>>>> : v \in Values(t)} : t \in Scalars \cup Arrays} \cup
  UNION {{<<(<<t, u>>), <<v, w>>>> : v \in Values(t), w \in Values(u)} : t, u \in Scalars \cup Arrays} \cup
  UNION {{<<(<<t, u, x>>), <<v, w, y>>>> : v \in Values(t), w \in Values(u), y \in Values(x)} :
           t \in {Type("string", -1, <<>>), Type("uint", 1, <<2>>)}, u \in {Type("int", 2, <<>>), Type("uint", 1, <<-1>>)},
           x \in {Type("bytes", -1, <<>>), Type("uint", 1, <<2>>)}}

\* Data: words and a rest.
AbiWord == {<<0, 0, 0, 0>>, <<0, 0, 0, 1>>, <<0, 0, 0, 3>>, <<0, 0, 1, 0>>, <<0, 0, 2, 0>>, <<3, 3, 3, 3>>, <<0, 2, 0, 1>>}
Data == {FlattenSeq(ws) \o rest : ws \in BoundedSeq(AbiWord, 3), rest \in {<<>>, <<0, 2>>}}

TypeLists ==
  {<<t>> : t \in Scalars \cup Arrays} \cup
  {<<t, u>> : t \in {Type("string", -1, <<>>), Type("uint", 1, <<2, 2>>)}, u \in Scalars \cup Arrays}

Fuzzed == {<<t>> : t \in Scalars \cup Arrays} \cup {<<t, u>> : t, u \in Scalars \cup {Type("uint", 1, <<-1>>)}}

Names == {<<"f">>, <<"g">>, <<"f", 1>>, <<"f", 2>>}

Capital == [n \in {"v", "_v", "V", "w", "_"} |-> CASE n = "_" -> "" [] n = "w" -> "W" [] OTHER -> "V"]
Args == UNION {[1 .. n -> [name : DOMAIN Capital, indexed : BOOLEAN]] : n \in 0 .. 2}
Fields ==
  {<<f>> \o g : f \in [name : {"V"}, exported : {TRUE}, tag : {<<>>, <<"w">>, <<"v">>, <<"">>}],
                g \in {<<>>} \cup {<<h>> : h \in [name : {"W", "X"}, exported : {TRUE}, tag : {<<>>, <<"v">>, <<"_v">>}]} \cup
                      {<<[name |-> "x", exported |-> FALSE, tag |-> <<"v">>]>>}}

Topics ==
  UNION {{<<t, v>> : v \in Values(t)} :
           t \in {Type("uint", 1, <<>>), Type("int", 2, <<>>), Type("int", 4, <<>>), Type("bool", -1, <<>>),
                  Type("address", -1, <<>>), Type("bytes", 3, <<>>)}} \cup
  {<<Type("bytes", 4, <<>>), <<1, 0, 0, 2>>>>}

D == INSTANCE Bindings

bindVars == <<mined, pending, request, panicked, returned, raced, seen, resets, requests>>

AbiIdle ==
  /\ mined = <<>> /\ pending = <<>> /\ request = [c \in Clients |-> D!Idle] /\ panicked = {}
  /\ raced = {} /\ returned = [c \in Clients |-> <<>>] /\ seen = [c \in Clients |-> {}]
  /\ resets = 0 /\ requests = 0

AbiChoose ==
  \/ Choose("packs", "pack", Packed)
  \/ Choose("unpacks", "unpack", TypeLists \X Data)
  \/ Choose("fuzzes", "fuzz", Fuzzed)
  \/ Choose("lists of names", "names", BoundedSeq(Names, 4))
  \/ Choose("structs", "fields", Args \X Fields)
  \/ Choose("events", "topics", Topics \X BOOLEAN)
  \/ Choose("estimates", "gas", (0 .. 9) \X (1 .. 9) \X SUBSET (2 .. 9))

AbiInit ==
  \/ /\ part \in {"packs", "unpacks", "fuzzes", "lists of names", "structs", "events", "estimates"}
     /\ arg = <<>> /\ AbiIdle
  \/ part = "bind" /\ arg = <<>> /\ D!Init

AbiNext ==
  \/ AbiChoose /\ UNCHANGED bindVars
  \/ part = "bind" /\ D!Next /\ UNCHANGED <<part, arg>>

-----------------------------------------------------------------------------
(* The parts about the precompiles and crypto/bn256:                       *)
(*   tower      the fields over P = 103: products, inverses, and the       *)
(*              Frobenius maps against powers, a bit a step                *)
(*   group      points of G1 and G2 over P = 7 (order 13), every operation *)
(*   contracts  bn256Add and bn256ScalarMul over P = 7                     *)
(*   pairing    bn256Pairing over the Barreto-Naehrig curve u = 1:         *)
(*              P = 103, order 97, xi = i + 2, y^2 = x^3 + 5               *)
(*   modexp, price of modexp, ecrecover   the other precompiles, scaled    *)
Order == 97
U == 1
sixuPlus2NAF == <<0, 0, 0, -1, 1>>

xiToPMinus1Over6 == <<93, 36>>
xiToPMinus1Over3 == <<1, 63>>
xiToPMinus1Over2 == <<24, 12>>
xiTo2PMinus2Over3 == <<23, 54>>
xiToPSquaredMinus1Over6 == 57
xiToPSquaredMinus1Over3 == 56
xiTo2PSquaredMinus2Over3 == 46

Generator1 == <<<<0, 1>>, <<0, 2>>>>
Generator2 == <<<<1, 4>>, <<3, 4>>>>
Operands == {0, 1, 5}

Grp == INSTANCE Pairing WITH k <- log, pc <- step, input <- pairInput, ret <- pairRet,
  P <- 7, XiY <- 9, CurveB <- 3, Order <- 13
Pair == INSTANCE Pairing WITH k <- log, pc <- step, input <- pairInput, ret <- pairRet,
  P <- 103, XiY <- 2, CurveB <- 5
Pre == INSTANCE Precompiles WITH Byte <- 5, WordLen <- 2, Max64 <- 16, V27 <- 2, secp256k1_N <- 12

-----------------------------------------------------------------------------
\* The arguments of the pure parts.
Pairs2 == {<<-2, 3>>, <<0, 0>>, <<5, -1>>, <<0, 1>>}
Elements6 == {<<x, <<3, 4>>, z>> : x \in {<<0, 0>>, <<1, -9>>}, z \in Pairs2}
Zero6 == <<<<0, 0>>, <<0, 0>>, <<0, 0>>>>
Towers ==
  {<<<<x, y>>, <<<<<<2, 1>>, <<0, 0>>, <<-7, 3>>>>, z>>>> :
     x \in {Zero6} \cup Elements6, y \in {Zero6} \cup Elements6, z \in {Zero6, <<<<2, 1>>, <<1, 0>>, <<-7, 8>>>>}}

Coordinates == {0, 1, 2, 3, 5, 6, 7, 8, 9}
CallData == UNION {[1..n -> Coordinates] : n \in 0..4}

Bytes2(n) == <<n \div 5, n % 5>>
\* Lengths of operands, around Max64 and up to the largest word.
Lengths == {0, 1, 2, 3, 4, 5, 7, 15, 16, 17, 18, 23, 24}
ModExps ==
  {Bytes2(a) \o Bytes2(b) \o Bytes2(c) \o d :
     a \in Lengths, b \in Lengths, c \in Lengths, d \in {<<3>>, <<1, 2, 3>>, <<2, 1, 3, 1, 4, 3>>}}
    \cup {SubSeq(Bytes2(a) \o Bytes2(b), 1, n) : a \in 0..24, b \in 0..24, n \in 0..4}
Signatures ==
  {SubSeq(<<1, 2>> \o Bytes2(v) \o Bytes2(r) \o Bytes2(s) \o <<3, 3>>, 1, n) :
     v \in 0..24, r \in {0, 1, 11, 12}, s \in {0, 1, 5, 11, 12, 20}, n \in 3..10}

-----------------------------------------------------------------------------
\* The inputs of the pairing: logarithms of the points, or a spoiled encoding.
Enc(l) ==
  Pair!Encoding1(Pair!Multiple(<<<<0, 2>>, <<0, 42>>>>, l[1])) \o Pair!Encoding2(Pair!Multiple(<<<<98, 42>>, <<47, 88>>>>, l[2]))

Logarithms ==
  {<<>>} \cup {<<<<a, b>>>> : a \in {0, 1, 3, 96}, b \in {0, 1, 2, 60}}
    \cup {<<<<a, b>>, <<c, d>>>> : a \in {0, 2, 96}, b \in {1, 5}, c \in {1, 2, 10}, d \in {0, 1, 2, 19, 87}}

\* A coordinate moved by P, a coordinate off the curve, a word missing.
Bent(m) == {[m EXCEPT ![n] = @ + 103] : n \in DOMAIN m} \cup {[m EXCEPT ![n] = (@ + 1) % 103] : n \in {2, 5}}
             \cup {SubSeq(m, 1, n) : n \in {5, 11}}

All(l) == IF l = <<>> THEN <<>> ELSE IF Len(l) = 1 THEN Enc(l[1]) ELSE Enc(l[1]) \o Enc(l[2])

SumOf(l) == IF l = <<>> THEN 0 ELSE IF Len(l) = 1 THEN l[1][1] * l[1][2] ELSE l[1][1] * l[1][2] + l[2][1] * l[2][2]

\* Each input with the sum of the products and whether all its points are valid.
PairingArgs ==
  {<<All(l), TRUE, SumOf(l) % Order>> : l \in Logarithms} \cup {<<m, FALSE, 0>> : m \in Bent(All(<<<<2, 1>>, <<1, 95>>>>))}

-----------------------------------------------------------------------------
IdleGroup == kind = "G1" /\ log = 0 /\ pt = 0 /\ spoiled = FALSE
IdlePairing == step = "idle" /\ pairInput = <<>> /\ pairs = <<>> /\ acc = 0 /\ miller = <<>> /\ pairRet = "none"
IdlePower == power = 0 /\ sum = 0
CryptoIdle == IdlePower /\ IdleGroup /\ IdlePairing

CryptoInit ==
  \/ /\ part = "group" /\ Grp!GroupInit
     /\ arg = <<>> /\ IdlePower /\ IdlePairing
  \/ /\ part \in {"towers", "calls", "modexps", "prices of modexp", "signatures"}
     /\ arg = <<>> /\ CryptoIdle
  \/ /\ part = "pairing" /\ arg \in PairingArgs /\ Pair!InitWith(arg[1])
     /\ IdlePower /\ IdleGroup

groupVars == <<kind, pt, log, spoiled>>
pairingVars == <<step, pairInput, pairs, acc, miller, pairRet>>
cryptoVars == <<power, sum, groupVars, pairingVars>>

\* One more bit of p or of p^2, which the first operand is raised to.
PowerStep ==
  /\ part = "tower"
  /\ \E bit \in 0..1 :
       /\ \E n \in {103, 103 * 103}, l \in 0..13 : n \div 2^l = 2 * power + bit
       /\ 2 * power + bit > 0
       /\ power' = 2 * power + bit
       /\ sum' = Pair!Turn12(sum, arg[1], bit)
  /\ UNCHANGED <<part, arg, groupVars, pairingVars>>

GroupStep == part = "group" /\ Grp!GroupNext /\ UNCHANGED <<part, arg, power, sum, pairingVars>>

PairingStep == part = "pairing" /\ Pair!Next /\ UNCHANGED <<part, arg, power, sum, groupVars>>

CryptoChoose ==
  /\ \/ Choose("towers", "tower", Towers) /\ sum' = Pair!One12
     \/ Choose("calls", "contracts", CallData) /\ UNCHANGED sum
     \/ Choose("modexps", "modexp", ModExps) /\ UNCHANGED sum
     \/ Choose("prices of modexp", "price of modexp", 0..1100) /\ UNCHANGED sum
     \/ Choose("signatures", "ecrecover", Signatures) /\ UNCHANGED sum
  /\ UNCHANGED <<power, groupVars, pairingVars>>

CryptoNext == CryptoChoose \/ PowerStep \/ GroupStep \/ PairingStep

-----------------------------------------------------------------------------
Init ==
  \/ CodecInit /\ TypesIdle /\ AbiIdle /\ CryptoIdle
  \/ TypesInit /\ CodecIdle /\ AbiIdle /\ CryptoIdle
  \/ AbiInit /\ CodecIdle /\ TypesIdle /\ CryptoIdle
  \/ CryptoInit /\ CodecIdle /\ TypesIdle /\ AbiIdle

Next ==
  \/ CodecNext /\ UNCHANGED <<typesVars, bindVars, cryptoVars>>
  \/ TypesNext /\ UNCHANGED <<codecVars, bindVars, cryptoVars>>
  \/ AbiNext /\ UNCHANGED <<codecVars, typesVars, cryptoVars>>
  \/ CryptoNext /\ UNCHANGED <<codecVars, typesVars, bindVars>>

Spec == Init /\ [][Next]_<<part, arg, codecVars, typesVars, bindVars, cryptoVars>>

Symmetry == Permutations(Clients) \cup Permutations(Accounts)

-----------------------------------------------------------------------------
(* RLP.  What is written is the value's encoding, also by the reader of    *)
(* EncodeToReader in pieces of any size; it decodes to a value with the    *)
(* same encoding; bytes that decode are the one encoding of what they      *)
(* decode to, and Split and CountValues see the values a stream sees; and  *)
(* whatever is called on a stream, lists stay within lists and no more is  *)
(* read of a list than its header said.                                    *)
RlpExact ==
  /\ part = "value" =>
       /\ R!EncodeExact(arg[1][1], arg[1][2])
       /\ R!ReaderExact(arg[1][1], arg[1][2], arg[2])
       /\ R!RoundTrip(arg[1][1], arg[1][2])
  /\ part = "bytes" => R!SplitAgrees(arg) /\ \A t \in Plain : R!OneEncoding(arg, t)
  /\ part = "stream" => S!StaysNested

(* Transactions.  A signed transaction has the sender that signed it, and  *)
(* one for a chain has no sender on another; what one block's signer       *)
(* signs, those of later blocks take; a transaction read from JSON has a   *)
(* sender, but for the known V; and Sender and Hash return what the        *)
(* transaction says although several goroutines fill their caches.         *)
SigningExact ==
  /\ part = "signers" => X!SignRecovers(arg[1], arg[3]) /\ X!NoReplay(arg[1], arg[3], arg[2])
  /\ part = "config" => X!LaterAccepts(arg[1], arg[2], arg[3], arg[4])
  /\ part = "json" => X!JsonDerivable(arg[1], arg[2])
  /\ part = "tx" => X!CachesExact

(* Receipts, blocks and orderings.  A receipt decodes to what was encoded, *)
(* and remembered sizes are those of the encodings; a filter finds all     *)
(* that was added; blocks keep content and hash unless they share parts    *)
(* with callers; and the next transaction is the best paid of those whose  *)
(* turn it is, where the constructor panics only for underivable senders.  *)
TypesExact ==
  /\ part = "receipt" => C!ReceiptExact(arg)
  /\ part = "size" => C!SizeExact(arg[1][1], arg[1][2], arg[2])
  /\ part = "bloom" => C!LogsFound(arg)
  /\ part = "added" => C!AddedFound(arg)
  /\ part = "block" => X!BlocksFixed
  /\ part = "price" => X!BestNext /\ X!PanicNeedsUnderivable

(* Contract interfaces.  Packed arguments are what the ABI's specification *)
(* says and unpack to their values; unpacking reads nothing outside the    *)
(* data; fuzzed call data can be unpacked; no overloaded method gets lost; *)
(* a struct's field is set from one argument, the one its tag names; and   *)
(* topics of filters are those of events, and give their values back.      *)
AbiExact ==
  /\ part = "pack" => A!PackExact(arg[1], arg[2]) /\ A!UnpackExact(arg[1], arg[2])
  /\ part = "unpack" => A!UnpackSafe(arg[1], arg[2])
  /\ part = "fuzz" => A!FuzzDecodes(arg)
  /\ part = "names" => A!MethodsKept(arg)
  /\ part = "fields" => A!FieldsMapped(arg[1], arg[2], Capital)
  /\ part = "topics" => A!TopicExact(arg[1][1], arg[1][2], arg[2])

(* Bindings on a simulated chain.  The least gas that is enough is found;  *)
(* SendTransaction panics over a nonce it was asked for only after a race; *)
(* the transactions of an account are in the order of their nonces; a      *)
(* contract is where DeployContract said; and none is said to be missing   *)
(* that was there.                                                         *)
BindingsExact ==
  /\ part = "gas" => D!EstimateExact(2, arg[1], arg[2], arg[3])
  /\ part = "bind" => D!PanicNeedsRace /\ D!NoncesInOrder /\ D!DeployedThere /\ D!NoCodeTrue

(* Precompiled contracts.  The tower of fields computes as the field it    *)
(* stands for, and its Frobenius maps are powers; points are the multiples *)
(* of the generator that their operations say, and are encoded as their    *)
(* affine coordinates; addition and multiplication accept exactly the      *)
(* points of the curve; the pairing answers "true" exactly when the        *)
(* logarithms' products sum to zero; a modular exponentiation that can be  *)
(* paid for is exact and longer operands never cost less; and the signer   *)
(* is recovered exactly from valid values.                                 *)
PrecompilesExact ==
  /\ part = "towers" => Pair!XiPowers
  /\ part = "tower" =>
       Pair!FrobeniusExact(arg[1], sum, power) /\ (power = 0 => Pair!TowerExact(arg[1], arg[2]))
  /\ part = "group" => Grp!GroupExact /\ Grp!EncodingExact
  /\ part = "contracts" => Grp!ContractsExact(arg)
  /\ part = "pairing" => Pair!PairingExact(arg[2], arg[3])
  /\ part = "modexp" => Pre!ModExpExact(arg)
  /\ part = "price of modexp" => Pre!GasGrows(arg)
  /\ part = "ecrecover" => Pre!EcrecoverExact(arg)
=============================================================================
