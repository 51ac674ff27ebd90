----------------------------- MODULE CoreTypes ------------------------------
(***************************************************************************)
(* core/types: what transactions, receipts, logs and blocks are encoded    *)
(* as, and the bloom filter of the logs.  A hash is HashLen bytes, an      *)
(* address AddressLen, a bloom filter BloomLen, integers are of at most    *)
(* SizeLens.                                                               *)
(***************************************************************************)
EXTENDS Rlp, FiniteSets

CONSTANTS HashLen, AddressLen, BloomLen

Uint64 == [k |-> "uint", n |-> SizeLens]
BigInt == [k |-> "big"]
Hash == [k |-> "bytearray", n |-> HashLen]
Address == [k |-> "bytearray", n |-> AddressLen]
BloomT == [k |-> "bytearray", n |-> BloomLen]
Struct(fields) == [k |-> "struct", fields |-> fields]
Pointer(t) == [k |-> "ptr", of |-> t, nilOK |-> FALSE]
NilPointer(t) == [k |-> "ptr", of |-> t, nilOK |-> TRUE]

(* The structs that are encoded, field by field *)

\* nonce, price, gas limit, recipient (nil: contract creation), amount,
\* payload, V, R, S
txdata ==
  Struct(<<Uint64, BigInt, Uint64, NilPointer(Address), BigInt, BytesType, BigInt, BigInt, BigInt>>)

Transaction == [k |-> "encoder", as |-> txdata]

\* parent, uncles, coinbase, root, transactions, receipts, bloom, difficulty,
\* number, gas limit, gas used, time, extra, mix digest, nonce
Header ==
  Struct(<<Hash, Hash, Address, Hash, Hash, Hash, BloomT, BigInt,
           BigInt, Uint64, Uint64, BigInt, BytesType, Hash, Hash>>)

extblock == Struct(<<Pointer(Header), SliceOf(Pointer(Transaction)), SliceOf(Pointer(Header))>>)

storageblock ==
  Struct(<<Pointer(Header), SliceOf(Pointer(Transaction)), SliceOf(Pointer(Header)), BigInt>>)

rlpLog == Struct(<<Address, SliceOf(Hash), BytesType>>)

\* also the block's number, the transaction's hash and index, the block's hash
\* and the index of the log
rlpStorageLog ==
  Struct(<<Address, SliceOf(Hash), BytesType, Uint64, Hash, Uint64, Hash, Uint64>>)

receiptRLP == Struct(<<BytesType, Uint64, BloomT, SliceOf(Pointer(rlpLog))>>)

receiptStorageRLP ==
  Struct(<<BytesType, Uint64, BloomT, Hash, Address, SliceOf(Pointer(rlpStorageLog)), Uint64>>)

(* Logs: address, topics and data, which consensus covers, and the rest *)

EncodeLog(l) == <<l.Address, l.Topics, l.Data>>

DecodeLog(d) ==
  [Address |-> d[1], Topics |-> d[2], Data |-> d[3],
   BlockNumber |-> 0, TxHash |-> [i \in 1..HashLen |-> 0], TxIndex |-> 0,
   BlockHash |-> [i \in 1..HashLen |-> 0], Index |-> 0, Removed |-> FALSE]

EncodeStorageLog(l) ==
  <<l.Address, l.Topics, l.Data, l.BlockNumber, l.TxHash, l.TxIndex, l.BlockHash, l.Index>>

DecodeStorageLog(d) ==
  [Address |-> d[1], Topics |-> d[2], Data |-> d[3], BlockNumber |-> d[4], TxHash |-> d[5],
   TxIndex |-> d[6], BlockHash |-> d[7], Index |-> d[8], Removed |-> FALSE]

(* Receipts: either the root after the transaction or its status *)

NewReceipt(root, failed, gas) ==
  [PostState |-> root, Status |-> IF failed THEN 0 ELSE 1, CumulativeGasUsed |-> gas,
   Bloom |-> [i \in 1..BloomLen |-> 0], Logs |-> <<>>,
   TxHash |-> [i \in 1..HashLen |-> 0], ContractAddress |-> [i \in 1..AddressLen |-> 0],
   GasUsed |-> 0]

statusEncoding(r) ==
  IF r.PostState # <<>> THEN r.PostState ELSE IF r.Status = 0 THEN <<>> ELSE <<1>>

\* The receipt with the status or the root, and whether that was neither.
setStatus(r, b) ==
  CASE b = <<1>> -> [r |-> [r EXCEPT !.Status = 1], err |-> FALSE]
    [] b = <<>> -> [r |-> [r EXCEPT !.Status = 0], err |-> FALSE]
    [] Len(b) = HashLen -> [r |-> [r EXCEPT !.PostState = b], err |-> FALSE]
    [] OTHER -> [r |-> r, err |-> TRUE]

EncodeReceipt(r) ==
  EncodeToBytes(receiptRLP,
    <<statusEncoding(r), r.CumulativeGasUsed, r.Bloom,
      [i \in 1..Len(r.Logs) |-> <<EncodeLog(r.Logs[i])>>]>>)

\* The receipt decoded into an empty one, and whether that failed: d is what
\* was decoded, filled the receipt with what is not its status.
Received(d, filled(_)) ==
  LET z == setStatus(NewReceipt(<<>>, TRUE, 0), d.v[1])
  IN  IF d.err # Ok \/ z.err THEN [r |-> NewReceipt(<<>>, TRUE, 0), err |-> TRUE]
      ELSE [r |-> filled(z.r), err |-> FALSE]

setFromRLP(d) ==
  Received(d, LAMBDA r :
    [r EXCEPT !.CumulativeGasUsed = d.v[2], !.Bloom = d.v[3],
              !.Logs = [i \in 1..Len(d.v[4]) |-> DecodeLog(d.v[4][i][1])]])

DecodeReceipt(b) == setFromRLP(DecodeBytes(b, receiptRLP))

EncodeStorageReceipt(r) ==
  EncodeToBytes(receiptStorageRLP,
    <<statusEncoding(r), r.CumulativeGasUsed, r.Bloom, r.TxHash, r.ContractAddress,
      [i \in 1..Len(r.Logs) |-> <<EncodeStorageLog(r.Logs[i])>>], r.GasUsed>>)

setFromStorage(d) ==
  Received(d, LAMBDA r :
    [r EXCEPT !.CumulativeGasUsed = d.v[2], !.Bloom = d.v[3], !.TxHash = d.v[4],
              !.ContractAddress = d.v[5], !.GasUsed = d.v[7],
              !.Logs = [i \in 1..Len(d.v[6]) |-> DecodeStorageLog(d.v[6][i][1])]])

DecodeStorageReceipt(b) == setFromStorage(DecodeBytes(b, receiptStorageRLP))

(* The size a decoded transaction or block remembers *)

ListSize(n) == headsize(n) + n

\* DecodeRLP: the header of the list ahead is looked at, then the list decoded.
DecodeSized(s, t) ==
  LET sized(k, d) == [d EXCEPT !.v = [v |-> d.v, size |-> ListSize(k.s.size)]]
      ahead(k) == sized(k, decode(k.s, t))
  IN  ahead(Kind(s))

--------------------------------------------------------------------------------

\* c and s are what the encodings of r for consensus and for storage decode to.
Decoded(r, c, s) ==
  LET valid == Len(r.PostState) \in {0, HashLen}
      status == IF r.PostState = <<>> THEN r.Status ELSE 0
  IN  /\ c.err = ~valid
      /\ s.err = ~valid
      /\ valid => /\ s.r = [r EXCEPT !.Status = status]
                  /\ [c.r EXCEPT !.Logs = <<>>] =
                       [r EXCEPT !.Status = status, !.Logs = <<>>, !.GasUsed = 0,
                                 !.TxHash = c.r.TxHash, !.ContractAddress = c.r.ContractAddress]
                  /\ [i \in 1..Len(c.r.Logs) |-> EncodeLog(c.r.Logs[i])] =
                       [i \in 1..Len(r.Logs) |-> EncodeLog(r.Logs[i])]

\* What a receipt decodes to is what was encoded: its root or its status,
\* whichever it has, its gas and its logs; for storage all of it but a log's
\* Removed, and the status of a receipt that has a root.
ReceiptExact(r) ==
  Decoded(r, DecodeReceipt(EncodeReceipt(r)), DecodeStorageReceipt(EncodeStorageReceipt(r)))

\* d is what is decoded of b and what follows it.
Measured(b, rest, d) == d.err = Ok /\ d.v.size = Len(b) /\ d.s.in = rest

\* The size a transaction or a block remembers from its decoding is the length
\* of its encoding, also when others follow it.
SizeExact(t, v, rest) ==
  LET b == EncodeToBytes(t, v)
  IN  Measured(b, rest, DecodeSized(NewStream(b \o rest, TRUE), t))

-----------------------------------------------------------------------------
(* core/types/bloom9.go: the filter of a block's logs, a number of Bits    *)
(* bits kept in bytes of PerByte bits, of which three are set for each     *)
(* address and topic.  BitsOf is external: the three bits Keccak256 gives  *)
(* bytes.  A log is the sequence of its address and topics, bytes each.    *)

CONSTANTS
    Bits,      \* 2048
    PerByte,   \* 8
    BitsOf     \* the bits of bytes: a function to sets of bit numbers

Length == Bits \div PerByte

NoBits == [i \in 0 .. Length - 1 |-> {}]

bloom9(b) == BitsOf[b]

(* A big integer is the set of its bits; its bytes have no leading zeros. *)

BytesOf(bin) ==
  LET top == IF bin = {} THEN 0 ELSE (CHOOSE i \in bin : \A j \in bin : j <= i) \div PerByte + 1
  IN  [i \in 1 .. top |-> {j \in 0 .. PerByte - 1 : (top - i) * PerByte + j \in bin}]

Big(bloom) ==
  {n \in 0 .. Bits - 1 : n % PerByte \in bloom[Length - 1 - n \div PerByte]}

\* The bytes of d go to the end, what is before them stays.
SetBytes(bloom, d) ==
  [i \in 0 .. Length - 1 |->
     IF i >= Length - Len(d) THEN d[i - (Length - Len(d)) + 1] ELSE bloom[i]]

BytesToBloom(d) == SetBytes(NoBits, d)

\* The bytes of a big integer, made of bytes: leading zeros are dropped.
RECURSIVE Stripped(_)
Stripped(b) == IF b # <<>> /\ b[1] = 0 THEN Stripped(Tail(b)) ELSE b

Add(bloom, d) == SetBytes(bloom, BytesOf(Big(bloom) \cup bloom9(Stripped(d))))

LogsBloom(logs) == UNION {UNION {bloom9(logs[i][j]) : j \in 1 .. Len(logs[i])} : i \in 1 .. Len(logs)}

\* receipts: the logs of each.
CreateBloom(receipts) ==
  BytesToBloom(BytesOf(UNION {LogsBloom(receipts[i]) : i \in 1 .. Len(receipts)}))

BloomLookup(bloom, topic) == bloom9(topic) \subseteq Big(bloom)

\* Test and TestBytes take an integer's bytes.
TestBytes(bloom, test) == BloomLookup(bloom, Stripped(test))

--------------------------------------------------------------------------------

\* No false negatives: every address and topic of a block's logs is found in
\* its filter, by the bytes it has; by the integer they are (Test, TestBytes)
\* when they do not begin with a zero byte.
LogsFound(receipts) ==
  LET bloom == CreateBloom(receipts) IN
  \A i \in 1 .. Len(receipts) : \A j \in 1 .. Len(receipts[i]) :
    \A k \in 1 .. Len(receipts[i][j]) :
      LET b == receipts[i][j][k]
      IN  BloomLookup(bloom, b) /\ (Stripped(b) = b => TestBytes(bloom, b))

\* "Add adds d to the filter. Future calls of Test(d) will return true":
\* whatever is added, before or after.
AddedFound(ds) ==
  LET bloom == FoldLeft(LAMBDA acc, d : Add(acc, d), NoBits, ds) IN
  \A i \in 1 .. Len(ds) : TestBytes(bloom, ds[i])
=============================================================================
