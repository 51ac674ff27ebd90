----------------------------- MODULE UsbFraming -----------------------------
(***************************************************************************)
(* How messages travel to hardware wallets and back                        *)
(* (accounts/usbwallet/ledger.go, trezor.go): a message is cut into        *)
(* packets, the reply is put together from packets, a transaction is sent  *)
(* piece by piece.                                                         *)
(*                                                                         *)
(* Bytes are the members of a message; a packet is [first, ok, data],      *)
(* first standing for the sequence index 0 (Ledger) or the two '#'         *)
(* (Trezor), ok for the rest of the header.                                *)
(* Space is what a packet holds after its header (59 for a Ledger, 63 for  *)
(* a Trezor), Prefix what the header of a message takes of it (the two     *)
(* bytes of length of a Ledger, the eight of kind and length of a Trezor), *)
(* here one member that is the length and padding.  The devices are        *)
(* external: they cut replies the same way and pad the last packet.        *)
(***************************************************************************)
EXTENDS Integers, Sequences, SequencesExt

CONSTANTS
    Space,      \* the bytes of a packet
    Prefix,     \* those of them the length takes in the first packet
    Chunk,      \* the bytes of a transaction a Ledger takes at a time (255)
    First       \* those a Trezor takes with the request (1024)

Pad == 0
Prefixed(msg) == <<Len(msg)>> \o [i \in 1..(Prefix - 1) |-> Pad] \o msg

-----------------------------------------------------------------------------
(* ledgerExchange and trezorExchange, the way out.                         *)
RECURSIVE Stream(_, _)
Stream(rest, first) ==
    IF rest = <<>> THEN <<>>
    ELSE IF Len(rest) > Space
    THEN <<[first |-> first, ok |-> TRUE, data |-> SubSeq(rest, 1, Space)]>>
            \o Stream(SubSeq(rest, Space + 1, Len(rest)), FALSE)
    ELSE <<[first |-> first, ok |-> TRUE, data |-> rest]>>

Sent(msg) == Stream(Prefixed(msg), TRUE)

\* What the device makes of it: the message the prefix announces.
DeviceReads(packets) ==
    LET all == FlattenSeq([i \in DOMAIN packets |-> packets[i].data])
    IN  IF all = <<>> \/ Len(all) < Prefix + Head(all) THEN <<>>
        ELSE SubSeq(all, Prefix + 1, Prefix + Head(all))

-----------------------------------------------------------------------------
(* The way back.  The device fills its packets up.                         *)
Padded(packet) ==
    [packet EXCEPT !.data = @ \o [i \in 1..(Space - Len(@)) |-> Pad]]
DeviceWrites(msg) == LET out == Sent(msg) IN [i \in DOMAIN out |-> Padded(out[i])]

\* A Ledger ends its reply with two bytes of status.
Status == <<-1, -2>>
Answer(driver, msg) == IF driver = "ledger" THEN msg \o Status ELSE msg

\* The reply read so far, the length it was announced with (cap(reply)) and how
\* the loop ended: it is full, or a packet had another header.
Empty == [reply |-> <<>>, cap |-> 0, used |-> 0, end |-> "open"]

\* The packet that starts a reply: a Ledger's says so, a Trezor's is the first to
\* bring something.
Starts(driver, acc, packet) == IF driver = "ledger" THEN packet.first ELSE acc.reply = <<>>
HeaderMatches(driver, acc, packet) ==
    packet.ok /\ (driver = "trezor" /\ acc.reply = <<>> => packet.first)

\* Faulty variant of Take: the padding of the last packet is kept.
TakePadded(driver, acc, packet) ==
    LET first == Starts(driver, acc, packet)
        cap == IF first THEN Head(packet.data) ELSE acc.cap
        payload == IF first THEN SubSeq(packet.data, Prefix + 1, Space) ELSE packet.data
        old == IF first THEN <<>> ELSE acc.reply
    IN  IF acc.end # "open" THEN acc
        ELSE IF ~HeaderMatches(driver, acc, packet) THEN [acc EXCEPT !.end = "header"]
        ELSE [reply |-> old \o payload, cap |-> cap, used |-> acc.used + 1,
              end |-> IF Len(old \o payload) >= cap THEN "full" ELSE "open"]

Take(driver, acc, packet) ==
    LET first == Starts(driver, acc, packet)
        cap == IF first THEN Head(packet.data) ELSE acc.cap
        payload == IF first THEN SubSeq(packet.data, Prefix + 1, Space) ELSE packet.data
        old == IF first THEN <<>> ELSE acc.reply
        left == cap - Len(old)
    IN  IF acc.end # "open" THEN acc
        ELSE IF ~HeaderMatches(driver, acc, packet) THEN [acc EXCEPT !.end = "header"]
        ELSE IF left > Len(payload)
        THEN [reply |-> old \o payload, cap |-> cap, used |-> acc.used + 1, end |-> "open"]
        ELSE [reply |-> old \o SubSeq(payload, 1, left), cap |-> cap, used |-> acc.used + 1, end |-> "full"]

\* What the exchange returns when these packets can be read and the read after
\* them fails.  A Ledger's reply loses its status; cutting it off one that has
\* none is out of range and panics.
Received(driver, packets) ==
    LET got == FoldLeft(LAMBDA acc, packet : Take(driver, acc, packet), Empty, packets)
        n == IF driver = "ledger" THEN Len(got.reply) - Len(Status) ELSE Len(got.reply)
        end == IF got.end = "open" THEN "io" ELSE IF got.end = "full" /\ n < 0 THEN "panic" ELSE got.end
    IN  [end |-> end, used |-> got.used, reply |-> IF end = "full" THEN SubSeq(got.reply, 1, n) ELSE <<>>]

-----------------------------------------------------------------------------
(* ledgerSign: the transaction in chunks, the first one marked.            *)
RECURSIVE ledgerSign(_, _)
ledgerSign(payload, op) ==
    IF payload = <<>> THEN <<>>
    ELSE LET chunk == IF Chunk > Len(payload) THEN Len(payload) ELSE Chunk
         IN  <<[op |-> op, data |-> SubSeq(payload, 1, chunk)]>>
                \o ledgerSign(SubSeq(payload, chunk + 1, Len(payload)), "cont")

(* trezorSign: a first chunk, then what the device asks for, until it asks *)
(* for more than there is (or for nothing, with its signature).            *)
RECURSIVE trezorStream(_, _)
trezorStream(data, asks) ==
    IF asks = <<>> \/ (asks # <<>> /\ Head(asks) > Len(data)) THEN <<>>
    ELSE <<SubSeq(data, 1, Head(asks))>>
            \o trezorStream(SubSeq(data, Head(asks) + 1, Len(data)), Tail(asks))

trezorSign(data, asks) ==
    IF Len(data) > First
    THEN <<SubSeq(data, 1, First)>> \o trezorStream(SubSeq(data, First + 1, Len(data)), asks)
    ELSE <<data>> \o trezorStream(<<>>, asks)

\* The asks of a device that wants pieces of at most size of what is left.
RECURSIVE Asks(_, _)
Asks(left, size) ==
    IF left = 0 THEN <<>>
    ELSE LET n == IF left > size THEN size ELSE left IN <<n>> \o Asks(left - n, size)

-----------------------------------------------------------------------------
(* A message of any length arrives as it was sent, and a device that       *)
(* could not be sent all of it has no message.  Its reply comes back       *)
(* without padding and status, from no more packets than the device wrote: *)
(* also when its end meets the end of a packet.  A reply whose packets do  *)
(* not all come is an error, as is one with another header in any packet;  *)
(* and the packets of a reply of which one was lost are never taken for a  *)
(* whole one.                                                              *)
ExchangeExact(msg) ==
    /\ DeviceReads(Sent(msg)) = msg
    /\ \A k \in 1..(Len(Sent(msg)) - 1) : DeviceReads(SubSeq(Sent(msg), 1, k)) = <<>>
    /\ \A driver \in {"ledger", "trezor"} :
        LET out == DeviceWrites(Answer(driver, msg))
        IN  /\ Received(driver, out) = [end |-> "full", used |-> Len(out), reply |-> msg]
            /\ \A k \in 0..(Len(out) - 1) : Received(driver, SubSeq(out, 1, k)).end = "io"
            /\ \A k \in DOMAIN out :
                /\ Received(driver, [out EXCEPT ![k].ok = FALSE]).end = "header"
                /\ Received(driver, RemoveAt(out, k)).end # "full"

(* Every byte of a transaction reaches the device once and in order; only  *)
(* the first Ledger chunk opens a transaction and none of them is empty or *)
(* longer than the device takes.                                           *)
SignStreamExact(msg, size) ==
    /\ FlattenSeq(trezorSign(msg, Asks(IF Len(msg) > First THEN Len(msg) - First ELSE 0, size))) = msg
    /\ LET chunks == ledgerSign(msg, "init")
       IN  /\ FlattenSeq([i \in DOMAIN chunks |-> chunks[i].data]) = msg
           /\ \A i \in DOMAIN chunks :
                /\ Len(chunks[i].data) \in 1..Chunk
                /\ chunks[i].op = IF i = 1 THEN "init" ELSE "cont"

-----------------------------------------------------------------------------
(* Derivation paths of hardware wallets (accounts/hd.go): the text a user  *)
(* writes, ParseDerivationPath, and String, which writes it back.          *)
(*                                                                         *)
(* A text is the sequence of what stands between its slashes: "m", "", or  *)
(* a number with or without a quote.  The components of a path are         *)
(* unsigned words below 2 * Hardened (2^32 with Hardened = 2^31).          *)

CONSTANTS
    Hardened,   \* the bit of a hardened component (0x80000000)
    Root        \* DefaultRootDerivationPath

MaxUint32 == 2 * Hardened - 1
Invalid == [ok |-> FALSE, path |-> <<>>]

\* One component: the range left above the hardened bit is the bit smaller.
Component(c) == (IF c.quote THEN Hardened ELSE 0) + c.num

InRange(c) == c.num >= 0 /\ c.num <= MaxUint32 - (IF c.quote THEN Hardened ELSE 0)

ParseDerivationPath(text) ==
    LET absolute == text.head = "m"
        parts == text.parts
    IN  IF text.head = "" \/ parts = <<>> THEN Invalid
        ELSE IF \E i \in DOMAIN parts : ~InRange(parts[i]) THEN Invalid
        ELSE [ok |-> TRUE,
              path |-> (IF absolute THEN <<>> ELSE Root)
                        \o [i \in DOMAIN parts |-> Component(parts[i])]]

String(path) ==
    [head |-> "m",
     parts |-> [i \in DOMAIN path |->
                  [num |-> IF path[i] >= Hardened THEN path[i] - Hardened ELSE path[i],
                   quote |-> path[i] >= Hardened]]]

-----------------------------------------------------------------------------
(* Reading and writing are inverse: what is parsed is a path of 32-bit     *)
(* words, its text parses to the same path, and two texts that differ      *)
(* after a full path was written out name different paths.                 *)
PathExact(text) ==
    LET parsed == ParseDerivationPath(text)
    IN  parsed.ok =>
            /\ \A i \in DOMAIN parsed.path : parsed.path[i] \in 0..MaxUint32
            /\ ParseDerivationPath(String(parsed.path)) = parsed
            /\ text.head = "m" /\ (\A i \in DOMAIN text.parts : text.parts[i].num < Hardened)
                => String(parsed.path) = text
=============================================================================
