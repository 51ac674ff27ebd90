-------------------------------- MODULE Rlp ---------------------------------
(***************************************************************************)
(* rlp/encode.go: how values become RLP.                                   *)
(*                                                                         *)
(* The encoder writes strings into one buffer as it meets them and keeps   *)
(* the headers of the lists aside, as offsets and sizes, because a header  *)
(* is only known when its list ends.  toBytes, toWriter and the reader put *)
(* the headers back between the pieces of the buffer.                      *)
(*                                                                         *)
(* The byte and the tags are scaled: a byte below Single is its own        *)
(* encoding (128 in the code), a size below Short is held by the tag (56), *)
(* and larger ones are written in at most SizeLens bytes (8).  The tags    *)
(* fill the byte, as in the code: 256 = 128 + 2 * (56 + 8).                *)
(*                                                                         *)
(* A type is a record with its kind k:                                     *)
(*   uint (n bytes), big, bool, bytes (also strings), bytearray (n), raw,  *)
(*   slice (of, tail), array (n, of), struct (fields), ptr (of, nilOK),    *)
(*   iface, encoder (as: its EncodeRLP encodes a value of that type).      *)
(* A pointer is the empty sequence or the sequence of what it points to, an *)
(* interface likewise, with the dynamic type.                              *)
(***************************************************************************)
EXTENDS Integers, Sequences, SequencesExt

CONSTANTS Single, Short, SizeLens

StringTag == Single

ListTag == Single + Short + SizeLens

Radix == Single + 2 * (Short + SizeLens)

BytesType == [k |-> "bytes"]

IfaceType == [k |-> "iface"]

SliceOf(t) == [k |-> "slice", of |-> t, tail |-> FALSE]

(* Integers and headers *)

RECURSIVE putint(_)
\* The bytes of i, most significant first, as few as it takes.
putint(i) ==
  IF i < Radix THEN <<i>> ELSE Append(putint(i \div Radix), i % Radix)

RECURSIVE intsize(_)
intsize(i) == IF i \div Radix = 0 THEN 1 ELSE 1 + intsize(i \div Radix)

headsize(size) == IF size < Short THEN 1 ELSE 1 + intsize(size)

\* largetag is the last of the small tags: 0xB7 = 0x80 + 55, 0xF7 = 0xC0 + 55.
puthead(smalltag, size) ==
  IF size < Short
  THEN <<smalltag + size>>
  ELSE <<smalltag + Short - 1 + Len(putint(size))>> \o putint(size)

(* The buffer: string data, the headers of the lists, the size of those *)

EmptyBuf == [str |-> <<>>, lheads |-> <<>>, lhsize |-> 0]

size(w) == Len(w.str) + w.lhsize

Write(w, b) == [w EXCEPT !.str = @ \o b]

encodeString(w, b) ==
  IF Len(b) = 1 /\ b[1] < Single
  THEN Write(w, b)
  ELSE Write(w, puthead(StringTag, Len(b)) \o b)

\* A list header remembers the sizes of the headers before it.
list(w) ==
  [w EXCEPT !.lheads = Append(@, [offset |-> Len(w.str), size |-> w.lhsize])]

\* What was written since list(), the headers within it included.
listEnd(w, i) ==
  LET n == size(w) - w.lheads[i].offset - w.lheads[i].size
  IN  [w EXCEPT !.lheads[i].size = n, !.lhsize = @ + headsize(n)]

\* Writing a value fails or gives the buffer.
Wrote(w) == [w |-> w, err |-> FALSE]

WriteFails(w) == [w |-> w, err |-> TRUE]

writeUint(w, i) ==
  Write(w, IF i = 0 THEN <<StringTag>>
           ELSE IF i < Single THEN <<i>>
           ELSE <<StringTag + Len(putint(i))>> \o putint(i))

writeBigInt(w, i) ==
  IF i < 0 THEN WriteFails(w)
  ELSE Wrote(IF i = 0 THEN Write(w, <<StringTag>>) ELSE encodeString(w, putint(i)))

\* The zero value of a type that is neither an array nor a struct.
Zero(t) ==
  CASE t.k \in {"uint", "big"} -> 0
    [] t.k = "bool" -> FALSE
    [] OTHER -> <<>>

RECURSIVE write(_, _, _)

RECURSIVE writeFirst(_, _, _, _)
\* The first n of the values vs, one after the other, up to an error.
writeFirst(w, ts, vs, n) ==
  LET r == writeFirst(w, ts, vs, n - 1) IN
  IF n = 0 THEN Wrote(w) ELSE IF r.err THEN r ELSE write(r.w, ts[n], vs[n])

\* The writer of a type: makeWriter, and what the functions it picks do.
write(w, t, v) ==
  LET inList(ts, vs) ==
        LET r == writeFirst(list(w), ts, vs, Len(vs))
        IN  [r EXCEPT !.w = listEnd(r.w, Len(w.lheads) + 1)]
  IN  CASE t.k = "uint" -> Wrote(writeUint(w, v))
        [] t.k = "big" -> writeBigInt(w, v)
        [] t.k = "bool" -> Wrote(Write(w, IF v THEN <<1>> ELSE <<StringTag>>))
        [] t.k = "raw" -> Wrote(Write(w, v))
        [] t.k \in {"bytes", "bytearray"} -> Wrote(encodeString(w, v))
        [] t.k \in {"slice", "array"} ->
             IF t.k = "slice" /\ t.tail
             THEN writeFirst(w, [i \in 1 .. Len(v) |-> t.of], v, Len(v))
             ELSE inList([i \in 1 .. Len(v) |-> t.of], v)
        [] t.k = "struct" -> inList(t.fields, v)
        [] t.k = "ptr" ->
             IF v # <<>> THEN write(w, t.of, v[1])
             ELSE IF t.of.k = "bytearray" THEN Wrote(Write(w, <<StringTag>>))
             ELSE IF t.of.k \in {"struct", "array"} THEN inList(<<>>, <<>>)
             ELSE write(w, t.of, Zero(t.of))
        [] t.k = "iface" ->
             IF v = <<>> THEN Wrote(Write(w, <<ListTag>>))
             ELSE write(w, v[1].t, v[1].v)
        [] t.k = "encoder" -> write(w, t.as, v)

encode(t, v) == write(EmptyBuf, t, v)

(* Putting the headers back *)

\* The pieces toWriter writes: the string data before each header, the
\* header, and the string data after the last.
toWriter(w) ==
  LET from(i) == IF i = 1 THEN 0 ELSE w.lheads[i - 1].offset
      n == Len(w.lheads)
  IN  FlattenSeq([i \in 1 .. n |->
                    <<SubSeq(w.str, from(i) + 1, w.lheads[i].offset),
                      puthead(ListTag, w.lheads[i].size)>>])
      \o <<SubSeq(w.str, from(n + 1) + 1, Len(w.str))>>

\* toBytes fills a slice of the computed size: what does not fit is cut off,
\* what is not written stays zero.
toBytes(w) ==
  LET b == FlattenSeq(toWriter(w))
  IN  [i \in 1 .. size(w) |-> IF i <= Len(b) THEN b[i] ELSE 0]

EncodeToBytes(t, v) == toBytes(encode(t, v).w)

(* EncodeToReader: the encoding in pieces, the buffer given back at the end *)

NewReader(w) == [buf |-> <<w>>, lhpos |-> 1, strpos |-> 0, piece |-> <<>>, puts |-> 0]

\* The next piece, which stays in r.piece; empty at the end.
next(r) ==
  IF r.buf = <<>> \/ r.piece # <<>> THEN r
  ELSE LET w == r.buf[1] IN
       IF r.lhpos <= Len(w.lheads)
       THEN LET head == w.lheads[r.lhpos] IN
            IF head.offset > r.strpos
            THEN [r EXCEPT !.piece = SubSeq(w.str, r.strpos + 1, head.offset),
                           !.strpos = head.offset]
            ELSE [r EXCEPT !.piece = puthead(ListTag, head.size), !.lhpos = @ + 1]
       ELSE [r EXCEPT !.piece = SubSeq(w.str, r.strpos + 1, Len(w.str)),
                      !.strpos = Len(w.str)]

\* The first read that meets the end gives the buffer back to the pool.
finish(r) ==
  IF r.buf = <<>> THEN r ELSE [r EXCEPT !.buf = <<>>, !.puts = @ + 1]

RECURSIVE Read(_, _)
\* Read into a slice of cap bytes: the reader after it, what was read, and
\* whether the end was met.
Read(r, cap) ==
  LET p == next(r) IN
  IF p.piece = <<>> THEN [r |-> finish(p), out |-> <<>>, eof |-> TRUE]
  ELSE IF Len(p.piece) > cap
  THEN [r |-> [p EXCEPT !.piece = SubSeq(@, cap + 1, Len(@))],
        out |-> SubSeq(p.piece, 1, cap), eof |-> FALSE]
  ELSE LET rest == Read([p EXCEPT !.piece = <<>>], cap - Len(p.piece))
       IN  [rest EXCEPT !.out = p.piece \o @]

RECURSIVE Reads(_, _, _)
\* A caller that reads up to n slices of cap bytes, until the end.
Reads(r, cap, n) ==
  LET first == Reads(r, cap, n \div 2)
      rest == Reads(first.r, cap, n - n \div 2)
  IN  IF n = 1 THEN Read(r, cap)
      ELSE IF first.eof THEN first ELSE [rest EXCEPT !.out = first.out \o @]

--------------------------------------------------------------------------------
(* The encoding as the RLP format defines it *)

\* The digits of n to the base Radix, without leading zeros.
Digits(n) ==
  LET k == CHOOSE k \in 1 .. SizeLens : Radix^k > n /\ (k > 1 => Radix^(k - 1) <= n)
  IN  [i \in 1 .. k |-> (n \div Radix^(k - i)) % Radix]

Heading(tag, n) ==
  IF n < Short THEN <<tag + n>>
  ELSE <<tag + Short - 1 + Len(Digits(n))>> \o Digits(n)

RlpString(b) ==
  IF Len(b) = 1 /\ b[1] < Single THEN b ELSE Heading(StringTag, Len(b)) \o b

RlpList(body) == Heading(ListTag, Len(body)) \o body

RlpInt(i) == RlpString(IF i = 0 THEN <<>> ELSE Digits(i))

RECURSIVE Rlp(_, _)
\* The encoding of a value, from the encodings of its parts.
Rlp(t, v) ==
  LET elems == FlattenSeq([i \in 1 .. Len(v) |-> Rlp(t.of, v[i])])
  IN  CASE t.k \in {"uint", "big"} -> RlpInt(v)
        [] t.k = "bool" -> RlpInt(IF v THEN 1 ELSE 0)
        [] t.k = "raw" -> v
        [] t.k \in {"bytes", "bytearray"} -> RlpString(v)
        [] t.k = "array" -> RlpList(elems)
        [] t.k = "slice" -> IF t.tail THEN elems ELSE RlpList(elems)
        [] t.k = "struct" ->
             RlpList(FlattenSeq([i \in 1 .. Len(v) |-> Rlp(t.fields[i], v[i])]))
        [] t.k = "ptr" ->
             IF v # <<>> THEN Rlp(t.of, v[1])
             ELSE IF t.of.k = "raw" THEN <<>>
             ELSE IF t.of.k \in {"struct", "array", "slice", "iface"}
             THEN RlpList(<<>>) ELSE RlpString(<<>>)
        [] t.k = "iface" -> IF v = <<>> THEN RlpList(<<>>) ELSE Rlp(v[1].t, v[1].v)
        [] t.k = "encoder" -> Rlp(t.as, v)

\* What encbuf gives back, as bytes or piece by piece to a writer, is the
\* value's encoding: the headers kept aside have the sizes of their lists,
\* nested headers included, and go where the lists begin.
EncodeExact(t, v) ==
  LET e == encode(t, v)
  IN  ~e.err => /\ toBytes(e.w) = Rlp(t, v)
                /\ FlattenSeq(toWriter(e.w)) = Rlp(t, v)

\* A reader hands out the encoding whatever the size of the slices it is read
\* into, and gives its buffer back to the pool once, however often the end is
\* read: a buffer given back twice would be written by two encoders.
ReaderExact(t, v, cap) ==
  LET e == encode(t, v)
      b == Rlp(t, v)
      x == Reads(NewReader(e.w), cap, Len(b) + 1)
  IN  ~e.err => /\ x.out = b
                /\ x.eof
                /\ Read(Read(x.r, cap).r, cap).r.puts = 1

-----------------------------------------------------------------------------
(* rlp/decode.go and rlp/raw.go: reading RLP.                              *)
(*                                                                         *)
(* A Stream reads an input value by value: Kind reads the header of the    *)
(* value ahead and keeps it until the value is read (kind < 0 stands for   *)
(* no header read), and a stack holds how much of every open list has been *)
(* read.  The decoders of the types are built on it.                       *)
(*                                                                         *)
(* Operations on a stream give the stream after them, their results and    *)
(* err, which is Ok or the name of the error.  Wrapping an error with the  *)
(* type it is about leaves its name; EOL, which callers test, is never     *)
(* wrapped.                                                                *)

Ok == "ok"

Byte == 0
String == 1
List == 2

(* The stream *)

\* NewStream over bytes; without a limit the input may be shorter than what
\* its headers say.
NewStream(in, limited) ==
  [in |-> in, limited |-> limited, remaining |-> Len(in),
   kind |-> -1, size |-> 0, byteval |-> 0, kinderr |-> Ok, stack |-> <<>>]

NewListStream(in) == [NewStream(in, TRUE) EXCEPT !.kind = List, !.size = Len(in)]

\* Counts n bytes about to be read, and forgets the header.
willRead(s0, n) ==
  LET s == [s0 EXCEPT !.kind = -1]
      top == Len(s.stack)
      inList == IF top > 0 THEN [s EXCEPT !.stack[top].pos = @ + n] ELSE s
  IN  IF top > 0 /\ n > s.stack[top].size - s.stack[top].pos
      THEN [s |-> s, err |-> "ErrElemTooLarge"]
      ELSE IF s.limited /\ n > s.remaining
      THEN [s |-> inList, err |-> "ErrValueTooLarge"]
      ELSE [s |-> IF s.limited THEN [inList EXCEPT !.remaining = @ - n] ELSE inList,
            err |-> Ok]

Gives(s, v) == [s |-> s, v |-> v, err |-> Ok]

Fails(s, zero, err) == [s |-> s, v |-> zero, err |-> err]

\* The usual "if err != nil { return }": what follows a result r, unless r is
\* an error.
Then(r, zero, follow(_)) == IF r.err # Ok THEN Fails(r.s, zero, r.err) ELSE follow(r)

Rearmed(s) == [s EXCEPT !.kind = -1]

\* n bytes, or what is left of them.
readFull(s, n) ==
  Then(willRead(s, n), <<>>, LAMBDA w :
    [s |-> [w.s EXCEPT !.in = SubSeq(@, n + 1, Len(@))],
     v |-> SubSeq(s.in, 1, IF n > Len(s.in) THEN Len(s.in) ELSE n),
     err |-> IF Len(s.in) < n THEN "ErrUnexpectedEOF" ELSE Ok])

RECURSIVE bigEndian(_)
bigEndian(b) ==
  IF b = <<>> THEN 0 ELSE Radix * bigEndian(SubSeq(b, 1, Len(b) - 1)) + b[Len(b)]

\* An integer of n bytes; one byte may be zero, more do not begin with it.
readUint(s, n) ==
  IF n = 0 THEN Gives(Rearmed(s), 0)
  ELSE Then(readFull(s, n), 0, LAMBDA r :
         IF n > 1 /\ r.v[1] = 0 THEN Fails(r.s, 0, "ErrCanonSize")
         ELSE Gives(r.s, bigEndian(r.v)))

\* Faulty variant of LongSize: a size that fits the tag is taken.
LongSizeAny(s, n) == readUint(s, n)

\* A size in bytes of its own is one that does not fit the tag.
LongSize(s, n) ==
  Then(readUint(s, n), 0, LAMBDA r :
    IF r.v < Short THEN Fails(r.s, r.v, "ErrCanonSize") ELSE r)

\* The stream with a header read: kind, size, the byte if it is one, error.
Headed(s, k, n, val, e) == [s EXCEPT !.kind = k, !.size = n, !.byteval = val, !.kinderr = e]

\* The header whose tag is r.v[1].
Tagged(s, r) ==
  LET b == r.v[1]
      long(k, z) == Headed(z.s, k, z.v, 0, z.err)
  IN  IF r.err # Ok
      THEN Headed(r.s, 0, 0, s.byteval,
                  IF s.stack = <<>> /\ r.err \in {"ErrUnexpectedEOF", "ErrValueTooLarge"}
                  THEN "EOF" ELSE r.err)
      ELSE IF b < StringTag THEN Headed(r.s, Byte, 0, b, Ok)
      ELSE IF b < StringTag + Short THEN Headed(r.s, String, b - StringTag, 0, Ok)
      ELSE IF b < ListTag THEN long(String, LongSize(r.s, b - (StringTag + Short - 1)))
      ELSE IF b < ListTag + Short THEN Headed(r.s, List, b - ListTag, 0, Ok)
      ELSE long(List, LongSize(r.s, b - (ListTag + Short - 1)))

\* The header of the value ahead.
readKind(s) == Tagged(s, readFull(s, 1))

\* A value fits the list it is in, or the rest of the input.
Fits(s) ==
  LET top == Len(s.stack) IN
  IF s.kinderr # Ok THEN s
  ELSE IF top = 0
  THEN IF s.limited /\ s.size > s.remaining THEN [s EXCEPT !.kinderr = "ErrValueTooLarge"] ELSE s
  ELSE IF s.size > s.stack[top].size - s.stack[top].pos
       THEN [s EXCEPT !.kinderr = "ErrElemTooLarge"] ELSE s

Ahead(s) == [s |-> s, err |-> s.kinderr]

\* The stream with the header of the value ahead, and the error: EOL at the
\* end of a list, or the error of reading the header, now or earlier.
Kind(s0) ==
  LET s == [s0 EXCEPT !.kinderr = Ok]
      top == Len(s.stack)
  IN  IF s0.kind >= 0 THEN Ahead(s0)
      ELSE IF top > 0 /\ s.stack[top].pos = s.stack[top].size
      THEN [s |-> s, err |-> "EOL"]
      ELSE Ahead(Fits(readKind(s)))

Bytes(s) ==
  Then(Kind(s), <<>>, LAMBDA k :
    CASE k.s.kind = Byte -> Gives(Rearmed(k.s), <<k.s.byteval>>)
      [] k.s.kind = List -> Fails(k.s, <<>>, "ErrExpectedString")
      [] k.s.kind = String ->
           Then(readFull(k.s, k.s.size), <<>>, LAMBDA r :
             IF k.s.size = 1 /\ r.v[1] < Single THEN Fails(r.s, <<>>, "ErrCanonSize") ELSE r))

\* A value with its header, which is made again.
Raw(s) ==
  Then(Kind(s), <<>>, LAMBDA k :
    IF k.s.kind = Byte THEN Gives(Rearmed(k.s), <<k.s.byteval>>)
    ELSE Then(readFull(k.s, k.s.size), <<>>, LAMBDA r :
           Gives(r.s, puthead(IF k.s.kind = String THEN StringTag ELSE ListTag, k.s.size) \o r.v)))

\* An integer r that was read with its size; its errors are those of integers.
Canonical(r, n) ==
  IF r.err = "ErrCanonSize" THEN Fails(r.s, 0, "ErrCanonInt")
  ELSE Then(r, 0, LAMBDA x :
         IF n > 0 /\ x.v < Single THEN Fails(x.s, 0, "ErrCanonSize") ELSE x)

\* An integer of at most n bytes.  A zero byte is refused and stays ahead.
uint(s, n) ==
  Then(Kind(s), 0, LAMBDA k :
    CASE k.s.kind = Byte ->
           IF k.s.byteval = 0 THEN Fails(k.s, 0, "ErrCanonInt")
           ELSE Gives(Rearmed(k.s), k.s.byteval)
      [] k.s.kind = List -> Fails(k.s, 0, "ErrExpectedString")
      [] k.s.kind = String ->
           IF k.s.size > n THEN Fails(k.s, 0, "errUintOverflow")
           ELSE Canonical(readUint(k.s, k.s.size), k.s.size))

Bool(s) ==
  Then(uint(s, 1), FALSE, LAMBDA u :
    IF u.v > 1 THEN Fails(u.s, FALSE, "invalid boolean") ELSE Gives(u.s, u.v = 1))

\* Enters the list ahead.
OpenList(s) ==
  Then(Kind(s), 0, LAMBDA k :
    IF k.s.kind # List THEN Fails(k.s, 0, "ErrExpectedList")
    ELSE Gives([k.s EXCEPT !.stack = Append(@, [pos |-> 0, size |-> k.s.size]),
                           !.kind = -1, !.size = 0], k.s.size))

\* Leaves a list that was read to its end.
ListEnd(s) ==
  LET top == Len(s.stack)
      popped == SubSeq(s.stack, 1, top - 1)
      st == IF top = 1 THEN popped
            ELSE [popped EXCEPT ![top - 1].pos = @ + s.stack[top].size]
  IN  IF top = 0 THEN Fails(s, 0, "errNotInList")
      ELSE IF s.stack[top].pos # s.stack[top].size THEN Fails(s, 0, "errNotAtEOL")
      ELSE Gives([s EXCEPT !.stack = st, !.kind = -1, !.size = 0], 0)

-----------------------------------------------------------------------------
(* rlp/decode.go and rlp/raw.go: the decoders of the types, built on the   *)
(* stream, and the functions that split encoded bytes without one.  The    *)
(* value decoded into is a zero value, as DecodeBytes callers here pass.   *)

\* The bytes of a big integer, without leading zeros.
decodeBigInt(s) ==
  Then(Bytes(s), 0, LAMBDA b :
    IF b.v # <<>> /\ b.v[1] = 0 THEN Fails(b.s, 0, "ErrCanonInt")
    ELSE Gives(b.s, bigEndian(b.v)))

\* Exactly n bytes.  A single byte is read as an integer, and the error of
\* that dropped: a zero byte is taken, but stays ahead.
decodeByteArray(s, n) ==
  LET single(u) == Gives(u.s, <<u.v>>)
      len(k) == IF k.s.kind = Byte THEN 1 ELSE k.s.size
  IN  Then(Kind(s), <<>>, LAMBDA k :
        IF k.s.kind = List THEN Fails(k.s, <<>>, "ErrExpectedString")
        ELSE IF n < len(k) THEN Fails(k.s, <<>>, "too long")
        ELSE IF n > len(k) THEN Fails(k.s, <<>>, "too short")
        ELSE IF k.s.kind = Byte THEN single(uint(k.s, SizeLens))
        ELSE Then(readFull(k.s, n), <<>>, LAMBDA r :
               IF n = 1 /\ r.v[1] < Single THEN Fails(r.s, <<>>, "ErrCanonSize") ELSE r))

RECURSIVE decode(_, _)

Prepend(v, rest) == [rest EXCEPT !.v = <<v>> \o @]

RECURSIVE decodeSliceElems(_, _)
\* Elements up to the end of the list the stream is in.
decodeSliceElems(s, t) ==
  LET from(e) == IF e.err = "EOL" THEN Gives(e.s, <<>>)
                 ELSE Then(e, <<>>, LAMBDA x : Prepend(x.v, decodeSliceElems(x.s, t)))
  IN  from(decode(s, t))

RECURSIVE decodeFields(_, _)
\* One value for every type of ts.
decodeFields(s, ts) ==
  LET next1(vs, e) == IF e.err = "EOL" THEN Fails(e.s, <<>>, "too few elements")
                      ELSE Then(e, <<>>, LAMBDA x : Gives(x.s, Append(vs, x.v)))
  IN  IF ts = <<>> THEN Gives(s, <<>>)
      ELSE Then(decodeFields(s, Front(ts)), <<>>, LAMBDA b : next1(b.v, decode(b.s, Last(ts))))

\* Reads the content of the list ahead with body, and leaves the list.
InList(s, body(_)) ==
  Then(OpenList(s), <<>>, LAMBDA o :
    Then(body(o.s), <<>>, LAMBDA b :
      Then(ListEnd(b.s), <<>>, LAMBDA e : Gives(e.s, b.v))))

\* A list of any length.
decodeListSlice(s, t) ==
  InList(s, LAMBDA x : IF x.stack[Len(x.stack)].size = 0 THEN Gives(x, <<>>)
                       ELSE decodeSliceElems(x, t))

\* A pointer to what was decoded.
Boxed(r) == Then(r, <<>>, LAMBDA x : Gives(x.s, <<x.v>>))

\* k is what Kind gave: an empty value stands for a nil pointer.
OptionalPtr(k, t) ==
  IF k.err # Ok THEN Fails(Rearmed(k.s), <<>>, k.err)
  ELSE IF k.s.size = 0 /\ k.s.kind # Byte THEN Gives(Rearmed(k.s), <<>>)
  ELSE Boxed(decode(k.s, t))

\* A list of interfaces or bytes, with the type.
decodeInterface(s) ==
  LET dynamic(r, dt) == Then(r, <<>>, LAMBDA x : Gives(x.s, <<[t |-> dt, v |-> x.v]>>))
  IN  Then(Kind(s), <<>>, LAMBDA k :
        IF k.s.kind = List
        THEN dynamic(decodeListSlice(k.s, IfaceType), SliceOf(IfaceType))
        ELSE dynamic(Bytes(k.s), BytesType))

\* The decoder of a type: makeDecoder, and what the functions it picks do.
decode(s, t) ==
  CASE t.k = "uint" -> uint(s, t.n)
    [] t.k = "big" -> decodeBigInt(s)
    [] t.k = "bool" -> Bool(s)
    [] t.k = "raw" -> Raw(s)
    [] t.k = "bytes" -> Bytes(s)
    [] t.k = "bytearray" -> decodeByteArray(s, t.n)
    [] t.k = "slice" -> IF t.tail THEN decodeSliceElems(s, t.of) ELSE decodeListSlice(s, t.of)
    [] t.k = "array" -> InList(s, LAMBDA x : decodeFields(x, [i \in 1 .. t.n |-> t.of]))
    [] t.k = "struct" -> InList(s, LAMBDA x : decodeFields(x, t.fields))
    [] t.k = "ptr" -> IF t.nilOK THEN OptionalPtr(Kind(s), t.of) ELSE Boxed(decode(s, t.of))
    [] t.k = "iface" -> decodeInterface(s)
    [] t.k = "encoder" -> decode(s, t.as)

\* One value and nothing after it.
DecodeBytes(b, t) ==
  Then(decode(NewStream(b, TRUE), t), <<>>, LAMBDA d :
    IF d.s.in # <<>> THEN Fails(d.s, d.v, "ErrMoreThanOneValue") ELSE d)

(* raw.go *)

\* A size of n bytes at the front of b.
readSize(b, n) ==
  LET v == bigEndian(SubSeq(b, 1, n)) IN
  IF n > Len(b) THEN [v |-> 0, err |-> "ErrUnexpectedEOF"]
  ELSE IF v < Short \/ b[1] = 0 THEN [v |-> 0, err |-> "ErrCanonSize"]
  ELSE [v |-> v, err |-> Ok]

\* The kind of the first value of buf, and the sizes of its tag and content.
readRawKind(buf) ==
  LET b == buf[1]
      long == IF b < ListTag THEN b - (StringTag + Short - 1) ELSE b - (ListTag + Short - 1)
      z == readSize(Tail(buf), long)
      is(k, ts, cs, e) ==
        IF e # Ok THEN [k |-> 0, tag |-> 0, content |-> 0, err |-> e]
        ELSE IF cs > Len(buf) - ts
        THEN [k |-> 0, tag |-> 0, content |-> 0, err |-> "ErrValueTooLarge"]
        ELSE [k |-> k, tag |-> ts, content |-> cs, err |-> Ok]
  IN  IF buf = <<>> THEN [k |-> 0, tag |-> 0, content |-> 0, err |-> "ErrUnexpectedEOF"]
      ELSE IF b < StringTag THEN is(Byte, 0, 1, Ok)
      ELSE IF b < StringTag + Short
      THEN is(String, 1, b - StringTag,
              IF b = StringTag + 1 /\ Len(buf) > 1 /\ buf[2] < Single THEN "ErrCanonSize" ELSE Ok)
      ELSE IF b < ListTag THEN is(String, long + 1, z.v, z.err)
      ELSE IF b < ListTag + Short THEN is(List, 1, b - ListTag, Ok)
      ELSE is(List, long + 1, z.v, z.err)

\* The first value's content, and what follows the value.
Split(b) ==
  LET k == readRawKind(b) IN
  IF k.err # Ok THEN [k |-> 0, content |-> <<>>, rest |-> b, err |-> k.err]
  ELSE [k |-> k.k, content |-> SubSeq(b, k.tag + 1, k.tag + k.content),
        rest |-> SubSeq(b, k.tag + k.content + 1, Len(b)), err |-> Ok]

\* The size of a value with its tag.
Skip(k) == k.tag + k.content

RECURSIVE CountValues(_)
\* The number of values in b, -1 when one of them is not well formed.
CountValues(b) ==
  LET k == readRawKind(b)
      rest == CountValues(SubSeq(b, Skip(k) + 1, Len(b)))
  IN  IF b = <<>> THEN 0
      ELSE IF k.err # Ok THEN -1
      ELSE IF rest < 0 THEN -1 ELSE 1 + rest

--------------------------------------------------------------------------------

\* Whatever is encoded can be decoded, into a value with the same encoding.
\* (A nil pointer to a struct or to an array is encoded as an empty list, which
\* only a pointer with the tag "nil" takes.)
RoundTrip(t, v) ==
  LET e == encode(t, v)
      d == DecodeBytes(toBytes(e.w), t)
  IN  ~e.err => d.err = Ok /\ EncodeToBytes(t, d.v) = toBytes(e.w)

\* A value has one encoding: bytes that decode are the encoding of what they
\* decode to.  No leading zeros, no size in more bytes than it needs, no byte
\* after the value, no element beyond its list, are taken.
OneEncoding(b, t) ==
  LET d == DecodeBytes(b, t) IN d.err = Ok => EncodeToBytes(t, d.v) = b

RECURSIVE ReadValues(_)
\* The number of values a stream without the limit reads from its input raw.
ReadValues(s) ==
  LET r == Raw(s)
      rest == ReadValues(r.s)
  IN  IF r.err = "EOF" THEN 0
      ELSE IF r.err # Ok THEN -1
      ELSE IF rest < 0 THEN -1 ELSE 1 + rest

\* Split and CountValues see the values a stream sees; they refuse more only
\* in a byte with a needless header, which Raw does not look at.
SplitAgrees(b) ==
  LET x == Split(b)
      r == Raw(NewStream(b, TRUE))
      n == CountValues(b)
  IN  /\ x.err = Ok => /\ r.err = Ok
                       /\ r.v \o x.rest = b
                       /\ r.s.in = x.rest
      /\ r.err = Ok /\ x.err # Ok => b[1] = StringTag + 1 /\ b[2] < Single
      /\ n >= 0 => n = ReadValues(NewStream(b, FALSE))
=============================================================================
