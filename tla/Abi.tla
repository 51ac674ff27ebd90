-------------------------------- MODULE Abi ---------------------------------
(***************************************************************************)
(* accounts/abi: values to call data and back (type.go, pack.go,           *)
(* unpack.go, argument.go, error.go, numbers.go, reflect.go) and fuzzed    *)
(* call data (fuzz.go).                                                    *)
(*                                                                         *)
(* A word is W bytes of Radix values (32 and 256 in the code).  A Go value *)
(* is [g |-> its Go type, v |-> the value]; numbers are integers, strings  *)
(* and byte arrays sequences of bytes.                                     *)
(***************************************************************************)
EXTENDS Integers, Sequences, SequencesExt, FiniteSets

CONSTANTS
    W,         \* 32
    Radix,     \* 256
    AddrLen,   \* 20
    FuncLen,   \* 24
    Native,    \* sizes, in bytes, for which Go has an integer type: 1, 2, 4, 8
    Draws,     \* bytes gofuzz makes up (external)
    MaxLen,    \* elements of a fuzzed array at most: 15
    Near       \* the width of the ranges fuzzed integers come from: 16

Modulus == Radix ^ W

Fail == [T |-> "error"]
NoSize == -1

(* Types.  The text of a type is [base, size, dims]: uint8[2][] has dims       *)
(* <<2, NoSize>>.                                                             *)

RECURSIVE NewType(_)
NewType(text) ==
  IF text.dims # <<>>
  THEN LET elem == NewType([text EXCEPT !.dims = Front(@)])
       IN  IF elem = Fail THEN Fail
           ELSE IF Last(text.dims) = NoSize THEN [T |-> "slice", elem |-> elem]
           ELSE [T |-> "array", size |-> Last(text.dims), elem |-> elem]
  ELSE CASE text.base \in {"int", "uint"} ->
              IF text.size = NoSize THEN Fail ELSE [T |-> text.base, size |-> text.size]
         [] text.base \in {"bool", "string"} -> [T |-> text.base]
         [] text.base = "address" -> [T |-> "address", size |-> AddrLen]
         [] text.base = "bytes" ->
              IF text.size \in {NoSize, 0} THEN [T |-> "bytes"] ELSE [T |-> "fixedbytes", size |-> text.size]
         [] text.base = "function" -> [T |-> "function", size |-> FuncLen]
         [] OTHER -> Fail

reflectIntKind(t) == IF t.size \in Native THEN <<t.T, t.size>> ELSE <<"ptr">>

\* The Go type of a type.
RECURSIVE GoType(_)
GoType(t) ==
  CASE t.T \in {"int", "uint"} -> [kind |-> reflectIntKind(t)]
    [] t.T \in {"bool", "string"} -> [kind |-> <<t.T>>]
    [] t.T = "slice" -> [kind |-> <<"slice">>, elem |-> GoType(t.elem)]
    [] t.T = "array" -> [kind |-> <<"array">>, elem |-> GoType(t.elem), len |-> t.size]
    [] t.T = "bytes" -> [kind |-> <<"slice">>, elem |-> [kind |-> <<"uint", 1>>]]
    [] OTHER -> [kind |-> <<"array">>, elem |-> [kind |-> <<"uint", 1>>], len |-> t.size]

Kind(t) == GoType(t).kind

requiresLengthPrefix(t) == t.T \in {"string", "bytes", "slice"}

Index(x, i) == [g |-> x.g.elem, v |-> x.v[i]]

\* Only the first element of an array is looked at, which panics when there is
\* none; pack looks at the others.
RECURSIVE sliceTypeCheck(_, _)
sliceTypeCheck(t, x) ==
  IF x.g.kind \notin {<<"slice">>, <<"array">>} THEN "type"
  ELSE IF t.T = "array" /\ Len(x.v) # t.size THEN "type"
  ELSE IF t.elem.T = "array" /\ x.v = <<>> THEN "panic"
  ELSE IF t.elem.T = "array" \/ (t.elem.T = "slice" /\ x.v # <<>>)
  THEN sliceTypeCheck(t.elem, Index(x, 1))
  ELSE IF x.g.elem.kind # Kind(t.elem) THEN "type" ELSE "ok"

typeCheck(t, x) ==
  IF t.T \in {"slice", "array"} THEN sliceTypeCheck(t, x)
  ELSE IF Kind(t) # x.g.kind THEN "type"
  ELSE IF t.T = "fixedbytes" /\ t.size # Len(x.v) THEN "type"
  ELSE "ok"

(* Packing *)

Zeros(n) == [i \in 1 .. n |-> 0]
RightPad(b, n) == IF n <= Len(b) THEN b ELSE b \o Zeros(n - Len(b))
LeftPad(b, n) == IF n <= Len(b) THEN b ELSE Zeros(n - Len(b)) \o b

U256(n) == [i \in 1 .. W |-> ((n % Modulus) \div (Radix ^ (W - i))) % Radix]

Words(n) == ((n + W - 1) \div W) * W

packBytesSlice(b, n) == U256(n) \o RightPad(b, Words(n))

packElement(t, v) ==
  CASE t.T \in {"int", "uint"} -> U256(v)
    [] t.T = "bool" -> U256(IF v THEN 1 ELSE 0)
    [] t.T = "address" -> LeftPad(v, W)
    [] t.T \in {"string", "bytes"} -> packBytesSlice(v, Len(v))
    [] OTHER -> RightPad(v, W)

RECURSIVE pack(_, _)
pack(t, x) ==
  LET err == typeCheck(t, x)
      each == [i \in 1 .. Len(x.v) |-> pack(t.elem, Index(x, i))]
      bad == {i \in 1 .. Len(x.v) : each[i].err # "ok"}
      all == FlattenSeq([i \in 1 .. Len(x.v) |-> each[i].b])
  IN  IF err # "ok" THEN [b |-> <<>>, err |-> err]
      ELSE IF t.T \notin {"slice", "array"} THEN [b |-> packElement(t, x.v), err |-> "ok"]
      ELSE IF bad # {} THEN each[CHOOSE i \in bad : \A j \in bad : i <= j]
      ELSE [b |-> IF t.T = "slice" THEN packBytesSlice(all, Len(x.v)) ELSE all, err |-> "ok"]

\* The length of the part of fixed size.
inputOffset(ts) ==
  FoldLeft(LAMBDA acc, t : acc + W * (IF t.T = "array" THEN t.size ELSE 1), 0, ts)

\* Head and tail of arguments that are packed already.
Layout(ts, packed) ==
  LET add(acc, i) ==
        IF requiresLengthPrefix(ts[i])
        THEN [head |-> acc.head \o U256(inputOffset(ts) + Len(acc.tail)), tail |-> acc.tail \o packed[i]]
        ELSE [acc EXCEPT !.head = @ \o packed[i]]
      all == FoldLeft(add, [head |-> <<>>, tail |-> <<>>], [i \in 1 .. Len(ts) |-> i])
  IN  all.head \o all.tail

Pack(ts, xs) ==
  LET each == [i \in 1 .. Len(xs) |-> pack(ts[i], xs[i])]
      bad == {i \in 1 .. Len(xs) : each[i].err # "ok"}
  IN  IF Len(ts) # Len(xs) THEN [b |-> <<>>, err |-> "count"]
      ELSE IF bad # {} THEN each[CHOOSE i \in bad : \A j \in bad : i <= j]
      ELSE [b |-> Layout(ts, [i \in 1 .. Len(xs) |-> each[i].b]), err |-> "ok"]

(* Unpacking: a value and an error; reading outside the data is a panic *)

Value(v) == [v |-> v, err |-> "ok"]
Error(e) == [v |-> <<>>, err |-> e]

\* data[from:to]
Slice(data, from, to) ==
  IF 0 <= from /\ from <= to /\ to <= Len(data) THEN Value(SubSeq(data, from + 1, to)) ELSE Error("panic")

SetBytes(b) == FoldLeft(LAMBDA acc, x : acc * Radix + x, 0, b)

\* A native integer is the last bytes, a big one all of them and never negative.
readInteger(t, word) ==
  LET n == SetBytes(SubSeq(word, W - t.size + 1, W))
  IN  IF t.size \notin Native THEN SetBytes(word)
      ELSE IF t.T = "int" /\ 2 * n >= Radix ^ t.size THEN n - Radix ^ t.size ELSE n

readBool(word) ==
  IF SetBytes(word) \in {0, 1} THEN Value(SetBytes(word) = 1) ELSE Error("bool")

readFunctionType(word) ==
  IF \E i \in FuncLen + 1 .. W : word[i] # 0 THEN Error("function") ELSE Value(SubSeq(word, 1, FuncLen))

Reaches(offset, n, data) == offset + W + n <= Len(data)

\* Where the data behind an offset begins and its length.
lengthPrefixPointsTo(index, data) ==
  LET offset == SetBytes(SubSeq(data, index + 1, index + W))
      n == SetBytes(SubSeq(data, offset + 1, offset + W))
  IN  IF offset + W > Len(data) THEN Error("offset")
      ELSE IF ~Reaches(offset, n, data) THEN Error("length")
      ELSE Value([start |-> offset + W, len |-> n])

RECURSIVE getFullElemSize(_)
getFullElemSize(t) == IF t.T = "array" THEN t.size * getFullElemSize(t.elem) ELSE W

RECURSIVE toGoType(_, _, _)

\* size elements, a word apart in slices.
forEachUnpack(t, data, start, size) ==
  LET step == IF t.T = "array" THEN getFullElemSize(t.elem) ELSE W
      each == [j \in 1 .. size |-> toGoType(start + (j - 1) * step, t.elem, data)]
      bad == {j \in 1 .. size : each[j].err # "ok"}
  IN  IF start + W * size > Len(data) THEN Error("boundary")
      ELSE IF bad # {} THEN each[CHOOSE i \in bad : \A j \in bad : i <= j]
      ELSE Value([j \in 1 .. size |-> each[j].v])

toGoType(index, t, data) ==
  LET at == lengthPrefixPointsTo(index, data)
      word == SubSeq(data, index + 1, index + W)
  IN  IF index + W > Len(data) THEN Error("short")
      ELSE IF requiresLengthPrefix(t)
      THEN IF at.err # "ok" THEN at
           ELSE IF t.T = "slice" THEN forEachUnpack(t, data, at.v.start, at.v.len)
           ELSE Slice(data, at.v.start, at.v.start + at.v.len)
      ELSE CASE t.T = "array" -> forEachUnpack(t, data, index, t.size)
             [] t.T \in {"int", "uint"} -> Value(readInteger(t, word))
             [] t.T = "bool" -> readBool(word)
             [] t.T = "address" -> Value(SubSeq(word, W - AddrLen + 1, W))
             [] t.T = "fixedbytes" -> Slice(word, 0, t.size)
             [] t.T = "function" -> readFunctionType(word)

getArraySize(t) == getFullElemSize(t) \div W

\* Faulty variant of Place: an array is one argument.
PlaceFlat(ts, i) == W * (i - 1)

\* Where the i-th argument begins: arrays count as many arguments.
Place(ts, i) ==
  W * FoldLeft(LAMBDA acc, t : acc + (IF t.T = "array" THEN getArraySize(t) ELSE 1), 0, SubSeq(ts, 1, i - 1))

UnpackValues(ts, data) ==
  LET each == [i \in 1 .. Len(ts) |-> toGoType(Place(ts, i), ts[i], data)]
      bad == {i \in 1 .. Len(ts) : each[i].err # "ok"}
  IN  IF bad # {} THEN each[CHOOSE i \in bad : \A j \in bad : i <= j]
      ELSE Value([i \in 1 .. Len(ts) |-> each[i].v])

(* Fuzzing: the sets of what may come out *)

Strings == {<<>>} \cup {<<d>> : d \in Draws}

genRandomInSpecialDist ==
  UNION {{n, (Modulus \div 2) - Near + n, (Modulus \div 2) + n, Modulus - Near + n} : n \in 0 .. Near - 1}

fuzzNum(t) ==
  IF t.size \in Native
  THEN {U256(IF t.T = "uint" THEN d ELSE s * d) : d \in Draws, s \in {1, -1}}
  ELSE {U256(n) : n \in genRandomInSpecialDist}

\* Every word is an element.
packFuzzedBytesSlice(fuzzed) ==
  LET n == Len(fuzzed) \div W IN U256(n) \o RightPad(fuzzed, Words(n))

\* Bytes of fixed size come out as nothing.
fuzzElement(t) ==
  CASE t.T \in {"int", "uint"} -> fuzzNum(t)
    [] t.T \in {"string", "bytes"} -> {packBytesSlice(s, Len(s)) : s \in Strings}
    [] t.T = "address" -> {LeftPad([i \in 1 .. AddrLen |-> d], W) : d \in Draws}
    [] t.T = "bool" -> {U256(0), U256(1)}
    [] OTHER -> {<<>>}

\* Arrays have any number of elements, whatever their size.
RECURSIVE fuzz(_)
fuzz(t) ==
  IF t.T \notin {"slice", "array"} THEN fuzzElement(t)
  ELSE LET all == {FlattenSeq(s) : s \in BoundedSeq(fuzz(t.elem), MaxLen)}
       IN  IF t.T = "slice" THEN {packFuzzedBytesSlice(b) : b \in all} ELSE all

Fuzz(ts) == {Layout(ts, f) : f \in {g \in [1 .. Len(ts) -> UNION {fuzz(ts[i]) : i \in 1 .. Len(ts)}] :
                                      \A i \in 1 .. Len(ts) : g[i] \in fuzz(ts[i])}}

--------------------------------------------------------------------------------
(* Reference: the encoding of the ABI specification *)

RECURSIVE Dynamic(_)
Dynamic(t) == requiresLengthPrefix(t) \/ (t.T = "array" /\ Dynamic(t.elem))

RECURSIVE EncodeAll(_, _), Encoding(_, _)

EncodeAll(ts, vs) ==
  LET parts == [i \in 1 .. Len(ts) |-> Encoding(ts[i], vs[i])]
      heads == FoldLeft(LAMBDA acc, i : acc + (IF Dynamic(ts[i]) THEN W ELSE Len(parts[i])), 0,
                        [i \in 1 .. Len(ts) |-> i])
      tails(i) == FlattenSeq([j \in 1 .. i |-> IF Dynamic(ts[j]) THEN parts[j] ELSE <<>>])
  IN  FlattenSeq([i \in 1 .. Len(ts) |->
        IF Dynamic(ts[i]) THEN U256(heads + Len(tails(i - 1))) ELSE parts[i]]) \o tails(Len(ts))

Encoding(t, v) ==
  CASE t.T = "slice" -> U256(Len(v)) \o EncodeAll([i \in 1 .. Len(v) |-> t.elem], v)
    [] t.T = "array" -> EncodeAll([i \in 1 .. Len(v) |-> t.elem], v)
    [] OTHER -> packElement(t, v)

(* The types the code encodes like that: elements of arrays have a fixed size, *)
(* and arrays of arrays come without arguments of variable size, because       *)
(* inputOffset counts the elements of the outer array only.                    *)
Nested(t) == t.T = "array" /\ t.elem.T = "array"
Supported(ts) ==
  /\ \A i \in 1 .. Len(ts) : ts[i].T \in {"slice", "array"} => ~Dynamic(ts[i].elem)
  /\ (\E i \in 1 .. Len(ts) : Nested(ts[i])) => \A i \in 1 .. Len(ts) : ~Dynamic(ts[i])

\* Values of the Go types come out as the specification encodes them, for the
\* types the code supports; only an empty slice of arrays makes it panic.
PackExact(ts, vs) ==
  LET p == Pack(ts, [i \in 1 .. Len(ts) |-> [g |-> GoType(ts[i]), v |-> vs[i]]])
      panics == \E i \in 1 .. Len(ts) : ts[i].T = "slice" /\ vs[i] = <<>> /\ ts[i].elem.T = "array"
  IN  Supported(ts) => IF panics THEN p.err = "panic" ELSE p = [b |-> EncodeAll(ts, vs), err |-> "ok"]

\* The values UnpackValues cannot give back: slices of arrays, whose elements it
\* takes to be a word apart, arrays of size 0, for which it wants a word, and
\* negative integers without a Go type.
RECURSIVE Returned(_, _)
Returned(t, v) ==
  CASE t.T = "slice" -> t.elem.T # "array" /\ \A i \in 1 .. Len(v) : Returned(t.elem, v[i])
    [] t.T = "array" -> t.size > 0 /\ \A i \in 1 .. Len(v) : Returned(t.elem, v[i])
    [] t.T = "int" -> t.size \in Native \/ v >= 0
    [] OTHER -> TRUE

\* What is packed is unpacked to the same values, apart from those.
UnpackExact(ts, vs) ==
  Supported(ts) /\ (\A i \in 1 .. Len(ts) : Returned(ts[i], vs[i])) =>
    UnpackValues(ts, EncodeAll(ts, vs)) = Value(vs)

\* Whatever the data, unpacking it reads nothing outside it: it returns an error
\* or values.
UnpackSafe(ts, data) == UnpackValues(ts, data).err # "panic"

\* Fuzzed call data can be unpacked by the called contract's types, unless they
\* have arrays or bytes of fixed size, or slices of anything longer than a word.
FuzzDecodes(ts) ==
  LET flat(t) == t.T \notin {"array", "fixedbytes", "function"} /\
                 (t.T = "slice" => t.elem.T \in {"int", "uint", "bool", "address"})
  IN  (\A i \in 1 .. Len(ts) : flat(ts[i])) => \A b \in Fuzz(ts) : UnpackValues(ts, b).err = "ok"

-----------------------------------------------------------------------------
(* accounts/abi: the methods of a contract by name (abi.go), the fields of *)
(* a struct that the arguments are unpacked into (reflect.go), and the     *)
(* topics of events (bind/topics.go).                                      *)

(* Methods.  A name is a word and the numbers appended to it.                  *)

\* The method of that name is kept under the name with the count appended.
Renamed(methods, name, n) ==
  IF name \notin DOMAIN methods THEN methods
  ELSE [m \in DOMAIN methods \cup {Append(name, n)} |->
          IF m = Append(name, n) THEN methods[name] ELSE methods[m]]

\* UnmarshalJSON: the functions of a contract, in order; each is its place in
\* the list.
UnmarshalJSON(names) ==
  FoldLeft(LAMBDA methods, i :
             LET r == Renamed(methods, names[i], i - 1)
             IN  [m \in DOMAIN r \cup {names[i]} |-> IF m = names[i] THEN i ELSE r[m]],
           <<>>, [i \in 1 .. Len(names) |-> i])

(* Struct fields.  A struct is a sequence of fields [name, exported, tag]; the *)
(* arguments are [name, indexed]; Cap gives the capitalised names, "" for one  *)
(* that is only underscores.                                                  *)

None == ""

Lookup(m, k) == IF k \in DOMAIN m THEN m[k] ELSE None
Bind(m, k, v) == [x \in DOMAIN m \cup {k} |-> IF x = k THEN v ELSE m[x]]

NotIndexed(args) == SelectSeq(args, LAMBDA a : ~a.indexed)

\* First round: tagged fields.
MapTag(args, acc, f) ==
  LET hits == {i \in 1 .. Len(NotIndexed(args)) : NotIndexed(args)[i].name = f.tag[1]}
  IN  IF acc.err \/ ~f.exported \/ f.tag = <<>> THEN acc
      ELSE IF f.tag[1] = None \/ hits = {} \/ Cardinality(hits) > 1 \/ Lookup(acc.abi, f.tag[1]) # None
      THEN [acc EXCEPT !.err = TRUE]
      ELSE [acc EXCEPT !.abi = Bind(@, f.tag[1], f.name), !.struct = Bind(@, f.name, f.tag[1])]

Taken(acc, field) == Lookup(acc.struct, field) # None

\* Second round: arguments not linked yet, by name.
MapName(fields, Cap, acc, arg) ==
  LET field == Cap[arg.name]
      there == \E i \in 1 .. Len(fields) : fields[i].name = field
      linked == Lookup(acc.abi, arg.name)
  IN  IF acc.err THEN acc
      ELSE IF field = None THEN [acc EXCEPT !.err = TRUE]
      ELSE IF linked # None
      THEN [acc EXCEPT !.err = linked # field /\ Lookup(acc.struct, field) = None /\ there]
      ELSE IF Taken(acc, field) THEN [acc EXCEPT !.err = TRUE]
      ELSE [acc EXCEPT !.abi = IF there THEN Bind(@, arg.name, field) ELSE @,
                       !.struct = Bind(@, field, arg.name)]

mapAbiToStructFields(args, fields, Cap) ==
  FoldLeft(LAMBDA acc, a : MapName(fields, Cap, acc, a),
           FoldLeft(LAMBDA acc, f : MapTag(args, acc, f),
                    [abi |-> <<>>, struct |-> <<>>, err |-> FALSE], fields),
           args)

(* Topics: one word for each indexed argument *)

\* Bytes of an integer's absolute value, right in the word.
Magnitude(n) == U256(IF n < 0 THEN -n ELSE n)

makeTopic(t, v) ==
  CASE t.T \in {"int", "uint"} -> Magnitude(v)
    [] t.T = "bool" -> U256(IF v THEN 1 ELSE 0)
    [] OTHER -> LeftPad(v, W)

\* The field after a topic was parsed into it; old is what was there.
parseTopic(t, topic, old) ==
  CASE t.T = "bool" -> IF topic[W] = 1 THEN TRUE ELSE old
    [] t.T \in {"int", "uint"} -> readInteger(t, topic)
    [] OTHER -> SubSeq(topic, W - t.size + 1, W)

--------------------------------------------------------------------------------

\* Every function of a contract can be called by some name, the last of each
\* name by its own; except that one whose name is another one's with a number
\* may be replaced by an overload of that.
MethodsKept(names) ==
  LET methods == UnmarshalJSON(names)
      clash(i) == \E j \in 1 .. Len(names) : \E n \in 0 .. Len(names) : names[i] = Append(names[j], n)
  IN  \A i \in 1 .. Len(names) :
        /\ ~clash(i) => \E m \in DOMAIN methods : methods[m] = i
        /\ ~clash(i) /\ (\A j \in i + 1 .. Len(names) : names[j] # names[i]) => methods[names[i]] = i

\* A field is set from one argument only, and a tagged field from the argument
\* its tag names, or there is an error.
FieldsMapped(args, fields, Cap) ==
  LET r == mapAbiToStructFields(args, fields, Cap)
  IN  ~r.err =>
        /\ \A a, b \in DOMAIN r.abi : r.abi[a] = r.abi[b] => a = b
        /\ \A a \in DOMAIN r.abi : \E i \in 1 .. Len(fields) : fields[i].name = r.abi[a]
        /\ \A i \in 1 .. Len(fields) :
             fields[i].exported /\ fields[i].tag # <<>> => Lookup(r.abi, fields[i].tag[1]) = fields[i].name

\* The topic a filter is made of is the one an event with that value carries, and
\* the field the event's topic is parsed into gets the value; except for bytes
\* shorter than a word, which events carry on the left, for negative integers in
\* filters, those without a Go type in fields, and for a field that was TRUE.
TopicExact(t, v, old) ==
  LET short == t.T = "fixedbytes" /\ t.size < W
      negative == t.T = "int" /\ v < 0
      event == packElement(t, v)
  IN  /\ ~short /\ ~negative => makeTopic(t, v) = event
      /\ ~short /\ (negative => t.size \in Native) /\ (t.T = "bool" => v \/ ~old) =>
            parseTopic(t, event, old) = v
=============================================================================
