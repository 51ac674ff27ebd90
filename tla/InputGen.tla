------------------------------ MODULE InputGen ------------------------------
(***************************************************************************)
(* detectors/common.go: GenerateInputsByABI and its generators.  A number  *)
(* is a *big.Int: a cell of the heap, because GenerateIntBySize appends    *)
(* the result of value.Exp, which is value itself, and because packing a   *)
(* number for a call truncates it in place (math.U256).                    *)
(***************************************************************************)
EXTENDS Integers, Sequences, SequencesExt

CONSTANTS
  Types,    \* argument types: [T |-> "address"], [T |-> "uint", size |-> n], ...
  MaxArgs,  \* bound: arguments of the function
  WordBits  \* width of an EVM word (256)

VARIABLES
  args,     \* types of the function's arguments
  k,        \* arguments passed by the loop of GenerateInputsByABI
  heap,     \* values of the big.Ints
  d         \* one list of inputs for each argument that has a generator

vars == <<args, k, heap, d>>

\* A loop that appends value.Exp(2, i, nil) for each i of powers: every entry is
\* the cell value, which is overwritten each time and keeps the last power.
Exp(g, powers) ==
  [g EXCEPT !.heap[g.value] = 2 ^ powers[Len(powers)], !.res = @ \o [i \in DOMAIN powers |-> g.value]]

\* A loop that appends big.NewInt(x), or tmp.Sub into a new tmp, for each x of xs.
Fresh(g, xs) ==
  [g EXCEPT !.heap = @ \o xs, !.res = @ \o [i \in DOMAIN xs |-> Len(g.heap) + i]]

GenerateIntBySize(h, size) ==
  LET new == [heap |-> Append(h, 0), value |-> Len(h) + 1, res |-> <<>>]
      low == Exp(new, [i \in 1..9 |-> i - 1])
      high == Exp(low, [i \in 1..9 |-> size - 9 + i])
      first == Fresh(high, [i \in 1..8 |-> i])
  IN Fresh(first, [i \in 1..9 |-> 2 ^ size - (i - 1)])

GenerateAddress == [i \in 1..10 |-> i]

\* Prefixes of one list of addresses, the empty one first.
GenerateAddresses == [i \in 1..10 |-> [j \in 1..(i - 1) |-> j]]

Init ==
  /\ args \in UNION {[1..n -> Types] : n \in 0..MaxArgs}
  /\ k = 0 /\ heap = <<>> /\ d = <<>>

\* One turn of the loop over the arguments; other types are passed over.
Input ==
  /\ k < Len(args) /\ k' = k + 1
  /\ LET x == args[k + 1]
         g == GenerateIntBySize(heap, x.size)
     IN CASE x.T = "address[]" -> d' = Append(d, [for |-> x, items |-> GenerateAddresses]) /\ UNCHANGED heap
          [] x.T = "uint" -> d' = Append(d, [for |-> x, items |-> g.res]) /\ heap' = g.heap
          [] x.T = "address" -> d' = Append(d, [for |-> x, items |-> GenerateAddress]) /\ UNCHANGED heap
          [] OTHER -> UNCHANGED <<d, heap>>
  /\ UNCHANGED args

\* Unsigned types whose Go type is not *big.Int: Pack refuses the number.
Native == {8, 16, 32, 64}

Packs == Len(d) = Len(args) /\ \A a \in 1..Len(args) : args[a].T = "uint" => args[a].size \notin Native

\* Pack of a product that cartesian.Iter delivers: the number it holds for one
\* of the arguments is truncated in place.
Pack ==
  /\ k = Len(args) /\ Packs
  /\ \E a \in 1..Len(args) :
       /\ args[a].T = "uint"
       /\ \E p \in ToSet(d[a].items) : heap' = [heap EXCEPT ![p] = @ % 2 ^ WordBits]
  /\ UNCHANGED <<args, k, d>>

Next == Input \/ Pack

-----------------------------------------------------------------------------
\* An unsigned argument is called with the numbers 1 to 8 and the last eight of its
\* type, and with nothing beyond the power of two past them, as a word.  It stays
\* so whichever products were packed before, although packing truncates numbers in
\* place that other products hold too.
BordersCalled ==
  \A a \in 1..Len(d) : d[a].for.T = "uint" =>
    LET n == d[a].for.size
        sent == {heap[p] % 2 ^ WordBits : p \in ToSet(d[a].items)}
    IN (1..8) \cup ((2 ^ n - 8)..(2 ^ n - 1)) \subseteq sent /\ sent \subseteq 0..(2 ^ n)

\* Inputs never slip to another argument: a product that is as long as the
\* argument list, which Pack asks for, has at each place an input made for it.
ProductsAligned ==
  k = Len(args) /\ Len(d) = Len(args) => \A a \in 1..Len(d) : d[a].for = args[a]
=============================================================================
