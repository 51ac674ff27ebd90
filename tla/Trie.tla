-------------------------------- MODULE Trie --------------------------------
(***************************************************************************)
(* A Merkle Patricia trie (trie/trie.go, hasher.go, node.go): short and    *)
(* full nodes in memory with their cached hashes, the rest behind hashes   *)
(* in the database.  The hash of a node is modelled by the node itself in  *)
(* its collapsed form, which is what the database keeps under it: hashes   *)
(* do not collide.  Base is the number of children besides the value (16   *)
(* in the code).                                                           *)
(***************************************************************************)
EXTENDS Integers, Sequences, FiniteSets, FiniteSetsExt, SequencesExt

-----------------------------------------------------------------------------
(* The encodings of trie keys (trie/encoding.go): key bytes, hex (one      *)
(* nibble each, with or without a terminator), and compact (what nodes on  *)
(* disk hold).  A byte is Base * high + low; Base is 16 in the code, and   *)
(* the flags of the first byte need at least 4.                            *)

CONSTANT Base

Term == Base
hasTerm(hex) == hex # <<>> /\ hex[Len(hex)] = Term
Chop(hex) == SubSeq(hex, 1, Len(hex) - 1)

\* Pairs of nibbles to bytes; an odd one at the end would be read past it.
decodeNibbles(nibbles) ==
    [i \in 1..(Len(nibbles) \div 2) |-> nibbles[2 * i - 1] * Base + nibbles[2 * i]]

hexToCompact(hex) ==
    LET key == IF hasTerm(hex) THEN Chop(hex) ELSE hex
        odd == Len(key) % 2 = 1
        flag == (IF hasTerm(hex) THEN 2 ELSE 0) + (IF odd THEN 1 ELSE 0)
    IN  IF odd THEN <<flag * Base + key[1]>> \o decodeNibbles(Tail(key))
        ELSE <<flag * Base>> \o decodeNibbles(key)

keybytesToHex(str) ==
    [i \in 1..(2 * Len(str)) |->
        IF i % 2 = 1 THEN str[(i + 1) \div 2] \div Base ELSE str[i \div 2] % Base] \o <<Term>>

compactToHex(compact) ==
    LET base == Chop(keybytesToHex(compact))
        full == IF base[1] >= 2 THEN Append(base, Term) ELSE base
    IN  SubSeq(full, 3 - (base[1] % 2), Len(full))

\* hexToKeybytes panics on an odd number of nibbles.
hexToKeybytes(hex) == decodeNibbles(IF hasTerm(hex) THEN Chop(hex) ELSE hex)

\* The length of the common prefix.
prefixLen(a, b) ==
    LET short == IF Len(b) < Len(a) THEN Len(b) ELSE Len(a)
    IN  CHOOSE i \in 0..short :
            /\ \A j \in 1..i : a[j] = b[j]
            /\ i < short => a[i + 1] # b[i + 1]

-----------------------------------------------------------------------------
(* No two hex keys, odd or even, with or without a terminator, share a     *)
(* compact form, and each comes back from it; whole bytes come back from   *)
(* hex.                                                                    *)
KeysExact(hex) ==
    /\ compactToHex(hexToCompact(hex)) = hex
    /\ \A i \in DOMAIN hexToCompact(hex) : hexToCompact(hex)[i] \in 0..(Base * Base - 1)
    /\ Len(hex) % 2 = 1 /\ hasTerm(hex) => keybytesToHex(hexToKeybytes(hex)) = hex

-----------------------------------------------------------------------------
(* The trie                                                                *)

CONSTANTS
    Keys,        \* key bytes
    Small, Big,  \* two values: one that fits into its parent, one that does not
    HashLen,     \* size of a hash: nodes shorter than that stay in their parent
    Gens,        \* the width of a cache generation (2^16 in the code)
    CacheLimit,
    MaxOps, MaxLost

VARIABLES
    root, cachegen,
    db,          \* collapsed nodes that the node database finds
    content,     \* history: what the calls put into the trie
    persisted,   \* history: the content at the last Commit
    lost,        \* history: nodes that the database no longer finds
    ops

Nil == [t |-> "nil"]
Missing == [t |-> "missing"]
Value(v) == [t |-> "value", v |-> v]
HashOf(c) == [t |-> "hash", of |-> c]
Short(key, val, flags) == [t |-> "short", key |-> key, val |-> val, flags |-> flags]
Full(children, flags) == [t |-> "full", children |-> children, flags |-> flags]
NoChildren == [i \in 0..Base |-> Nil]
newFlag == [hash |-> Nil, gen |-> cachegen, dirty |-> TRUE]
IsInner(n) == n.t \in {"short", "full"}

Payloads == {Small, Big}
None == "none"

-----------------------------------------------------------------------------
(* Reading nodes from the database (node.go).  Embedded children have no   *)
(* hash of their own.                                                      *)
RECURSIVE decodeNode(_, _, _)
decodeRef(c, gen) == IF IsInner(c) THEN decodeNode(Nil, c, gen) ELSE c
decodeNode(hash, c, gen) ==
    LET flags == [hash |-> hash, gen |-> gen, dirty |-> FALSE]
    IN  IF c.t = "short" THEN Short(compactToHex(c.key), decodeRef(c.val, gen), flags)
        ELSE Full([i \in 0..Base |-> decodeRef(c.children[i], gen)], flags)

resolveHash(h) == IF h.of \in db THEN decodeNode(h, h.of, cachegen) ELSE Missing
resolve(n) == IF n.t = "hash" THEN resolveHash(n) ELSE n

-----------------------------------------------------------------------------
(* TryGet: the value, and the node with what had to be resolved in it.     *)
StartsWith(key, prefix) == Len(key) >= Len(prefix) /\ SubSeq(key, 1, Len(prefix)) = prefix
Drop(key, n) == SubSeq(key, n + 1, Len(key))

\* A copy of n with a resolved child is as old as this use.
Touched(n) == [n EXCEPT !.flags.gen = cachegen]

RECURSIVE tryGet(_, _)
tryGet(n, key) ==
    CASE n.t = "nil" -> [value |-> None, node |-> n, resolved |-> FALSE, err |-> FALSE]
      [] n.t = "value" -> [value |-> n.v, node |-> n, resolved |-> FALSE, err |-> FALSE]
      [] n.t = "short" ->
            IF ~StartsWith(key, n.key)
            THEN [value |-> None, node |-> n, resolved |-> FALSE, err |-> FALSE]
            ELSE LET r == tryGet(n.val, Drop(key, Len(n.key)))
                 IN  [r EXCEPT !.node = IF ~r.err /\ r.resolved THEN [Touched(n) EXCEPT !.val = r.node] ELSE n]
      [] n.t = "full" ->
            LET r == tryGet(n.children[key[1]], Tail(key))
            IN  [r EXCEPT !.node = IF ~r.err /\ r.resolved
                                   THEN [Touched(n) EXCEPT !.children[key[1]] = r.node] ELSE n]
      [] OTHER ->
            LET child == resolveHash(n)
            IN  IF child = Missing THEN [value |-> None, node |-> n, resolved |-> TRUE, err |-> TRUE]
                ELSE [tryGet(child, key) EXCEPT !.resolved = TRUE]

-----------------------------------------------------------------------------
(* insert and delete: whether anything changed, the new node, and whether  *)
(* a node was missing; in that case the caller keeps the old root.         *)
Same(n) == [dirty |-> FALSE, node |-> n, err |-> FALSE]
Changed(n) == [dirty |-> TRUE, node |-> n, err |-> FALSE]
Failed == [dirty |-> FALSE, node |-> Nil, err |-> TRUE]

\* What becomes of n when its child is r: kept unless the child changed.
Replace(n, r, new) == IF r.err THEN Failed ELSE IF ~r.dirty THEN Same(n) ELSE Changed(new)

WithChild(n, i, child) == Full([n.children EXCEPT ![i] = child], newFlag)

\* A leaf or the rest of a split node.
Rest(key, val) == IF key = <<>> THEN val ELSE Short(key, val, newFlag)

RECURSIVE insert(_, _, _)
insert(n, key, value) ==
    IF key = <<>> THEN [dirty |-> n # value, node |-> value, err |-> FALSE]
    ELSE CASE n.t = "short" ->
            LET m == prefixLen(key, n.key)
                branch == Full([NoChildren EXCEPT ![n.key[m + 1]] = Rest(Drop(n.key, m + 1), n.val),
                                                  ![key[m + 1]] = Rest(Drop(key, m + 1), value)], newFlag)
            IN  IF m = Len(n.key)
                THEN LET r == insert(n.val, Drop(key, m), value)
                     IN  Replace(n, r, Short(n.key, r.node, newFlag))
                ELSE Changed(IF m = 0 THEN branch ELSE Short(SubSeq(key, 1, m), branch, newFlag))
      [] n.t = "full" ->
            LET r == insert(n.children[key[1]], Tail(key), value)
            IN  Replace(n, r, WithChild(n, key[1], r.node))
      [] n.t = "nil" -> Changed(Short(key, value, newFlag))
      [] OTHER ->
            LET rn == resolveHash(n)
            IN  IF rn = Missing THEN Failed
                ELSE LET r == insert(rn, key, value) IN Replace(rn, r, r.node)

\* Faulty variant of Joined: a short node below a short node.
JoinedNested(key, child) == Short(key, child, newFlag)

\* A key leading to a child that may be a short node itself.
Joined(key, child) ==
    IF child.t = "short" THEN Short(key \o child.key, child.val, newFlag)
    ELSE Short(key, child, newFlag)

\* A full node with one child left becomes a short node.
Reduce(n) ==
    LET left == {i \in 0..Base : n.children[i] # Nil}
        pos == CHOOSE i \in left : TRUE
        cnode == IF pos = Term THEN n.children[pos] ELSE resolve(n.children[pos])
    IN  IF Cardinality(left) # 1 THEN Changed(n)
        ELSE IF cnode = Missing THEN Failed
        ELSE IF cnode.t = "short" THEN Changed(Joined(<<pos>>, cnode))
        ELSE Changed(Short(<<pos>>, n.children[pos], newFlag))

RECURSIVE delete(_, _)
delete(n, key) ==
    CASE n.t = "short" ->
            LET m == prefixLen(key, n.key)
            IN  IF m < Len(n.key) THEN Same(n)
                ELSE IF m = Len(key) THEN Changed(Nil)
                ELSE LET r == delete(n.val, Drop(key, m)) IN Replace(n, r, Joined(n.key, r.node))
      [] n.t = "full" ->
            LET r == delete(n.children[key[1]], Tail(key))
            IN  IF r.err \/ ~r.dirty THEN Replace(n, r, n) ELSE Reduce(WithChild(n, key[1], r.node))
      [] n.t = "value" -> Changed(Nil)
      [] n.t = "nil" -> Same(n)
      [] OTHER ->
            LET rn == resolveHash(n)
            IN  IF rn = Missing THEN Failed
                ELSE LET r == delete(rn, key) IN Replace(rn, r, r.node)

-----------------------------------------------------------------------------
(* Hashing (hasher.go).                                                    *)

\* The length of a collapsed node's encoding, up to what tells a node that
\* stays in its parent from one that does not.
RECURSIVE Size(_)
Size(c) ==
    CASE c.t = "nil" -> 1
      [] c.t = "hash" -> HashLen
      [] c.t = "value" -> IF c.v = Big THEN HashLen ELSE 1
      [] c.t = "short" -> 1 + Len(c.key) + Size(c.val)
      [] OTHER -> 1 + MapThenSumSet(LAMBDA i : Size(c.children[i]), 0..Base)

canUnload(flags) == ~flags.dirty /\ (cachegen - flags.gen) % Gens >= CacheLimit

\* The hash is known, and the node need not be written.
UseCache(n, store) == IsInner(n) /\ n.flags.hash # Nil /\ (store => ~n.flags.dirty)

\* hash, hashChildren and store: the hash of n (or n collapsed, when it fits
\* into its parent), n with the hashes cached, and the nodes written.
RECURSIVE hash(_, _, _)
hash(n, store, force) ==
    IF ~IsInner(n) THEN [hashed |-> n, cached |-> n, puts |-> {}]
    ELSE IF UseCache(n, store)
    THEN [hashed |-> n.flags.hash, puts |-> {},
          cached |-> IF store /\ canUnload(n.flags) THEN n.flags.hash ELSE n]
    ELSE LET child == IF n.t = "short" THEN <<hash(n.val, store, FALSE)>>
                      ELSE [i \in 0..Base |-> hash(n.children[i], store, FALSE)]
             collapsed == IF n.t = "short" THEN [t |-> "short", key |-> hexToCompact(n.key), val |-> child[1].hashed]
                          ELSE [t |-> "full", children |-> [i \in 0..Base |-> child[i].hashed]]
             embed == Size(collapsed) < HashLen /\ ~force
             hashed == IF embed THEN collapsed ELSE HashOf(collapsed)
             flags == [n.flags EXCEPT !.hash = IF embed THEN Nil ELSE hashed, !.dirty = @ /\ ~store]
         IN  [hashed |-> hashed,
              cached |-> IF n.t = "short" THEN Short(n.key, child[1].cached, flags)
                         ELSE Full([i \in 0..Base |-> child[i].cached], flags),
              puts |-> UNION {child[i].puts : i \in DOMAIN child}
                        \cup IF store /\ ~embed THEN {collapsed} ELSE {}]

-----------------------------------------------------------------------------
vars == <<root, cachegen, db, content, persisted, lost, ops>>

Counted == ops < MaxOps /\ ops' = ops + 1

\* TryUpdate with a value, TryUpdate with an empty one or TryDelete.
Apply(r, k, v) ==
    IF r.err THEN UNCHANGED <<root, content>>
    ELSE root' = r.node /\ content' = [content EXCEPT ![k] = v]

TryUpdate(k, v) ==
    /\ Counted
    /\ Apply(insert(root, keybytesToHex(k), Value(v)), k, v)
    /\ UNCHANGED <<cachegen, db, persisted, lost>>

TryDelete(k) ==
    /\ Counted
    /\ Apply(delete(root, keybytesToHex(k)), k, None)
    /\ UNCHANGED <<cachegen, db, persisted, lost>>

TryGet(k) ==
    LET r == tryGet(root, keybytesToHex(k))
    IN  /\ Counted
        /\ root' = IF ~r.err /\ r.resolved THEN r.node ELSE root
        /\ UNCHANGED <<cachegen, db, content, persisted, lost>>

\* The empty trie has a hash without a node.
Hash ==
    /\ Counted
    /\ root' = hash(root, FALSE, TRUE).cached
    /\ UNCHANGED <<cachegen, db, content, persisted, lost>>

Commit ==
    LET h == hash(root, TRUE, TRUE)
    IN  /\ Counted
        /\ root' = h.cached
        /\ db' = db \cup h.puts
        /\ lost' = lost \ h.puts
        /\ cachegen' = (cachegen + 1) % Gens
        /\ persisted' = content
        /\ UNCHANGED content

-----------------------------------------------------------------------------
(* A trie with this content in its one right form: no short node below a   *)
(* short node, no full node with less than two children.                   *)
Ref(c) == IF ~IsInner(c) \/ Size(c) < HashLen THEN c ELSE HashOf(c)

RECURSIVE Canonical(_)
Canonical(leaves) ==
    LET first == CHOOSE l \in leaves : TRUE
        common == CHOOSE n \in 0..Len(first[1]) :
                    /\ \A l \in leaves : StartsWith(l[1], SubSeq(first[1], 1, n))
                    /\ n = Len(first[1]) \/ \E l \in leaves : ~StartsWith(l[1], SubSeq(first[1], 1, n + 1))
    IN  IF leaves = {} THEN Nil
        ELSE IF leaves = {<<(<<>>), first[2]>>} THEN Value(first[2])
        ELSE IF common > 0
        THEN [t |-> "short", key |-> hexToCompact(SubSeq(first[1], 1, common)),
              val |-> Ref(Canonical({<<Drop(l[1], common), l[2]>> : l \in leaves}))]
        ELSE [t |-> "full",
              children |-> [i \in 0..Base |->
                  Ref(Canonical({<<Tail(l[1]), l[2]>> : l \in {m \in leaves : m[1][1] = i}}))]]

Leaves(c) == {<<keybytesToHex(k), c[k]>> : k \in {k \in Keys : c[k] # None}}

\* The nodes stored with a collapsed node, itself aside.
RECURSIVE Stored(_)
Stored(c) ==
    CASE c.t = "hash" -> {c.of} \cup Stored(c.of)
      [] c.t = "short" -> Stored(c.val)
      [] c.t = "full" -> UNION {Stored(c.children[i]) : i \in 0..Base}
      [] OTHER -> {}

RootOf(c) == LET n == Canonical(Leaves(c)) IN IF n = Nil THEN Nil ELSE HashOf(n)

\* A trie as New gives it: some content was committed before.
Init ==
    /\ content \in [Keys -> {None, Big}]
    /\ persisted = content
    /\ cachegen = 0 /\ ops = 0 /\ lost = {}
    /\ db = Stored(RootOf(content))
    /\ root = resolve(RootOf(content))

\* New over what was committed last, changes since then are gone.
New ==
    LET h == RootOf(persisted)
    IN  /\ Counted
        /\ h # Nil => h.of \in db
        /\ cachegen' = 0
        /\ root' = IF h = Nil THEN Nil ELSE decodeNode(h, h.of, 0)
        /\ content' = persisted
        /\ UNCHANGED <<db, persisted, lost>>

\* The node database drops a node (a reference given up too early).
Lose ==
    /\ Cardinality(lost) < MaxLost
    /\ \E c \in db : db' = db \ {c} /\ lost' = lost \cup {c}
    /\ UNCHANGED <<root, cachegen, content, persisted, ops>>

Next ==
    \/ \E k \in Keys : (\E v \in Payloads : TryUpdate(k, v)) \/ TryDelete(k) \/ TryGet(k)
    \/ Hash \/ Commit \/ New \/ Lose

Spec == Init /\ [][Next]_vars

-----------------------------------------------------------------------------
(* Whatever was inserted, deleted, hashed, written, unloaded and resolved, *)
(* every key has the value it was given last, or a node is missing.        *)
GetExact ==
    \A k \in Keys :
        LET r == tryGet(root, keybytesToHex(k))
        IN  IF r.err THEN lost # {} ELSE r.value = content[k]

(* The root hash depends on the content alone, not on the way it came      *)
(* about, nor on the hashes cached in the nodes.                           *)
RootExact == hash(root, FALSE, TRUE).hashed = RootOf(content)

(* A node that counts as written is: a clean node with a hash has it in    *)
(* the database, with everything below, and nothing below it is dirty; and *)
(* all of the trie the last Commit reported is there.                      *)
RECURSIVE NoneDirty(_)
NoneDirty(n) ==
    CASE n.t = "short" -> ~n.flags.dirty /\ NoneDirty(n.val)
      [] n.t = "full" -> ~n.flags.dirty /\ \A i \in 0..Base : NoneDirty(n.children[i])
      [] OTHER -> TRUE

RECURSIVE Written(_)
Written(n) ==
    /\ n.t = "hash" => Stored(n) \subseteq db \cup lost
    /\ IsInner(n) /\ ~n.flags.dirty => NoneDirty(n) /\ Stored(n.flags.hash) \subseteq db \cup lost
    /\ n.t = "short" => Written(n.val)
    /\ n.t = "full" => \A i \in 0..Base : Written(n.children[i])

CleanIsWritten == Written(root) /\ Stored(RootOf(persisted)) \subseteq db \cup lost

-----------------------------------------------------------------------------
(* Walking a trie node by node (trie/iterator.go): the iterator with its   *)
(* stack, where it starts, what it skips, the difference and the union of  *)
(* two; and the proofs made of the nodes on the way to a key               *)
(* (trie/proof.go).  An iterator carries the nodes its database finds.     *)

NewIterator(trie, found) ==
    [trie |-> trie, found |-> found, stack |-> <<>>, path |-> <<>>, err |-> "none", key |-> <<>>]

Top(it) == Last(it.stack)
NodeHash(it) == IF it.stack = <<>> THEN Nil ELSE Top(it).hash
AtLeaf(it) == hasTerm(it.path)
pop(it) == [it EXCEPT !.path = SubSeq(@, 1, Top(it).pathlen), !.stack = Front(@)]

\* The child after the one that was processed last: [i, node, path], or none.
nextChild(it) ==
    LET n == Top(it).node
        later == CASE n.t = "full" -> {i \in 0..Base : i > Top(it).index /\ n.children[i] # Nil}
                   [] n.t = "short" -> {0} \ 0..Top(it).index
                   [] OTHER -> {}
        i == Min(later)
    IN  IF later = {} THEN Nil
        ELSE [t |-> "child", i |-> i,
              node |-> IF n.t = "full" THEN n.children[i] ELSE n.val,
              path |-> it.path \o (IF n.t = "full" THEN <<i>> ELSE n.key)]

\* A node behind its hash is read; one that has a hash cached keeps it.
Position(it, node, pathlen) ==
    [node |-> IF node.t = "hash" /\ node.of \in it.found THEN decodeNode(node, node.of, cachegen) ELSE node,
     hash |-> IF node.t = "hash" THEN node ELSE IF IsInner(node) THEN node.flags.hash ELSE Nil,
     index |-> -1, pathlen |-> pathlen]

push(it, st, i, path) ==
    [it EXCEPT !.stack = Append(IF @ = <<>> THEN @ ELSE [@ EXCEPT ![Len(@)].index = i], st), !.path = path]

\* peek: where the iterator goes next, and the iterator itself with the nodes
\* that are done taken off.
Towards(it, st, i, path) ==
    IF st.node.t = "hash" THEN [it |-> it, err |-> "missing"]
    ELSE [it |-> it, err |-> "none", st |-> st, i |-> i, path |-> path]

RECURSIVE Climb(_)
Climb(it) ==
    IF it.stack = <<>> THEN [it |-> it, err |-> "end"]
    ELSE LET c == nextChild(it)
         IN  IF c = Nil THEN Climb(pop(it)) ELSE Towards(it, Position(it, c.node, Len(it.path)), c.i, c.path)

peek(it, descend) ==
    IF it.stack = <<>> THEN Towards(it, Position(it, it.trie, 0), 0, <<>>)
    ELSE Climb(IF descend THEN it ELSE pop(it))

Stepped(p) ==
    IF p.err # "none" THEN [p.it EXCEPT !.err = p.err]
    ELSE [push(p.it, p.st, p.i, p.path) EXCEPT !.err = "none"]

Less(a, b) ==
    LET m == prefixLen(a, b)
    IN  IF m = Len(a) \/ m = Len(b) THEN Len(a) < Len(b) ELSE a[m + 1] < b[m + 1]

\* The next node is not before the key.
Reached(path, key) == ~Less(path, key)

\* seek: forward to just before the first node at or after the key; when a node
\* is missing the key is kept for another try (seekError).
RECURSIVE seek(_, _)
SeekStep(p, key) ==
    IF p.err # "none" THEN [p.it EXCEPT !.err = IF p.err = "end" THEN "end" ELSE "seek", !.key = key]
    ELSE IF Reached(p.path, key) THEN [p.it EXCEPT !.err = "none"]
    ELSE seek(Stepped(p), key)

seek(it, key) == SeekStep(peek(it, StartsWith(key, it.path)), key)

newNodeIterator(trie, found, start) == seek(NewIterator(trie, found), Chop(keybytesToHex(start)))

\* Faulty variant of NextNode: after a seek that failed it goes on from there.
NextNodeStraight(it, descend) == IF it.err = "end" THEN it ELSE Stepped(peek(it, descend))

\* A seek that failed is made again first.
Onward(it, descend) == IF it.err \in {"end", "seek"} THEN it ELSE Stepped(peek(it, descend))
NextNode(it, descend) == Onward(IF it.err = "seek" THEN seek(it, it.key) ELSE it, descend)

\* Iterator.Next until the end, or until a node is missing: the leaves.
RECURSIVE Remaining(_)
Remaining(it) ==
    LET n == NextNode(it, TRUE)
    IN  IF n.err # "none" THEN <<>>
        ELSE (IF AtLeaf(n) THEN <<(<<n.path, Top(n).node.v>>)>> ELSE <<>>) \o Remaining(n)

\* The iterator as it is when it stops at a missing node or at the end.
RECURSIVE Stop(_)
Stop(it) == LET n == NextNode(it, TRUE) IN IF n.err # "none" THEN n ELSE Stop(n)

-----------------------------------------------------------------------------
(* Two iterators.  flip stands for the order of two different hashes.      *)
compareNodes(a, b, flip) ==
    CASE Less(a.path, b.path) -> -1
      [] Less(b.path, a.path) -> 1
      [] NodeHash(a) # NodeHash(b) -> IF flip THEN 1 ELSE -1
      [] AtLeaf(a) /\ Top(a).node # Top(b).node -> IF flip THEN 1 ELSE -1
      [] OTHER -> 0

\* The nodes below an identical node are identical if it has a hash; if not,
\* its children are looked at.
Descends(it) == NodeHash(it) = Nil

\* differenceIterator.Next, after b has moved: onto the next node of b that a
\* does not have.
RECURSIVE Differ(_, _, _)
Differ(a, b, flip) ==
    IF b.err # "none" \/ a.err # "none" THEN <<a, b>>
    ELSE CASE compareNodes(a, b, flip) = -1 -> Differ(NextNode(a, TRUE), b, flip)
           [] compareNodes(a, b, flip) = 1 -> <<a, b>>
           [] OTHER ->
                LET d == Descends(a)
                    nb == NextNode(b, d)
                IN  IF nb.err # "none" THEN <<a, nb>> ELSE Differ(NextNode(a, d), nb, flip)

RECURSIVE Difference(_, _, _)
Difference(a, b, flip) ==
    LET p == Differ(a, NextNode(b, TRUE), flip)
    IN  IF p[2].err # "none" THEN {}
        ELSE (IF AtLeaf(p[2]) THEN {<<p[2].path, Top(p[2]).node.v>>} ELSE {})
                \cup Difference(p[1], p[2], flip)

\* unionIterator.Next for two: the least moves on, after the other has been
\* moved past nodes identical to it.
RECURSIVE Skip(_, _, _)
Skip(least, other, flip) ==
    IF other.err = "none" /\ compareNodes(least, other, flip) = 0
    THEN Skip(least, NextNode(other, Descends(other)), flip) ELSE other

RECURSIVE Union(_, _, _)
Union(a, b, flip) ==
    LET first == b.err # "none" \/ (a.err = "none" /\ compareNodes(a, b, flip) < 1)
        least == IF first THEN a ELSE b
        other == Skip(least, IF first THEN b ELSE a, flip)
        leaf == IF AtLeaf(least) THEN <<(<<least.path, Top(least).node.v>>)>> ELSE <<>>
    IN  IF least.err # "none" THEN <<>> ELSE leaf \o Union(NextNode(least, TRUE), other, flip)

-----------------------------------------------------------------------------
(* Proofs.                                                                 *)

\* The nodes on the way to the key, up to where it ends or leaves the trie, or
\* up to the hash of a node that is missing.
RECURSIVE Way(_, _, _)
Way(n, key, found) ==
    CASE n.t = "short" ->
            <<n>> \o IF StartsWith(key, n.key) THEN Way(n.val, Drop(key, Len(n.key)), found) ELSE <<>>
      [] n.t = "full" -> <<n>> \o Way(n.children[key[1]], Tail(key), found)
      [] n.t = "hash" -> IF n.of \in found THEN Way(decodeNode(n, n.of, cachegen), key, found) ELSE <<n>>
      [] OTHER -> <<>>

\* The nodes that have a hash, and the root; nothing when a node is missing.
Prove(trie, key, found) ==
    LET way == Way(trie, key, found)
        collapsed(i) == hash(way[i], FALSE, i = 1).hashed
    IN  IF way # <<>> /\ Last(way).t = "hash" THEN {}
        ELSE {collapsed(i).of : i \in {j \in DOMAIN way : collapsed(j).t = "hash"}}

RECURSIVE get(_, _)
get(n, key) ==
    CASE n.t = "short" ->
            IF StartsWith(key, n.key) THEN get(n.val, Drop(key, Len(n.key))) ELSE <<key, Nil>>
      [] n.t = "full" -> get(n.children[key[1]], Tail(key))
      [] OTHER -> <<key, n>>

RECURSIVE VerifyProof(_, _, _)
VerifyProof(h, key, proof) ==
    IF h.of \notin proof THEN "missing"
    ELSE LET r == get(decodeNode(h, h.of, 0), key)
         IN  CASE r[2].t = "nil" -> None
               [] r[2].t = "value" -> r[2].v
               [] OTHER -> VerifyProof(r[2], r[1], proof)

-----------------------------------------------------------------------------
Open(c) == LET h == RootOf(c) IN IF h = Nil THEN Nil ELSE decodeNode(h, h.of, 0)
Found(c) == Stored(RootOf(c))

(* From any start, the iterator gives every leaf at or after it, once and  *)
(* in the order of the paths; when a node is missing, on the way to the    *)
(* start or after it, the iterator gives the rest once the node is found,  *)
(* and no leaf before the start.                                           *)
Ordered(leaves) == SetToSortSeq(leaves, LAMBDA a, b : Less(a[1], b[1]))

LeavesFrom(c, start) == Ordered({l \in Leaves(c) : ~Less(l[1], Chop(keybytesToHex(start)))})

IterationExact(c) ==
    \A start \in Keys \cup {<<>>} :
        Remaining(newNodeIterator(Open(c), Found(c), start)) = LeavesFrom(c, start)

RetryExact(c) ==
    \A start \in Keys \cup {<<>>}, gone \in UNION {Stored(n) : n \in Found(c)} :
        LET it == newNodeIterator(Open(c), Found(c) \ {gone}, start)
            stopped == Stop(it)
        IN  Remaining(it) \o Remaining([stopped EXCEPT !.found = Found(c)]) = LeavesFrom(c, start)

(* The difference iterator gives the leaves of the second trie that the    *)
(* first does not have, the union iterator the leaves of both, once each.  *)
DifferenceExact(c, d) ==
    \A flip \in BOOLEAN :
        Difference(NextNode(NewIterator(Open(c), Found(c)), TRUE), NewIterator(Open(d), Found(d)), flip)
            = Leaves(d) \ Leaves(c)

UnionExact(c, d) ==
    \A flip \in BOOLEAN :
        LET u == Union(NewIterator(Open(c), Found(c)), NewIterator(Open(d), Found(d)), flip)
        IN  ToSet(u) = Leaves(c) \cup Leaves(d) /\ IsInjective(u)

(* A proof shows what the trie has; with nodes taken away, or nodes of     *)
(* another trie added, it shows that or nothing, never another value.  It  *)
(* is made of all nodes or, when the database lacks one, not at all.       *)
ProofExact(c, d) ==
    RootOf(c) # Nil =>
        \A k \in Keys :
            LET key == keybytesToHex(k)
                proof == Prove(Open(c), key, Found(c))
            IN  /\ VerifyProof(RootOf(c), key, proof) = c[k]
                /\ \A lacking \in SUBSET proof :
                    VerifyProof(RootOf(c), key, (proof \ lacking) \cup Found(d)) \in {c[k], "missing"}
                /\ \A n \in proof : VerifyProof(RootOf(c), key, proof \ {n}) = "missing"
                /\ \A n \in proof \ {RootOf(c).of} : Prove(Open(c), key, Found(c) \ {n}) = {}
=============================================================================
