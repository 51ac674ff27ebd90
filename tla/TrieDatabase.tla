---------------------------- MODULE TrieDatabase ----------------------------
(***************************************************************************)
(* The node database between tries and disk (trie/database.go): nodes in   *)
(* memory with counted references, garbage collected when the last one     *)
(* goes, or written to disk by a Commit in two phases.  Nodes are named by *)
(* their hashes, so that the same name always means the same children.  A  *)
(* goroutine stores tries (hasher.store, node by node), one commits, one   *)
(* gives up references, one adds preimages; the process may crash.         *)
(*                                                                         *)
(* At the end, as a state machine of its own, the tries with hashed keys   *)
(* (trie/secure_trie.go) that hand their keys to the node database.        *)
(***************************************************************************)
EXTENDS Naturals, Integers, Sequences, FiniteSets, FiniteSetsExt, SequencesExt

CONSTANTS
    Nodes,
    Sub,          \* Sub[n]: the nodes whose hashes n holds
    Roots,        \* the nodes that are roots of tries
    Preimages,
    Chunk,        \* IdealBatchSize, in nodes or preimages
    MaxRefs, MaxStores, MaxCommits,
    Names,        \* keys of tries with hashed keys
    MaxCalls

VARIABLES
    nodes,        \* in memory: [parents, children]; children are the references counted
    meta,         \* references from outside (the node {} in the code)
    preimages,
    disk, diskPre,
    storing,      \* nodes the hasher has yet to store, the root last
    commit,       \* the Commit under way: [phase, todo, pre, root]
    leaked,       \* a read lock was never released
    stores, commits,
    referenced,   \* history: the callers' own count of references
    waiting,      \* history: roots stored, and not referenced yet
    committed,    \* history: roots a Commit reported as written
    given,        \* history: preimages handed over
    raced, preRaced,
    secure,       \* secure[t]: the keys with values
    secKeyCache,  \* secKeyCache[t]: the keys t remembers, in the map t owns
    owned,        \* owned[t]: t is secKeyCacheOwner of its map
    keysKnown,    \* keys the node database knows
    orphans,      \* history: keys that t has from its original, which had not committed them
    refused,      \* history: keys that a Delete forgot and could not remove
    calls

vars == <<nodes, meta, preimages, disk, diskPre, storing, commit, leaked, stores, commits,
          referenced, waiting, committed, given, raced, preRaced>>

Reach[n \in Nodes] == {n} \cup UNION {Reach[c] : c \in Sub[n]}
Available == DOMAIN nodes \cup disk
Live == {r \in Roots : referenced[r] > 0} \cup waiting \cup committed
Protected == UNION {Reach[r] : r \in Live}

Idle == [phase |-> "idle", todo |-> <<>>, pre |-> {}, root |-> 0]

Without(f, S) == [n \in DOMAIN f \ S |-> f[n]]

\* Nobody holds the read lock: writers may enter.
Unlocked == commit.phase \notin {"preimages", "nodes"} /\ ~leaked

Init ==
    /\ nodes = <<>> /\ meta = [r \in Roots |-> 0] /\ preimages = {}
    /\ disk = {} /\ diskPre = {}
    /\ storing = <<>> /\ commit = Idle /\ leaked = FALSE
    /\ stores = 0 /\ commits = 0
    /\ referenced = [r \in Roots |-> 0] /\ waiting = {} /\ committed = {} /\ given = {}
    /\ raced = FALSE /\ preRaced = FALSE

-----------------------------------------------------------------------------
(* References.                                                             *)
insert(ns, n) ==
    IF n \in DOMAIN ns THEN ns
    ELSE [m \in DOMAIN ns \cup {n} |-> IF m = n THEN [parents |-> 0, children |-> {}] ELSE ns[m]]

\* From another node; at most once.
reference(ns, child, parent) ==
    IF child \notin DOMAIN ns \/ child \in ns[parent].children THEN ns
    ELSE [ns EXCEPT ![child].parents = @ + 1, ![parent].children = @ \cup {child}]

RECURSIVE release(_, _)

\* dereference, the child's side: the last reference takes the node along,
\* with the references it holds.
release(ns, n) ==
    IF n \notin DOMAIN ns THEN ns
    ELSE IF ns[n].parents # 1 THEN [ns EXCEPT ![n].parents = @ - 1]
    ELSE Without(FoldSet(LAMBDA c, acc : release(acc, c), ns, ns[n].children), {n})

\* hasher.store for one node: under the lock, the node and its references.
StoreNode(ns, n) ==
    FoldSet(LAMBDA c, acc : reference(acc, c, n), insert(ns, n), Sub[n])

\* Children before parents, as hasher.hash and Database.commit go.
RECURSIVE PostOrder(_, _)
PostOrder(n, kids) ==
    FlattenSeq([i \in 1..Cardinality(kids[n]) |-> PostOrder(SetToSeq(kids[n])[i], kids)]) \o <<n>>

\* A Trie.Commit begins.  Nodes that came from the database are not stored
\* again: they belong to a trie that is referenced.
Begin(r) ==
    /\ storing = <<>> /\ stores < MaxStores
    /\ \E clean \in SUBSET (Reach[r] \cap Protected \cap Available) :
        LET kids == [n \in Nodes |-> Sub[n] \ clean]
        IN  /\ r \notin clean
            /\ clean \subseteq UNION {Sub[n] : n \in Reach[r] \ clean}
            /\ storing' = PostOrder(r, kids)
    /\ stores' = stores + 1
    /\ UNCHANGED <<nodes, meta, preimages, disk, diskPre, commit, leaked, commits, referenced,
                   waiting, committed, given, raced, preRaced>>

Store ==
    /\ storing # <<>> /\ Unlocked
    /\ nodes' = StoreNode(nodes, Head(storing))
    /\ storing' = Tail(storing)
    /\ waiting' = IF Len(storing) = 1 THEN waiting \cup {Head(storing)} ELSE waiting
    /\ UNCHANGED <<meta, preimages, disk, diskPre, commit, leaked, stores, commits, referenced,
                   committed, given, raced, preRaced>>

\* Reference(r, {}): under the read lock only.  A node that is not in memory
\* came from disk and is not counted.
Reference(r) ==
    /\ r \in waiting \/ referenced[r] > 0
    /\ referenced[r] < MaxRefs
    /\ IF r \in DOMAIN nodes
       THEN nodes' = [nodes EXCEPT ![r].parents = @ + 1] /\ meta' = [meta EXCEPT ![r] = @ + 1]
       ELSE UNCHANGED <<nodes, meta>>
    /\ referenced' = [referenced EXCEPT ![r] = @ + 1]
    /\ waiting' = waiting \ {r}
    /\ UNCHANGED <<preimages, disk, diskPre, storing, commit, leaked, stores, commits, committed,
                   given, raced, preRaced>>

\* Dereference(r, {}): the count of a reference that was not counted is -1.
\* raced: somebody is in the middle of storing a trie, or has stored the same
\* one and not referenced it yet.
Dereference(r) ==
    /\ referenced[r] > 0 /\ Unlocked
    /\ meta' = [meta EXCEPT ![r] = @ - 1]
    /\ nodes' = release(nodes, r)
    /\ referenced' = [referenced EXCEPT ![r] = @ - 1]
    /\ raced' = (raced \/ storing # <<>> \/ r \in waiting)
    /\ UNCHANGED <<preimages, disk, diskPre, storing, commit, leaked, stores, commits, waiting,
                   committed, given, preRaced>>

\* SecureTrie.Commit hands over the keys it has hashed.  preRaced: between the
\* two phases of a Commit.
InsertPreimage(p) ==
    /\ p \notin given /\ Unlocked
    /\ preimages' = preimages \cup {p}
    /\ given' = given \cup {p}
    /\ preRaced' = (preRaced \/ commit.phase = "clear")
    /\ UNCHANGED <<nodes, meta, disk, diskPre, storing, commit, leaked, stores, commits, referenced,
                   waiting, committed, raced>>

-----------------------------------------------------------------------------
(* Commit.  The first phase holds the read lock.                           *)
Steady == <<nodes, meta, storing, stores, referenced, waiting, given, raced, preRaced>>

CommitBegin(r) ==
    /\ commit.phase = "idle" /\ commits < MaxCommits
    /\ r \in waiting \/ referenced[r] > 0
    /\ commit' = [phase |-> "preimages", todo |-> <<>>, pre |-> preimages, root |-> r]
    /\ commits' = commits + 1
    /\ UNCHANGED <<Steady, preimages, disk, diskPre, leaked, committed>>

\* A full batch of preimages is written; when that fails the read lock stays.
FlushPreimages ==
    /\ commit.phase = "preimages" /\ Cardinality(commit.pre) >= Chunk
    /\ \/ \E batch \in kSubset(Chunk, commit.pre) :
            /\ diskPre' = diskPre \cup batch
            /\ commit' = [commit EXCEPT !.pre = @ \ batch]
            /\ UNCHANGED leaked
       \/ /\ leaked' = TRUE /\ commit' = Idle
          /\ UNCHANGED diskPre
    /\ UNCHANGED <<Steady, preimages, disk, commits, committed>>

\* The order in which commit puts the nodes into the batch.
Order(r) ==
    IF r \notin DOMAIN nodes THEN <<>>
    ELSE PostOrder(r, [n \in DOMAIN nodes |-> nodes[n].children \cap DOMAIN nodes])

CommitNodes ==
    /\ commit.phase = "preimages" /\ Cardinality(commit.pre) < Chunk
    /\ commit' = [commit EXCEPT !.phase = "nodes", !.todo = Order(commit.root)]
    /\ UNCHANGED <<Steady, preimages, disk, diskPre, leaked, commits, committed>>

\* A batch is written as a whole or not at all; then the lock is released.
\* The last batch has the rest of the preimages and is followed by the second
\* phase.
Flush ==
    LET n == Min({Chunk, Len(commit.todo)})
        batch == {commit.todo[i] : i \in 1..n}
        last == Len(commit.todo) < Chunk
    IN  /\ commit.phase = "nodes"
        /\ \/ /\ disk' = disk \cup batch
              /\ diskPre' = diskPre \cup commit.pre
              /\ commit' = [commit EXCEPT !.todo = SubSeq(@, n + 1, Len(@)), !.pre = {},
                                          !.phase = IF last THEN "clear" ELSE "nodes"]
           \/ commit' = Idle /\ UNCHANGED <<disk, diskPre>>
        /\ UNCHANGED <<Steady, preimages, leaked, commits, committed>>

\* Faulty variant of uncached: everything in memory goes.
uncachedAll(r) == DOMAIN nodes

\* The node and what it references in memory.
RECURSIVE uncached(_)
uncached(r) ==
    IF r \notin DOMAIN nodes THEN {} ELSE {r} \cup UNION {uncached(c) : c \in nodes[r].children}

\* The second phase: all preimages are forgotten, and so are the nodes.
CommitClear ==
    /\ commit.phase = "clear" /\ Unlocked
    /\ preimages' = {}
    /\ nodes' = Without(nodes, uncached(commit.root))
    /\ committed' = committed \cup {commit.root}
    /\ commit' = Idle
    /\ UNCHANGED <<meta, disk, diskPre, storing, leaked, stores, commits, referenced, waiting, given,
                   raced, preRaced>>

\* The process ends and starts again: what is on disk is left.
Crash ==
    /\ nodes # <<>>
    /\ nodes' = <<>> /\ meta' = [r \in Roots |-> 0] /\ preimages' = {}
    /\ storing' = <<>> /\ commit' = Idle /\ leaked' = FALSE
    /\ referenced' = [r \in Roots |-> 0] /\ waiting' = {}
    /\ given' = given \cap diskPre
    /\ UNCHANGED <<disk, diskPre, stores, commits, committed, raced, preRaced>>

Next ==
    \/ \E r \in Roots : Begin(r) \/ Reference(r) \/ Dereference(r) \/ CommitBegin(r)
    \/ Store \/ FlushPreimages \/ CommitNodes \/ Flush \/ CommitClear \/ Crash
    \/ \E p \in Preimages : InsertPreimage(p)

Spec == Init /\ [][Next]_vars

-----------------------------------------------------------------------------
(* A trie that is referenced, or reported as written, is complete: every   *)
(* node of it is found in memory or on disk, at any point of a Commit,     *)
(* unless a reference was given up while a trie was being stored, or had   *)
(* been and was not referenced.                                            *)
MissingNeedsRace == ~raced => Protected \subseteq Available

(* At any moment the disk alone holds whole tries: a node never goes there *)
(* before its children, so that a crash within a Commit leaves no trie     *)
(* with holes.                                                             *)
DiskClosed == ~raced => \A n \in disk : Sub[n] \subseteq disk

(* What nobody references is collected: nodes in memory belong to a        *)
(* referenced trie, to one about to be, or to one being stored.  (A node   *)
(* that was shared with a trie written to disk and is stored again can     *)
(* stay: the reference of its old parent is not counted twice, and the     *)
(* count falls below zero.)                                                *)
GarbageCollected ==
    ~raced /\ storing = <<>> =>
        \A n \in DOMAIN nodes \ disk : \E r \in Roots :
            n \in Reach[r] /\ (referenced[r] > 0 \/ r \in waiting)

(* A preimage is kept in memory or on disk until the process ends, unless  *)
(* it came between the two phases of a Commit.                             *)
PreimageLossNeedsRace == ~preRaced => given \subseteq preimages \cup diskPre

(* Nothing that is needed is lost, and nothing else kept, but for races.   *)
NodesKept == MissingNeedsRace /\ DiskClosed /\ GarbageCollected /\ PreimageLossNeedsRace

-----------------------------------------------------------------------------
(* Tries with hashed keys: which keys a trie can still name.  A trie keeps *)
(* the keys it was given until Commit hands them to the node database; a   *)
(* copy shares that map with its original until it first looks at it, and  *)
(* then starts an empty one.                                               *)
SecureTries == {1, 2}

secureVars == <<secure, secKeyCache, owned, keysKnown, orphans, refused, calls>>

SecureInit ==
    /\ secure = [t \in SecureTries |-> {}] /\ secKeyCache = [t \in SecureTries |-> {}]
    /\ owned = [t \in SecureTries |-> FALSE]
    /\ keysKnown = {} /\ calls = 0
    /\ orphans = [t \in SecureTries |-> {}] /\ refused = [t \in SecureTries |-> {}]

Called == calls < MaxCalls /\ calls' = calls + 1

\* getSecKeyCache: the map of t, a new one if it belongs to another.
getSecKeyCache(t) == IF owned[t] THEN secKeyCache[t] ELSE {}
Own(t, keys) == owned' = [owned EXCEPT ![t] = TRUE] /\ secKeyCache' = [secKeyCache EXCEPT ![t] = keys]

\* A node may be missing: then nothing is stored or remembered.
TryUpdate(t, k) ==
    /\ Called
    /\ \/ /\ secure' = [secure EXCEPT ![t] = @ \cup {k}]
          /\ Own(t, getSecKeyCache(t) \cup {k})
       \/ UNCHANGED <<secure, owned, secKeyCache>>
    /\ UNCHANGED <<keysKnown, orphans, refused>>

\* The key is forgotten before it is known whether it can be removed.
TryDelete(t, k) ==
    /\ Called
    /\ Own(t, getSecKeyCache(t) \ {k})
    /\ \/ secure' = [secure EXCEPT ![t] = @ \ {k}] /\ UNCHANGED refused
       \/ refused' = [refused EXCEPT ![t] = @ \cup {k}] /\ UNCHANGED secure
    /\ UNCHANGED <<keysKnown, orphans>>

GetKey(t, k) == k \in getSecKeyCache(t) \/ k \in keysKnown

SecureCommit(t) ==
    /\ Called
    /\ keysKnown' = keysKnown \cup getSecKeyCache(t)
    /\ Own(t, {})
    /\ UNCHANGED <<secure, orphans, refused>>

\* Trie 2 becomes a copy of trie 1.
SecureCopy ==
    /\ Called
    /\ secure' = [secure EXCEPT ![2] = secure[1]]
    /\ secKeyCache' = [secKeyCache EXCEPT ![2] = secKeyCache[1]]
    /\ owned' = [owned EXCEPT ![2] = FALSE]
    /\ orphans' = [orphans EXCEPT ![2] = orphans[1] \cup getSecKeyCache(1)]
    /\ refused' = [refused EXCEPT ![2] = refused[1]]
    /\ UNCHANGED keysKnown

SecureNext ==
    \/ \E t \in SecureTries : SecureCommit(t) \/ \E k \in Names : TryUpdate(t, k) \/ TryDelete(t, k)
    \/ SecureCopy

SecureSpec == SecureInit /\ [][SecureNext]_secureVars

(* The key behind every hashed key in a trie is found, unless the trie is  *)
(* a copy and the key was not committed before, or a Delete of the key     *)
(* failed after it had been forgotten.                                     *)
KeysKnown ==
    \A t \in SecureTries : \A k \in secure[t] \ (orphans[t] \cup refused[t]) : GetKey(t, k)
=============================================================================
