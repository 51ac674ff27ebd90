----------------------------- MODULE MCStorage ------------------------------
(***************************************************************************)
(* Storage: tries, walks over them, the node database, the fetching of     *)
(* tries, tries with hashed keys, and the databases below, each checked on *)
(* its own.  part says which of them a behaviour is about; the others stay *)
(* as they are initially.                                                  *)
(***************************************************************************)
EXTENDS Integers, Sequences

CONSTANTS
    Small, Big, MaxOps, MaxLost,                              \* Trie
    Preimages, Chunk, MaxRefs, MaxStores, MaxCommits,         \* TrieDatabase
    MaxCrashes,                                               \* TrieSync
    Names, MaxCalls,                                          \* TrieDatabase: hashed keys
    Values, Closers, MaxBatch, MaxPuts                        \* EthDatabase

VARIABLES
    part, arg,
    root, cachegen, db, content, persisted, lost, ops,
    nodes, meta, preimages, disk, diskPre, storing, commit, leaked, stores, commits,
    referenced, waiting, committed, given, raced, preRaced,
    database, membatch, requests, queue, asked, crashes, failed,
    secure, secKeyCache, owned, keysKnown, orphans, refused, calls,
    store, writes, puts, tables, batched, meter, lock, closer, closed, broken

\* Keys that differ in the first and in the second nibble, and one that
\* continues another.
TrieKeysUsed == {<<0>>, <<1>>, <<4>>, <<0, 1>>}

\* Two tries that share nodes, one of them twice.
DbNodes == {"r", "s", "a", "b", "c", "d"}
DbSub == [n \in DbNodes |->
    CASE n = "r" -> {"a", "b"} [] n = "s" -> {"a", "c"} [] n \in {"a", "c"} -> {"d"} [] OTHER -> {}]

\* A trie with a node used twice by its parent, one used by two, storage tries
\* and code shared by accounts.
To(h) == [hash |-> h, depth |-> 1]
SyncNodes == {"r", "a", "b", "c", "d", "x"}
SyncRefs == [n \in SyncNodes |->
    CASE n = "r" -> <<To("a"), To("b"), To("a")>> [] n = "a" -> <<To("c")>>
      [] n = "b" -> <<To("c"), To("d")>> [] OTHER -> <<>>]
SyncLeaves == [n \in SyncNodes |->
    CASE n = "b" -> <<To("x")>> [] n = "d" -> <<To("x"), To("c")>> [] OTHER -> <<>>]

TrieBase == 4
T == INSTANCE Trie WITH Base <- TrieBase, Keys <- TrieKeysUsed, HashLen <- 11, Gens <- 4, CacheLimit <- 1
D == INSTANCE TrieDatabase WITH Nodes <- DbNodes, Sub <- DbSub, Roots <- {"r", "s"}
Y == INSTANCE TrieSync WITH Root <- "r", Nodes <- SyncNodes, Refs <- SyncRefs, Leaves <- SyncLeaves,
                            RawNodes <- {"x"}
E == INSTANCE EthDatabase WITH Prefix <- <<(<<1>>), <<2>>>>, Keys <- {<<>>, <<1>>, <<2, 1>>}

trieVars == <<root, cachegen, db, content, persisted, lost, ops>>
dbVars == <<nodes, meta, preimages, disk, diskPre, storing, commit, leaked, stores, commits,
            referenced, waiting, committed, given, raced, preRaced>>
syncVars == <<database, membatch, requests, queue, asked, crashes, failed>>
secureVars == <<secure, secKeyCache, owned, keysKnown, orphans, refused, calls>>
ethVars == <<store, writes, puts, tables, batched, meter, lock, closer, closed, broken>>
vars == <<part, arg, trieVars, dbVars, syncVars, secureVars, ethVars>>

Contents == [TrieKeysUsed -> {"none", Small, Big}]
Nothing == [k \in TrieKeysUsed |-> "none"]
Fewer == {c \in Contents : c[<<4>>] = "none"}

\* All hex keys of up to four nibbles, with and without a terminator.
HexKeys ==
    LET plain == UNION {[1..n -> 0..(TrieBase - 1)] : n \in 0..4}
    IN  plain \cup {Append(k, TrieBase) : k \in plain}

Init ==
    /\ part \in {"keys", "trie", "walk", "nodes", "sync", "secure", "eth"}
    /\ arg \in CASE part = "keys" -> HexKeys
                 [] part = "walk" -> (Contents \X {Nothing}) \cup (Fewer \X Fewer)
                 [] OTHER -> {0}
    /\ T!Init /\ D!Init /\ Y!Init /\ D!SecureInit /\ E!Init
    /\ part # "trie" => content = Nothing
    /\ part # "eth" => meter = "off"

Trie == part = "trie" /\ T!Next /\ UNCHANGED <<part, arg, dbVars, syncVars, secureVars, ethVars>>
NodeDb == part = "nodes" /\ D!Next /\ UNCHANGED <<part, arg, trieVars, syncVars, secureVars, ethVars>>
Sync == part = "sync" /\ Y!Next /\ UNCHANGED <<part, arg, trieVars, dbVars, secureVars, ethVars>>
Secure == part = "secure" /\ D!SecureNext /\ UNCHANGED <<part, arg, trieVars, dbVars, syncVars, ethVars>>
Eth == part = "eth" /\ E!Next /\ UNCHANGED <<part, arg, trieVars, dbVars, syncVars, secureVars>>

Next == Trie \/ NodeDb \/ Sync \/ Secure \/ Eth

Spec == Init /\ [][Next]_vars

-----------------------------------------------------------------------------
(* Tries: whatever was inserted, deleted, hashed, written, unloaded and    *)
(* resolved, every key has the value it was given last, the root hash      *)
(* depends on the content alone, and what counts as written is written;    *)
(* every encoding of a key comes back.                                     *)
TrieExact ==
    /\ part = "trie" => T!GetExact /\ T!RootExact /\ T!CleanIsWritten
    /\ part = "keys" => T!KeysExact(arg)

(* Walks: all leaves from any start, in order, also past a missing node;   *)
(* the leaves that one trie has and another has not, and those of both;    *)
(* and proofs show what is so.                                             *)
WalkExact ==
    part = "walk" =>
        /\ arg[2] = Nothing => T!IterationExact(arg[1]) /\ T!RetryExact(arg[1])
        /\ T!DifferenceExact(arg[1], arg[2]) /\ T!UnionExact(arg[1], arg[2])
        /\ T!ProofExact(arg[1], arg[2])

(* Node database: a referenced or written trie is complete and preimages   *)
(* are kept, unless there was a race; no node is on disk without its       *)
(* children; and what nobody references is collected.                      *)
NodesKept == D!NodesKept

(* Fetching: the database has no node without what is below it, also after *)
(* a crash, and nothing is waited for that is not asked for.               *)
SyncComplete == Y!SyncComplete

(* Above and below: a trie with hashed keys can name its keys; no          *)
(* statistics are read from a closed database; and a Close hangs only when *)
(* its metering goroutine had left by itself.                              *)
StoresExact == D!KeysKnown /\ E!NoReadAfterClose /\ E!HangNeedsExit

(* Databases: tables over one database are maps of their own.              *)
TablesApart == E!TablesApart
=============================================================================
