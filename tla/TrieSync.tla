------------------------------ MODULE TrieSync ------------------------------
(***************************************************************************)
(* The scheduler that fetches a trie node by node (trie/sync.go): which    *)
(* hashes to ask for, what to do with the answers, in which order nodes    *)
(* may be written.  Answers arrive in any order, any number of times, or   *)
(* never; writing may fail half-way; the process may crash and start over  *)
(* on the same database.                                                   *)
(***************************************************************************)
EXTENDS Naturals, Sequences, FiniteSets, FiniteSetsExt, SequencesExt

CONSTANTS
    Root, Nodes,
    Refs,        \* Refs[n]: the children of n, a sequence of [hash, depth]
    Leaves,      \* Leaves[n]: the tries and raw entries the leaf callback adds for n
    RawNodes,    \* entries that are not trie nodes
    MaxCrashes

VARIABLES
    database,
    membatch,    \* the nodes complete and not written yet, in their order
    requests,    \* [hash |-> [data, parents, depth, deps, raw]]
    queue,       \* hashes to ask for, with their depths
    asked,       \* hashes that Missing gave out and that were not answered
    crashes,
    failed       \* history: a leaf callback gave an error

vars == <<database, membatch, requests, queue, asked, crashes, failed>>

sched == [requests |-> requests, queue |-> queue, membatch |-> membatch]
Known(s, h) == h \in database \/ h \in ToSet(s.membatch)

NewRequest(depth, parents, raw) ==
    [data |-> FALSE, parents |-> parents, depth |-> depth, deps |-> 0, raw |-> raw]

schedule(s, h, req) ==
    IF h \in DOMAIN s.requests
    THEN [s EXCEPT !.requests[h].parents = @ \o req.parents]
    ELSE [s EXCEPT !.requests = [k \in DOMAIN @ \cup {h} |-> IF k = h THEN req ELSE @[k]],
                   !.queue = @ \cup {[hash |-> h, depth |-> req.depth]}]

\* AddSubTrie and AddRawEntry, below a request or (parent = <<>>) on their own.
Add(s, h, depth, parent, raw) ==
    IF Known(s, h) THEN s
    ELSE schedule(IF parent = <<>> THEN s ELSE [s EXCEPT !.requests[parent[1]].deps = @ + 1],
                  h, NewRequest(depth, parent, raw))

\* commit: the node is complete, and with it the parents that waited for it
\* alone.
RECURSIVE commit(_, _)
commit(s, h) ==
    LET parents == s.requests[h].parents
        done == [s EXCEPT !.membatch = Append(@, h),
                          !.requests = [k \in DOMAIN @ \ {h} |-> @[k]]]
        notify(acc, p) ==
            LET less == [acc EXCEPT !.requests[p].deps = @ - 1]
            IN  IF less.requests[p].deps = 0 THEN commit(less, p) ELSE less
    IN  FoldLeft(notify, done, parents)

\* Faulty variant of Children: what is being fetched counts as there.
ChildrenPending(s, h) ==
    SelectSeq(Refs[h], LAMBDA c : ~Known(s, c.hash) /\ c.hash \notin DOMAIN s.requests)

\* children: the hashes in the node that are not known yet.
Children(s, h) == SelectSeq(Refs[h], LAMBDA c : ~Known(s, c.hash))

\* The callback on the leaves of h schedules what they refer to.
OnLeaves(s, h) ==
    FoldLeft(LAMBDA acc, l : Add(acc, l.hash, 0, <<h>>, l.hash \in RawNodes), s, Leaves[h])

\* Process, for one answer that was asked for.
Processed(s, h) ==
    LET got == [s EXCEPT !.requests[h].data = TRUE]
        called == OnLeaves(got, h)
        kids == Children(called, h)
        waits == [called EXCEPT !.requests[h].deps = @ + Len(kids)]
    IN  IF s.requests[h].raw THEN commit(got, h)
        ELSE IF kids = <<>> /\ called.requests[h].deps = 0 THEN commit(called, h)
        ELSE FoldLeft(LAMBDA acc, c : schedule(acc, c.hash, NewRequest(s.requests[h].depth + c.depth, <<h>>, FALSE)),
                      waits, kids)

Becomes(s) == requests' = s.requests /\ queue' = s.queue /\ membatch' = s.membatch

Empty == [requests |-> <<>>, queue |-> {}, membatch |-> <<>>]

\* NewTrieSync over a database that is empty.
Init ==
    LET s == schedule(Empty, Root, NewRequest(0, <<>>, FALSE))
    IN  /\ database = {} /\ asked = {} /\ crashes = 0 /\ failed = FALSE
        /\ requests = s.requests /\ queue = s.queue /\ membatch = s.membatch

\* Missing(1): the deepest of the hashes to ask for.
Ask ==
    \E q \in queue :
        /\ \A p \in queue : q.depth >= p.depth
        /\ queue' = queue \ {q}
        /\ asked' = asked \cup {q.hash}
        /\ UNCHANGED <<database, membatch, requests, crashes, failed>>

\* Process of one answer, whether it was asked for, comes again or not.
Process(h) ==
    /\ asked' = asked \ {h}
    /\ IF h \notin DOMAIN requests \/ requests[h].data THEN UNCHANGED <<requests, queue, membatch>>
       ELSE Becomes(Processed(sched, h))
    /\ UNCHANGED <<database, crashes, failed>>

\* The callback refuses a leaf, after it may have added something for the
\* leaves before it: the answer counts as there, its children are not asked for.
ProcessFails(h) ==
    /\ h \in DOMAIN requests /\ ~requests[h].data /\ ~requests[h].raw
    /\ Leaves[h] # <<>>
    /\ \E n \in 0..(Len(Leaves[h]) - 1) :
        LET got == [sched EXCEPT !.requests[h].data = TRUE]
        IN  Becomes(FoldLeft(LAMBDA acc, l : Add(acc, l.hash, 0, <<h>>, l.hash \in RawNodes), got,
                             SubSeq(Leaves[h], 1, n)))
    /\ failed' = TRUE
    /\ UNCHANGED <<database, asked, crashes>>

\* Commit: the nodes in their order; an error keeps the batch for the next try.
Commit ==
    /\ membatch # <<>>
    /\ \E n \in 0..Len(membatch) :
        /\ database' = database \cup {membatch[i] : i \in 1..n}
        /\ membatch' = IF n = Len(membatch) THEN <<>> ELSE membatch
    /\ UNCHANGED <<requests, queue, asked, crashes, failed>>

\* The process ends; another scheduler starts on what was written.
Crash ==
    /\ crashes < MaxCrashes
    /\ crashes' = crashes + 1
    /\ Becomes(IF Root \in database THEN Empty ELSE schedule(Empty, Root, NewRequest(0, <<>>, FALSE)))
    /\ asked' = {}
    /\ UNCHANGED <<database, failed>>

Next ==
    \/ Ask \/ Commit \/ Crash
    \/ \E h \in Nodes : Process(h) \/ ProcessFails(h)

Spec == Init /\ [][Next]_vars

-----------------------------------------------------------------------------
Below(h) == {Refs[h][i].hash : i \in DOMAIN Refs[h]} \cup {Leaves[h][i].hash : i \in DOMAIN Leaves[h]}

(* Whatever order the answers come in, and whenever the process ends, the  *)
(* database has no node without everything below it; unless a callback     *)
(* failed and the caller went on.                                          *)
NoHoles == ~failed => \A h \in database : Below(h) \subseteq database

(* Nothing is waited for that nobody will deliver: a request whose answer  *)
(* is there waits for requests still open, one for each time it counted;   *)
(* all others are in the queue or were asked for.  So once nothing is left *)
(* to ask for, the whole trie is there.                                    *)
Waits(h) ==
    FoldSet(LAMBDA k, n : n + Cardinality({i \in DOMAIN requests[k].parents : requests[k].parents[i] = h}),
            0, DOMAIN requests)

NoneForgotten ==
    /\ \A h \in DOMAIN requests :
        IF requests[h].data THEN failed \/ (requests[h].deps = Waits(h) /\ Waits(h) > 0)
        ELSE h \in asked \/ \E q \in queue : q.hash = h
    /\ requests = <<>> => Root \in database \cup ToSet(membatch)

(* A fetched trie is whole, and one that is not yet is still being asked   *)
(* for.                                                                    *)
SyncComplete == NoHoles /\ NoneForgotten
=============================================================================
