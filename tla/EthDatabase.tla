---------------------------- MODULE EthDatabase -----------------------------
(***************************************************************************)
(* The key-value databases (ethdb/): tables, which put a prefix before     *)
(* every key, and their batches, over one store; and the end of a LevelDB  *)
(* database whose metrics goroutine has to be stopped first.               *)
(***************************************************************************)
EXTENDS Naturals, SequencesExt

CONSTANTS
    Prefix,       \* Prefix[t]: what table t puts before its keys
    Keys, Values,
    Closers,      \* goroutines that call Close
    MaxBatch, MaxPuts

VARIABLES
    store,        \* the pairs in the database
    writes,       \* writes[t]: the batch of table t
    puts,
    tables,       \* history: tables[t], the pairs last put through table t
    batched,      \* history: batched[t], the calls on the batch of table t
    meter,        \* the metrics goroutine: "off", "reading", "waiting", "gone"
    lock,         \* who holds quitLock
    closer,       \* closer[c]: "idle", "locked", "answered", "closed"
    closed,
    broken        \* history: the goroutine ended on its own

vars == <<store, writes, puts, tables, batched, meter, lock, closer, closed, broken>>
kvVars == <<store, writes, puts, tables, batched>>
lifeVars == <<meter, lock, closer, closed, broken>>

Tables == DOMAIN Prefix
Nobody == "nobody"

\* A pair replaces the one under the same key.
Set(kv, k, v) == [x \in DOMAIN kv \cup {k} |-> IF x = k THEN v ELSE kv[x]]
Unset(kv, k) == [x \in DOMAIN kv \ {k} |-> kv[x]]

Init ==
    /\ store = <<>> /\ writes = [t \in Tables |-> <<>>] /\ puts = 0
    /\ tables = [t \in Tables |-> <<>>] /\ batched = writes
    /\ meter \in {"off", "reading"} /\ lock = Nobody
    /\ closer = [c \in Closers |-> "idle"] /\ closed = FALSE /\ broken = FALSE

Counted == puts < MaxPuts /\ puts' = puts + 1

-----------------------------------------------------------------------------
(* Tables and batches.                                                     *)
Put(t, k, v) ==
    /\ Counted
    /\ store' = Set(store, Prefix[t] \o k, v)
    /\ tables' = [tables EXCEPT ![t] = Set(@, k, v)]
    /\ UNCHANGED <<writes, batched, lifeVars>>

Delete(t, k) ==
    /\ Counted
    /\ store' = Unset(store, Prefix[t] \o k)
    /\ tables' = [tables EXCEPT ![t] = Unset(@, k)]
    /\ UNCHANGED <<writes, batched, lifeVars>>

Get(t, k) == IF Prefix[t] \o k \in DOMAIN store THEN <<store[Prefix[t] \o k]>> ELSE <<>>

\* Faulty variant of BatchPut: the key goes into the batch as it is.
BatchPutBare(t, k, v) ==
    /\ Counted /\ Len(writes[t]) < MaxBatch
    /\ writes' = [writes EXCEPT ![t] = Append(@, <<k, v>>)]
    /\ batched' = [batched EXCEPT ![t] = Append(@, <<k, v>>)]
    /\ UNCHANGED <<store, tables, lifeVars>>

BatchPut(t, k, v) ==
    /\ Counted /\ Len(writes[t]) < MaxBatch
    /\ writes' = [writes EXCEPT ![t] = Append(@, <<Prefix[t] \o k, v>>)]
    /\ batched' = [batched EXCEPT ![t] = Append(@, <<k, v>>)]
    /\ UNCHANGED <<store, tables, lifeVars>>

\* All pairs in their order; the batch keeps them until Reset.
RECURSIVE Apply(_, _)
Apply(kv, ws) == IF ws = <<>> THEN kv ELSE Apply(Set(kv, Head(ws)[1], Head(ws)[2]), Tail(ws))

Write(t) ==
    /\ Counted
    /\ store' = Apply(store, writes[t])
    /\ tables' = [tables EXCEPT ![t] = Apply(@, batched[t])]
    /\ UNCHANGED <<writes, batched, lifeVars>>

Reset(t) ==
    /\ writes[t] # <<>>
    /\ writes' = [writes EXCEPT ![t] = <<>>]
    /\ batched' = [batched EXCEPT ![t] = <<>>]
    /\ UNCHANGED <<store, puts, tables, lifeVars>>

-----------------------------------------------------------------------------
(* LDBDatabase.Meter and Close.                                            *)

\* A round of statistics; an error ends the goroutine.
Collect ==
    /\ meter = "reading"
    /\ \/ meter' = "waiting" /\ UNCHANGED broken
       \/ meter' = "gone" /\ broken' = TRUE
    /\ UNCHANGED <<kvVars, lock, closer, closed>>

Timeout ==
    /\ meter = "waiting"
    /\ meter' = "reading"
    /\ UNCHANGED <<kvVars, lock, closer, closed, broken>>

Advance(c, from, to) == closer[c] = from /\ closer' = [closer EXCEPT ![c] = to]

CloseLock(c) ==
    /\ lock = Nobody /\ lock' = c
    /\ Advance(c, "idle", "locked")
    /\ UNCHANGED <<kvVars, meter, closed, broken>>

\* Faulty variant of CloseQuit: the goroutine is told, and not waited for.
CloseQuitAsync(c) ==
    /\ meter \in {"waiting", "reading"}
    /\ Advance(c, "locked", "answered")
    /\ UNCHANGED <<kvVars, meter, lock, closed, broken>>

\* quitChan has no buffer: the goroutine takes the channel when it waits, and
\* answers on it at once.
CloseQuit(c) ==
    /\ meter = "waiting"
    /\ Advance(c, "locked", "answered")
    /\ meter' = "gone"
    /\ UNCHANGED <<kvVars, lock, closed, broken>>

CloseStore(c) ==
    /\ Advance(c, IF meter = "off" THEN "locked" ELSE "answered", "closed")
    /\ closed' = TRUE
    /\ lock' = Nobody
    /\ UNCHANGED <<kvVars, meter, broken>>

Next ==
    \/ \E t \in Tables :
        \/ Write(t) \/ Reset(t)
        \/ \E k \in Keys : Delete(t, k) \/ \E v \in Values : Put(t, k, v) \/ BatchPut(t, k, v)
    \/ Collect \/ Timeout
    \/ \E c \in Closers : CloseLock(c) \/ CloseQuit(c) \/ CloseStore(c)

Spec == Init /\ [][Next]_vars

-----------------------------------------------------------------------------
(* No table's prefix starts another's.                                     *)
PrefixFree == \A t, u \in Tables : t # u => ~IsPrefix(Prefix[t], Prefix[u])

(* Tables whose prefixes do not start one another are maps of their own,   *)
(* however their calls and batches mix: each reads what was last put       *)
(* through it and not deleted, and the database below holds nothing else.  *)
TablesApart ==
    PrefixFree =>
        /\ \A t \in Tables, k \in Keys :
            Get(t, k) = IF k \in DOMAIN tables[t] THEN <<tables[t][k]>> ELSE <<>>
        /\ DOMAIN store = UNION {{Prefix[t] \o k : k \in DOMAIN tables[t]} : t \in Tables}

(* The metrics goroutine never reads a database that is closed.            *)
NoReadAfterClose == closed => meter # "reading"

(* A Close that hangs is one whose goroutine ended on its own, or one      *)
(* after another Close.                                                    *)
HangNeedsExit ==
    \A c \in Closers : closer[c] = "locked" /\ meter = "gone" => broken \/ closed
=============================================================================
