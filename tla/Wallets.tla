------------------------------ MODULE Wallets -------------------------------
(***************************************************************************)
(* The wallets of a KeyStore (accounts/keystore/keystore.go) and the       *)
(* Manager that follows them (accounts/manager.go): refreshWallets brings  *)
(* the list of wallets in line with the accounts of the cache under ks.mu  *)
(* and sends its events after releasing it; the Manager takes a snapshot,  *)
(* subscribes, and applies the events to its own list.                     *)
(*                                                                         *)
(* A wallet is <<url, address>>, urls are numbers in their order.  raced   *)
(* is history: see ManagerStaleNeedsRace.                                  *)
(***************************************************************************)
EXTENDS Naturals, Sequences, SequencesExt, FiniteSets

CONSTANTS
    Urls, Keys,   \* files and the addresses in them
    Refreshers,   \* goroutines that call refreshWallets
    Buffer,       \* capacity of am.updates
    MaxChanges    \* bound on changes to the accounts

Am == "manager"   \* the goroutine in NewManager
Senders == Refreshers \cup {Am}

VARIABLES
    accs,         \* the accounts of the cache, a set of <<url, address>>
    changes,
    wallets,      \* ks.wallets
    outbox,       \* events each goroutine has yet to send
    start,        \* NewManager: "new", "copy", "subscribe", "running", "closed"
    updates,      \* the channel am.updates
    amWallets,    \* am.wallets
    raced

vars == <<accs, changes, wallets, outbox, start, updates, amWallets, raced>>

Less(v, w) == v[1] < w[1]
Arrived(w) == [kind |-> "arrived", wallet |-> w]
Dropped(w) == [kind |-> "dropped", wallet |-> w]

Init ==
    /\ accs \in {{}} \cup {{<<u, k>>} : u \in Urls, k \in Keys}
    /\ changes = 0
    /\ wallets = SetToSeq(accs)
    /\ outbox = [r \in Senders |-> <<>>]
    /\ start = "new" /\ updates = <<>> /\ amWallets = <<>>
    /\ raced = FALSE

\* The cache is told of a new, a removed or a replaced key file.
Change ==
    /\ changes < MaxChanges
    /\ changes' = changes + 1
    /\ \E u \in Urls, k \in Keys \cup {0} :
        /\ accs' = {w \in accs : w[1] # u} \cup (IF k = 0 THEN {} ELSE {<<u, k>>})
        /\ accs' # accs
    /\ UNCHANGED <<wallets, outbox, start, updates, amWallets, raced>>

-----------------------------------------------------------------------------
(* refreshWallets: both lists are sorted and are walked in step.           *)

\* One turn of the loop: l.old are the wallets left, l.new those of the result.
Turn(l, account) ==
    LET old == SelectSeq(l.old, LAMBDA w : ~Less(w, account))
        gone == SelectSeq(l.old, LAMBDA w : Less(w, account))
        events == l.events \o [i \in DOMAIN gone |-> Dropped(gone[i])]
    IN  IF old = <<>> \/ Less(account, Head(old))
        THEN [old |-> old, new |-> Append(l.new, account), events |-> Append(events, Arrived(account))]
        ELSE IF Head(old) = account
        THEN [old |-> Tail(old), new |-> Append(l.new, account), events |-> events]
        ELSE [old |-> old, new |-> l.new, events |-> events]

\* Faulty variant of Walk: wallets behind the last account go unannounced.
WalkSilent(accounts) ==
    FoldLeft(Turn, [old |-> wallets, new |-> <<>>, events |-> <<>>], accounts)

Walk(accounts) ==
    LET l == FoldLeft(Turn, [old |-> wallets, new |-> <<>>, events |-> <<>>], accounts)
    IN  [l EXCEPT !.events = @ \o [i \in DOMAIN l.old |-> Dropped(l.old[i])]]

\* Two goroutines have events to send, or the Manager is about to be told of
\* changes it has seen in its snapshot, or not told of some it has not.
Overlap == \/ \E r, s \in Senders : r # s /\ outbox'[r] # <<>> /\ outbox'[s] # <<>>
           \/ start = "copy" /\ \E r \in Senders : outbox'[r] # <<>>
           \/ start = "subscribe" /\ wallets' # wallets

refreshWallets(r) ==
    LET l == Walk(SetToSortSeq(accs, Less))
    IN  /\ outbox[r] = <<>>
        /\ wallets' = l.new
        /\ outbox' = [outbox EXCEPT ![r] = l.events]
        /\ raced' = (raced \/ Overlap)

\* updater, NewAccount, Delete, Import and Wallets: each refreshes.
Refresh(r) ==
    /\ refreshWallets(r)
    /\ UNCHANGED <<accs, changes, start, updates, amWallets>>

\* Feed.Send, one event after the other; it waits while the channel is full.
Send(r) ==
    /\ outbox[r] # <<>>
    /\ outbox' = [outbox EXCEPT ![r] = Tail(@)]
    /\ \/ start = "running" /\ Len(updates) < Buffer /\ updates' = Append(updates, Head(outbox[r]))
       \/ start # "running" /\ UNCHANGED updates
    /\ UNCHANGED <<accs, changes, wallets, start, amWallets, raced>>

-----------------------------------------------------------------------------
(* The Manager.                                                            *)
Search(slice, w) == SelectInSeq(slice, LAMBDA v : ~Less(v, w))

merge(slice, w) ==
    LET n == Search(slice, w) IN InsertAt(slice, IF n = 0 THEN Len(slice) + 1 ELSE n, w)

\* drop removes what stands at the place where the wallet would be.
drop(slice, w) == LET n == Search(slice, w) IN IF n = 0 THEN slice ELSE RemoveAt(slice, n)

\* NewManager: backend.Wallets refreshes and copies, then Subscribe.
NewManager ==
    /\ \/ /\ start = "new" /\ outbox[Am] = <<>>
          /\ refreshWallets(Am)
          /\ start' = "copy"
          /\ UNCHANGED amWallets
       \/ /\ start = "copy" /\ outbox[Am] = <<>>
          /\ amWallets' = FoldLeft(merge, <<>>, wallets)
          /\ raced' = (raced \/ \E r \in Senders : outbox[r] # <<>>)
          /\ start' = "subscribe"
          /\ UNCHANGED <<wallets, outbox>>
       \/ /\ start = "subscribe"
          /\ start' = "running"
          /\ UNCHANGED <<wallets, outbox, amWallets, raced>>
    /\ UNCHANGED <<accs, changes, updates>>

\* update: apply the next event.
update ==
    /\ start = "running" /\ updates # <<>>
    /\ updates' = Tail(updates)
    /\ LET e == Head(updates)
       IN  amWallets' = IF e.kind = "arrived" THEN merge(amWallets, e.wallet)
                        ELSE drop(amWallets, e.wallet)
    /\ UNCHANGED <<accs, changes, wallets, outbox, start, raced>>

\* Close: update answers and returns; the subscriptions end.
Close ==
    /\ start = "running"
    /\ start' = "closed"
    /\ UNCHANGED <<accs, changes, wallets, outbox, updates, amWallets, raced>>

Next ==
    \/ Change \/ NewManager \/ update \/ Close
    \/ \E r \in Refreshers : Refresh(r)
    \/ \E r \in Senders : Send(r)

Fairness == WF_vars(NewManager) /\ WF_vars(update) /\ \A r \in Senders : WF_vars(Send(r))

Spec == Init /\ [][Next]_vars /\ Fairness

-----------------------------------------------------------------------------
\* Applying events to a list the way the Manager does.
Replay(list, events) ==
    FoldLeft(LAMBDA ws, e : IF e.kind = "arrived" THEN merge(ws, e.wallet) ELSE drop(ws, e.wallet),
             list, events)

(* The events of a refresh are exact: whoever applies them, in order, to   *)
(* the wallets before gets the wallets after, also when several key files  *)
(* came, went and changed in between.                                      *)
EventsExact ==
    \A r \in Senders : Len(outbox'[r]) > Len(outbox[r]) =>
        Replay(wallets, outbox'[r]) = wallets'

(* A refresh leaves no wallet without its account, and a wallet for every  *)
(* account whose file held no other one before; so when files were         *)
(* replaced, the next refresh completes the list.                          *)
RefreshComplete ==
    wallets' # wallets =>
        /\ ToSet(wallets') \subseteq accs
        /\ \A a \in accs : (\A w \in ToSet(wallets) : w[1] = a[1] => w = a) => a \in ToSet(wallets')

Settled == start = "running" /\ updates = <<>> /\ \A r \in Senders : outbox[r] = <<>>

(* When all events have been applied the Manager lists the wallets of the  *)
(* key store, unless two goroutines had events to send at the same time,   *)
(* or wallets came or went while NewManager was between its snapshot and   *)
(* its subscription.                                                       *)
ManagerStaleNeedsRace == Settled /\ ~raced => amWallets = wallets

(* manager.go:186-187: drop "looks up wallets from within the sorted cache *)
(* and removes the ones specified": no other wallet is ever removed.       *)
DropsSpecified ==
    updates # <<>> /\ updates' = Tail(updates) /\ Head(updates).kind = "dropped" =>
        \A w \in ToSet(amWallets) : w[1] # Head(updates).wallet[1] => w \in ToSet(amWallets')
=============================================================================
