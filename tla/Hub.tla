-------------------------------- MODULE Hub ---------------------------------
(***************************************************************************)
(* The list of wallets of a USB hub (accounts/usbwallet/hub.go):           *)
(* refreshWallets merges the devices it enumerates into the list it had    *)
(* and reports what came and went; Subscribe starts the updater, which     *)
(* ends itself when nobody listens any more.                               *)
(*                                                                         *)
(* A device is its path; enumeration lists the paths in order (external).  *)
(* A wallet is an object of its own: another one for the same device has   *)
(* another id.                                                             *)
(***************************************************************************)
EXTENDS Naturals, Sequences, FiniteSets

CONSTANTS
    Devices,    \* device paths, numbers in their order
    HubCallers, \* goroutines that call Wallets
    MaxWallets, \* bound on the wallets ever made
    MaxSubs     \* bound on Subscribe calls

HubAssumption == Devices \subseteq Nat /\ IsFiniteSet(Devices)

VARIABLES
    attached,   \* the devices plugged in
    wallets,    \* hub.wallets
    made,       \* the wallets made so far
    failed,     \* the ids of wallets whose driver reports a failure
    telling,    \* per refresh: the wallets whose arrival or drop it has yet to send
    heard,      \* what a subscriber makes of the events: the ids that are there
    overtaken,  \* history: the ids whose drop was sent before their arrival
    updating,   \* hub.updating
    updaters,   \* the updater goroutines: "sleep" or "count", a sequence
    subs, subscribed,
    scan,       \* per refresh under way: the devices enumerated, and whether they still are
    settled     \* history: refreshes from current scans since a device came or went

hubVars == <<attached, wallets, made, failed, telling, heard, overtaken, updating, updaters, subs, subscribed,
             scan, settled>>
eventVars == <<telling, heard, overtaken>>

Updater == "updater"
HubUsers == HubCallers \cup {Updater}
NoScan == [on |-> FALSE, devices |-> <<>>, current |-> FALSE]
NoEvents == [arrived |-> {}, dropped |-> {}]

HubInit ==
    /\ attached \in SUBSET Devices
    /\ wallets = <<>> /\ made = 0 /\ failed = {}
    /\ telling = [r \in HubUsers |-> NoEvents] /\ heard = {} /\ overtaken = {}
    /\ updating = FALSE /\ updaters = <<>> /\ subs = 0 /\ subscribed = 0
    /\ scan = [r \in HubUsers |-> NoScan] /\ settled = 0

-----------------------------------------------------------------------------
(* refreshWallets, one device after the other: old is what remains of the  *)
(* list, new the list being made.                                          *)
Ids(list) == {list[i].id : i \in DOMAIN list}
UrlsOf(list) == {list[i].url : i \in DOMAIN list}

Start == [old |-> wallets, new |-> <<>>, made |-> made, arrived |-> {}, dropped |-> {}]

\* How many wallets at the front lie before the device and have failed.
Stale(old, url) ==
    LET keep == {i \in DOMAIN old : old[i].url >= url \/ old[i].id \notin failed}
    IN  IF keep = {} THEN Len(old)
        ELSE (CHOOSE i \in keep : \A j \in keep : i <= j) - 1

\* The wallets dropped at the front.
DropStale(acc, url) ==
    LET n == Stale(acc.old, url)
    IN  [old |-> SubSeq(acc.old, n + 1, Len(acc.old)), new |-> acc.new, made |-> acc.made,
         arrived |-> acc.arrived, dropped |-> acc.dropped \cup Ids(SubSeq(acc.old, 1, n))]

\* A device without a wallet, and the one of the first wallet that is left.
Wrap(acc, url) ==
    LET id == acc.made + 1
    IN  [old |-> acc.old, new |-> Append(acc.new, [url |-> url, id |-> id]), made |-> id,
         arrived |-> acc.arrived \cup {id}, dropped |-> acc.dropped]

Keep(acc) ==
    [old |-> Tail(acc.old), new |-> Append(acc.new, Head(acc.old)), made |-> acc.made,
     arrived |-> acc.arrived, dropped |-> acc.dropped]

\* Faulty variant of Merge: after a failed wallet was dropped the device waits.
MergeLate(all, url) ==
    LET acc == DropStale(all, url)
    IN  IF acc.old = <<>> THEN Wrap(acc, url)
        ELSE IF Head(acc.old).url = url THEN Keep(acc)
        ELSE acc

Merge(all, url) ==
    LET acc == DropStale(all, url)
    IN  IF acc.old = <<>> THEN Wrap(acc, url)
        ELSE IF Head(acc.old).url > url THEN Wrap(acc, url)
        ELSE IF Head(acc.old).url = url THEN Keep(acc)
        ELSE acc

\* The loop over the devices.
Merged(devices) ==
    LET acc[i \in 0..Len(devices)] == IF i = 0 THEN Start ELSE Merge(acc[i - 1], devices[i])
    IN  acc[Len(devices)]

\* The devices in the order of their paths.
InOrder(devices) ==
    {s \in [1..Cardinality(devices) -> devices] :
        {s[i] : i \in DOMAIN s} = devices /\ \A i, j \in DOMAIN s : i < j => s[i] < s[j]}

\* refreshWallets, in three parts: the enumeration under commsLock, the merge
\* under stateLock, and the events, which are sent under no lock.
Enumerate(r) ==
    /\ ~scan[r].on /\ telling[r] = NoEvents
    /\ \E s \in InOrder(attached) :
         scan' = [scan EXCEPT ![r] = [on |-> TRUE, devices |-> s, current |-> TRUE]]
    /\ UNCHANGED <<attached, wallets, made, failed, eventVars, updating, subs, subscribed, settled>>

refreshWallets(r) ==
    LET merged == Merged(scan[r].devices)
    IN  /\ scan[r].on /\ merged.made <= MaxWallets
        /\ wallets' = merged.new
        /\ made' = merged.made
        /\ telling' = [telling EXCEPT ![r] = [arrived |-> merged.arrived,
                                              dropped |-> merged.dropped \cup Ids(merged.old)]]
        /\ failed' = failed \cap Ids(merged.new)
        /\ settled' = IF ~scan[r].current THEN 0 ELSE IF settled < 2 THEN settled + 1 ELSE 2
        /\ scan' = [scan EXCEPT ![r] = NoScan]
        /\ UNCHANGED <<attached, heard, overtaken, updating, subs, subscribed>>

\* The arrivals a refresh has yet to send, and the drops.
Arriving == UNION {telling[r].arrived : r \in HubUsers}
Dropping == UNION {telling[r].dropped : r \in HubUsers}

\* Feed.Send, one event after the other.  A refresh has one event at most for a
\* wallet, so that the order of its own events makes no difference to heard.
SendArrived(r) ==
    \E id \in telling[r].arrived :
        /\ heard' = heard \cup {id}
        /\ telling' = [telling EXCEPT ![r] = [arrived |-> telling[r].arrived \ {id},
                                              dropped |-> telling[r].dropped]]
        /\ UNCHANGED overtaken

SendDropped(r) ==
    \E id \in telling[r].dropped :
        /\ heard' = heard \ {id}
        /\ telling' = [telling EXCEPT ![r] = [arrived |-> telling[r].arrived,
                                              dropped |-> telling[r].dropped \ {id}]]
        /\ overtaken' = overtaken \cup ({id} \cap Arriving)

Send(r) ==
    /\ SendArrived(r) \/ SendDropped(r)
    /\ UNCHANGED <<attached, wallets, made, failed, updating, updaters, subs, subscribed, scan, settled>>

\* Wallets, of any caller: a refresh, unless there was one a moment ago.
Wallets(c) == (Enumerate(c) \/ refreshWallets(c)) /\ UNCHANGED updaters

Subscribe ==
    /\ subscribed < MaxSubs
    /\ subscribed' = subscribed + 1 /\ subs' = subs + 1
    /\ updating' = TRUE
    /\ updaters' = IF updating THEN updaters ELSE Append(updaters, "sleep")
    /\ UNCHANGED <<attached, wallets, made, failed, eventVars, scan, settled>>

Unsubscribe ==
    /\ subs > 0 /\ subs' = subs - 1
    /\ UNCHANGED <<attached, wallets, made, failed, eventVars, updating, updaters, subscribed, scan, settled>>

\* updater: asleep, then a refresh, which does nothing when there was one a moment
\* ago or a confirmation is pending, then the count of those who listen.
UpdaterRefresh ==
    \E i \in DOMAIN updaters :
        /\ updaters[i] = "sleep"
        /\ \/ Enumerate(Updater) /\ UNCHANGED updaters
           \/ refreshWallets(Updater) /\ updaters' = [updaters EXCEPT ![i] = "count"]
           \/ /\ ~scan[Updater].on /\ updaters' = [updaters EXCEPT ![i] = "count"]
              /\ UNCHANGED <<attached, wallets, made, failed, eventVars, updating, subs, subscribed,
                             scan, settled>>

UpdaterCount ==
    \E i \in DOMAIN updaters :
        /\ updaters[i] = "count" /\ telling[Updater] = NoEvents
        /\ IF subs = 0
           THEN updating' = FALSE /\ updaters' = SubSeq(updaters, 1, i - 1) \o SubSeq(updaters, i + 1, Len(updaters))
           ELSE updaters' = [updaters EXCEPT ![i] = "sleep"] /\ UNCHANGED updating
        /\ UNCHANGED <<attached, wallets, made, failed, eventVars, subs, subscribed, scan, settled>>

\* The world: devices come and go, a heartbeat fails.
Plug(d) ==
    /\ attached' = IF d \in attached THEN attached \ {d} ELSE attached \cup {d}
    /\ settled' = 0
    /\ scan' = [r \in HubUsers |-> [scan[r] EXCEPT !.current = FALSE]]
    /\ UNCHANGED <<wallets, made, failed, eventVars, updating, updaters, subs, subscribed>>

Fail(i) ==
    /\ failed' = failed \cup {wallets[i].id} /\ failed' # failed
    /\ UNCHANGED <<attached, wallets, made, eventVars, updating, updaters, subs, subscribed, scan, settled>>

HubNext ==
    \/ (\E c \in HubCallers : Wallets(c)) \/ Subscribe \/ Unsubscribe \/ UpdaterRefresh \/ UpdaterCount
    \/ \E r \in HubUsers : Send(r)
    \/ \E d \in Devices : Plug(d)
    \/ \E i \in DOMAIN wallets : Fail(i)

HubSpec == HubInit /\ [][HubNext]_hubVars

-----------------------------------------------------------------------------
(* Following the events gives the list.  A wallet of the list is known to  *)
(* a subscriber unless its arrival is still being sent, and nobody is      *)
(* about to call it dropped; a wallet a subscriber knows that is not in    *)
(* the list is about to be called dropped, or its drop was sent before its *)
(* arrival, by a refresh that overtook the one that made it.  The list is  *)
(* in the order of the devices.                                            *)
HubEventsExact ==
    /\ \A i \in Ids(wallets) : (i \in heard <=> i \notin Arriving) /\ i \notin Dropping
    /\ heard \ Ids(wallets) \subseteq Dropping \cup overtaken
    /\ \A i, j \in DOMAIN wallets : i < j => wallets[i].url < wallets[j].url

(* Whatever one refresh makes of the list, two in a row that scanned the   *)
(* devices as they are give exactly the devices that are attached.         *)
SecondRefreshRepairs == settled = 2 => UrlsOf(wallets) = attached

(* One updater runs while updating is set, and while anybody listens.      *)
OneUpdater ==
    /\ Len(updaters) = IF updating THEN 1 ELSE 0
    /\ subs > 0 => updating

=============================================================================
