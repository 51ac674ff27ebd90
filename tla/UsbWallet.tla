----------------------------- MODULE UsbWallet ------------------------------
(***************************************************************************)
(* The life cycle and the locks of one hardware wallet                     *)
(* (accounts/usbwallet/wallet.go) and of the Hub that enumerates devices   *)
(* (hub.go): Open, Close, Derive, SignTx and Accounts called by any        *)
(* goroutine, the heartbeat and selfDerive goroutines each Open starts,    *)
(* and refreshWallets.                                                     *)
(*                                                                         *)
(* stateLock is a sync.RWMutex: a writer that waits keeps new readers out. *)
(* What happens under its write lock is one step, since nobody else can    *)
(* look.  commsLock (one token in a channel) and hub.commsLock are held    *)
(* over several steps.  Channels are numbered by the Open that made them;  *)
(* 0 is the nil channel.                                                   *)
(***************************************************************************)
EXTENDS Naturals

CONSTANTS
    Users,      \* goroutines that call the wallet
    Accts,      \* addresses the device can derive
    MaxOpens,   \* bound on successful Opens
    MaxCalls    \* bound on calls of the users

VARIABLES
    device,     \* w.device # nil
    paths,      \* w.paths: Nil, or the addresses it maps
    listed,     \* w.accounts
    quit,       \* w.healthQuit, w.deriveQuit and w.deriveReq, which change together
    opens,      \* successful Opens so far
    readers,    \* holders of stateLock.RLock
    waiting,    \* goroutines that wait for stateLock.Lock
    comms,      \* the holder of the token of w.commsLock, or Free
    hubComms,   \* the holder of hub.commsLock, or Free
    commsPend,  \* hub.commsPend
    pc, arg,    \* of every goroutine
    calls,
    panicked,   \* an assignment to the nil map
    lost,       \* history: the wallet was closed on somebody about to enter addresses
    early       \* history: addresses were derived for a wallet that was not open yet

vars == <<device, paths, listed, quit, opens, readers, waiting, comms, hubComms,
          commsPend, pc, arg, calls, panicked, lost, early>>

Free == "free"
Nil == {"nil"}
Hub == "hub"
Beat(g) == <<"heartbeat", g>>
Deriver(g) == <<"derive", g>>
Gens == 1..MaxOpens
Beats == {Beat(g) : g \in Gens}
Derivers == {Deriver(g) : g \in Gens}
Procs == {<<"user", u>> : u \in Users} \cup {<<Hub, 0>>} \cup Beats \cup Derivers
User(u) == <<"user", u>>
HubProc == <<Hub, 0>>

Init ==
    /\ device = FALSE /\ paths = Nil /\ listed = {} /\ quit = 0 /\ opens = 0
    /\ readers = {} /\ waiting = {} /\ comms = <<Free>> /\ hubComms = <<Free>> /\ commsPend = 0
    /\ pc = [p \in Procs |-> IF p \in Beats \cup Derivers THEN "none" ELSE "idle"]
    /\ arg = [p \in Procs |-> 0]
    /\ calls = 0 /\ panicked = FALSE /\ lost = FALSE /\ early = FALSE

state == <<device, paths, listed, quit, opens>>
locks == <<readers, waiting, comms, hubComms, commsPend>>
misc == <<calls, panicked, lost, early>>

At(p, l) == pc[p] = l /\ ~panicked
Goto(p, l) == pc' = [pc EXCEPT ![p] = l]
Let(p, v) == arg' = [arg EXCEPT ![p] = v]

-----------------------------------------------------------------------------
(* The locks.                                                              *)
RLock(p) == waiting = {} /\ readers' = readers \cup {p}
RUnlock(p) == readers' = readers \ {p}

\* Waiting for the write lock, with the step it is wanted for.
AskLock(p, l) == waiting' = waiting \cup {p} /\ Goto(p, l)

\* The write lock is taken and released within the step.
Exclusive(p) == p \in waiting /\ readers = {} /\ waiting' = waiting \ {p}

TakeComms(p) == comms = <<Free>> /\ comms' = p
ReleaseComms(p) == comms = p /\ comms' = <<Free>>

\* Those who derived addresses and have yet to enter them.
Pending == \E p \in Procs : pc[p] \in {"pin", "pinning", "insert"}

\* close: the device is gone, so are the accounts.
close ==
    IF device THEN device' = FALSE /\ paths' = Nil /\ listed' = {} /\ lost' = (lost \/ Pending)
    ELSE UNCHANGED <<device, paths, listed, lost>>

\* Entering an address into accounts and paths; a nil map takes none.
Pin(addrs) ==
    LET new == IF paths = Nil THEN addrs ELSE addrs \ paths
    IN  /\ panicked' = (paths = Nil /\ new # {})
        /\ listed' = listed \cup new
        /\ paths' = IF paths = Nil THEN Nil ELSE paths \cup new

-----------------------------------------------------------------------------
(* Calls.                                                                  *)
Call(u, l) ==
    /\ At(User(u), "idle") /\ calls < MaxCalls
    /\ calls' = calls + 1
    /\ Goto(User(u), l)
    /\ UNCHANGED <<state, locks, arg, panicked, lost, early>>

Begin(u) == \E l \in {"open", "close", "derive", "sign", "accounts"} : Call(u, l)

\* Open: all of it under the write lock.  The device may not open, the driver
\* may refuse (a Trezor that wants its PIN): then the device stays connected.
OpenAsk(u) ==
    LET p == User(u)
    IN  At(p, "open") /\ AskLock(p, "opening")
        /\ UNCHANGED <<state, readers, comms, hubComms, commsPend, arg, misc>>

Open(u) ==
    LET p == User(u)
        g == opens + 1
    IN  /\ At(p, "opening") /\ Exclusive(p)
        /\ \/ /\ paths # Nil \/ ~device
              /\ Goto(p, "idle")
              /\ UNCHANGED state
           \/ /\ paths = Nil
              /\ device' = TRUE
              /\ Goto(p, "idle")
              /\ UNCHANGED <<paths, listed, quit, opens>>
           \/ /\ paths = Nil /\ opens < MaxOpens
              /\ device' = TRUE /\ paths' = {} /\ quit' = g /\ opens' = g
              /\ pc' = [pc EXCEPT ![p] = "idle", ![Beat(g)] = "loop", ![Deriver(g)] = "loop"]
              /\ UNCHANGED listed
        /\ UNCHANGED <<readers, comms, hubComms, commsPend, arg, misc>>

\* Close: the channels are read under the read lock; the goroutines are told
\* to quit one after the other; then everything is reset.
CloseRead(u) ==
    LET p == User(u)
    IN  /\ At(p, "close") /\ waiting = {}
        /\ Let(p, quit)
        /\ Goto(p, IF quit # 0 THEN "stopBeat" ELSE "closeAsk")
        /\ UNCHANGED <<state, locks, misc>>

\* Where a goroutine listens to its quit channel.
BeatListens(b) == pc[b] = "wait"
DeriverListens(d) == pc[d] \in {"wait", "throttle", "failed"}

Stop(p, listener, l) ==
    /\ pc' = [pc EXCEPT ![p] = l, ![listener] = "done"]
    /\ UNCHANGED <<state, locks, arg, misc>>

CloseStop(u) ==
    LET p == User(u)
    IN  \/ /\ At(p, "stopBeat")
           /\ \E b \in Beats : BeatListens(b) /\ arg[b] = arg[p] /\ Stop(p, b, "stopDeriver")
        \/ /\ At(p, "stopDeriver")
           /\ \E d \in Derivers : DeriverListens(d) /\ arg[d] = arg[p] /\ Stop(p, d, "closeAsk")

CloseAsk(u) ==
    LET p == User(u)
    IN  At(p, "closeAsk") /\ AskLock(p, "closing")
        /\ UNCHANGED <<state, readers, comms, hubComms, commsPend, arg, misc>>

Close(u) ==
    LET p == User(u)
    IN  /\ At(p, "closing") /\ Exclusive(p)
        /\ quit' = 0
        /\ close
        /\ Goto(p, "idle")
        /\ UNCHANGED <<opens, readers, comms, hubComms, commsPend, arg, calls, panicked, early>>

\* Derive, SignTx: the read lock is held from here until the device answered.
Enter(u) ==
    LET p == User(u)
        l == IF pc[p] = "derive" THEN "deriveComms" ELSE "signComms"
    IN  /\ pc[p] \in {"derive", "sign"} /\ ~panicked
        /\ waiting = {}
        /\ \/ /\ device
              /\ pc[p] = "sign" => paths \notin {Nil, {}}
              /\ RLock(p)
              /\ Goto(p, l)
           \/ /\ ~device \/ pc[p] = "sign"
              /\ Goto(p, "idle")
              /\ UNCHANGED readers
        /\ UNCHANGED <<state, waiting, comms, hubComms, commsPend, arg, misc>>

EnterComms(u) ==
    LET p == User(u)
    IN  /\ \/ At(p, "deriveComms") /\ TakeComms(p) /\ Goto(p, "deriving")
           \/ At(p, "signComms") /\ TakeComms(p) /\ Goto(p, "signHub")
        /\ UNCHANGED <<state, readers, waiting, hubComms, commsPend, arg, misc>>

\* The device answers, with an address or not, also when its driver did not open;
\* pinning needs the write lock, taken after the release.
Derived(u) ==
    LET p == User(u)
    IN  /\ At(p, "deriving")
        /\ ReleaseComms(p) /\ RUnlock(p)
        /\ \/ Goto(p, "idle") /\ UNCHANGED early
           \/ Goto(p, "pin") /\ early' = (early \/ paths = Nil)
        /\ UNCHANGED <<state, waiting, hubComms, commsPend, arg, calls, panicked, lost>>

PinAsk(u) ==
    LET p == User(u)
    IN  At(p, "pin") /\ AskLock(p, "pinning")
        /\ UNCHANGED <<state, readers, comms, hubComms, commsPend, arg, misc>>

PinAddress(u) ==
    LET p == User(u)
    IN  /\ At(p, "pinning") /\ Exclusive(p)
        /\ \E a \in Accts : Pin({a})
        /\ Goto(p, "idle")
        /\ UNCHANGED <<device, quit, opens, readers, comms, hubComms, commsPend, arg, calls, lost, early>>

\* SignTx: hub.commsPend is raised for as long as the user may be asked.
SignPend(u) ==
    LET p == User(u)
    IN  /\ At(p, "signHub") /\ hubComms = <<Free>>
        /\ commsPend' = commsPend + 1
        /\ Goto(p, "signing")
        /\ UNCHANGED <<state, readers, waiting, comms, hubComms, arg, misc>>

\* The deferred functions run in reverse order.
Signed(u) ==
    LET p == User(u)
    IN  /\ At(p, "signing") /\ hubComms = <<Free>>
        /\ commsPend' = commsPend - 1
        /\ ReleaseComms(p) /\ RUnlock(p)
        /\ Goto(p, "idle")
        /\ UNCHANGED <<state, waiting, hubComms, arg, misc>>

\* Accounts: a self-derivation, if that goroutine listens just now; else the
\* list as it is, under the read lock.
Accounts(u) ==
    LET p == User(u)
    IN  /\ At(p, "accounts")
        /\ \/ \E d \in Derivers :
                /\ pc[d] = "wait" /\ arg[d] = quit /\ quit # 0
                /\ pc' = [pc EXCEPT ![p] = "asking", ![d] = "asked"]
                /\ Let(p, d[2])
           \/ /\ quit = 0 \/ \A d \in Derivers : pc[d] = "wait" => arg[d] # quit
              /\ waiting = {}
              /\ Goto(p, "idle")
              /\ UNCHANGED arg
        /\ UNCHANGED <<state, locks, misc>>

-----------------------------------------------------------------------------
(* heartbeat.  The channel of the select is read when the select begins.   *)
BeatLoop(b) ==
    /\ At(b, "loop")
    /\ Let(b, quit)
    /\ Goto(b, "wait")
    /\ UNCHANGED <<state, locks, misc>>

\* Faulty variant of BeatTick: the lock is not released when there is no device.
BeatTickLeaky(b) ==
    /\ At(b, "wait") /\ waiting = {}
    /\ RLock(b) /\ Goto(b, IF device THEN "comms" ELSE "loop")
    /\ UNCHANGED <<state, waiting, comms, hubComms, commsPend, arg, misc>>

BeatTick(b) ==
    /\ At(b, "wait") /\ waiting = {}
    /\ IF device THEN RLock(b) /\ Goto(b, "comms") ELSE Goto(b, "loop") /\ UNCHANGED readers
    /\ UNCHANGED <<state, waiting, comms, hubComms, commsPend, arg, misc>>

\* Faulty variant of BeatComms: the device is asked without its token.
BeatCommsFree(b) ==
    /\ At(b, "comms") /\ Goto(b, "beating")
    /\ UNCHANGED <<state, locks, arg, misc>>

BeatComms(b) ==
    /\ At(b, "comms") /\ TakeComms(b) /\ Goto(b, "beating")
    /\ UNCHANGED <<state, readers, waiting, hubComms, commsPend, arg, misc>>

\* The device answers, or it is torn down.
Beaten(b) ==
    /\ At(b, "beating")
    /\ ReleaseComms(b) /\ RUnlock(b)
    /\ \/ Goto(b, "loop") /\ UNCHANGED waiting
       \/ AskLock(b, "teardown")
    /\ UNCHANGED <<state, hubComms, commsPend, arg, misc>>

BeatClose(b) ==
    /\ At(b, "teardown") /\ Exclusive(b)
    /\ close
    /\ Goto(b, "loop")
    /\ UNCHANGED <<quit, opens, readers, comms, hubComms, commsPend, arg, calls, panicked, early>>

-----------------------------------------------------------------------------
(* selfDerive.                                                             *)
DeriverLoop(d) ==
    /\ At(d, "loop")
    /\ Let(d, quit)
    /\ Goto(d, "wait")
    /\ UNCHANGED <<state, locks, misc>>

\* The answer to the caller of Accounts, who then reads the list.
Reply(d, l) ==
    pc' = [p \in Procs |-> IF p = d THEN l
                           ELSE IF pc[p] = "asking" /\ arg[p] = d[2] THEN "answered"
                           ELSE pc[p]]

\* A request: skipped without a device, a chain or the token.
DeriverEnter(d) ==
    /\ At(d, "asked") /\ waiting = {}
    /\ \/ device /\ RLock(d) /\ TakeComms(d) /\ Goto(d, "deriving")
       \/ UNCHANGED <<readers, comms>> /\ Reply(d, "loop")
    /\ UNCHANGED <<state, waiting, hubComms, commsPend, arg, misc>>

\* Some accounts were found, the first of them perhaps at an earlier time
\* (deriveNextAddr); the device or the chain may have failed after that.
DeriverFound(d) ==
    /\ At(d, "deriving")
    /\ ReleaseComms(d) /\ RUnlock(d)
    /\ AskLock(d, "insert")
    /\ early' = (early \/ paths = Nil)
    /\ UNCHANGED <<state, hubComms, commsPend, arg, calls, panicked, lost>>

DeriverInsert(d) ==
    /\ At(d, "insert") /\ Exclusive(d)
    /\ \E found \in SUBSET Accts, l \in {"found", "broken"} : Pin(found) /\ Reply(d, l)
    /\ UNCHANGED <<device, quit, opens, readers, comms, hubComms, commsPend, arg, calls, lost, early>>

\* The next select, after a failure the last one, which waits for Close.
DeriverSelect(d) ==
    /\ \/ At(d, "found") /\ Goto(d, "throttle")
       \/ At(d, "broken") /\ Goto(d, "failed")
    /\ Let(d, quit)
    /\ UNCHANGED <<state, locks, misc>>

DeriverWake(d) ==
    /\ At(d, "throttle") /\ Goto(d, "loop")
    /\ UNCHANGED <<state, locks, arg, misc>>

Answered(u) ==
    /\ At(User(u), "answered") /\ waiting = {}
    /\ Goto(User(u), "idle")
    /\ UNCHANGED <<state, locks, arg, misc>>

-----------------------------------------------------------------------------
(* Hub.refreshWallets, as far as this wallet is concerned: devices are     *)
(* enumerated under hub.commsLock unless a confirmation is pending; then   *)
(* Status takes the wallet's read lock.  A refresh counts as a call.       *)
HubStart ==
    /\ At(HubProc, "idle") /\ hubComms = <<Free>> /\ calls < MaxCalls
    /\ calls' = calls + 1
    /\ IF commsPend > 0 THEN UNCHANGED <<hubComms, pc>>
       ELSE hubComms' = HubProc /\ Goto(HubProc, "enumerate")
    /\ UNCHANGED <<state, readers, waiting, comms, commsPend, arg, panicked, lost, early>>

HubEnumerated ==
    /\ At(HubProc, "enumerate")
    /\ hubComms' = <<Free>>
    /\ Goto(HubProc, "status")
    /\ UNCHANGED <<state, readers, waiting, comms, commsPend, arg, misc>>

HubStatus ==
    /\ At(HubProc, "status") /\ waiting = {}
    /\ Goto(HubProc, "idle")
    /\ UNCHANGED <<state, locks, arg, misc>>

-----------------------------------------------------------------------------
UserStep(u) ==
    \/ OpenAsk(u) \/ Open(u) \/ CloseRead(u) \/ CloseStop(u) \/ CloseAsk(u) \/ Close(u)
    \/ Enter(u) \/ EnterComms(u) \/ Derived(u) \/ PinAsk(u) \/ PinAddress(u)
    \/ SignPend(u) \/ Signed(u) \/ Accounts(u) \/ Answered(u)

BeatStep(b) == BeatLoop(b) \/ BeatTick(b) \/ BeatComms(b) \/ Beaten(b) \/ BeatClose(b)

DeriverStep(d) ==
    DeriverLoop(d) \/ DeriverEnter(d) \/ DeriverFound(d) \/ DeriverInsert(d)
    \/ DeriverSelect(d) \/ DeriverWake(d)

HubStep == HubEnumerated \/ HubStatus

Next ==
    \/ \E u \in Users : Begin(u) \/ UserStep(u)
    \/ \E b \in Beats : BeatStep(b)
    \/ \E d \in Derivers : DeriverStep(d)
    \/ HubStart \/ HubStep

\* Goroutines run, timers fire, the device and the user at it answer; those
\* who wait on the channel commsLock are served in order.
Fairness ==
    /\ \A u \in Users : WF_vars(UserStep(u)) /\ SF_vars(EnterComms(u))
    /\ \A b \in Beats : WF_vars(BeatStep(b))
    /\ \A d \in Derivers : WF_vars(DeriverStep(d))
    /\ WF_vars(HubStep)

Spec == Init /\ [][Next]_vars /\ Fairness

-----------------------------------------------------------------------------
Talking == {"deriving", "signHub", "signing", "beating"}
Talkers == {p \in Procs : pc[p] \in Talking}

(* Whoever talks to the device is alone in it, and the device stays open   *)
(* for as long as they do.                                                 *)
CommsExclusive ==
    /\ \A p, q \in Talkers : p = q
    /\ Talkers # {} => device

(* Devices are not enumerated while a user may be confirming a transaction *)
(* (that would break the Ledger protocol).                                 *)
NoEnumerationWhileSigning ==
    ~(pc[HubProc] = "enumerate" /\ \E u \in Users : pc[User(u)] = "signing")

(* The list of accounts and the map of their paths name the same           *)
(* addresses, and a wallet without a map lists none.                       *)
ListMatchesPaths == ~panicked => listed = IF paths = Nil THEN {} ELSE paths

(* An address is written to the nil map, which panics, only if a call or a *)
(* self-derivation lost the wallet to a heartbeat or a Close between       *)
(* releasing the read lock and taking the write lock, or derived from a    *)
(* device whose driver had refused to open (a Trezor that wants its PIN):  *)
(* that leaves the device connected and no map.                            *)
PanicNeedsTeardown == panicked => lost \/ early

(* Every call of Open, Derive, SignTx and Accounts, and every refresh of   *)
(* the hub, comes to an end: waiting readers, writers, and holders of the  *)
(* two communication locks never wait for each other in a circle.  (Close  *)
(* is not among them: see the README.)                                     *)
CallsReturn ==
    /\ \A u \in Users :
        pc[User(u)] \in {"opening", "derive", "deriveComms", "deriving", "pinning", "sign",
                         "signComms", "signHub", "signing", "accounts", "asking", "answered"}
            ~> (pc[User(u)] = "idle" \/ panicked)
    /\ pc[HubProc] # "idle" ~> (pc[HubProc] = "idle" \/ panicked)
=============================================================================
