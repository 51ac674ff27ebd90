----------------------------- MODULE MCAccounts -----------------------------
(***************************************************************************)
(* Accounts: the files and the cache of the key store, the wallet lists,   *)
(* the hubs and what travels to the devices, each part checked on its own. *)
(* part says which of them a behaviour is about; the others stay as they   *)
(* are initially.  The key files are the module extended here; a key       *)
(* stands for its address in the other parts, too.                         *)
(***************************************************************************)
EXTENDS KeyFiles, Integers

CONSTANTS
    Garbage, InitTexts, NoFile, Users, MaxTime, MaxWrites,   \* AccountCache; Users: Hub, too
    Urls, Refreshers, Buffer, MaxChanges,                    \* Wallets
    Devices, MaxWallets, MaxSubs,                            \* Hub
    Space, Prefix, Chunk, First, MaxLen,                     \* UsbFraming: packets
    Hardened                                                 \* UsbFraming: paths

VARIABLES
    part, arg,
    dir, fresh, clock, writes, known, lastMod, all, byAddr, throttle, watch, events, rescan,
    proc, cacheRaced, listFailed,
    accs, changes, wallets, outbox, start, updates, amWallets, listRaced,
    attached, hubWallets, made, failed, telling, heard, overtaken, updating, updaters, subs, subscribed,
    scan, settled

C == INSTANCE AccountCache WITH Addrs <- Keys, Callers <- Users, raced <- cacheRaced
W == INSTANCE Wallets WITH raced <- listRaced
H == INSTANCE Hub WITH HubCallers <- Users, wallets <- hubWallets
X == INSTANCE UsbFraming WITH Root <- <<Hardened, 0>>

ASSUME H!HubAssumption

cacheVars == <<dir, fresh, clock, writes, known, lastMod, all, byAddr, throttle, watch, events,
               rescan, proc, cacheRaced, listFailed>>
listVars == <<accs, changes, wallets, outbox, start, updates, amWallets, listRaced>>
hubVars == <<attached, hubWallets, made, failed, telling, heard, overtaken, updating, updaters, subs,
             subscribed, scan, settled>>
vars == <<part, arg, cacheVars, listVars, hubVars, filesVars>>

\* Texts of one or two components around the border of a word.
Component == [num : {-1, 0, 1, Hardened - 1, Hardened, 2 * Hardened - 1, 2 * Hardened}, quote : BOOLEAN]
Texts == [head : {"m", "", "0"}, parts : {<<>>} \cup {<<c>> : c \in Component}
                                            \cup {<<c, d>> : c, d \in Component}]

\* Messages of all lengths up to MaxLen, the members all different.
Messages == {[i \in 1..n |-> i] : n \in 0..MaxLen}

Init ==
    /\ part \in {"cache", "list", "hub", "files", "wire", "path"}
    /\ arg \in CASE part = "wire" -> Messages
                 [] part = "path" -> Texts
                 [] OTHER -> {0}
    /\ C!Init /\ W!Init /\ H!HubInit /\ FilesInit
    /\ part # "cache" => \A p \in Paths : dir[p].text = NoFile
    /\ part # "list" => accs = {}
    /\ part # "hub" => attached = {}
    /\ part # "files" =>
        files[1] = Seal(3, CHOOSE k \in Keys : TRUE, CHOOSE p \in Passes : TRUE,
                        <<"salt", 0>>, <<"iv", 0>>)

Cache == part = "cache" /\ C!Next /\ UNCHANGED <<part, arg, listVars, hubVars, filesVars>>
List == part = "list" /\ W!Next /\ UNCHANGED <<part, arg, cacheVars, hubVars, filesVars>>
Hub == part = "hub" /\ H!HubNext /\ UNCHANGED <<part, arg, cacheVars, listVars, filesVars>>
Files == part = "files" /\ FilesNext /\ UNCHANGED <<part, arg, cacheVars, listVars, hubVars>>

Next == Cache \/ List \/ Hub \/ Files

Spec == Init /\ [][Next]_vars

-----------------------------------------------------------------------------
(* Account cache: the list and the index by address agree, and once all is *)
(* quiet they are those of the directory, unless there was a race.         *)
CacheExact == C!IndexAgrees /\ C!StaleNeedsRace

(* Wallet lists: the manager's list is that of its backend, unless there   *)
(* was a race; a hub's events tell its list, unless a drop overtook an     *)
(* arrival, two refreshes give the devices attached, and one updater runs  *)
(* while anybody listens.                                                  *)
ListsExact ==
    /\ W!ManagerStaleNeedsRace
    /\ H!HubEventsExact /\ H!SecondRefreshRepairs /\ H!OneUpdater

(* Wallet lists: a refresh of the key store's wallets tells subscribers    *)
(* exactly what changed and leaves a wallet for every account.             *)
RefreshExact == [][part = "list" => W!EventsExact /\ W!RefreshComplete]_vars

(* Wallet lists: "removes the ones specified" and no other.                *)
DropsSpecified == [][part = "list" => W!DropsSpecified]_vars

(* Packets and paths: messages, replies and transactions of every length   *)
(* arrive once and in order; reading and writing derivation paths are      *)
(* inverse.                                                                *)
WireExact ==
    /\ part = "wire" => X!ExchangeExact(arg) /\ \A size \in 1..First : X!SignStreamExact(arg, size)
    /\ part = "path" => X!PathExact(arg)
=============================================================================
