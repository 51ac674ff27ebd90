---------------------------- MODULE AccountCache ----------------------------
(***************************************************************************)
(* The index of key files (accounts/keystore/account_cache.go,             *)
(* file_cache.go, watch.go) over a directory that other programs change:   *)
(* scans started by callers and by the watcher goroutine, which list the   *)
(* directory, compare it with the files known, and read and enter the      *)
(* files one by one, taking the cache's lock for each step only.           *)
(*                                                                         *)
(* Paths are numbers, in the order of their URLs; a modification time is a *)
(* reading of clock.  raced is history: something happened that the code   *)
(* has no protection against (see StaleNeedsRace).                         *)
(***************************************************************************)
EXTENDS Naturals, Sequences, SequencesExt, FiniteSets, FiniteSetsExt

CONSTANTS
    Paths,      \* key files that may exist, numbers
    Addrs,      \* addresses found in key files
    Garbage,    \* content without an address
    InitTexts,  \* contents of the files found initially
    NoFile,     \* there is no such file
    Callers,    \* goroutines that use the key store
    MaxTime,    \* bound on clock
    MaxWrites   \* bound on changes to the directory

Contents == Addrs \cup {Garbage}
Procs == Callers \cup {"watcher"}

VARIABLES
    dir,        \* path -> [text, mod]
    fresh,      \* paths no file has had yet
    clock, writes,
    known,      \* fileCache.all
    lastMod,    \* fileCache.lastMod
    all,        \* accountCache.all: sequence of <<path, address>>
    byAddr,     \* accountCache.byAddr
    throttle,   \* the reload timer: "nil", "wait", "ready"
    watch,      \* "off", "starting", "registered", "running"
    events,     \* w.ev holds events
    rescan,     \* rescanTriggered
    proc,       \* what each goroutine does next
    raced,
    listFailed  \* history: the last listing of the directory failed

cacheVars == <<known, lastMod, all, byAddr>>
watchVars == <<throttle, watch, events, rescan>>
diskVars == <<dir, fresh, clock, writes>>
historyVars == <<raced, listFailed>>
vars == <<diskVars, cacheVars, watchVars, proc, historyVars>>

Idle == [pc |-> "idle"]
Absent == [text |-> NoFile, mod |-> 0]
Present(d) == {p \in Paths : d[p].text # NoFile}

Init ==
    /\ dir \in [Paths -> {Absent} \cup [text : InitTexts, mod : {1}]]
    /\ fresh = {p \in Paths : dir[p] = Absent}
    /\ clock = 1 /\ writes = 0
    /\ known = {} /\ lastMod = 0
    /\ all = <<>> /\ byAddr = [a \in Addrs |-> <<>>]
    /\ throttle = "nil" /\ watch = "off" /\ events = FALSE /\ rescan = FALSE
    /\ proc = [c \in Procs |-> Idle]
    /\ raced = FALSE /\ listFailed = FALSE

-----------------------------------------------------------------------------
(* The index.  sort.Search finds the first account that is not before p.   *)
Search(p) == SelectInSeq(all, LAMBDA acc : acc[1] >= p)

add(acc) ==
    LET i == Search(acc[1])
    IN  IF i # 0 /\ all[i] = acc
        THEN UNCHANGED <<all, byAddr>>
        ELSE /\ all' = InsertAt(all, IF i = 0 THEN Len(all) + 1 ELSE i, acc)
             /\ byAddr' = [byAddr EXCEPT ![acc[2]] = Append(@, acc)]

removeAccount(slice, elem) == RemoveFirst(slice, elem)

delete(acc) ==
    /\ all' = removeAccount(all, acc)
    /\ byAddr' = [byAddr EXCEPT ![acc[2]] = removeAccount(@, acc)]

deleteByFile(p) ==
    LET i == Search(p)
    IN  IF i # 0 /\ all[i][1] = p
        THEN /\ all' = RemoveAt(all, i)
             /\ byAddr' = [byAddr EXCEPT ![all[i][2]] = removeAccount(@, all[i])]
        ELSE UNCHANGED <<all, byAddr>>

-----------------------------------------------------------------------------
(* Changes to the directory.  A goroutine that has stored or removed a key *)
(* file has yet to tell the index about it.                                *)
Registered == watch \in {"registered", "running"}
Pending(p) == \E c \in Callers : proc[c].pc \in {"add", "delete"} /\ proc[c].acc[1] = p
Unseen(p) ==
    \/ p \notin known
    \/ \E c \in Procs :
        \/ proc[c].pc = "work" /\ p \in proc[c].creates
        \/ proc[c].pc = "enter" /\ p \in proc[c].rest.creates
Scanning(c) == proc[c].pc \in {"list", "diff", "work", "enter"}

\* The directory changes at p: the time may not have advanced since the last
\* change; the file system reports the change to a watcher that is registered.
ChangeFile(p, file) ==
    /\ writes < MaxWrites
    /\ writes' = writes + 1
    /\ fresh' = fresh \ {p}
    /\ \E t \in {clock, clock + 1} :
        /\ t <= MaxTime
        /\ clock' = t
        /\ dir' = [dir EXCEPT ![p] = IF file = NoFile THEN Absent ELSE [text |-> file, mod |-> t]]
        /\ raced' = \/ raced
                    \/ t = clock
                    \/ Pending(p)
                    \/ Unseen(p) /\ \E acc \in ToSet(all) : acc[1] = p
                    \/ ~Registered /\ (watch # "off" \/ throttle # "nil")
    /\ events' = (events \/ Registered)
    /\ UNCHANGED listFailed

\* Another program writes or removes a key file.
External ==
    /\ \E p \in Paths : \E f \in Contents \cup {NoFile} : dir[p].text # f /\ ChangeFile(p, f)
    /\ UNCHANGED <<cacheVars, throttle, watch, rescan, proc>>

-----------------------------------------------------------------------------
(* Scans.                                                                  *)
Goto(c, s) == proc' = [proc EXCEPT ![c] = s]

\* ReadDir, before fileCache's lock is taken.
ReadDir(c) ==
    /\ proc[c].pc = "list"
    /\ Goto(c, [pc |-> "diff", files |-> [p \in Present(dir) |-> dir[p].mod]])
    /\ raced' = (raced \/ \E d \in Procs \ {c} : Scanning(d))
    /\ listFailed' = FALSE
    /\ UNCHANGED <<diskVars, cacheVars, watchVars>>

\* ReadDir fails: scan and scanAccounts return the error, which maybeReload and the
\* watcher ignore; the watcher takes its rescan as done.
ReadDirFails(c) ==
    /\ proc[c].pc = "list"
    /\ Goto(c, Idle)
    /\ rescan' = IF c = "watcher" THEN FALSE ELSE rescan
    /\ listFailed' = TRUE
    /\ UNCHANGED <<diskVars, cacheVars, throttle, watch, events, raced>>

\* Faulty variant of Updates: a file of a known name is never read again.
UpdatesNone(files, creates) == {}

Updates(files, creates) == {p \in DOMAIN files : files[p] > lastMod} \ creates

\* The rest of fileCache.scan, under its lock.
scan(c) ==
    LET files == proc[c].files
        current == DOMAIN files
        creates == current \ known
    IN  /\ proc[c].pc = "diff"
        /\ known' = current
        /\ lastMod' = Max({files[p] : p \in current} \cup {0})
        /\ Goto(c, [pc |-> "work", creates |-> creates, deletes |-> known \ current,
                    updates |-> Updates(files, creates)])
        /\ UNCHANGED <<diskVars, all, byAddr, watchVars, historyVars>>

\* readAccount: the account in a file, if it can be opened and decoded.
readAccount(p) == IF dir[p].text \in Addrs THEN <<p, dir[p].text>> ELSE <<>>

\* scanAccounts: created files first, then deleted, then changed ones.  A file
\* is read without the cache's lock and entered in a later step.
Read(c) ==
    LET w == proc[c]
        Entering(p, rest) == Goto(c, [pc |-> "enter", acc |-> readAccount(p), rest |-> rest])
    IN  /\ w.pc = "work"
        /\ \/ \E p \in w.creates :
                /\ Entering(p, [w EXCEPT !.creates = @ \ {p}])
                /\ UNCHANGED <<all, byAddr>>
           \/ /\ w.creates = {}
              /\ \E p \in w.deletes :
                   /\ deleteByFile(p)
                   /\ Goto(c, [w EXCEPT !.deletes = @ \ {p}])
           \/ /\ w.creates \cup w.deletes = {}
              /\ \E p \in w.updates :
                   /\ deleteByFile(p)
                   /\ Entering(p, [w EXCEPT !.updates = @ \ {p}])
        /\ UNCHANGED <<diskVars, known, lastMod, watchVars, historyVars>>

Enter(c) ==
    /\ proc[c].pc = "enter"
    /\ Goto(c, proc[c].rest)
    /\ IF proc[c].acc = <<>> THEN UNCHANGED <<all, byAddr>> ELSE add(proc[c].acc)
    /\ UNCHANGED <<diskVars, known, lastMod, watchVars, historyVars>>

\* The end of scanAccounts; the watcher is ready to be triggered again.
Scanned(c) ==
    /\ proc[c].pc = "work"
    /\ proc[c].creates \cup proc[c].deletes \cup proc[c].updates = {}
    /\ Goto(c, Idle)
    /\ rescan' = IF c = "watcher" THEN FALSE ELSE rescan
    /\ UNCHANGED <<diskVars, cacheVars, throttle, watch, events, historyVars>>

-----------------------------------------------------------------------------
(* maybeReload and the watcher.                                            *)
Reloads == watch # "running" /\ throttle # "wait"

\* maybeReload, which every use of the cache begins with: start the watcher
\* and scan, unless a watcher runs or the last reload is recent.
maybeReload(c) ==
    /\ IF Reloads
       THEN /\ watch' = IF watch = "off" THEN "starting" ELSE watch
            /\ throttle' = "wait"
            /\ Goto(c, [pc |-> "list"])
       ELSE Goto(c, Idle) /\ UNCHANGED <<watch, throttle>>
    /\ UNCHANGED <<diskVars, cacheVars, events, rescan, historyVars>>

\* accounts, hasAddress and Find.
Use(c) == proc[c].pc = "idle" /\ Reloads /\ maybeReload(c)

Throttled == throttle = "wait" /\ throttle' = "ready"
             /\ UNCHANGED <<diskVars, cacheVars, watch, events, rescan, proc, historyVars>>

\* loop: notify.Watch fails or registers; then running is set; then events
\* trigger one delayed scan, during which no event is taken.
Loop ==
    /\ \/ watch = "starting" /\ watch' \in {"off", "registered"} /\ UNCHANGED <<events, rescan, proc>>
       \/ watch = "registered" /\ watch' = "running" /\ UNCHANGED <<events, rescan, proc>>
       \/ /\ watch = "running" /\ events /\ proc["watcher"] = Idle
          /\ events' = FALSE /\ rescan' = TRUE
          /\ UNCHANGED <<watch, proc>>
       \/ /\ watch = "running" /\ rescan /\ proc["watcher"] = Idle
          /\ Goto("watcher", [pc |-> "list"])
          /\ UNCHANGED <<watch, events, rescan>>
    /\ UNCHANGED <<diskVars, cacheVars, throttle, historyVars>>

-----------------------------------------------------------------------------
(* Operations of the key store.                                            *)

\* NewAccount, Import, ImportECDSA and ImportPreSaleKey: the new key file is
\* written (renamed into place), then its account added.  The file's name has
\* the time and the address in it: it is a new one.
StoreKey(c) ==
    /\ proc[c].pc = "idle"
    /\ \E p \in fresh, a \in Addrs :
        /\ ChangeFile(p, a)
        /\ Goto(c, [pc |-> "add", acc |-> <<p, a>>])
    /\ UNCHANGED <<cacheVars, throttle, watch, rescan>>

\* Delete, after find and the check of the passphrase: the file is removed
\* first, the account dropped from the cache afterwards.
RemoveKey(c) ==
    /\ proc[c].pc = "idle" /\ ~Reloads
    /\ \E acc \in ToSet(all) :
        /\ dir[acc[1]].text = acc[2]
        /\ ChangeFile(acc[1], NoFile)
        /\ Goto(c, [pc |-> "delete", acc |-> acc])
    /\ UNCHANGED <<cacheVars, throttle, watch, rescan>>

\* The account is added or dropped; refreshWallets, which may reload, follows.
Tell(c) ==
    /\ \/ proc[c].pc = "add" /\ add(proc[c].acc)
       \/ proc[c].pc = "delete" /\ delete(proc[c].acc)
    /\ Goto(c, [pc |-> "refresh"])
    /\ UNCHANGED <<diskVars, known, lastMod, watchVars, historyVars>>

refreshWallets(c) == proc[c].pc = "refresh" /\ maybeReload(c)

ScanStep(c) == ReadDir(c) \/ ReadDirFails(c) \/ scan(c) \/ Read(c) \/ Enter(c) \/ Scanned(c)

Next ==
    \/ External \/ Throttled \/ Loop
    \/ \E c \in Procs : ScanStep(c)
    \/ \E c \in Callers : Use(c) \/ StoreKey(c) \/ RemoveKey(c) \/ Tell(c) \/ refreshWallets(c)

\* Goroutines that have begun go on.
Fairness ==
    /\ WF_vars(Loop)
    /\ \A c \in Procs : WF_vars(ScanStep(c))
    /\ \A c \in Callers : WF_vars(Tell(c) \/ refreshWallets(c))

Spec == Init /\ [][Next]_vars /\ Fairness

-----------------------------------------------------------------------------
(* The two views of the index hold the same accounts, the list in the      *)
(* order of URLs that sort.Search relies on, whoever changes it when.      *)
IndexAgrees ==
    /\ IsSorted(all, LAMBDA x, y : x[1] <= y[1])
    /\ \A a \in Addrs :
        /\ Len(byAddr[a]) = Len(SelectSeq(all, LAMBDA acc : acc[2] = a))
        /\ ToSet(byAddr[a]) = {acc \in ToSet(all) : acc[2] = a}

Quiet == watch = "running" /\ ~events /\ ~rescan /\ \A c \in Procs : proc[c] = Idle

Current == {<<p, dir[p].text>> : p \in {q \in Paths : dir[q].text \in Addrs}}

CacheExact == ToSet(all) = Current /\ Len(all) = Cardinality(Current)

(* When nothing is left to do the cache lists exactly the key files there  *)
(* are, unless one of these happened: two scans overlapped; a file changed *)
(* after the first reload was due and before the watcher was registered; a *)
(* file changed between a key store operation's own change to it and its   *)
(* note of that in the cache; a file that such an operation had added      *)
(* changed before a scan read it; a file changed without the time advancing;*)
(* the last listing of the directory failed, which the next one makes good.*)
(* Files that come, go or change while a scan is under way are no trouble. *)
StaleNeedsRace == Quiet /\ ~raced /\ ~listFailed => CacheExact

=============================================================================
