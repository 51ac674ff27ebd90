-------------------------- MODULE Accounts_proofs ---------------------------
(***************************************************************************)
(* Proofs that the safety properties of MCWallets hold for any number of   *)
(* addresses, decryptions, goroutines and opens, and that of KeyFiles for  *)
(* any number of keys, passphrases, files and callers.                     *)
(***************************************************************************)
EXTENDS MCWallets, KeyFiles, TLAPS

-----------------------------------------------------------------------------
(* Unlocked keys.                                                          *)

Key == [addr : Addrs, timed : BOOLEAN, whole : BOOLEAN]

KeyTypes ==
    /\ keys \in Seq(Key)
    /\ closes \in Seq(Nat) /\ Len(closes) = Len(keys)
    /\ calls \subseteq 1..Len(keys)
    /\ expiring \subseteq 1..Len(keys)
    /\ locking \subseteq 1..Len(keys)
    /\ unlocked \in [Addrs -> 0..Len(keys)]

\* The listed instances are whole, no longer on their way in, and not aborted;
\* those on their way in are whole and not aborted; timers run for timed ones.
KeyInv ==
    /\ KeyTypes
    /\ \A a \in Addrs : unlocked[a] # 0 =>
         /\ keys[unlocked[a]].addr = a /\ keys[unlocked[a]].whole
         /\ unlocked[a] \notin calls /\ closes[unlocked[a]] = 0
    /\ \A k \in calls : keys[k].whole /\ closes[k] = 0
    /\ \A k \in 1..Len(keys) : closes[k] <= 1
    /\ \A k \in expiring : keys[k].timed
    /\ K!DroppedKeysZeroed

\* Zeroing one key leaves the others and the addresses alone.
LEMMA Zeroed ==
    ASSUME KeyTypes, NEW k \in 1..Len(keys), K!zeroKey(k)
    PROVE  /\ keys' \in Seq(Key) /\ Len(keys') = Len(keys)
           /\ \A j \in 1..Len(keys) :
                /\ keys'[j].addr = keys[j].addr /\ keys'[j].timed = keys[j].timed
                /\ j # k => keys'[j] = keys[j]
           /\ ~keys'[k].whole
  <1>1. keys[k] \in Key
    BY DEF KeyTypes
  <1>2. keys' = [keys EXCEPT ![k] = [keys[k] EXCEPT !.whole = FALSE]]
    BY Zenon DEF K!zeroKey
  <1>3. [keys[k] EXCEPT !.whole = FALSE] \in Key
    BY <1>1, Zenon DEF Key
  <1>4. QED
    BY <1>1, <1>2, <1>3 DEF KeyTypes, Key

\* A new KeyStore has no decrypted key.
LEMMA KeyInit == K!Init => KeyInv
  BY DEF K!Init, KeyInv, KeyTypes, K!NoKey, K!DroppedKeysZeroed


\* getDecryptedKey: the new instance is on its way in.
LEMMA DecryptKept ==
    ASSUME KeyInv, NEW a \in Addrs, NEW timed \in BOOLEAN, K!getDecryptedKey(a, timed)
    PROVE  KeyInv'
  <1> DEFINE n == Len(keys) + 1
  <1>1. keys' \in Seq(Key) /\ Len(keys') = n /\ n \in Nat
    BY DEF KeyInv, KeyTypes, Key, K!getDecryptedKey
  <1>2. /\ \A k \in 1..Len(keys) : keys'[k] = keys[k] /\ closes'[k] = closes[k]
        /\ keys'[n].whole /\ closes'[n] = 0
    BY DEF KeyInv, KeyTypes, Key, K!getDecryptedKey
  <1>3. closes' \in Seq(Nat) /\ Len(closes') = n
    BY DEF KeyInv, KeyTypes, K!getDecryptedKey
  <1>4. calls' = calls \cup {n} /\ UNCHANGED <<unlocked, expiring, locking>>
    BY Zenon DEF K!getDecryptedKey
  <1>5. 1..n = 1..Len(keys) \cup {n} /\ n \notin 1..Len(keys) /\ 0..Len(keys) \subseteq 0..n
    BY <1>1 DEF KeyInv, KeyTypes
  <1> HIDE DEF n
  <1>6. KeyTypes'
    BY <1>1, <1>3, <1>4, <1>5, Zenon DEF KeyInv, KeyTypes
  <1>7. \A b \in Addrs : unlocked[b] # 0 => unlocked[b] \in 1..Len(keys)
    BY DEF KeyInv, KeyTypes
  <1>8. \A b \in Addrs : unlocked'[b] # 0 =>
         /\ keys'[unlocked'[b]].addr = b /\ keys'[unlocked'[b]].whole
         /\ unlocked'[b] \notin calls' /\ closes'[unlocked'[b]] = 0
    BY <1>2, <1>4, <1>5, <1>7 DEF KeyInv
  <1>9. \A k \in calls' : keys'[k].whole /\ closes'[k] = 0
    BY <1>2, <1>4, <1>5, Zenon DEF KeyInv, KeyTypes
  <1>10. \A k \in 1..Len(keys') : closes'[k] <= 1
    <2>1. \A k \in 1..Len(keys) : closes[k] <= 1
      BY Zenon DEF KeyInv
    <2>2. 0 <= 1
      OBVIOUS
    <2>3. QED
      BY <2>1, <2>2, <1>1, <1>2, <1>5, Zenon
  <1>11. \A k \in expiring' : keys'[k].timed
    <2>1. \A k \in expiring : k \in 1..Len(keys) /\ keys[k].timed
      BY Zenon DEF KeyInv, KeyTypes
    <2>2. QED
      BY <2>1, <1>2, <1>4, Zenon
  <1>12. K!DroppedKeysZeroed'
    <2> SUFFICES ASSUME NEW k \in DOMAIN keys'
                 PROVE  \/ ~keys'[k].whole \/ k \in calls'
                        \/ unlocked'[keys'[k].addr] = k \/ closes'[k] > 0
      BY Zenon DEF K!DroppedKeysZeroed
    <2>1. k \in 1..Len(keys) \cup {n}
      BY <1>1, <1>5
    <2>2. CASE k = n
      BY <2>2, <1>4, Zenon
    <2>3. CASE k \in 1..Len(keys)
      <3>1. k \in DOMAIN keys
        BY <2>3 DEF KeyInv, KeyTypes
      <3>2. QED
        BY <3>1, <2>3, <1>2, <1>4, Zenon DEF KeyInv, K!DroppedKeysZeroed
    <2>4. QED
      BY <2>1, <2>2, <2>3, Zenon
  <1>13. QED
    BY <1>6, <1>8, <1>9, <1>10, <1>11, <1>12, Zenon DEF KeyInv

\* TimedUnlock: either the new instance is zeroed, because the account is
\* unlocked indefinitely, or it replaces a timed one, whose timer is aborted.
LEMMA UnlockKept ==
    ASSUME KeyInv, NEW k \in calls, K!TimedUnlock(k)
    PROVE  KeyInv'
  <1> DEFINE a == keys[k].addr
             u == unlocked[a]
  <1>1. k \in 1..Len(keys) /\ a \in Addrs /\ u \in 0..Len(keys) /\ u # k
    <2>1. k \in 1..Len(keys) /\ keys[k] \in Key
      BY DEF KeyInv, KeyTypes
    <2>2. a \in Addrs
      BY <2>1, Zenon DEF Key
    <2>3. u \in 0..Len(keys) /\ (u # 0 => u \notin calls)
      BY <2>2, Zenon DEF KeyInv, KeyTypes
    <2>4. QED
      BY <2>1, <2>2, <2>3
  <1>2. calls' = calls \ {k} /\ locking' = locking
    BY Zenon DEF K!TimedUnlock
  <1>3. CASE u # 0 /\ ~keys[u].timed /\ K!zeroKey(k) /\ UNCHANGED <<unlocked, expiring, closes>>
    <2>1. /\ keys' \in Seq(Key) /\ Len(keys') = Len(keys)
          /\ \A j \in 1..Len(keys) :
                /\ keys'[j].addr = keys[j].addr /\ keys'[j].timed = keys[j].timed
                /\ j # k => keys'[j] = keys[j]
          /\ ~keys'[k].whole
      BY <1>1, <1>3, Zeroed, Zenon DEF KeyInv
    <2>2. KeyTypes'
      BY <2>1, <1>2, <1>3, Zenon DEF KeyInv, KeyTypes
    <2>3. \A b \in Addrs : unlocked[b] # 0 => unlocked[b] \in 1..Len(keys) /\ unlocked[b] # k
      BY DEF KeyInv, KeyTypes
    <2>4. \A b \in Addrs : unlocked'[b] # 0 =>
         /\ keys'[unlocked'[b]].addr = b /\ keys'[unlocked'[b]].whole
         /\ unlocked'[b] \notin calls' /\ closes'[unlocked'[b]] = 0
      BY <2>1, <2>3, <1>2, <1>3 DEF KeyInv
    <2>5. K!DroppedKeysZeroed'
      <3> SUFFICES ASSUME NEW j \in DOMAIN keys'
                   PROVE  \/ ~keys'[j].whole \/ j \in calls'
                          \/ unlocked'[keys'[j].addr] = j \/ closes'[j] > 0
        BY Zenon DEF K!DroppedKeysZeroed
      <3>1. j \in 1..Len(keys) /\ j \in DOMAIN keys
        BY <2>1 DEF KeyInv, KeyTypes
      <3>2. QED
        BY <3>1, <2>1, <1>2, <1>3, Zenon DEF KeyInv, K!DroppedKeysZeroed
    <2>6. /\ \A j \in calls' : keys'[j].whole /\ closes'[j] = 0
          /\ \A j \in 1..Len(keys') : closes'[j] <= 1
          /\ \A j \in expiring' : keys'[j].timed
      BY <2>1, <1>2, <1>3, Zenon DEF KeyInv, KeyTypes
    <2>7. QED
      BY <2>2, <2>4, <2>5, <2>6, Zenon DEF KeyInv
  <1>4. CASE /\ u # 0 => keys[u].timed
             /\ closes' = IF u = 0 THEN closes ELSE [closes EXCEPT ![u] = @ + 1]
             /\ expiring' = IF keys[k].timed THEN expiring \cup {k} ELSE expiring
             /\ unlocked' = [unlocked EXCEPT ![a] = k]
             /\ UNCHANGED keys
    <2>1. /\ closes' \in Seq(Nat) /\ Len(closes') = Len(keys)
          /\ \A j \in 1..Len(keys) : j # u => closes'[j] = closes[j]
          /\ u # 0 => closes'[u] = 1
      BY <1>1, <1>4 DEF KeyInv, KeyTypes
    <2>2. unlocked' \in [Addrs -> 0..Len(keys)] /\ unlocked'[a] = k
          /\ \A b \in Addrs : b # a => unlocked'[b] = unlocked[b]
      BY <1>1, <1>4 DEF KeyInv, KeyTypes
    <2>3. KeyTypes'
      BY <2>1, <2>2, <1>1, <1>2, <1>4, Zenon DEF KeyInv, KeyTypes
    <2>4. u # 0 => keys[u].addr = a /\ u \notin calls
      BY <1>1, Zenon DEF KeyInv
    <2>5. \A b \in Addrs : unlocked[b] # 0 =>
            unlocked[b] \in 1..Len(keys) /\ unlocked[b] # k /\ (b # a => unlocked[b] # u)
      BY <2>4, <1>1 DEF KeyInv, KeyTypes
    <2>6. ASSUME NEW b \in Addrs, unlocked'[b] # 0
          PROVE  /\ keys'[unlocked'[b]].addr = b /\ keys'[unlocked'[b]].whole
                 /\ unlocked'[b] \notin calls' /\ closes'[unlocked'[b]] = 0
      <3>1. CASE b = a
        BY <3>1, <2>1, <2>2, <1>1, <1>2, <1>4 DEF KeyInv
      <3>2. CASE b # a
        BY <3>2, <2>1, <2>2, <2>5, <2>6, <1>2, <1>4 DEF KeyInv
      <3>3. QED
        BY <3>1, <3>2, Zenon
    <2>7. \A j \in calls' : keys'[j].whole /\ closes'[j] = 0
      BY <2>1, <2>4, <1>2, <1>4, <1>1 DEF KeyInv, KeyTypes
    <2>8. \A j \in 1..Len(keys') : closes'[j] <= 1
      BY <2>1, <1>1, <1>4 DEF KeyInv, KeyTypes
    <2>9. \A j \in expiring' : keys'[j].timed
      BY <1>4, Zenon DEF KeyInv
    <2>10. K!DroppedKeysZeroed'
      <3> SUFFICES ASSUME NEW j \in DOMAIN keys'
                   PROVE  \/ ~keys'[j].whole \/ j \in calls'
                          \/ unlocked'[keys'[j].addr] = j \/ closes'[j] > 0
        BY Zenon DEF K!DroppedKeysZeroed
      <3>1. j \in 1..Len(keys) /\ j \in DOMAIN keys /\ keys[j].addr \in Addrs
        <4>1. keys \in Seq(Key) /\ j \in DOMAIN keys
          BY <1>4, Zenon DEF KeyInv, KeyTypes
        <4>2. j \in 1..Len(keys) /\ keys[j] \in Key
          BY <4>1
        <4>3. QED
          BY <4>1, <4>2, Zenon DEF Key
      <3>2. CASE j = k
        BY <3>2, <2>2, <1>4, Zenon
      <3>3. CASE j = u
        BY <3>3, <3>1, <2>1
      <3>4. CASE j # k /\ j # u
        <4>1. unlocked[keys[j].addr] = j => unlocked'[keys[j].addr] = j
          BY <3>4, <3>1, <2>2, <1>1, Zenon
        <4>2. QED
          BY <4>1, <3>4, <3>1, <2>1, <1>2, <1>4, Zenon DEF KeyInv, K!DroppedKeysZeroed
      <3>5. QED
        BY <3>2, <3>3, <3>4, Zenon
    <2>11. QED
      BY <2>3, <2>6, <2>7, <2>8, <2>9, <2>10, Zenon DEF KeyInv
  <1>5. QED
    BY <1>3, <1>4, Zenon DEF K!TimedUnlock, K!NoKey

\* Lock only starts an expire.
LEMMA LockKept ==
    ASSUME KeyInv, NEW a \in Addrs, K!Lock(a)
    PROVE  KeyInv'
  <1>1. unlocked[a] \in 1..Len(keys)
    BY DEF KeyInv, KeyTypes, K!Lock, K!NoKey
  <1>2. KeyTypes'
    BY <1>1, Zenon DEF KeyInv, KeyTypes, K!Lock
  <1>3. K!DroppedKeysZeroed'
    BY Zenon DEF KeyInv, K!DroppedKeysZeroed, K!Lock
  <1>4. QED
    BY <1>2, <1>3, Zenon DEF KeyInv, K!Lock

\* expire: an aborted one leaves everything, the others drop the entry they
\* were started for if it is still the listed one.
LEMMA ExpireKept ==
    ASSUME KeyInv, NEW k \in expiring \cup locking, K!expire(k)
    PROVE  KeyInv'
  <1> DEFINE a == keys[k].addr
  <1>1. k \in 1..Len(keys) /\ a \in Addrs
    <2>1. k \in 1..Len(keys) /\ keys[k] \in Key
      BY DEF KeyInv, KeyTypes
    <2>2. QED
      BY <2>1, Zenon DEF Key
  <1>2. /\ expiring' \subseteq expiring /\ locking' \subseteq locking
        /\ calls' = calls /\ closes' = closes
    BY Zenon DEF K!expire
  <1>3. CASE keys' = keys /\ unlocked' = unlocked
    <2>1. KeyTypes'
      BY <1>2, <1>3, Zenon DEF KeyInv, KeyTypes
    <2>2. K!DroppedKeysZeroed'
      BY <1>2, <1>3, Zenon DEF KeyInv, K!DroppedKeysZeroed
    <2>3. QED
      BY <2>1, <2>2, <1>2, <1>3, Zenon DEF KeyInv
  <1>4. CASE unlocked[a] = k /\ K!zeroKey(k) /\ unlocked' = [unlocked EXCEPT ![a] = 0]
    <2>1. /\ keys' \in Seq(Key) /\ Len(keys') = Len(keys)
          /\ \A j \in 1..Len(keys) :
                /\ keys'[j].addr = keys[j].addr /\ keys'[j].timed = keys[j].timed
                /\ j # k => keys'[j] = keys[j]
          /\ ~keys'[k].whole
      BY <1>1, <1>4, Zeroed, Zenon DEF KeyInv
    <2>2. unlocked' \in [Addrs -> 0..Len(keys)] /\ unlocked'[a] = 0
          /\ \A b \in Addrs : b # a => unlocked'[b] = unlocked[b]
      BY <1>1, <1>4 DEF KeyInv, KeyTypes
    <2>3. KeyTypes'
      BY <2>1, <2>2, <1>2, Zenon DEF KeyInv, KeyTypes
    <2>4. k \notin calls
      BY <1>1, <1>4 DEF KeyInv
    <2>5. \A b \in Addrs : unlocked[b] # 0 =>
            unlocked[b] \in 1..Len(keys) /\ (b # a => unlocked[b] # k)
      BY <1>1, <1>4 DEF KeyInv, KeyTypes
    <2>6. \A b \in Addrs : unlocked'[b] # 0 =>
         /\ keys'[unlocked'[b]].addr = b /\ keys'[unlocked'[b]].whole
         /\ unlocked'[b] \notin calls' /\ closes'[unlocked'[b]] = 0
      BY <2>1, <2>2, <2>5, <1>2 DEF KeyInv
    <2>7. /\ \A j \in calls' : keys'[j].whole /\ closes'[j] = 0
          /\ \A j \in 1..Len(keys') : closes'[j] <= 1
          /\ \A j \in expiring' : keys'[j].timed
      BY <2>1, <2>4, <1>2, Zenon DEF KeyInv, KeyTypes
    <2>8. K!DroppedKeysZeroed'
      <3> SUFFICES ASSUME NEW j \in DOMAIN keys'
                   PROVE  \/ ~keys'[j].whole \/ j \in calls'
                          \/ unlocked'[keys'[j].addr] = j \/ closes'[j] > 0
        BY Zenon DEF K!DroppedKeysZeroed
      <3>1. j \in 1..Len(keys) /\ j \in DOMAIN keys
        BY <2>1 DEF KeyInv, KeyTypes
      <3>2. keys[j].addr \in Addrs
        <4>1. keys[j] \in Key
          BY <3>1 DEF KeyInv, KeyTypes
        <4>2. QED
          BY <4>1, Zenon DEF Key
      <3>3. CASE j = k
        BY <3>3, <2>1, Zenon
      <3>4. CASE j # k
        <4>1. unlocked[keys[j].addr] = j => unlocked'[keys[j].addr] = j
          BY <3>4, <3>2, <2>2, <1>4, Zenon
        <4>2. QED
          BY <4>1, <3>1, <3>4, <2>1, <1>2, Zenon DEF KeyInv, K!DroppedKeysZeroed
      <3>5. QED
        BY <3>3, <3>4, Zenon
    <2>9. QED
      BY <2>3, <2>6, <2>7, <2>8, Zenon DEF KeyInv
  <1>5. QED
    BY <1>3, <1>4, Zenon DEF K!expire, K!dropEntry, K!NoKey

\* No step of the key store, and none of the other parts, breaks KeyInv.
LEMMA KeysKept == KeyInv /\ [Next]_vars => KeyInv'
  <1> SUFFICES ASSUME KeyInv, [Next]_vars PROVE KeyInv'
    BY Zenon
  <1>1. CASE K!Next
    BY <1>1, DecryptKept, UnlockKept, LockKept, ExpireKept, Zenon DEF K!Next
  <1>2. CASE UNCHANGED keysVars
    <2>1. KeyTypes' /\ K!DroppedKeysZeroed'
      BY <1>2, Zenon DEF KeyInv, KeyTypes, K!DroppedKeysZeroed, keysVars
    <2>2. QED
      BY <2>1, <1>2, Zenon DEF KeyInv, keysVars
  <1>3. QED
    BY <1>1, <1>2, Zenon DEF Next, Locks, Usb, vars

\* Every state satisfies the invariant of the unlocked keys.
LEMMA KeyInvariance == Spec => []KeyInv
  <1>1. Init => KeyInv
    BY KeyInit, Zenon DEF Init
  <1>2. QED
    BY <1>1, KeysKept, PTL DEF Spec

(* Whoever signs finds a whole key of the right address, no abort channel  *)
(* is closed twice, and what Lock or a timer drops is zeroed: TimedUnlock, *)
(* Lock and expire of keystore.go, for any number of addresses, calls and  *)
(* timers.                                                                 *)
THEOREM KeysAreGuarded == Spec => []KeysGuarded
  <1>1. KeyInv => KeysGuarded
    <2> SUFFICES ASSUME KeyInv PROVE KeysGuarded
      BY Zenon
    <2>1. K!SignersKeyWhole
      BY Zenon DEF KeyInv, K!SignersKeyWhole, K!NoKey
    <2>2. K!AbortClosedOnce
      BY DEF KeyInv, KeyTypes, K!AbortClosedOnce
    <2>3. QED
      BY <2>1, <2>2, Zenon DEF KeyInv, KeysGuarded
  <1>2. QED
    BY <1>1, KeyInvariance, PTL

\* A step of the key store that changes an untimed entry is the expire some
\* Lock called for: the timers run for timed instances only.
LEMMA IndefiniteStep ==
    ASSUME KeyInv, K!Next, NEW a \in Addrs, unlocked[a] # 0, ~keys[unlocked[a]].timed,
           unlocked'[a] # unlocked[a]
    PROVE  unlocked[a] \in locking
  <1>1. ASSUME NEW b \in Addrs, NEW timed \in BOOLEAN, K!getDecryptedKey(b, timed) PROVE FALSE
    BY <1>1, Zenon DEF K!getDecryptedKey
  <1>2. ASSUME NEW b \in Addrs, K!Lock(b) PROVE FALSE
    BY <1>2, Zenon DEF K!Lock
  <1>3. ASSUME NEW k \in calls, K!TimedUnlock(k) PROVE FALSE
    <2>1. unlocked' # unlocked
      BY Zenon
    <2>2. /\ unlocked[keys[k].addr] # 0 => keys[unlocked[keys[k].addr]].timed
          /\ unlocked' = [unlocked EXCEPT ![keys[k].addr] = k]
      BY <2>1, <1>3, Zenon DEF K!TimedUnlock, K!NoKey
    <2>3. QED
      BY <2>2, Zenon DEF KeyInv, KeyTypes
  <1>4. ASSUME NEW k \in expiring \cup locking, K!expire(k) PROVE unlocked[a] \in locking
    <2>1. unlocked[keys[k].addr] = k /\ unlocked' = [unlocked EXCEPT ![keys[k].addr] = 0]
      BY <1>4, Zenon DEF K!expire, K!dropEntry, K!NoKey
    <2>2. a = keys[k].addr
      BY <2>1, Zenon DEF KeyInv, KeyTypes
    <2>3. QED
      BY <2>1, <2>2, <1>4, Zenon DEF KeyInv
  <1>5. QED
    BY <1>1, <1>2, <1>3, <1>4, Zenon DEF K!Next

(* An account unlocked without a timeout stays unlocked until Lock is      *)
(* called for that entry, whatever timers of earlier unlocks still run.    *)
THEOREM IndefiniteIsKept == Spec => IndefiniteStays
  <1>1. KeyInv /\ [Next]_vars => [part = "keys" => K!IndefiniteStays]_vars
    <2> SUFFICES ASSUME KeyInv, Next, part = "keys" PROVE K!IndefiniteStays
      BY Zenon
    <2>1. K!Next
      BY Zenon DEF Next, Locks, Usb
    <2>2. QED
      BY <2>1, IndefiniteStep, Zenon DEF K!IndefiniteStays, K!NoKey
  <1>2. QED
    BY <1>1, KeyInvariance, PTL DEF Spec, IndefiniteStays

-----------------------------------------------------------------------------
(* Hardware wallets.                                                       *)

Inside == {"deriveComms", "signComms", "comms", "deriving", "signHub", "signing", "beating"}
Pins == {"pin", "pinning", "insert"}
\* Where a goroutine holds nothing.
Outside ==
    {"none", "idle", "open", "opening", "close", "stopBeat", "stopDeriver", "closeAsk", "closing",
     "derive", "sign", "accounts", "asking", "answered", "loop", "wait", "teardown", "asked",
     "found", "broken", "throttle", "failed", "done", "status"}
Labels == Inside \cup Pins \cup Outside \cup {"enumerate"}

UsbTypes ==
    /\ device \in BOOLEAN /\ panicked \in BOOLEAN /\ lost \in BOOLEAN /\ early \in BOOLEAN
    /\ paths \in (SUBSET Accts) \cup {U!Nil}
    /\ pc \in [U!Procs -> Labels]
    /\ commsPend \in Nat

\* Who is inside holds the read lock of a connected device, who talks also the
\* token.
Talk ==
    /\ \A p \in U!Procs : pc[p] \in Inside => p \in readers /\ device
    /\ \A p \in U!Procs : pc[p] \in U!Talking => comms = p

\* A confirmation is counted, and an enumeration holds the lock of the count.
Confirm ==
    /\ \A u \in Users : pc[U!User(u)] = "signing" => commsPend > 0
    /\ pc[U!HubProc] = "enumerate" => hubComms # <<U!Free>>
    /\ U!NoEnumerationWhileSigning

\* Addresses wait for a nil map only after a loss, or when there was none.
Maps ==
    /\ paths = U!Nil /\ (\E p \in U!Procs : pc[p] \in Pins) => lost \/ early
    /\ U!ListMatchesPaths
    /\ U!PanicNeedsTeardown

UsbInv == UsbTypes /\ Talk /\ Confirm /\ Maps

\* The goroutines are told apart, and none is the free token.
LEMMA Names ==
    /\ U!Beats \subseteq U!Procs /\ U!Derivers \subseteq U!Procs /\ U!HubProc \in U!Procs
    /\ \A u \in Users : U!User(u) \in U!Procs /\ U!User(u) \notin U!Derivers /\ U!User(u) # U!HubProc
    /\ U!HubProc \notin U!Beats \cup U!Derivers
    /\ \A u \in Users : U!User(u) \notin U!Beats
    /\ \A d \in U!Derivers : d \notin U!Beats
    /\ <<U!Free>> \notin U!Procs
  <1> USE DEF U!Procs, U!Beats, U!Derivers, U!HubProc, U!Hub, U!User, U!Beat, U!Deriver
  <1>1. <<U!Free>> \notin U!Procs
    <2>1. \A a, b : <<U!Free>> # <<a, b>>
      <3> SUFFICES ASSUME NEW a, NEW b, <<U!Free>> = <<a, b>> PROVE FALSE
        BY Zenon
      <3>1. Len(<<U!Free>>) = 1 /\ Len(<<a, b>>) = 2
        BY Zenon
      <3>2. QED
        BY <3>1, Zenon
    <2>2. QED
      BY <2>1, Zenon
  <1>2. QED
    BY <1>1

\* wallet.paths is nil or a map, and these are told apart.
LEMMA NilIsNoMap == U!Nil \notin SUBSET Accts
  BY AcctsAssumption, Zenon DEF U!Nil

\* A step of p that leaves the device alone keeps Talk, if the others stay
\* where they are and keep their locks and p is inside with its own.
LEMMA TalkKept ==
    ASSUME UsbInv, NEW p \in U!Procs,
           device' = device,
           \A q \in U!Procs \ {p} : pc'[q] \in Inside => pc'[q] = pc[q],
           \A q \in U!Procs \ {p} : q \in readers => q \in readers',
           comms' = comms \/ comms = p \/ comms = <<U!Free>>,
           pc'[p] \in Inside => p \in readers' /\ device,
           pc'[p] \in U!Talking => comms' = p
    PROVE  Talk'
  <1>1. ASSUME NEW q \in U!Procs, pc'[q] \in Inside PROVE q \in readers' /\ device'
    BY <1>1, Zenon DEF UsbInv, Talk
  <1>2. ASSUME NEW q \in U!Procs, pc'[q] \in U!Talking PROVE comms' = q
    <2>1. CASE q = p
      BY <2>1, <1>2, Zenon
    <2>2. CASE q # p
      <3>1. pc[q] \in U!Talking
        BY <2>2, <1>2, Zenon DEF U!Talking, Inside
      <3>2. comms = q
        BY <3>1, Zenon DEF UsbInv, Talk
      <3>3. QED
        BY <3>2, <2>2, Names, Zenon
    <2>3. QED
      BY <2>1, <2>2, Zenon
  <1>3. U!Talking' = U!Talking
    BY Zenon DEF U!Talking
  <1>4. QED
    BY <1>1, <1>2, <1>3, Zenon DEF Talk

\* A step under the write lock finds nobody inside.
LEMMA TalkEmpty ==
    ASSUME UsbInv, readers = {}, \A q \in U!Procs : pc'[q] \in Inside => pc'[q] = pc[q]
    PROVE  Talk'
  <1>1. \A q \in U!Procs : pc'[q] \notin Inside
    BY Zenon DEF UsbInv, Talk
  <1>2. U!Talking \subseteq Inside /\ "deriving" \in Inside
    BY Zenon DEF U!Talking, Inside
  <1>3. QED
    BY <1>1, <1>2, Names, Zenon DEF Talk, U!Talking

\* A step that starts neither a confirmation nor an enumeration keeps Confirm.
LEMMA ConfirmKept ==
    ASSUME UsbInv, commsPend' = commsPend, hubComms' = hubComms,
           \A q \in U!Procs : pc'[q] \in {"signing", "enumerate"} => pc'[q] = pc[q]
    PROVE  Confirm'
  BY Names, Zenon DEF UsbInv, Confirm, U!NoEnumerationWhileSigning

\* A step that changes no map keeps Maps, if whoever begins to wait with
\* addresses does so while there is a map, or is noted.
LEMMA MapsKept ==
    ASSUME UsbInv, UNCHANGED <<device, paths, listed, panicked, lost>>, early => early',
           \A q \in U!Procs : pc'[q] \in Pins => pc[q] \in Pins \/ paths # U!Nil \/ early'
    PROVE  Maps'
  <1>1. paths' = U!Nil /\ (\E p \in U!Procs : pc'[p] \in Pins) => lost' \/ early'
    BY Zenon DEF UsbInv, Maps
  <1>2. U!ListMatchesPaths' /\ U!PanicNeedsTeardown'
    BY Zenon DEF UsbInv, Maps, U!ListMatchesPaths, U!PanicNeedsTeardown
  <1>3. QED
    BY <1>1, <1>2, Zenon DEF UsbInv, Maps

\* A goroutine goes to another place in its code.
LEMMA Goes ==
    ASSUME UsbInv, NEW p \in U!Procs, NEW l \in Labels, U!Goto(p, l)
    PROVE  /\ pc' \in [U!Procs -> Labels] /\ pc'[p] = l
           /\ \A q \in U!Procs : q # p => pc'[q] = pc[q]
  BY Zenon DEF U!Goto, UsbInv, UsbTypes

Held == <<device, paths, listed, readers, comms, hubComms, commsPend, panicked, lost, early>>

\* A step that only moves goroutines, to places where they hold nothing.
LEMMA Quiet ==
    ASSUME UsbInv, pc' \in [U!Procs -> Labels],
           UNCHANGED Held,
           \A q \in U!Procs : \/ pc'[q] = pc[q] \/ pc'[q] \in Outside
                              \/ pc'[q] \in Pins /\ pc[q] \in Pins
    PROVE  UsbInv'
  <1> USE DEF Held
  <1>1. \A q \in U!Procs : /\ pc'[q] \in Inside => pc'[q] = pc[q]
                           /\ pc'[q] \in Pins => pc[q] \in Pins
                           /\ pc'[q] \in {"signing", "enumerate"} => pc'[q] = pc[q]
    BY DEF Outside, Inside, Pins
  <1>2. Talk'
    <2>1. /\ pc'[U!HubProc] \in Inside => U!HubProc \in readers' /\ device
          /\ pc'[U!HubProc] \in U!Talking => comms' = U!HubProc
      BY <1>1, Names, Zenon DEF UsbInv, Talk, U!Talking, Inside
    <2>2. QED
      BY <2>1, <1>1, Names, TalkKept, Zenon
  <1>3. Confirm'
    BY <1>1, ConfirmKept, Zenon
  <1>4. Maps'
    BY <1>1, MapsKept, Zenon
  <1>5. UsbTypes'
    BY Zenon DEF UsbInv, UsbTypes
  <1>6. QED
    BY <1>2, <1>3, <1>4, <1>5, Zenon DEF UsbInv

\* A step that only moves p, to where it is outside or waits for a PIN as before.
LEMMA GoesQuietly ==
    ASSUME UsbInv, NEW p \in U!Procs, NEW l, U!Goto(p, l),
           l \in Outside \/ (l \in Pins /\ pc[p] \in Pins),
           UNCHANGED Held
    PROVE  UsbInv'
  <1>0. l \in Labels
    BY Zenon DEF Labels
  <1>1. /\ pc' \in [U!Procs -> Labels] /\ pc'[p] = l
        /\ \A q \in U!Procs : q # p => pc'[q] = pc[q]
    BY <1>0, Goes, Zenon
  <1>2. \A q \in U!Procs : \/ pc'[q] = pc[q] \/ pc'[q] \in Outside
                           \/ pc'[q] \in Pins /\ pc[q] \in Pins
    BY <1>1, Zenon
  <1>3. QED
    BY <1>1, <1>2, Quiet, Zenon

\* A rendezvous of p and q, both outside, that changes nothing the locks guard.
LEMMA GoesBoth ==
    ASSUME UsbInv, NEW p \in U!Procs, NEW q \in U!Procs, NEW l \in Outside, NEW m \in Outside,
           pc' = [pc EXCEPT ![p] = l, ![q] = m], UNCHANGED Held
    PROVE  UsbInv'
  <1>1. pc' \in [U!Procs -> Labels]
    BY Zenon DEF UsbInv, UsbTypes, Labels
  <1>2. \A r \in U!Procs : pc'[r] = pc[r] \/ pc'[r] \in Outside
    BY Zenon DEF UsbInv, UsbTypes
  <1>3. QED
    BY <1>1, <1>2, Quiet, Zenon

\* What users do without holding anything: a call begins, asks for the write
\* lock, reads the channels, stops a goroutine or returns.
LEMMA UserQuiet ==
    ASSUME UsbInv, NEW u \in Users,
           \/ U!Begin(u) \/ U!OpenAsk(u) \/ U!CloseRead(u) \/ U!CloseStop(u) \/ U!CloseAsk(u)
           \/ U!PinAsk(u) \/ U!Accounts(u) \/ U!Answered(u)
    PROVE  UsbInv'
  <1>0. PICK p \in U!Procs : p = U!User(u)
    BY Names, Zenon
  <1> USE DEF U!state, U!locks, U!misc
  <1>1. CASE U!Begin(u)
    <2>1. PICK l \in {"open", "close", "derive", "sign", "accounts"} : U!Call(u, l)
      BY <1>1, Zenon DEF U!Begin
    <2>2. U!Goto(p, l) /\ UNCHANGED Held
      BY <2>1, <1>0, Zenon DEF U!Call, Held
    <2>3. l \in Outside
      BY Zenon DEF Outside
    <2>4. QED
      BY <2>2, <2>3, <1>0, GoesQuietly, Zenon
  <1>2. CASE U!OpenAsk(u)
    <2>1. U!Goto(p, "opening") /\ UNCHANGED Held
      BY <1>2, <1>0, Zenon DEF U!OpenAsk, U!AskLock, Held
    <2>2. "opening" \in Outside
      BY Zenon DEF Outside
    <2>3. QED
      BY <2>1, <2>2, <1>0, GoesQuietly, Zenon
  <1>3. CASE U!CloseRead(u)
    <2>1. PICK l \in {"stopBeat", "closeAsk"} : U!Goto(p, l)
      BY <1>3, <1>0, Zenon DEF U!CloseRead
    <2>2. l \in Outside
      BY Zenon DEF Outside
    <2>3. UNCHANGED Held
      BY <1>3, Zenon DEF U!CloseRead, Held
    <2>4. QED
      BY <2>1, <2>2, <2>3, <1>0, GoesQuietly, Zenon
  <1>4. CASE U!CloseStop(u)
    <2>1. PICK q \in U!Beats \cup U!Derivers, l \in {"stopDeriver", "closeAsk"} : U!Stop(p, q, l)
      BY <1>4, <1>0, Zenon DEF U!CloseStop
    <2>2. pc' = [pc EXCEPT ![p] = l, ![q] = "done"] /\ q \in U!Procs /\ UNCHANGED Held
      BY <2>1, Names, Zenon DEF U!Stop, Held
    <2>3. l \in Outside /\ "done" \in Outside
      BY Zenon DEF Outside
    <2>4. QED
      BY <2>2, <2>3, <1>0, GoesBoth, Zenon
  <1>5. CASE U!CloseAsk(u)
    <2>1. U!Goto(p, "closing") /\ UNCHANGED Held
      BY <1>5, <1>0, Zenon DEF U!CloseAsk, U!AskLock, Held
    <2>2. "closing" \in Outside
      BY Zenon DEF Outside
    <2>3. QED
      BY <2>1, <2>2, <1>0, GoesQuietly, Zenon
  <1>6. CASE U!PinAsk(u)
    <2>1. U!Goto(p, "pinning") /\ pc[p] = "pin" /\ UNCHANGED Held
      BY <1>6, <1>0, Zenon DEF U!PinAsk, U!AskLock, U!At, Held
    <2>2. "pin" \in Pins /\ "pinning" \in Pins
      BY Zenon DEF Pins
    <2>3. QED
      BY <2>1, <2>2, <1>0, GoesQuietly, Zenon
  <1>7. CASE U!Accounts(u)
    <2>1. UNCHANGED Held
      BY <1>7, Zenon DEF U!Accounts, Held
    <2>2. "idle" \in Outside /\ "asking" \in Outside /\ "asked" \in Outside
      BY Zenon DEF Outside
    <2>3. CASE U!Goto(p, "idle")
      BY <2>1, <2>2, <2>3, <1>0, GoesQuietly, Zenon
    <2>4. CASE \E d \in U!Derivers : pc' = [pc EXCEPT ![p] = "asking", ![d] = "asked"]
      BY <2>1, <2>2, <2>4, <1>0, Names, GoesBoth, Zenon
    <2>5. QED
      BY <2>3, <2>4, <1>7, <1>0, Zenon DEF U!Accounts
  <1>8. CASE U!Answered(u)
    <2>1. U!Goto(p, "idle") /\ UNCHANGED Held
      BY <1>8, <1>0, Zenon DEF U!Answered, Held
    <2>2. "idle" \in Outside
      BY Zenon DEF Outside
    <2>3. QED
      BY <2>1, <2>2, <1>0, GoesQuietly, Zenon
  <1>9. QED
    BY <1>1, <1>2, <1>3, <1>4, <1>5, <1>6, <1>7, <1>8, Zenon

\* What the other goroutines do without holding anything.
LEMMA OthersQuiet ==
    ASSUME UsbInv, NEW p \in U!Procs,
           \/ p \in U!Beats /\ (U!BeatLoop(p) \/ (U!BeatTick(p) /\ ~device))
           \/ p \in U!Derivers /\ (U!DeriverLoop(p) \/ U!DeriverSelect(p) \/ U!DeriverWake(p))
           \/ p = U!HubProc /\ U!HubStatus
    PROVE  UsbInv'
  <1> USE DEF U!state, U!locks, U!misc
  <1>1. UNCHANGED Held
    BY Zenon DEF Held, U!BeatLoop, U!BeatTick, U!DeriverLoop, U!DeriverSelect, U!DeriverWake, U!HubStatus
  <1>2. PICK l \in {"loop", "wait", "throttle", "failed", "idle"} : U!Goto(p, l)
    BY Zenon DEF U!BeatLoop, U!BeatTick, U!DeriverLoop, U!DeriverSelect, U!DeriverWake, U!HubStatus
  <1>3. l \in Outside
    BY Zenon DEF Outside
  <1>4. QED
    BY <1>1, <1>2, <1>3, GoesQuietly, Zenon

\* An answer to those who asked moves them and the deriver only.
LEMMA Replied ==
    ASSUME UsbInv, NEW d \in U!Derivers, NEW l \in {"loop", "found", "broken"}, U!Reply(d, l)
    PROVE  /\ pc' \in [U!Procs -> Labels]
           /\ \A q \in U!Procs : pc'[q] = pc[q] \/ pc'[q] \in Outside
  <1>1. l \in Outside /\ "answered" \in Outside
    BY Zenon DEF Outside
  <1>2. Outside \subseteq Labels
    BY Zenon DEF Labels
  <1>3. QED
    BY <1>1, <1>2, Zenon DEF U!Reply, UsbInv, UsbTypes

\* Whoever goes inside, takes the token, or comes out with or without
\* addresses.
LEMMA Through ==
    ASSUME UsbInv, NEW p \in U!Procs, NEW l \in Labels \ {"enumerate", "signing"}, U!Goto(p, l),
           UNCHANGED <<device, paths, listed, panicked, lost>>,
           UNCHANGED <<hubComms, commsPend>>, early' \in BOOLEAN, early => early',
           \A q \in U!Procs \ {p} : q \in readers => q \in readers',
           comms' = comms \/ comms = p \/ comms = <<U!Free>>,
           l \in Inside => p \in readers' /\ device,
           l \in U!Talking => comms' = p,
           l \in Pins => paths # U!Nil \/ early'
    PROVE  UsbInv'
  <1>1. /\ pc' \in [U!Procs -> Labels] /\ pc'[p] = l
        /\ \A q \in U!Procs : q # p => pc'[q] = pc[q]
    BY Goes, Zenon
  <1>2. Talk'
    BY <1>1, TalkKept, Zenon
  <1>3. Confirm'
    BY <1>1, ConfirmKept, Zenon
  <1>4. Maps'
    BY <1>1, MapsKept, Zenon
  <1>5. UsbTypes'
    BY <1>1, Zenon DEF UsbInv, UsbTypes
  <1>6. QED
    BY <1>2, <1>3, <1>4, <1>5, Zenon DEF UsbInv

\* An address for a wallet without a map is noted.
LEMMA Noted ==
    ASSUME early' = (early \/ paths = U!Nil)
    PROVE  early' \in BOOLEAN /\ (early => early') /\ (paths # U!Nil \/ early')
  <1>1. early' <=> (early \/ paths = U!Nil)
    BY Zenon
  <1>2. (early \/ paths = U!Nil) \in BOOLEAN
    BY Zenon
  <1>3. QED
    BY <1>1, <1>2, Zenon

\* Derive and SignTx go inside, take the token and, for Derive, come out.
LEMMA UserThrough ==
    ASSUME UsbInv, NEW u \in Users, U!Enter(u) \/ U!EnterComms(u) \/ U!Derived(u)
    PROVE  UsbInv'
  <1>0. PICK p \in U!Procs : p = U!User(u) /\ p \notin U!Derivers
    BY Names, Zenon
  <1> USE DEF U!state, U!locks, U!misc
  <1>1. /\ UNCHANGED <<device, paths, listed, panicked, lost>>
        /\ UNCHANGED <<hubComms, commsPend>>
    BY Zenon DEF U!Enter, U!EnterComms, U!Derived
  <1>6. early' = early => early' \in BOOLEAN /\ (early => early')
    <2> SUFFICES ASSUME early' = early PROVE early' \in BOOLEAN /\ (early => early')
      BY Zenon
    <2>1. early \in BOOLEAN
      BY Zenon DEF UsbInv, UsbTypes
    <2>2. QED
      BY <2>1, Zenon
  <1>2. CASE U!Enter(u)
    <2>1. CASE U!Goto(p, "idle") /\ readers' = readers
      <3>1. "idle" \in Outside /\ UNCHANGED Held
        BY <2>1, <1>2, Zenon DEF Outside, Held, U!Enter
      <3>2. QED
        BY <2>1, <3>1, GoesQuietly, Zenon
    <2>2. CASE device /\ U!RLock(p) /\ \E l \in {"deriveComms", "signComms"} : U!Goto(p, l)
      <3>1. PICK l \in {"deriveComms", "signComms"} : U!Goto(p, l)
        BY <2>2, Zenon
      <3>2. /\ l \in Labels \ {"enumerate", "signing"} /\ l \notin U!Talking /\ l \notin Pins
        BY Zenon DEF Labels, Inside, Pins, Outside, U!Talking
      <3>3. comms' = comms /\ readers' = readers \cup {p} /\ early' = early
        BY <1>2, <2>2 DEF U!Enter, U!RLock
      <3>4. QED
        BY <3>1, <3>2, <3>3, <2>2, <1>0, <1>1, <1>6, Through, Zenon
    <2>3. QED
      BY <2>1, <2>2, <1>0, <1>2 DEF U!Enter
  <1>3. CASE U!EnterComms(u)
    <2>1. PICK l \in {"deriving", "signHub"} :
            pc[p] \in {"deriveComms", "signComms"} /\ U!TakeComms(p) /\ U!Goto(p, l)
      BY <1>0, <1>3, Zenon DEF U!EnterComms, U!At
    <2>2. p \in readers /\ device
      BY <2>1, Zenon DEF UsbInv, Talk, Inside
    <2>3. l \in Labels \ {"enumerate", "signing"} /\ l \notin Pins
      BY Zenon DEF Labels, Inside, Pins, Outside
    <2>4. comms = <<U!Free>> /\ comms' = p /\ readers' = readers /\ early' = early
      BY <2>1, <1>3, Zenon DEF U!TakeComms, U!EnterComms
    <2>5. QED
      BY <2>1, <2>2, <2>3, <2>4, <1>0, <1>1, <1>6, Through, Zenon
  <1>4. CASE U!Derived(u)
    <2>1. PICK l \in {"idle", "pin"} :
            U!Goto(p, l) /\ (early' = early \/ early' = (early \/ paths = U!Nil))
                         /\ (l = "pin" => early' = (early \/ paths = U!Nil))
      BY <1>0, <1>4 DEF U!Derived
    <2>0. early' \in BOOLEAN /\ (early => early') /\ (l = "pin" => paths # U!Nil \/ early')
      BY <2>1, <1>6, Noted
    <2>2. comms = p /\ readers' = readers \ {p}
      BY <1>0, <1>4, Zenon DEF U!Derived, U!ReleaseComms, U!RUnlock
    <2>3. /\ l \in Labels \ {"enumerate", "signing"} /\ l \notin Inside /\ l \notin U!Talking
          /\ l \in Pins => l = "pin"
      BY Zenon DEF Labels, Inside, Pins, Outside, U!Talking
    <2>4. l \in Pins => paths # U!Nil \/ early'
      BY <2>0, <2>3, Zenon
    <2>5. QED
      BY <2>0, <2>1, <2>2, <2>3, <2>4, <1>0, <1>1, Through
  <1>5. QED
    BY <1>2, <1>3, <1>4, Zenon

\* The heartbeat goes inside, takes the token and comes out.
LEMMA BeatThrough ==
    ASSUME UsbInv, NEW p \in U!Beats, (U!BeatTick(p) /\ device) \/ U!BeatComms(p) \/ U!Beaten(p)
    PROVE  UsbInv'
  <1>0. p \in U!Procs /\ p \notin U!Derivers
    BY Names, Zenon
  <1> USE DEF U!state, U!locks, U!misc
  <1>1. /\ UNCHANGED <<device, paths, listed, panicked, lost>>
        /\ UNCHANGED <<hubComms, commsPend>> /\ early' \in BOOLEAN /\ (early => early')
    BY Zenon DEF U!BeatTick, U!BeatComms, U!Beaten, UsbInv, UsbTypes
  <1>2. CASE U!BeatTick(p) /\ device
    <2>1. /\ U!Goto(p, "comms") /\ comms' = comms /\ readers' = readers \cup {p}
      BY <1>2, Zenon DEF U!BeatTick, U!RLock
    <2>2. /\ "comms" \in Labels \ {"enumerate", "signing"} /\ "comms" \notin U!Talking
          /\ "comms" \notin Pins
      BY Zenon DEF Labels, Inside, Pins, Outside, U!Talking
    <2>3. QED
      BY <2>1, <2>2, <1>0, <1>1, <1>2, Through, Zenon
  <1>3. CASE U!BeatComms(p)
    <2>1. /\ pc[p] = "comms" /\ U!Goto(p, "beating")
          /\ comms = <<U!Free>> /\ comms' = p /\ readers' = readers
      BY <1>3, Zenon DEF U!BeatComms, U!TakeComms, U!At
    <2>2. p \in readers /\ device
      BY <2>1, <1>0, Zenon DEF UsbInv, Talk, Inside
    <2>3. /\ "beating" \in Labels \ {"enumerate", "signing"} /\ "beating" \notin Pins
      BY Zenon DEF Labels, Inside, Pins, Outside
    <2>4. QED
      BY <2>1, <2>2, <2>3, <1>0, <1>1, Through, Zenon
  <1>4. CASE U!Beaten(p)
    <2>1. PICK l \in {"loop", "teardown"} : U!Goto(p, l)
      BY <1>4, Zenon DEF U!Beaten, U!AskLock
    <2>2. comms = p /\ readers' = readers \ {p}
      BY <1>4, Zenon DEF U!Beaten, U!ReleaseComms, U!RUnlock
    <2>3. /\ l \in Labels \ {"enumerate", "signing"} /\ l \notin Inside /\ l \notin U!Talking
          /\ l \notin Pins
      BY Zenon DEF Labels, Inside, Pins, Outside, U!Talking
    <2>4. QED
      BY <2>1, <2>2, <2>3, <1>0, <1>1, Through, Zenon
  <1>5. QED
    BY <1>2, <1>3, <1>4, Zenon

\* A self-derivation goes inside with the token and comes out, or is skipped.
LEMMA DeriverThrough ==
    ASSUME UsbInv, NEW p \in U!Derivers, U!DeriverEnter(p) \/ U!DeriverFound(p)
    PROVE  UsbInv'
  <1>0. p \in U!Procs
    BY Names, Zenon
  <1> USE DEF U!state, U!locks, U!misc
  <1>1. /\ UNCHANGED <<device, paths, listed, panicked, lost>>
        /\ UNCHANGED <<hubComms, commsPend>>
    BY Zenon DEF U!DeriverEnter, U!DeriverFound
  <1>2. CASE /\ device /\ U!RLock(p) /\ U!TakeComms(p) /\ U!Goto(p, "deriving")
             /\ early' = early
    <2>1. /\ comms = <<U!Free>> /\ comms' = p /\ readers' = readers \cup {p}
          /\ early' \in BOOLEAN /\ (early => early')
      BY <1>2, Zenon DEF U!RLock, U!TakeComms, UsbInv, UsbTypes
    <2>2. /\ "deriving" \in Labels \ {"enumerate", "signing"} /\ "deriving" \notin Pins
      BY Zenon DEF Labels, Inside, Pins, Outside
    <2>3. QED
      BY <2>1, <2>2, <1>0, <1>1, <1>2, Through, Zenon
  <1>3. CASE UNCHANGED <<readers, comms, early>> /\ U!Reply(p, "loop")
    <2>1. /\ pc' \in [U!Procs -> Labels]
          /\ \A q \in U!Procs : pc'[q] = pc[q] \/ pc'[q] \in Outside
      BY <1>3, Replied, Zenon
    <2>2. UNCHANGED Held
      BY <1>1, <1>3 DEF Held
    <2>3. QED
      BY <2>1, <2>2, Quiet, Zenon
  <1>4. CASE U!DeriverFound(p)
    <2>1. /\ U!Goto(p, "insert") /\ comms = p /\ readers' = readers \ {p}
          /\ early' = (early \/ paths = U!Nil)
      BY <1>4, Zenon DEF U!DeriverFound, U!AskLock, U!ReleaseComms, U!RUnlock
    <2>2. early' \in BOOLEAN /\ (early => early') /\ (paths # U!Nil \/ early')
      BY <2>1, Noted
    <2>3. /\ "insert" \in Labels \ {"enumerate", "signing"} /\ "insert" \notin Inside
          /\ "insert" \notin U!Talking
      BY Zenon DEF Labels, Inside, Pins, Outside, U!Talking
    <2>4. QED
      BY <2>1, <2>2, <2>3, <1>0, <1>1, Through, Zenon
  <1>5. QED
    BY <1>2, <1>3, <1>4, Zenon DEF U!DeriverEnter, U!misc

\* SignTx raises and lowers the count of confirmations, the only one inside.
LEMMA SignKept ==
    ASSUME UsbInv, NEW u \in Users, U!SignPend(u) \/ U!Signed(u)
    PROVE  UsbInv'
  <1>0. PICK p \in U!Procs : p = U!User(u) /\ p \notin U!Derivers /\ p # U!HubProc
    BY Names, Zenon
  <1> USE DEF U!state, U!locks, U!misc
  <1>1. UNCHANGED <<device, paths, listed, panicked, lost, early>> /\ hubComms' = hubComms
    BY Zenon DEF U!SignPend, U!Signed
  <1>2. PICK l \in {"signing", "idle"} : U!Goto(p, l)
    BY <1>0, Zenon DEF U!SignPend, U!Signed
  <1>3. l \in Labels /\ l \notin Pins
    BY Zenon DEF Labels, Inside, Outside, Pins
  <1>4. /\ pc' \in [U!Procs -> Labels] /\ pc'[p] = l
        /\ \A q \in U!Procs : q # p => pc'[q] = pc[q]
    BY <1>2, <1>3, Goes, Zenon
  <1>5. Maps'
    BY <1>1, <1>3, <1>4, MapsKept, Zenon
  <1>6. CASE U!SignPend(u)
    <2>1. /\ pc[p] = "signHub" /\ hubComms = <<U!Free>> /\ commsPend' = commsPend + 1
          /\ pc'[p] = "signing" /\ readers' = readers /\ comms' = comms
      BY <1>0, <1>4, <1>6, Zenon DEF U!SignPend, U!At, U!Goto, UsbInv, UsbTypes
    <2>2. p \in readers /\ device /\ comms = p
      BY <2>1, Zenon DEF UsbInv, Talk, Inside, U!Talking
    <2>3. Talk'
      BY <2>1, <2>2, <1>0, <1>1, <1>4, TalkKept, Zenon
    <2>4. commsPend' \in Nat /\ commsPend' > 0
      BY <2>1 DEF UsbInv, UsbTypes
    <2>5. pc'[U!HubProc] # "enumerate"
      BY <2>1, <1>0, <1>4, Names, Zenon DEF UsbInv, Confirm
    <2>6. Confirm'
      BY <2>4, <2>5, Zenon DEF Confirm, U!NoEnumerationWhileSigning
    <2>7. UsbTypes'
      BY <2>4, <1>1, <1>4, Zenon DEF UsbInv, UsbTypes
    <2>8. QED
      BY <2>3, <2>6, <2>7, <1>5, Zenon DEF UsbInv
  <1>7. CASE U!Signed(u)
    <2>1. /\ pc[p] = "signing" /\ comms = p /\ commsPend' = commsPend - 1
          /\ readers' = readers \ {p} /\ comms' = <<U!Free>> /\ pc'[p] = "idle"
      BY <1>0, <1>4, <1>7, Zenon DEF U!Signed, U!At, U!ReleaseComms, U!RUnlock, U!Goto, UsbInv, UsbTypes
    <2>2. Talk'
      <3>1. "idle" \notin Inside /\ "idle" \notin U!Talking
        BY Zenon DEF Inside, U!Talking
      <3>2. QED
        BY <2>1, <3>1, <1>0, <1>1, <1>4, TalkKept, Zenon
    <2>3. commsPend > 0
      BY <2>1, <1>0, Zenon DEF UsbInv, Confirm
    <2>4. commsPend' \in Nat
      BY <2>1, <2>3 DEF UsbInv, UsbTypes
    <2>5. \A v \in Users : pc'[U!User(v)] # "signing"
      <3> SUFFICES ASSUME NEW v \in Users, pc'[U!User(v)] = "signing" PROVE FALSE
        BY Zenon
      <3>1. U!User(v) \in U!Procs /\ U!User(v) # p
        BY <2>1, Names, Zenon
      <3>2. pc[U!User(v)] \in U!Talking
        BY <3>1, <1>4 DEF U!Talking
      <3>3. QED
        BY <3>1, <3>2, <2>1, Zenon DEF UsbInv, Talk
    <2>6. pc'[U!HubProc] = "enumerate" => hubComms' # <<U!Free>>
      BY <1>0, <1>1, <1>4, Names, Zenon DEF UsbInv, Confirm
    <2>7. Confirm'
      BY <2>5, <2>6, Zenon DEF Confirm, U!NoEnumerationWhileSigning
    <2>8. UsbTypes'
      BY <2>4, <1>1, <1>4, Zenon DEF UsbInv, UsbTypes
    <2>9. QED
      BY <2>2, <2>7, <2>8, <1>5, Zenon DEF UsbInv
  <1>8. QED
    BY <1>6, <1>7, Zenon

\* refreshWallets enumerates unless a confirmation is counted.
LEMMA HubKept ==
    ASSUME UsbInv, U!HubStart \/ U!HubEnumerated
    PROVE  UsbInv'
  <1> DEFINE p == U!HubProc
  <1>0. p \in U!Procs /\ p \notin U!Derivers /\ \A u \in Users : U!User(u) \in U!Procs /\ U!User(u) # p
    BY Names, Zenon
  <1> USE DEF U!state, U!locks, U!misc
  <1>1. /\ UNCHANGED <<device, paths, listed, panicked, lost, early>>
        /\ UNCHANGED <<readers, comms, commsPend>>
    BY Zenon DEF U!HubStart, U!HubEnumerated
  <1>2. CASE UNCHANGED <<hubComms, pc>>
    BY <1>1, <1>2, Quiet, Zenon DEF Held, UsbInv, UsbTypes
  <1>3. CASE \/ ~(commsPend > 0) /\ hubComms' = p /\ U!Goto(p, "enumerate")
             \/ U!Goto(p, "status")
    <2>1. PICK l \in {"enumerate", "status"} : U!Goto(p, l)
      BY <1>3, Zenon
    <2>2. l \in Labels /\ l \notin Pins /\ l \notin Inside /\ l \notin U!Talking
      BY Zenon DEF Labels, Inside, Outside, Pins, U!Talking
    <2>3. /\ pc' \in [U!Procs -> Labels] /\ pc'[p] = l
          /\ \A q \in U!Procs : q # p => pc'[q] = pc[q]
      BY <2>1, <2>2, <1>0, Goes, Zenon
    <2>4. Maps'
      BY <2>2, <2>3, <1>1, MapsKept
    <2>5. Talk'
      BY <2>2, <2>3, <1>0, <1>1, TalkKept
    <2>6. \A u \in Users : pc'[U!User(u)] = "signing" => commsPend' > 0
      BY <2>3, <1>0, <1>1, Zenon DEF UsbInv, Confirm
    <2>7. pc'[p] = "enumerate" => ~(commsPend > 0) /\ hubComms' = p
      BY <1>3, <2>3, <1>0 DEF U!Goto, UsbInv, UsbTypes
    <2>8. Confirm'
      BY <2>6, <2>7, <1>0, <1>1, Names, Zenon DEF Confirm, U!NoEnumerationWhileSigning
    <2>9. UsbTypes'
      BY <2>3, <1>1, Zenon DEF UsbInv, UsbTypes
    <2>10. QED
      BY <2>4, <2>5, <2>8, <2>9, Zenon DEF UsbInv
  <1>4. QED
    BY <1>2, <1>3, Zenon DEF U!HubStart, U!HubEnumerated

\* A step under the write lock may change the device and the maps.
LEMMA UnderLock ==
    ASSUME UsbInv, readers = {}, UNCHANGED <<hubComms, commsPend>>,
           pc' \in [U!Procs -> Labels],
           \A q \in U!Procs : pc'[q] = pc[q] \/ pc'[q] \in Outside,
           device' \in BOOLEAN, panicked' \in BOOLEAN, lost' \in BOOLEAN, early' \in BOOLEAN,
           paths' \in (SUBSET Accts) \cup {U!Nil}, Maps'
    PROVE  UsbInv'
  <1>1. Talk'
    <2>1. \A q \in U!Procs : pc'[q] \in Inside => pc'[q] = pc[q]
      BY DEF Outside, Inside
    <2>2. QED
      BY <2>1, TalkEmpty, Zenon
  <1>2. Confirm'
    <2>1. \A q \in U!Procs : pc'[q] \in {"signing", "enumerate"} => pc'[q] = pc[q]
      BY Zenon DEF Outside
    <2>2. QED
      BY <2>1, ConfirmKept, Zenon
  <1>3. UsbTypes'
    BY Zenon DEF UsbInv, UsbTypes
  <1>4. QED
    BY <1>1, <1>2, <1>3, Zenon DEF UsbInv

\* Open: nothing to do, the driver refuses, or the wallet gets an empty map.
LEMMA OpenKept ==
    ASSUME UsbInv, NEW u \in Users, U!Open(u)
    PROVE  UsbInv'
  <1>0. PICK p \in U!Procs : p = U!User(u)
    BY Names, Zenon
  <1> USE DEF U!state, U!locks, U!misc
  <1>1. /\ readers = {} /\ ~panicked /\ UNCHANGED <<hubComms, commsPend, panicked, lost, early>>
        /\ UNCHANGED <<readers, comms>>
    BY Zenon DEF U!Open, U!Exclusive, U!At
  <1>2. "idle" \in Outside /\ "loop" \in Outside /\ Outside \subseteq Labels /\ "idle" \in Labels
    BY Zenon DEF Outside, Labels
  <1>3. CASE U!Goto(p, "idle") /\ UNCHANGED <<device, paths, listed>>
    <2>1. UNCHANGED Held
      BY <1>1, <1>3, Zenon DEF Held
    <2>2. QED
      BY <2>1, <1>2, <1>3, GoesQuietly, Zenon
  <1>4. CASE paths = U!Nil /\ device' = TRUE /\ U!Goto(p, "idle") /\ UNCHANGED <<paths, listed>>
    <2>1. /\ pc' \in [U!Procs -> Labels] /\ pc'[p] = "idle"
          /\ \A q \in U!Procs : q # p => pc'[q] = pc[q]
      BY <1>2, <1>4, Goes, Zenon
    <2>2. Maps'
      <3>1. (\E q \in U!Procs : pc'[q] \in Pins) => \E q \in U!Procs : pc[q] \in Pins
        BY <2>1 DEF Pins
      <3>2. U!ListMatchesPaths' /\ U!PanicNeedsTeardown'
        BY <1>1, <1>4 DEF UsbInv, Maps, U!ListMatchesPaths, U!PanicNeedsTeardown
      <3>3. QED
        BY <3>1, <3>2, <1>1, <1>4, Zenon DEF UsbInv, Maps
    <2>3. QED
      BY <2>1, <2>2, <1>1, <1>2, <1>4, UnderLock, Zenon DEF UsbInv, UsbTypes
  <1>5. CASE /\ paths = U!Nil /\ device' = TRUE /\ paths' = {} /\ listed' = listed
             /\ \E b, d : pc' = [pc EXCEPT ![p] = "idle", ![b] = "loop", ![d] = "loop"]
    <2>1. PICK b, d : pc' = [pc EXCEPT ![p] = "idle", ![b] = "loop", ![d] = "loop"]
      BY <1>5, Zenon
    <2>2. \A q \in U!Procs : pc'[q] = pc[q] \/ pc'[q] \in Outside
      BY <2>1, <1>2, Zenon DEF UsbInv, UsbTypes
    <2>3. pc' \in [U!Procs -> Labels]
      BY <2>1, <1>2, Zenon DEF UsbInv, UsbTypes
    <2>4. paths' # U!Nil
      BY <1>5, Zenon DEF U!Nil
    <2>5. listed = {}
      BY <1>1, <1>5, Zenon DEF UsbInv, Maps, U!ListMatchesPaths
    <2>6. Maps'
      <3>1. U!ListMatchesPaths'
        BY <2>4, <2>5, <1>5 DEF U!ListMatchesPaths
      <3>2. U!PanicNeedsTeardown'
        BY <1>1, Zenon DEF U!PanicNeedsTeardown
      <3>3. QED
        BY <3>1, <3>2, <2>4, <1>5, Zenon DEF Maps
    <2>7. /\ paths' \in (SUBSET Accts) \cup {U!Nil} /\ panicked' \in BOOLEAN /\ lost' \in BOOLEAN
          /\ early' \in BOOLEAN
      BY <1>1, <1>5, Zenon DEF UsbInv, UsbTypes
    <2>8. QED
      BY <2>2, <2>3, <2>6, <2>7, <1>1, <1>5, UnderLock, Zenon
  <1>6. QED
    BY <1>0, <1>3, <1>4, <1>5, Zenon DEF U!Open

\* close, by Close or after a failed heartbeat: who waits with addresses has
\* lost the wallet.
LEMMA CloseKept ==
    ASSUME UsbInv, NEW p \in U!Procs, NEW l \in {"idle", "loop"}, U!close, U!Goto(p, l),
           readers = {}, panicked' = panicked, ~panicked,
           UNCHANGED <<hubComms, commsPend, readers, comms, early>>
    PROVE  UsbInv'
  <1>1. l \in Outside /\ l \in Labels /\ l \notin Pins
    BY Zenon DEF Outside, Labels, Pins
  <1>2. CASE UNCHANGED <<device, paths, listed, lost>>
    <2>1. UNCHANGED Held
      BY <1>2, Zenon DEF Held
    <2>2. QED
      BY <2>1, <1>1, GoesQuietly, Zenon
  <1>3. CASE /\ device' = FALSE /\ paths' = U!Nil /\ listed' = {}
             /\ lost' = (lost \/ U!Pending)
    <2>1. /\ pc' \in [U!Procs -> Labels] /\ pc'[p] = l
          /\ \A q \in U!Procs : q # p => pc'[q] = pc[q]
      BY <1>1, Goes, Zenon
    <2>2. Maps'
      <3>1. (\E q \in U!Procs : pc'[q] \in Pins) => lost'
        BY <2>1, <1>1, <1>3, Zenon DEF U!Pending, Pins
      <3>2. U!ListMatchesPaths' /\ U!PanicNeedsTeardown'
        BY <1>3, Zenon DEF U!ListMatchesPaths, U!PanicNeedsTeardown
      <3>3. QED
        BY <3>1, <3>2, <1>3, Zenon DEF Maps
    <2>3. lost' \in BOOLEAN
      <3>1. (lost \/ U!Pending) \in BOOLEAN
        BY Zenon
      <3>2. QED
        BY <3>1, <1>3, Zenon
    <2>4. panicked' \in BOOLEAN /\ device' \in BOOLEAN /\ early' \in BOOLEAN
      BY <1>3, Zenon DEF UsbInv, UsbTypes
    <2>5. /\ paths' \in (SUBSET Accts) \cup {U!Nil}
          /\ \A q \in U!Procs : pc'[q] = pc[q] \/ pc'[q] \in Outside
      BY <2>1, <1>1, <1>3, Zenon
    <2>6. QED
      BY <2>1, <2>2, <2>3, <2>4, <2>5, UnderLock, Zenon
  <1>4. QED
    BY <1>2, <1>3, Zenon DEF U!close

\* Entering addresses: into a map, or into the nil map of a wallet that is lost or not open.
LEMMA PinKept ==
    ASSUME UsbInv, NEW p \in U!Procs, NEW addrs \in SUBSET Accts, U!Pin(addrs),
           pc[p] \in Pins, ~panicked, readers = {},
           pc' \in [U!Procs -> Labels],
           \A q \in U!Procs : pc'[q] = pc[q] \/ pc'[q] \in Outside,
           UNCHANGED <<device, hubComms, commsPend, readers, comms, lost, early>>
    PROVE  UsbInv'
  <1>1. paths = U!Nil => lost \/ early
    BY Zenon DEF UsbInv, Maps
  <1>2. listed = IF paths = U!Nil THEN {} ELSE paths
    BY Zenon DEF UsbInv, Maps, U!ListMatchesPaths
  <1>3. CASE paths = U!Nil
    <2>1. paths' = U!Nil /\ panicked' = (addrs # {}) /\ listed' = addrs
      BY <1>2, <1>3, Zenon DEF U!Pin
    <2>2. U!ListMatchesPaths' /\ U!PanicNeedsTeardown'
      BY <2>1, <1>1, <1>3, Zenon DEF U!ListMatchesPaths, U!PanicNeedsTeardown
    <2>3. Maps'
      BY <2>1, <2>2, <1>1, <1>3, Zenon DEF UsbInv, Maps
    <2>4. panicked' \in BOOLEAN
      <3>1. (addrs # {}) \in BOOLEAN
        BY Zenon
      <3>2. QED
        BY <3>1, <2>1, Zenon
    <2>5. /\ paths' \in (SUBSET Accts) \cup {U!Nil}
          /\ device' \in BOOLEAN /\ early' \in BOOLEAN /\ lost' \in BOOLEAN
      BY <2>1, Zenon DEF UsbInv, UsbTypes
    <2>6. QED
      BY <2>3, <2>4, <2>5, UnderLock, Zenon
  <1>4. CASE paths # U!Nil
    <2>1. paths \in SUBSET Accts
      BY <1>4, Zenon DEF UsbInv, UsbTypes
    <2>2. paths' = paths \cup addrs /\ panicked' = FALSE /\ listed' = paths \cup addrs
      BY <1>2, <1>4, Zenon DEF U!Pin
    <2>3. paths' \in SUBSET Accts /\ paths' # U!Nil
      BY <2>1, <2>2, NilIsNoMap, Zenon
    <2>4. U!ListMatchesPaths' /\ U!PanicNeedsTeardown'
      BY <2>2, <2>3 DEF U!ListMatchesPaths, U!PanicNeedsTeardown
    <2>5. Maps'
      BY <2>3, <2>4 DEF UsbInv, Maps
    <2>6. QED
      BY <2>2, <2>3, <2>5, UnderLock, Zenon DEF UsbInv, UsbTypes
  <1>5. QED
    BY <1>3, <1>4, Zenon

\* Every step of the users keeps the invariant,
LEMMA UserKept ==
    ASSUME UsbInv, NEW u \in Users, U!Begin(u) \/ U!UserStep(u)
    PROVE  UsbInv'
  <1>0. PICK p \in U!Procs : p = U!User(u)
    BY Names, Zenon
  <1> USE DEF U!state, U!locks, U!misc
  <1>1. CASE U!Close(u)
    <2>1. /\ U!close /\ U!Goto(p, "idle") /\ readers = {} /\ panicked' = panicked /\ ~panicked
          /\ UNCHANGED <<hubComms, commsPend, readers, comms, early>>
      BY <1>0, <1>1, Zenon DEF U!Close, U!Exclusive, U!At
    <2>2. QED
      BY <2>1, CloseKept, Zenon
  <1>2. CASE U!PinAddress(u)
    <2>1. PICK a \in Accts : U!Pin({a})
      BY <1>2, Zenon DEF U!PinAddress
    <2>2. /\ pc[p] = "pinning" /\ ~panicked /\ readers = {} /\ U!Goto(p, "idle")
          /\ UNCHANGED <<device, hubComms, commsPend, readers, comms, lost, early>>
      BY <1>0, <1>2, Zenon DEF U!PinAddress, U!Exclusive, U!At
    <2>3. "pinning" \in Pins /\ "idle" \in Labels /\ "idle" \in Outside
      BY DEF Pins, Outside, Labels
    <2>4. /\ pc' \in [U!Procs -> Labels] /\ pc'[p] = "idle"
          /\ \A q \in U!Procs : q # p => pc'[q] = pc[q]
      BY <2>2, <2>3, Goes, Zenon
    <2>5. {a} \in SUBSET Accts /\ \A q \in U!Procs : pc'[q] = pc[q] \/ pc'[q] \in Outside
      BY <2>3, <2>4, Zenon
    <2>6. QED
      BY <2>1, <2>2, <2>3, <2>4, <2>5, PinKept
  <1>3. QED
    BY <1>1, <1>2, UserQuiet, UserThrough, SignKept, OpenKept, Zenon DEF U!UserStep

\* of the heartbeats,
LEMMA BeatKept ==
    ASSUME UsbInv, NEW b \in U!Beats, U!BeatStep(b)
    PROVE  UsbInv'
  <1>0. b \in U!Procs
    BY Names, Zenon
  <1>1. CASE U!BeatClose(b)
    <2>1. /\ U!close /\ U!Goto(b, "loop") /\ readers = {} /\ panicked' = panicked /\ ~panicked
          /\ UNCHANGED <<hubComms, commsPend, readers, comms, early>>
      BY <1>1, Zenon DEF U!BeatClose, U!Exclusive, U!At
    <2>2. QED
      BY <2>1, <1>0, CloseKept, Zenon
  <1>2. QED
    BY <1>0, <1>1, OthersQuiet, BeatThrough DEF U!BeatStep

\* of the self-derivations,
LEMMA DeriverKept ==
    ASSUME UsbInv, NEW d \in U!Derivers, U!DeriverStep(d)
    PROVE  UsbInv'
  <1>0. d \in U!Procs
    BY Names, Zenon
  <1> USE DEF U!state, U!locks, U!misc
  <1>1. CASE U!DeriverInsert(d)
    <2>1. PICK found \in SUBSET Accts, l \in {"found", "broken"} : U!Pin(found) /\ U!Reply(d, l)
      BY <1>1, Zenon DEF U!DeriverInsert
    <2>2. /\ pc[d] = "insert" /\ ~panicked /\ readers = {}
          /\ UNCHANGED <<device, hubComms, commsPend, readers, comms, lost, early>>
      BY <1>1, Zenon DEF U!DeriverInsert, U!Exclusive, U!At
    <2>3. /\ pc' \in [U!Procs -> Labels]
          /\ \A q \in U!Procs : pc'[q] = pc[q] \/ pc'[q] \in Outside
      BY <2>1, Replied, Zenon
    <2>4. pc[d] \in Pins
      BY <2>2, Zenon DEF Pins
    <2>5. QED
      BY <2>1, <2>2, <2>3, <2>4, <1>0, PinKept, Zenon
  <1>2. QED
    BY <1>0, <1>1, OthersQuiet, DeriverThrough, Zenon DEF U!DeriverStep

\* of the hub, and of the keys.
LEMMA UsbKept == UsbInv /\ [Next]_vars => UsbInv'
  <1> SUFFICES ASSUME UsbInv, [Next]_vars PROVE UsbInv'
    BY Zenon
  <1>1. CASE U!Next
    <2>1. ASSUME U!HubStart \/ U!HubStep PROVE UsbInv'
      BY <2>1, HubKept, OthersQuiet, Names, Zenon DEF U!HubStep
    <2>2. QED
      BY <1>1, <2>1, UserKept, BeatKept, DeriverKept DEF U!Next
  <1>2. CASE UNCHANGED usbVars
    <2>1. UNCHANGED Held /\ pc' = pc
      BY <1>2, Zenon DEF usbVars, Held
    <2>2. QED
      BY <2>1, Quiet, Zenon DEF UsbInv, UsbTypes
  <1>3. QED
    BY <1>1, <1>2, Zenon DEF Next, Locks, Usb, vars

\* A new wallet has no device, and no goroutine of it holds a lock.
LEMMA UsbInit == U!Init => UsbInv
  <1> SUFFICES ASSUME U!Init PROVE UsbInv
    BY Zenon
  <1>1. \A q \in U!Procs : pc[q] \in {"none", "idle"}
    BY Zenon DEF U!Init
  <1>2. UsbTypes
    <2>1. "none" \in Labels /\ "idle" \in Labels
      BY Zenon DEF Labels, Outside
    <2>2. QED
      BY <2>1, Zenon DEF U!Init, UsbTypes
  <1>3. Talk
    BY <1>1, Names, Zenon DEF Talk, Inside, U!Talking
  <1>4. Confirm
    BY <1>1, Names, Zenon DEF Confirm, U!NoEnumerationWhileSigning
  <1>5. Maps
    BY <1>1, Zenon DEF U!Init, Maps, Pins, U!ListMatchesPaths, U!PanicNeedsTeardown
  <1>6. QED
    BY <1>2, <1>3, <1>4, <1>5, Zenon DEF UsbInv

(* Hardware wallets (wallet.go, hub.go): one goroutine at a time talks to  *)
(* the device, which stays open meanwhile and is not enumerated while a    *)
(* user confirms; accounts and paths agree; and the nil map is written     *)
(* only after a teardown in between.  For any number of callers, Opens and *)
(* calls.                                                                  *)
THEOREM WalletIsSafe == Spec => []WalletSafe
  <1>1. Init => UsbInv
    BY UsbInit, Zenon DEF Init
  <1>2. UsbInv => WalletSafe
    <2> SUFFICES ASSUME UsbInv PROVE WalletSafe
      BY Zenon
    <2>1. U!CommsExclusive
      BY Zenon DEF UsbInv, Talk, U!CommsExclusive, U!Talkers, U!Talking, Inside
    <2>2. QED
      BY <2>1, Zenon DEF UsbInv, Confirm, Maps, WalletSafe
  <1>3. QED
    BY <1>1, <1>2, UsbKept, PTL DEF Spec


-----------------------------------------------------------------------------
(* Key files.  What is needed beyond the property: the file of a key that  *)
(* was acknowledged is sealed as a whole, and no call is under way on a    *)
(* file that was removed without a race.                                   *)
Calls == [at : {"write", "rename", "remove"}, path : Paths, key : Keys, auth : Passes]

Intact(file, key) ==
    /\ file.sealed /\ file.version \in {1, 3}
    /\ \E auth \in Passes :
        /\ file.text = [dk |-> getKDFKey(auth, file.salt), iv |-> file.iv, key |-> key]
        /\ file.mac = Keccak256(getKDFKey(auth, file.salt), file.text)

FilesInv ==
    /\ DOMAIN files = Paths
    /\ owner \in [Paths -> Keys \cup {NoKey}]
    /\ op \in [Callers -> Calls \cup {Idle}]
    /\ \A p \in Paths : owner[p] # NoKey => Intact(files[p], owner[p])
    /\ \A p \in removed \ filesRaced : p \in Paths /\ files[p] = NoKeyFile /\ ~Busy(p)

\* A key that was just sealed is intact.
LEMMA SealIntact ==
    ASSUME NEW v \in {1, 3}, NEW key, NEW auth \in Passes, NEW salt, NEW iv
    PROVE  Intact(Seal(v, key, auth, salt, iv), key)
<1> DEFINE file == Seal(v, key, auth, salt, iv)
<1>1. /\ file.sealed = TRUE /\ file.version = v /\ file.salt = salt /\ file.iv = iv
      /\ file.text = [dk |-> getKDFKey(auth, salt), iv |-> iv, key |-> key]
      /\ file.mac = Keccak256(getKDFKey(auth, salt), file.text)
    <2> HIDE DEF file
    <2>1. file = Seal(v, key, auth, salt, iv)
        BY Zenon DEF file
    <2> QED BY <2>1 DEF Seal
<1> HIDE DEF file
<1>2. Intact(file, key)
    BY <1>1, Zenon DEF Intact
<1> QED BY <1>2, Zenon DEF file

\* What is intact opens with the passphrase it was sealed with.
LEMMA IntactOpens ==
    ASSUME NEW file, NEW key, Intact(file, key)
    PROVE  \E auth \in Passes : GetKey(key, file, auth) = key
<1>1. PICK auth \in Passes :
        /\ file.text = [dk |-> getKDFKey(auth, file.salt), iv |-> file.iv, key |-> key]
        /\ file.mac = Keccak256(getKDFKey(auth, file.salt), file.text)
    BY Zenon DEF Intact
<1>2. file.text.dk = getKDFKey(auth, file.salt) /\ file.text.iv = file.iv /\ file.text.key = key
    BY <1>1
<1>3. Decipher(file, getKDFKey(auth, file.salt)) = key
    BY <1>2, Zenon DEF Decipher
<1>4. DecryptKey(file, auth) = key
    BY <1>1, <1>3, Zenon DEF DecryptKey, Intact
<1> QED BY <1>4, Zenon DEF GetKey, Intact

\* GetKey answers with the key asked for or with none, and with none for a file
\* that is not there.
LEMMA GetKeyIs ==
    ASSUME NEW addr, NEW file, NEW auth
    PROVE  /\ GetKey(addr, file, auth) \in {addr, NoKey}
           /\ file = NoKeyFile => GetKey(addr, file, auth) = NoKey
<1>1. NoKeyFile.sealed = FALSE
    BY DEF NoKeyFile
<1> QED BY <1>1, Zenon DEF GetKey

\* No field of another file makes a file open as another account's.
LEMMA SwapsAreRefused == SwapsRefused
<1> SUFFICES ASSUME NEW k \in Keys, NEW l \in Keys, NEW p \in Passes, NEW q \in Passes, NEW v \in {1, 3}
             PROVE  SwapRefused(k, l, p, q, v)
    BY Zenon DEF SwapsRefused
<1> DEFINE file == Seal(v, k, p, <<"salt", 1>>, <<"iv", 1>>)
<1>1. /\ file.sealed = TRUE /\ file.version = v
      /\ file.salt = <<"salt", 1>> /\ file.iv = <<"iv", 1>>
      /\ file.text = [dk |-> getKDFKey(p, file.salt), iv |-> file.iv, key |-> k]
      /\ file.mac = Keccak256(getKDFKey(p, file.salt), file.text)
    <2> HIDE DEF file
    <2>1. file = Seal(v, k, p, <<"salt", 1>>, <<"iv", 1>>)
        BY Zenon DEF file
    <2>2. /\ file.sealed = TRUE /\ file.version = v
          /\ file.salt = <<"salt", 1>> /\ file.iv = <<"iv", 1>>
          /\ file.text = [dk |-> getKDFKey(p, <<"salt", 1>>), iv |-> <<"iv", 1>>, key |-> k]
          /\ file.mac = Keccak256(getKDFKey(p, <<"salt", 1>>), file.text)
        BY <2>1 DEF Seal
    <2> QED BY <2>2, Zenon
<1> HIDE DEF file
<1>2. file.text.dk = getKDFKey(p, file.salt) /\ file.text.iv = file.iv /\ file.text.key = k
    BY <1>1
<1>3. ASSUME NEW auth \in Passes
      PROVE  GetKey(k, file, auth) = IF auth = p THEN k ELSE NoKey
    <2>1. CASE auth = p
        <3>1. DecryptKey(file, auth) = k
            BY <1>1, <1>2, <2>1, Zenon DEF DecryptKey, Decipher
        <3> QED BY <1>1, <2>1, <3>1, Zenon DEF GetKey
    <2>2. CASE auth # p
        <3>1. Keccak256(getKDFKey(auth, file.salt), file.text) # file.mac
            BY <1>1, <2>2 DEF Keccak256, getKDFKey
        <3>2. DecryptKey(file, auth) = NoKey
            BY <3>1, Zenon DEF DecryptKey
        <3> QED BY <2>2, <3>2, Zenon DEF GetKey
    <2> QED BY <2>1, <2>2, Zenon
<1> QED BY <1>3, GetKeyIs, Zenon DEF SwapRefused, file

\* At first one file is there, and nobody calls.
LEMMA FilesBegin == FilesInit => FilesInv
<1> SUFFICES ASSUME FilesInit PROVE FilesInv
    OBVIOUS
<1>1. PICK key \in Keys, auth \in Passes, version \in {1, 3}, path \in Paths :
        /\ files = [p \in Paths |-> IF p = path THEN Seal(version, key, auth, <<"salt", 0>>, <<"iv", 0>>)
                                    ELSE NoKeyFile]
        /\ owner = [p \in Paths |-> IF p = path THEN key ELSE NoKey]
    BY Zenon DEF FilesInit
<1>2. DOMAIN files = Paths /\ owner \in [Paths -> Keys \cup {NoKey}]
    BY <1>1, Zenon
<1>3. \A p \in Paths : owner[p] # NoKey => Intact(files[p], owner[p])
    BY <1>1, SealIntact, Zenon
<1>4. op \in [Callers -> Calls \cup {Idle}] /\ removed = {}
    BY Zenon DEF FilesInit
<1> QED BY <1>2, <1>3, <1>4, Zenon DEF FilesInv

\* A call that begins on a file that is not removed, or removed with a race,
\* preserves the invariant.
LEMMA BeginKeeps ==
    ASSUME FilesInv, NEW c \in Callers, NEW call \in Calls, Begin(c, call),
           call.path \notin removed \ filesRaced
    PROVE  FilesInv'
<1>1. op' \in [Callers -> Calls \cup {Idle}]
    BY Zenon DEF FilesInv, Begin
<1>2. ASSUME NEW p \in removed \ filesRaced PROVE ~Busy(p)'
    <2>1. ~Busy(p) /\ call.path # p
        BY <1>2, Zenon DEF FilesInv
    <2>2. \A d \in Callers : op'[d] = op[d] \/ op'[d] = call
        BY Zenon DEF FilesInv, Begin
    <2> QED BY <2>1, <2>2, Zenon DEF Busy
<1> QED BY <1>1, <1>2, Zenon DEF FilesInv, Begin

\* A call that goes on to another step or ends, with the files as they are,
\* preserves the invariant.
LEMMA GoesOnKeeps ==
    ASSUME FilesInv, op' \in [Callers -> Calls \cup {Idle}],
           \A d \in Callers : op'[d] = Idle \/ (op[d] # Idle /\ op'[d].path = op[d].path),
           UNCHANGED <<files, owner, removed, filesRaced>>
    PROVE  FilesInv'
<1>1. UNCHANGED files /\ UNCHANGED owner /\ UNCHANGED removed /\ UNCHANGED filesRaced
    OBVIOUS
<1>2. ASSUME NEW p \in removed \ filesRaced PROVE ~Busy(p)'
    BY <1>2, Zenon DEF FilesInv, Busy
<1> QED BY <1>1, <1>2, Zenon DEF FilesInv

\* What is known of a call under way.
LEMMA CallIs ==
    ASSUME FilesInv, NEW c \in Callers, op[c].at \in {"write", "rename", "remove"}
    PROVE  /\ op[c] # Idle /\ op[c] \in Calls
           /\ op[c].path \in Paths /\ op[c].key \in Keys /\ op[c].auth \in Passes
           /\ op[c].path \notin removed \ filesRaced
<1>1. op[c] # Idle
    BY DEF Idle
<1>2. op[c] \in Calls
    BY <1>1, Zenon DEF FilesInv
<1>3. op[c].path \in Paths /\ op[c].key \in Keys /\ op[c].auth \in Passes
    BY <1>2 DEF Calls
<1>4. op[c].path \notin removed \ filesRaced
    BY <1>1, Zenon DEF FilesInv, Busy
<1> QED BY <1>1, <1>2, <1>3, <1>4, Zenon

\* Every step of a caller, and a crash, preserves the invariant.
LEMMA FilesStep == FilesInv /\ [FilesNext]_filesVars => FilesInv'
<1> SUFFICES ASSUME FilesInv, [FilesNext]_filesVars PROVE FilesInv'
    OBVIOUS
<1>1. ASSUME NEW c \in Callers, NewAccount(c) PROVE FilesInv'
    <2>1. PICK key \in Keys, auth \in Passes, path \in Paths :
            /\ keyFileName(path)
            /\ Begin(c, [at |-> "write", path |-> path, key |-> key, auth |-> auth])
        BY <1>1, Zenon DEF NewAccount
    <2> DEFINE call == [at |-> "write", path |-> path, key |-> key, auth |-> auth]
    <2>2. call \in Calls /\ call.path = path
        BY DEF Calls
    <2>3. path \notin removed /\ Begin(c, call)
        BY <2>1, Zenon DEF keyFileName
    <2> QED BY <2>2, <2>3, BeginKeeps, Zenon
<1>2. ASSUME NEW path \in Paths, NEW auth \in Passes, GetKey(owner[path], files[path], auth) # NoKey
      PROVE  GetKey(owner[path], files[path], auth) \in Keys /\ path \notin removed \ filesRaced
    BY <1>2, GetKeyIs, Zenon DEF FilesInv
<1>3. ASSUME NEW c \in Callers, Update(c) PROVE FilesInv'
    <2>1. PICK path \in Paths, old \in Passes, new \in Passes :
            LET key == GetKey(owner[path], files[path], old)
            IN  /\ key # NoKey
                /\ Begin(c, [at |-> "write", path |-> path, key |-> key, auth |-> new])
        BY <1>3, Zenon DEF Update
    <2> DEFINE key == GetKey(owner[path], files[path], old)
               call == [at |-> "write", path |-> path, key |-> key, auth |-> new]
    <2>2. key \in Keys /\ path \notin removed \ filesRaced
        BY <1>2, <2>1, Zenon
    <2>3. Begin(c, call)
        BY <2>1, Zenon
    <2> HIDE DEF key
    <2>4. call \in Calls /\ call.path = path
        BY <2>2 DEF Calls
    <2> QED BY <2>2, <2>3, <2>4, BeginKeeps, Zenon
<1>4. ASSUME NEW c \in Callers, Delete(c) PROVE FilesInv'
    <2>1. PICK path \in Paths, auth \in Passes :
            LET key == GetKey(owner[path], files[path], auth)
            IN  /\ key # NoKey
                /\ Begin(c, [at |-> "remove", path |-> path, key |-> key, auth |-> auth])
        BY <1>4, Zenon DEF Delete
    <2> DEFINE key == GetKey(owner[path], files[path], auth)
               call == [at |-> "remove", path |-> path, key |-> key, auth |-> auth]
    <2>2. key \in Keys /\ path \notin removed \ filesRaced
        BY <1>2, <2>1, Zenon
    <2>3. Begin(c, call)
        BY <2>1, Zenon
    <2> HIDE DEF key
    <2>4. call \in Calls /\ call.path = path
        BY <2>2 DEF Calls
    <2> QED BY <2>2, <2>3, <2>4, BeginKeeps, Zenon
<1>5. ASSUME NEW c \in Callers, WriteTemp(c) PROVE FilesInv'
    <2>1. op[c] \in Calls /\ op[c] # Idle
        BY <1>5, CallIs, Zenon DEF WriteTemp
    <2>2. UNCHANGED <<files, owner, removed, filesRaced>>
        BY <1>5 DEF WriteTemp
    <2>3. [op[c] EXCEPT !.at = "rename"] \in Calls /\ [op[c] EXCEPT !.at = "rename"].path = op[c].path
        BY <2>1 DEF Calls
    <2>4. op' = [op EXCEPT ![c] = Idle] \/ op' = [op EXCEPT ![c] = [op[c] EXCEPT !.at = "rename"]]
        BY <1>5 DEF WriteTemp
    <2>5. op' \in [Callers -> Calls \cup {Idle}]
        BY <2>3, <2>4, Zenon DEF FilesInv
    <2>6. \A d \in Callers : op'[d] = Idle \/ (op[d] # Idle /\ op'[d].path = op[d].path)
        BY <2>1, <2>3, <2>4, Zenon DEF FilesInv
    <2> QED BY <2>2, <2>5, <2>6, GoesOnKeeps, Zenon
<1>10. ASSUME NEW c \in Callers, CallFails(c) PROVE FilesInv'
    <2>1. op' = [op EXCEPT ![c] = Idle] /\ UNCHANGED <<files, owner, removed, filesRaced>>
        BY <1>10, Zenon DEF CallFails
    <2>2. op' \in [Callers -> Calls \cup {Idle}] /\ \A d \in Callers : op'[d] = Idle \/ op'[d] = op[d]
        BY <2>1, Zenon DEF FilesInv
    <2> QED BY <2>1, <2>2, GoesOnKeeps, Zenon
<1>6. ASSUME NEW c \in Callers, Rename(c) PROVE FilesInv'
    <2> DEFINE path == op[c].path
               key == op[c].key
    <2>1. /\ path \in Paths /\ key \in Keys /\ op[c].auth \in Passes
          /\ path \notin removed \ filesRaced
        BY <1>6, CallIs, Zenon DEF Rename
    <2>2. /\ files' = [files EXCEPT ![path] = EncryptKey(key, op[c].auth, ops)]
          /\ owner' = [owner EXCEPT ![path] = key]
          /\ op' = [op EXCEPT ![c] = Idle]
          /\ removed' = removed /\ filesRaced' = filesRaced
        BY <1>6 DEF Rename
    <2>3. Intact(EncryptKey(key, op[c].auth, ops), key)
        BY <2>1, SealIntact, Zenon DEF EncryptKey
    <2> HIDE DEF path, key
    <2>4. DOMAIN files' = Paths /\ owner' \in [Paths -> Keys \cup {NoKey}]
        BY <2>1, <2>2, Zenon DEF FilesInv
    <2>5. op' \in [Callers -> Calls \cup {Idle}] /\ \A d \in Callers : op'[d] \in {op[d], Idle}
        BY <2>2, Zenon DEF FilesInv
    <2>6. ASSUME NEW p \in Paths, owner'[p] # NoKey PROVE Intact(files'[p], owner'[p])
        <3>1. CASE p = path
            BY <2>1, <2>2, <2>3, <3>1, Zenon DEF FilesInv
        <3>2. CASE p # path
            <4>1. files'[p] = files[p] /\ owner'[p] = owner[p]
                BY <2>2, <3>2, Zenon DEF FilesInv
            <4> QED BY <2>6, <4>1, Zenon DEF FilesInv
        <3> QED BY <3>1, <3>2, Zenon
    <2>7. ASSUME NEW p \in removed \ filesRaced
          PROVE  p \in Paths /\ files'[p] = NoKeyFile /\ ~Busy(p)'
        <3>1. p \in Paths /\ files[p] = NoKeyFile /\ ~Busy(p) /\ p # path
            BY <2>1, <2>7, Zenon DEF FilesInv
        <3>2. files'[p] = NoKeyFile
            BY <2>2, <3>1, Zenon DEF FilesInv
        <3>3. ~Busy(p)'
            BY <2>5, <3>1, Zenon DEF Busy
        <3> QED BY <3>1, <3>2, <3>3, Zenon
    <2> QED BY <2>2, <2>4, <2>5, <2>6, <2>7, Zenon DEF FilesInv
<1>7. ASSUME NEW c \in Callers, RemoveFile(c) PROVE FilesInv'
    <2> DEFINE path == op[c].path
    <2>1. path \in Paths
        BY <1>7, CallIs, Zenon DEF RemoveFile
    <2>2. /\ files' = [files EXCEPT ![path] = NoKeyFile]
          /\ owner' = [owner EXCEPT ![path] = NoKey]
          /\ removed' = removed \cup {path}
          /\ filesRaced' = IF \E d \in Callers \ {c} : op[d] # Idle /\ op[d].path = path
                           THEN filesRaced \cup {path} ELSE filesRaced
          /\ op' = [op EXCEPT ![c] = Idle]
        BY <1>7, Zenon DEF RemoveFile
    <2> HIDE DEF path
    <2>3. DOMAIN files' = Paths /\ owner' \in [Paths -> Keys \cup {NoKey}]
        BY <2>1, <2>2, Zenon DEF FilesInv
    <2>4. /\ op' \in [Callers -> Calls \cup {Idle}]
          /\ op'[c] = Idle /\ \A d \in Callers \ {c} : op'[d] = op[d]
        BY <2>2, Zenon DEF FilesInv
    <2>5. ASSUME NEW p \in Paths, owner'[p] # NoKey PROVE Intact(files'[p], owner'[p])
        <3>1. p # path
            BY <2>1, <2>2, <2>5, Zenon DEF FilesInv
        <3>2. files'[p] = files[p] /\ owner'[p] = owner[p]
            BY <2>2, <3>1, Zenon DEF FilesInv
        <3> QED BY <2>5, <3>2, Zenon DEF FilesInv
    <2>6. ASSUME NEW p \in removed' \ filesRaced'
          PROVE  p \in Paths /\ files'[p] = NoKeyFile /\ ~Busy(p)'
        <3>1. CASE p = path
            <4>1. files'[p] = NoKeyFile
                BY <2>1, <2>2, <3>1, Zenon DEF FilesInv
            <4>2. \A d \in Callers \ {c} : op[d] = Idle \/ op[d].path # path
                BY <2>2, <2>6, <3>1, Zenon
            <4> QED BY <2>1, <2>4, <3>1, <4>1, <4>2, Zenon DEF Busy
        <3>2. CASE p # path
            <4>1. p \in removed \ filesRaced
                BY <2>2, <2>6, <3>2, Zenon
            <4>2. p \in Paths /\ files[p] = NoKeyFile /\ ~Busy(p)
                BY <4>1, Zenon DEF FilesInv
            <4>3. files'[p] = NoKeyFile
                BY <2>2, <3>2, <4>2, Zenon DEF FilesInv
            <4> QED BY <2>4, <4>2, <4>3, Zenon DEF Busy
        <3> QED BY <3>1, <3>2, Zenon
    <2> QED BY <2>3, <2>4, <2>5, <2>6, Zenon DEF FilesInv
<1>8. CASE Crash
    <2>1. op' = [c \in Callers |-> Idle]
        BY <1>8, Zenon DEF Crash
    <2>2. UNCHANGED <<files, owner, removed, filesRaced>>
        BY <1>8 DEF Crash
    <2>3. op' \in [Callers -> Calls \cup {Idle}] /\ \A d \in Callers : op'[d] = Idle
        BY <2>1, Zenon
    <2> QED BY <2>2, <2>3, GoesOnKeeps, Zenon
<1>9. CASE UNCHANGED filesVars
    <2>1. /\ files' = files /\ owner' = owner /\ op' = op
          /\ removed' = removed /\ filesRaced' = filesRaced
        BY <1>9 DEF filesVars
    <2> QED BY <2>1, Zenon DEF FilesInv, Busy
<1> QED BY <1>1, <1>3, <1>4, <1>5, <1>6, <1>7, <1>8, <1>9, <1>10, Zenon DEF FilesNext

\* The invariant gives the property.
LEMMA FilesExact == FilesInv => KeyFilesExact
<1> SUFFICES ASSUME FilesInv PROVE KeyFilesExact
    OBVIOUS
<1>1. KeyKept
    BY IntactOpens, Zenon DEF FilesInv, KeyKept
<1>2. RemovedStays
    BY Zenon DEF FilesInv, RemovedStays
<1> QED BY <1>1, <1>2, SwapsAreRefused, Zenon DEF KeyFilesExact

(* For any keys, passphrases, paths and number of callers: no acknowledged *)
(* key is lost to a race of NewAccount, Update and Delete or to a crash    *)
(* between the steps of writeKeyFile, a file removed without a race stays  *)
(* removed, and no field swapped in from another file opens its key.       *)
THEOREM KeyFilesAreExact == FilesSpec => []KeyFilesExact
<1>1. FilesSpec => []FilesInv
    BY FilesBegin, FilesStep, PTL DEF FilesSpec
<1> QED BY <1>1, FilesExact, PTL
=============================================================================
