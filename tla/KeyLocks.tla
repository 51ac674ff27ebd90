------------------------------ MODULE KeyLocks ------------------------------
(***************************************************************************)
(* The unlocked keys of a KeyStore (accounts/keystore/keystore.go).        *)
(* Decrypting happens before ks.mu is taken; the map of unlocked keys is   *)
(* changed only under ks.mu; every timed unlock, and every Lock, runs an   *)
(* expire goroutine that holds a pointer to the entry it was started for.  *)
(* A key instance is a position in keys: the pointer the code compares.    *)
(***************************************************************************)
EXTENDS Naturals, Sequences, FiniteSets

CONSTANTS
    Addrs,      \* the addresses that have a key file
    MaxKeys     \* bound: decryptions during one behaviour

NoKey == 0

VARIABLES
    keys,       \* decrypted keys: [addr, timeout, abort, whole]
    calls,      \* instances whose TimedUnlock waits for ks.mu
    unlocked,   \* ks.unlocked: address -> instance, or NoKey
    expiring,   \* timed instances whose goroutine is in expire
    locking,    \* instances some Lock runs expire for, without a delay
    closes      \* how often each instance's abort channel was closed

vars == <<keys, calls, unlocked, expiring, locking, closes>>

Init ==
    /\ keys = <<>>
    /\ calls = {}
    /\ unlocked = [a \in Addrs |-> NoKey]
    /\ expiring = {}
    /\ locking = {}
    /\ closes = <<>>

\* getDecryptedKey: the file is read and decrypted before any lock is taken.
\* A wrong passphrase or a missing file returns the error and changes nothing.
getDecryptedKey(a, timed) ==
    /\ Len(keys) < MaxKeys
    /\ keys' = Append(keys, [addr |-> a, timed |-> timed, whole |-> TRUE])
    /\ closes' = Append(closes, 0)
    /\ calls' = calls \cup {Len(keys) + 1}
    /\ UNCHANGED <<unlocked, expiring, locking>>

zeroKey(k) == keys' = [keys EXCEPT ![k].whole = FALSE]

\* The critical section of TimedUnlock (Unlock is the call without a timeout).
TimedUnlock(k) ==
    LET a == keys[k].addr
        u == unlocked[a]
    IN  /\ k \in calls
        /\ calls' = calls \ {k}
        /\ \/ /\ u # NoKey
              /\ ~keys[u].timed
              /\ zeroKey(k)
              /\ UNCHANGED <<unlocked, expiring, closes>>
           \/ /\ u # NoKey => keys[u].timed
              /\ closes' = IF u = NoKey THEN closes ELSE [closes EXCEPT ![u] = @ + 1]
              /\ expiring' = IF keys[k].timed THEN expiring \cup {k} ELSE expiring
              /\ unlocked' = [unlocked EXCEPT ![a] = k]
              /\ UNCHANGED keys
        /\ UNCHANGED locking

\* Lock reads the entry under ks.mu, releases ks.mu, then calls expire.
Lock(a) ==
    /\ unlocked[a] # NoKey
    /\ locking' = locking \cup {unlocked[a]}
    /\ UNCHANGED <<keys, calls, unlocked, expiring, closes>>

\* An entry's abort channel exists for a timed unlock only.
Aborted(u) == keys[u].timed /\ closes[u] > 0

\* Faulty variant: the entry is dropped without comparing the pointers.
dropEntryAny(u) ==
    /\ zeroKey(u)
    /\ unlocked' = [unlocked EXCEPT ![keys[u].addr] = NoKey]

\* Faulty variant: the key is zeroed before the pointers are compared.
dropEntryZeroFirst(u) ==
    /\ keys' = [keys EXCEPT ![unlocked[keys[u].addr]].whole = FALSE]
    /\ unlocked' = [unlocked EXCEPT ![keys[u].addr] = IF @ = u THEN NoKey ELSE @]

\* The timer branch of expire, under ks.mu.
dropEntry(u) ==
    LET a == keys[u].addr
    IN  IF unlocked[a] = u
        THEN zeroKey(u) /\ unlocked' = [unlocked EXCEPT ![a] = NoKey]
        ELSE UNCHANGED <<keys, unlocked>>

\* expire: either channel of the select may be ready; both may be.
expire(u) ==
    /\ \/ u \in expiring /\ expiring' = expiring \ {u} /\ UNCHANGED locking
       \/ u \in locking /\ locking' = locking \ {u} /\ UNCHANGED expiring
    /\ \/ Aborted(u) /\ UNCHANGED <<keys, unlocked>>
       \/ dropEntry(u)
    /\ UNCHANGED <<calls, closes>>

Next ==
    \/ \E a \in Addrs, timed \in BOOLEAN : getDecryptedKey(a, timed)
    \/ \E k \in calls : TimedUnlock(k)
    \/ \E a \in Addrs : Lock(a)
    \/ \E u \in expiring \cup locking : expire(u)

Instances == 1..MaxKeys

\* The runtime schedules every goroutine, and a timer that was set fires.
Fairness == \A u \in Instances : WF_vars(u \in expiring \cup locking /\ expire(u))

Spec == Init /\ [][Next]_vars /\ Fairness

-----------------------------------------------------------------------------
(* A key that SignHash or SignTx can find is whole and belongs to the      *)
(* address it is found under: no timer, Lock or refused unlock zeroed it   *)
(* behind the signer's back.                                               *)
SignersKeyWhole ==
    \A a \in Addrs : unlocked[a] # NoKey =>
        keys[unlocked[a]].whole /\ keys[unlocked[a]].addr = a

(* No abort channel is closed twice: a second close would panic in the     *)
(* middle of TimedUnlock, with ks.mu held.                                 *)
AbortClosedOnce == \A k \in DOMAIN closes : closes[k] <= 1

(* A key that was unlocked and then dropped from the map by Lock or its    *)
(* timer is zeroed, so the only decrypted keys left whole are the listed   *)
(* ones, the ones still on their way in, and the replaced ones.            *)
DroppedKeysZeroed ==
    \A k \in DOMAIN keys :
        \/ ~keys[k].whole
        \/ k \in calls
        \/ unlocked[keys[k].addr] = k
        \/ closes[k] > 0

(* An account unlocked without a timeout stays so until Lock is called for *)
(* that very entry: neither the timer of an earlier timed unlock nor a new *)
(* timed unlock takes it away.                                             *)
IndefiniteStays ==
    \A a \in Addrs :
        /\ unlocked[a] # NoKey
        /\ ~keys[unlocked[a]].timed
        /\ unlocked'[a] # unlocked[a]
        => unlocked[a] \in locking

Timed(k) == k \in DOMAIN keys /\ keys[k].timed /\ unlocked[keys[k].addr] = k

(* An account unlocked for a duration does not stay unlocked by that call: *)
(* its entry is dropped or replaced.                                       *)
TimedUnlockEnds ==
    \A k \in Instances : Timed(k) ~> ~Timed(k)
=============================================================================
