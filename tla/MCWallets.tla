----------------------------- MODULE MCWallets ------------------------------
(***************************************************************************)
(* The keys a key store has unlocked, and a hardware wallet with its       *)
(* goroutines: the parts with timers and locks, which promise that         *)
(* something happens.  part says which of the two a behaviour is about;    *)
(* the other stays as it is initially.                                     *)
(***************************************************************************)
EXTENDS Naturals, Sequences

CONSTANTS
    Addrs, MaxKeys,                     \* KeyLocks
    Users, Accts, MaxOpens, MaxCalls    \* UsbWallet

\* UsbWallet writes the nil map as a set that no map of accounts is.
ASSUME AcctsAssumption == "nil" \notin Accts

VARIABLES
    part,
    keys, calls, unlocked, expiring, locking, closes,
    device, paths, listed, quit, opens, readers, waiting, comms, hubComms, commsPend,
    pc, arg, usbCalls, panicked, lost, early

K == INSTANCE KeyLocks
U == INSTANCE UsbWallet WITH calls <- usbCalls

keysVars == <<keys, calls, unlocked, expiring, locking, closes>>
usbVars == <<device, paths, listed, quit, opens, readers, waiting, comms, hubComms,
             commsPend, pc, arg, usbCalls, panicked, lost, early>>
vars == <<part, keysVars, usbVars>>

Init == part \in {"keys", "usb"} /\ K!Init /\ U!Init

Locks == part = "keys" /\ K!Next /\ UNCHANGED <<part, usbVars>>
Usb == part = "usb" /\ U!Next /\ UNCHANGED <<part, keysVars>>

Next == Locks \/ Usb

\* As in KeyLocks and UsbWallet.
Fairness ==
    /\ \A k \in K!Instances : WF_keysVars(part = "keys" /\ k \in expiring \cup locking /\ K!expire(k))
    /\ \A u \in Users :
        /\ WF_usbVars(part = "usb" /\ U!UserStep(u))
        /\ SF_usbVars(part = "usb" /\ U!EnterComms(u))
    /\ \A b \in U!Beats : WF_usbVars(part = "usb" /\ U!BeatStep(b))
    /\ \A d \in U!Derivers : WF_usbVars(part = "usb" /\ U!DeriverStep(d))
    /\ WF_usbVars(part = "usb" /\ U!HubStep)

Spec == Init /\ [][Next]_vars /\ Fairness

-----------------------------------------------------------------------------
(* Unlocked keys: whoever signs finds a whole key of the right address, no *)
(* abort channel is closed twice, and what Lock or a timer drops is        *)
(* zeroed.                                                                 *)
KeysGuarded == K!SignersKeyWhole /\ K!AbortClosedOnce /\ K!DroppedKeysZeroed

(* Unlocked keys: no timer takes an indefinite unlock away.                *)
IndefiniteStays == [][part = "keys" => K!IndefiniteStays]_vars

(* Hardware wallets: one goroutine talks to the device, which stays open   *)
(* meanwhile and is not enumerated while a user confirms; accounts and     *)
(* paths agree; and the nil map is written only after a teardown in        *)
(* between, or when the wallet was not open in the first place.            *)
WalletSafe ==
    U!CommsExclusive /\ U!NoEnumerationWhileSigning /\ U!ListMatchesPaths /\ U!PanicNeedsTeardown

(* A timed unlock comes to its end, and so do all calls and refreshes of   *)
(* hardware wallets.                                                       *)
WalletsProgress == K!TimedUnlockEnds /\ U!CallsReturn
=============================================================================
