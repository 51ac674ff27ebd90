------------------------------ MODULE KeyFiles ------------------------------
(***************************************************************************)
(* Key files (accounts/keystore/key.go, keystore_passphrase.go, presale.go *)
(* and the calls of keystore.go that read and write them): how a key is    *)
(* sealed with a passphrase and opened again, and how files are written,   *)
(* replaced and removed by several callers, with a process that may die    *)
(* between any two steps.                                                  *)
(*                                                                         *)
(* Ciphers and hashes are symbolic: a derived key is the pair of the       *)
(* passphrase and the salt, a cipher text holds the key and the vector it  *)
(* was made with and opens only with both, a MAC holds what it covers.     *)
(* Opening with another vector gives some other key.                       *)
(***************************************************************************)
EXTENDS Naturals, Sequences

CONSTANTS
    Keys,       \* private keys; a key stands for its address, too
    Passes,     \* passphrases
    Callers,    \* goroutines
    Paths,      \* key file names
    MaxOps      \* bound on the calls

VARIABLES
    files,      \* per path: a sealed key, or NoKeyFile
    temps,      \* hidden temporary files left in the directory
    op,         \* per caller: the call under way
    ops,
    owner,      \* history: per path, the key acknowledged there, or NoKey
    removed,    \* history: paths of files that were removed
    filesRaced  \* history: those with another call under way at that moment

filesVars == <<files, temps, op, ops, owner, removed, filesRaced>>

NoKeyFile == [sealed |-> FALSE]
NoKey == "none"
Mangled == "garbage"

-----------------------------------------------------------------------------
(* EncryptKey and DecryptKey.                                              *)
getKDFKey(auth, salt) == <<auth, salt>>
Keccak256(dk, text) == <<dk, text>>

Seal(version, key, auth, salt, iv) ==
    LET dk == getKDFKey(auth, salt)
        text == [dk |-> dk, iv |-> iv, key |-> key]
    IN  [sealed |-> TRUE, version |-> version, salt |-> salt, iv |-> iv, text |-> text,
         mac |-> Keccak256(dk, text)]

\* A version 3 file, the salt and the vector drawn anew.
EncryptKey(key, auth, nonce) == Seal(3, key, auth, <<"salt", nonce>>, <<"iv", nonce>>)

\* aesCTRXOR gives something for every vector; aesCBCDecrypt (version 1)
\* refuses what does not end in its padding.
Decipher(file, dk) ==
    IF file.text.dk = dk /\ file.text.iv = file.iv THEN file.text.key
    ELSE IF file.version = 1 THEN NoKey ELSE Mangled

DecryptKey(file, auth) ==
    LET dk == getKDFKey(auth, file.salt)
    IN  IF file.version \notin {1, 3} THEN NoKey
        ELSE IF Keccak256(dk, file.text) # file.mac THEN NoKey
        ELSE Decipher(file, dk)

\* GetKey: the key, if it is the one of the address asked for.
GetKey(addr, file, auth) ==
    IF ~file.sealed THEN NoKey
    ELSE LET key == DecryptKey(file, auth) IN IF key = addr THEN key ELSE NoKey

-----------------------------------------------------------------------------
(* Calls.  A call is [at, path, key, auth]; it is idle, about to write     *)
(* its temporary file, about to rename it, or about to remove the file.    *)
Idle == [at |-> "idle"]

FilesInit ==
    /\ \E key \in Keys, auth \in Passes, version \in {1, 3}, path \in Paths :
        /\ files = [p \in Paths |-> IF p = path THEN Seal(version, key, auth, <<"salt", 0>>, <<"iv", 0>>)
                                    ELSE NoKeyFile]
        /\ owner = [p \in Paths |-> IF p = path THEN key ELSE NoKey]
    /\ temps = {} /\ op = [c \in Callers |-> Idle] /\ ops = 0 /\ removed = {} /\ filesRaced = {}

Busy(path) == \E c \in Callers : op[c] # Idle /\ op[c].path = path

Begin(c, call) ==
    /\ op[c] = Idle /\ ops < MaxOps
    /\ ops' = ops + 1
    /\ op' = [op EXCEPT ![c] = call]
    /\ UNCHANGED <<files, temps, owner, removed, filesRaced>>

\* keyFileName: the name holds the time and is new.
keyFileName(path) == files[path] = NoKeyFile /\ ~Busy(path) /\ path \notin removed

\* storeNewKey, importKey, importPreSaleKey.
NewAccount(c) ==
    \E key \in Keys, auth \in Passes, path \in Paths :
        /\ keyFileName(path)
        /\ Begin(c, [at |-> "write", path |-> path, key |-> key, auth |-> auth])

\* Update: the key is opened with one passphrase, then stored with another.
Update(c) ==
    \E path \in Paths, old, new \in Passes :
        LET key == GetKey(owner[path], files[path], old)
        IN  /\ key # NoKey
            /\ Begin(c, [at |-> "write", path |-> path, key |-> key, auth |-> new])

\* Delete: the passphrase is checked, then the file is removed.
Delete(c) ==
    \E path \in Paths, auth \in Passes :
        LET key == GetKey(owner[path], files[path], auth)
        IN  /\ key # NoKey
            /\ Begin(c, [at |-> "remove", path |-> path, key |-> key, auth |-> auth])

\* Faulty variant of WriteTemp: the file itself is truncated and filled.
WriteInPlace(c) ==
    /\ op[c].at = "write"
    /\ files' = [files EXCEPT ![op[c].path] = NoKeyFile]
    /\ op' = [op EXCEPT ![c].at = "rename"]
    /\ UNCHANGED <<temps, ops, owner, removed, filesRaced>>

\* writeKeyFile: the temporary file is made and filled; if that fails it is
\* removed and the call with it.
WriteTemp(c) ==
    /\ op[c].at = "write"
    /\ \/ /\ temps' = temps \cup {c}
          /\ op' = [op EXCEPT ![c].at = "rename"]
       \/ op' = [op EXCEPT ![c] = Idle] /\ UNCHANGED temps
    /\ UNCHANGED <<files, ops, owner, removed, filesRaced>>

\* Then it takes the place of the file in one step.
Rename(c) ==
    /\ op[c].at = "rename"
    /\ files' = [files EXCEPT ![op[c].path] = EncryptKey(op[c].key, op[c].auth, ops)]
    /\ owner' = [owner EXCEPT ![op[c].path] = op[c].key]
    /\ temps' = temps \ {c}
    /\ op' = [op EXCEPT ![c] = Idle]
    /\ UNCHANGED <<ops, removed, filesRaced>>

RemoveFile(c) ==
    LET path == op[c].path
    IN  /\ op[c].at = "remove"
        /\ files' = [files EXCEPT ![path] = NoKeyFile]
        /\ owner' = [owner EXCEPT ![path] = NoKey]
        /\ removed' = removed \cup {path}
        /\ filesRaced' = IF \E d \in Callers \ {c} : op[d] # Idle /\ op[d].path = path
                         THEN filesRaced \cup {path} ELSE filesRaced
        /\ op' = [op EXCEPT ![c] = Idle]
        /\ UNCHANGED <<temps, ops>>

\* The rename or the removal fails: the file stays as it was, and so does the
\* temporary one.
CallFails(c) ==
    /\ op[c].at \in {"rename", "remove"}
    /\ op' = [op EXCEPT ![c] = Idle]
    /\ UNCHANGED <<files, temps, ops, owner, removed, filesRaced>>

\* The process dies: nothing of its calls is left but temporary files.
Crash ==
    /\ \E c \in Callers : op[c] # Idle
    /\ op' = [c \in Callers |-> Idle]
    /\ UNCHANGED <<files, temps, ops, owner, removed, filesRaced>>

FilesNext ==
    \/ \E c \in Callers :
        NewAccount(c) \/ Update(c) \/ Delete(c) \/ WriteTemp(c) \/ Rename(c) \/ RemoveFile(c) \/ CallFails(c)
    \/ Crash

FilesSpec == FilesInit /\ [][FilesNext]_filesVars

-----------------------------------------------------------------------------
(* No key is lost: whatever calls race and wherever the process dies, a    *)
(* file that was written and not removed holds its own key, and some       *)
(* passphrase opens it.                                                    *)
KeyKept ==
    \A path \in Paths :
        owner[path] # NoKey =>
            \E auth \in Passes : GetKey(owner[path], files[path], auth) = owner[path]

(* A file that was removed stays removed, unless a change of its           *)
(* passphrase or another removal was under way.                            *)
RemovedStays == \A path \in removed \ filesRaced : files[path] = NoKeyFile

(* A file with one field of another file put into it never opens as a key  *)
(* of another account: the MAC covers the text, the comparison of          *)
(* addresses covers the vector, which the MAC leaves out.                  *)
Fields == {"version", "salt", "iv", "text", "mac"}
SwapRefused(k, l, p, q, v) ==
    LET file == Seal(v, k, p, <<"salt", 1>>, <<"iv", 1>>)
        other == Seal(v, l, q, <<"salt", 2>>, <<"iv", 2>>)
    IN  \A f \in Fields, auth \in Passes :
            /\ GetKey(k, [file EXCEPT ![f] = other[f]], auth) \in {k, NoKey}
            /\ GetKey(k, file, auth) = IF auth = p THEN k ELSE NoKey
SwapsRefused == \A k, l \in Keys, p, q \in Passes, v \in {1, 3} : SwapRefused(k, l, p, q, v)

(* No key is lost to a race or a crash, what is removed stays removed      *)
(* unless there was a race, and fields of one file do not open another's   *)
(* key.                                                                    *)
KeyFilesExact == KeyKept /\ RemovedStays /\ SwapsRefused
=============================================================================
