# A TLA+ verification of minievm

The repository is a bug finder for Ethereum token contracts.  It carries a
modified go-ethereum virtual machine whose arithmetic opcodes leave a *taint* in
the contract's storage when they overflow, a simplified in-memory state database,
a fuzzer that mutates a contract's storage and calls its methods with random
arguments, a detector that tries boundary values, a replayer of recorded
transactions, and drivers that push files through worker goroutines.  Around them
stand the go-ethereum libraries it was taken from: tries, databases, RLP,
transaction and block types, the contract ABI, and account management.

This directory holds TLA+ models of those parts, TLC configurations that check them
on small instances, and proofs checked by TLAPS.  Every definition is translated
from the Go source; `PROJECT.json` maps definitions to lines, and lists the hazards
of the code with the properties that would notice them.

## 1. The parts and their modules

| Part | Source | Modules | What is hard about it |
|---|---|---|---|
| State database | `core/state/statedb.go`, `core/evm.go` | `StateDB` | reads have effects (`GetBalance` adds 100), snapshots do nothing |
| EVM calls | `core/vm/evm.go`, `interpreter.go`, `gas.go`, `contract.go` | `EVM` | one flag and one counter for all nested calls, early returns, unchecked `uint64`, a goroutine that cancels |
| Inside a frame | `core/vm/instructions.go`, `jump_table.go`, `stack*.go`, `memory*.go`, `intpool.go`, `gas_table.go`, `analysis.go`, `common/math/big.go` | `Machine`, `Interpreter`, `Arithmetic` | recycled big integers, checks made from tables written by hand, word arithmetic, a cache under a zero key |
| Precompiles | `core/vm/contracts.go`, `crypto/bn256` | `Precompiles`, `Curves`, `Pairing` | results written over arguments, lengths that exceed 64 bits, points in several forms |
| Drivers | `main.go` | `Drivers`, `TaskSet` | bounded channel, several receivers, close and wait in two orders |
| Fuzzer | `detectors/fuzzint.go`, `contractutils.go` | `FuzzInt` | taints outlive calls, backups may share their map, a log that is not flushed |
| Detector | `detectors/overflowdetection.go`, `common.go` | `OverFlowDetector`, `InputGen` | logs accumulate, early returns leave nil fields, aliased input values |
| Replayer | `creplayer/` | `Replayer` | a cache file written after partial failures, crashes, restarts |
| Key store | `accounts/keystore` | `KeyLocks`, `KeyFiles`, `AccountCache`, `Wallets` | timers against new unlocks, crashes between file operations, a directory that others change |
| Account manager | `accounts/manager.go`, `hd.go` | `Wallets`, `UsbFraming` | events applied to a list of another time |
| Hardware wallets | `accounts/usbwallet` | `Hub`, `UsbWallet`, `UsbFraming` | three locks, goroutines per opening, a device that fails at any moment |
| Tries | `trie` | `Trie`, `TrieDatabase`, `TrieSync` | cached hashes, missing nodes, reference counts, two-phase commits, replies in any order |
| Databases | `ethdb` | `EthDatabase` | stopping a goroutine that may have left |
| RLP | `rlp` | `Rlp`, `RlpStream` | headers put in afterwards; one value, one encoding; a stream driven by callers |
| Transactions, blocks | `core/types` | `Transactions`, `CoreTypes` | cached senders, shared headers, encodings for storage |
| Contract interfaces | `accounts/abi`, `accounts/abi/bind` | `Abi`, `Bindings` | offsets taken from data, overloads, two senders with one nonce |

A module `MC...` instantiates components for TLC.  `MCEVM` checks one component, and
`Drivers` needs no such module.  The others check several: a variable `part`, chosen
initially, says which component a behaviour is about; its actions run, the variables
of the others keep their first value.  A pure function has its arguments in `arg`
(in `MCData` the first step, `Choose`, picks them).  The components about which
theorems are proved are extended by their MC module where names allow it
(`FuzzInt` by `MCTools`, `Interpreter` and `Arithmetic` by `MCMachine`, `KeyFiles` by
`MCAccounts`), so that the run checks the very definition the theorem states and
TLC evaluates its assumptions; `MCTools` and `MCAccounts` assume those of the
detector and the hub as they instantiate them.  The interactions that matter are composed: the EVM with the state database, the
machine with its instruction table, the drivers with what a scan promises, key
store lists with the manager, hub with wallet locks, precompile with pairing and
curve.

## 2. State and actions

**StateDB, EVM.**  A database is a value `[StateMap, Logs]`; each method is an
operator from a database to the one it leaves.  `RevertToSnapshot` is the identity,
as in the code.  `frames` holds the `Contract` of every active `Interpreter.Run`;
`depth`, `readOnly`, `abort` are the fields of the same name.  `Cancel` runs in
another goroutine: `inflight` says that it fell between the loop's test of `abort` and
the instruction, which then still executes.  The fields `gas0`
and `snap` of a frame are history.  The program is arbitrary: a running frame may
execute any opcode with any operands, so a property of the model holds for every
program.  `Invoke` is the body of `Call`, `CallCode`, `DelegateCall` and
`StaticCall` up to `run`, `Create` that of `Create`; `Exit` and `Finish` are what
follows `run` with the deferred statements and the addition of left-over gas.  Gas
is a word `0..MaxUint64` that wraps.  The chain rules are those both clients run
with (main net at a Byzantium block).

**Machine.**  The jump table entry by entry, and for every opcode
which stack slots and which pool it takes integers from and gives them to.
Integers are objects with identity; their values do not matter here.
**Interpreter** has two halves.  The first is the analysis of jump destinations: it
reduces frames to code and code hash, and translates `codeBitmap` with its groups of
eight bits; `IsArguments` is the reference.  The second is one turn of the
interpreter for an opcode that touches memory: size, fee, resize, access.
**Arithmetic** computes as the code does, with unbounded integers cut back to words.

**Precompiles.**  `modexp` and `ecrecover` with scaled bytes and words.
**Curves**, **Pairing**: field tower, both curves in Jacobian
coordinates, encodings, Miller loop and final exponentiation, over small primes
for which curves of the same shape exist.  A turn of a loop is a step.

**Drivers, TaskSet.**  `main2` and `dispatcher` differ in the order of `close` and
`wg.Wait`, in the number of workers, and in whether the profiling server keeps the
Go runtime from noticing that all goroutines sleep.  `TaskSet` says what a scan
promises; `Drivers` implements it.

**FuzzInt, OverFlowDetector, InputGen.**  One action per statement that matters.
An EVM call is its outcome; `LocalKept`, which is `StateKept` of `EVM` as the tools
configure it, justifies that.  Interfaces and abstract contracts (`Bare`) are deployed
without code, and one of them can become the main contract; calls then do nothing.
`copier.Copy` is an external library: `deep` says whether it
copies or shares maps, and both are checked.  `InputGen` keeps numbers in a heap,
because the code appends one `big.Int` many times and truncates it in place.

**Replayer.**  Load or fetch, save, give money, replay; any request may fail, the
process may die at any step, and only the file survives.  A gob value is one
message, so a truncated file does not load.

**KeyLocks, KeyFiles, AccountCache, Wallets.**  Steps end where the code releases
a lock or a file operation completes; reading the directory, renaming and removing
may fail.  Ciphers are symbolic.  **Hub** and **UsbWallet** hold the locks explicitly
where they are held over several steps; a waiting writer keeps new readers out, as
`sync.RWMutex` does.  A refresh of the hub merges the lists under its lock and sends
the events (`telling`) one by one after it.  `selfDerive` tests `device` only, so it
runs on a device that was opened but whose driver was not.  **UsbFraming** is both
packet protocols with their errors (a read that fails, a header that does not match),
the streaming of a transaction, and derivation paths; a Ledger's reply ends with two
status bytes, which the code cuts off.

**Trie.**  Nodes with cached hashes and generations; a hash is the collapsed node it
stands for.  Insert, delete, resolve, hash, commit, unload; iterators as they are
moved and retried, the interrupted `seek` included, which is made again from the key it
keeps; proofs.  **TrieDatabase** names nodes by hash and counts
references; storing, committing, dereferencing run in different goroutines; its
second half is the secure trie with its cache of hashed keys.
**TrieSync** schedules requests; replies are lost, repeated and reordered.

**Rlp.**  Encoder with its list of headers, the reader that puts them in, decoders
by kind, `Split` and `CountValues`.  **RlpStream**: a `Stream` in the hands of a
caller who calls anything in any order.

**Transactions, CoreTypes.**  Signers by chain and the caches two
goroutines fill; the price heap; storage encodings and blooms; headers as
references that copies share or do not.

**Abi, Bindings.**  Types parsed from their text, packing, unpacking, fuzzed data,
names, topics.  Bindings are goroutines whose every backend call takes the lock on
its own.  A transaction has a nonce that was asked for or given, and is signed rightly,
wrongly or not; whether the chain can add it (gas, balance) is external.

Definitions whose comment calls them a faulty variant are used by no
specification.  Each changes one definition the way a plausible slip in the Go code
would; substituting it makes the property named in `PROJECT.json` fail, which shows
that the property depends on the code.

## 3. Runs

| Run | Properties | Shows |
|---|---|---|
| `MCEVM_frames` | `TypeOK DepthInv ReadOnlyInv GasInv StateKept CallReturns` | nesting to the depth limit with every kind of call, gas at its edges, `Cancel` between any two instructions and between the test of `abort` and the instruction |
| `MCEVM_revert` | `ErrorReversesState`, violated | a failed call keeps its effects |
| `Drivers_scan` | `TaskConserved ImplementsScan AllProcessed Main2Returns` | both drivers hand every file to one worker |
| `Drivers_end` | `Returns`, violated | `dispatcher` waits for a worker that waits for the close |
| `MCTools` | `FuzzerSound DetectorExact ReplayExact LocalKept ToolEnds` | fuzzer with both kinds of copy, detector, inputs, replayer, and the EVM as these use it |
| `MCTools_stale` | `ReportedCallOverflowed`, violated | a call is reported for an earlier call's overflow |
| `MCMachine` | `JumpsExact MachineSafe MemoryExact ArithmeticExact` | every opcode of the table inside a frame and one nested call |
| `MCAccounts` | `CacheExact KeyFilesExact ListsExact WireExact RefreshExact` | key directory, wallet lists, packets |
| `MCAccounts_drop` | `DropsSpecified`, violated | dropping a wallet that is not listed removes its successor |
| `MCWallets` | `KeysGuarded WalletSafe IndefiniteStays WalletsProgress` | unlocked keys; locks and goroutines of a hardware wallet |
| `MCStorage` | `TrieExact WalkExact NodesKept SyncComplete StoresExact TablesApart` | tries, walks, node database, sync, stores |
| `MCData` | `RlpExact SigningExact TypesExact AbiExact BindingsExact PrecompilesExact` | encodings and algorithms against reference definitions |

Many of these properties are conjunctions of the component's own, which are stated
one by one in its module.  Deadlock checking is off: clients need not call again,
tools end, and pure parts take no step.

**"Unless there was a race".**  Several properties have that form: a history
variable (`raced`, `leaked`, `shared`, `panicked`) is set where two goroutines meet
in a way the code has no protection against, or where an error is dropped, and the
property says that what a caller may rely on holds in every other case.  The
exceptions are:

- `AccountCache`: two overlapping scans; a file changed before the watcher was
  registered, between a key store operation and its entry in the cache, or without
  the clock advancing; a listing of the directory that failed, until the next one: the
  watcher ignores the error and has cleared its trigger (`watch.go:104`);
- `KeyFiles`: a removal while a change of the passphrase or another removal of the
  same file is under way;
- `Wallets`: two goroutines with events to send, or wallets that come or go between
  the manager's snapshot and its subscription;
- `Hub`: events are sent after the lock is released (`hub.go:192`), so two refreshes
  can send the drop of a wallet before its arrival; who listens then keeps a wallet
  that is not in the list;
- `UsbWallet`: a teardown between the release of the read lock and the write to the
  map of paths, which then panics; likewise the write after a derivation on a device
  whose driver asked for a PIN, since the map is made only after the driver opened
  (`wallet.go:147`, `405`);
- `TrieDatabase`: a reference given up while a trie is being stored; a preimage
  added between the two phases of a `Commit`;
- `TrieDatabase`, secure tries: keys of a copy that were not committed, a `Delete` that failed;
- `EthDatabase`: `Close` after the metering goroutine ended by itself or after
  another `Close`;
- `Bindings`: two senders that read one nonce; `SendTransaction` also panics, as its
  comment says, for a nonce the caller gave, a signature without a sender, and a
  transaction that cannot be added;
- `Transactions`: `DecodeRLP` into a transaction whose hash or sender was asked for
  leaves them cached; `NewTransactionsByPriceAndNonce` panics for an account without
  transactions or with another sender's;
- `Curves`: `Marshal` of infinity, and `e.Add(e, b)` for equal points, which `Double`
  then reads while it writes them;
- `Transactions`, blocks: a sealed block (`WithSeal`) shares its header's integers and extra data
  with the caller, and uncles are handed out themselves.

**Violations.**  Four runs show where the code does not do what a comment says.
(1) `RevertToSnapshot` is empty, so `Call` does not reverse "the state in case of an
execution error".  (2) `dispatcher` never returns after its last file.  (3) Nothing
clears a taint, so a reported call need not have overflowed itself; what does hold
is in `FuzzerSound`: no overflow is missed and there is no report without an
overflow at some time.  (4) `drop` does not compare what it finds with what it was
asked to remove.

Smaller disagreements, met while modelling and not runs of their own:

- overflow taints and `BALANCE` modify state under `StaticCall` (`evm.go:291`);
- the zero code hash makes nested contracts share a bitmap (`analysis.go:25`,
  `interpreter.go:126`); `JumpsExact` says what holds;
- the guard of `memoryGasCost` admits sizes whose square wraps, and `getData` adds
  before it compares (`common.go:36` calls it overflow safe);
- a one-byte array that holds zero is not taken from the stream: `Uint` refuses the
  byte and `decodeByteArray` drops the error (`rlp/decode.go:393`);
- a header's bloom is kept, not "derived", when there are no receipts
  (`block.go:198` and `213`);
- a negative `int256` unpacks as a large positive number (`unpack.go:48`), though
  `PackValues` is "the semantic opposite of UnpackValues" (`argument.go:229`); nor do
  slices of arrays and empty arrays come back, and beside an array of arrays every
  offset is wrong, because `Pack` counts the elements of the outer array only
  (`argument.go:249`).  `Supported` and `Returned` name the types and values of which
  `AbiExact` speaks;
- `bytesN` shorter than a word are put on the right of a filter's topic and taken from
  the right of an event's (`topics.go:87`, `179`), where the contract has them on the
  left; a negative integer in a filter loses its sign, a negative `int256` of an event
  becomes a large number, and a field that is `true` stays so.  `TopicExact` says what
  holds of all other values;
- `Add` of `bn256` says "a==b fails" (`bn256.go:81`, `204`); the sum of equal points is
  right unless it is stored in the first of them, which the precompile never does;
- a Ledger's reply of less than two bytes, as when its first packet is lost, makes
  `reply[:len(reply)-2]` panic (`ledger.go:461`);
- an account that replaced another in the same key file is left out of the wallets
  until the next refresh, though `Wallets` is "returning all single-key wallets" and has
  the list "in sync with the account cache" (`keystore.go:118`, `121`);
  `RefreshComplete` says what holds of the others;
- a hub's refresh drops wallets that are attached and work when one in front of them
  is gone but has not failed yet (`hub.go:163`; `179` says to keep them); a second
  refresh repairs it;
- a file changed before the watcher is registered is not seen, although "a watcher is
  running and will keep the cache up-to-date" (`account_cache.go:199`);
- `GenerateIntBySize` gives one value 18 times, not "2**0----2**8"
  (`detectors/common.go:70`).

The detector's logs accumulate, so the input it prints is the last whose call
returned, not necessarily one that overflowed.  What holds (`DetectorExact`): there
was an overflow in the same invocation, none is missed, and the printed input did
return.

**Bounds.**  *EVM:* `MaxUint64 = 127` keeps every wrap-around of `callGas`, stipend
and memory cost in reach (`MemCosts` has a value that is free, one that is paid and
one that no frame can pay; a call asks for no gas of its own or for all it can get); `CallCreateDepth` 1 or 2 reaches the limit and the check
that admits one frame more; addresses depend on the parity of nonces, so creations
collide.  *Drivers:* the buffer is smaller than the number of files and files
outnumber workers, so senders and receivers block.  *Tools:* one mutation, two
runs, a report limit of one (100, 100 and 5 in the code) reach every way out of the
loops; two products let an overflow come before or after another call; numbers have
12 bits, so 18 powers of two pass the word; two blocks, three starts.  *Machine:*
a pool limit of 1 and a stack limit of 7, two frames; words of 6 bits in bytes of 2,
all pairs of operands with four moduli; memory of 62 bytes in words of 2, with gas
for part and for all of it; programs of 12 bytes put PUSH arguments across, at and
beyond the borders of the bitmap's bytes, and one of 41 bytes (PUSH32, its argument
and JUMPDESTs) is the shortest whose last byte lies beyond the bitmap of a one-byte
program.  *Accounts:* two paths, two
addresses, two passphrases, two callers on the key files, two URLs, two devices
that become three wallets, one updater and one caller whose events interleave;
packets of 4, messages to 14, so three packets and every border.  *Wallets:* two
addresses and two decrypted keys, `MaxKeys`; two users, two openings, three calls.  *Storage:*
nibbles are 0..3, four keys of one and two bytes with one a prefix of another, small
values (embedded) and big ones (hashed), three operations after any first content,
one node lost; two tries that share a subtrie; a fetched trie in which one node has
two parents and leaves name further tries.  *Data:* twelve byte values with tags
scaled so that all six kinds of header occur, all inputs of `MaxInput` = 3 bytes and longer
ones behind every kind of header; two goroutines and three operations on a
transaction; chains whose V passes a byte or a word; ABI words of four bytes of
four values; fields of 103 elements (order 97, `u = 1`) for tower and pairing, of 7
(order 13) for points and contracts.  With `u = 1` the loop count 6u + 2 = 8 has no
digit +1 in its signed form but the first: that branch of the Miller loop is the
mirror image of the one taken.

**Fairness.**  `EVM`: weak fairness of `Step`, the goroutine in `Interpreter.Run`;
clients and `Cancel` have none.  `CallReturns` then rests on gas.  `Drivers`: weak
fairness of each goroutine, which the Go scheduler gives.  `MCTools`: weak fairness of
the one goroutine of fuzzer and detector.  `MCWallets`: weak fairness of every
goroutine's steps, expiring timers included, and strong fairness of receiving from
`commsLock`: Go queues receivers of a channel in order, so one that waits is served
when the token comes back often enough.  Users need not call, and devices need not
answer well: an answer or an error comes, since the transport has timeouts
(external).  The other runs state safety only; `MCData` has symmetry over the two
goroutines that use bindings, which nothing tells apart.

## 4. Proofs

TLC checks the instances above; TLAPS proves the following for every value of the
constants that satisfies the assumptions named.

| Theorem | Module | Statement | Assumptions |
|---|---|---|---|
| `TypeCorrect`, `DepthCorrect`, `ReadOnlyCorrect`, `GasCorrect` | `EVM_proofs` | `Spec => []TypeOK` and so on for `DepthInv`, `ReadOnlyInv`, `GasInv` | `ParamsAssumption`, `InputsAssumption` |
| `StateIsKept`, `Solvent` | `EVM_StateProofs` | `Spec => StateKept`, an action property; `Spec => []BalancesNonNegative` | the same |
| `TasksConserved`, `Implements` | `Drivers_proofs` | `Spec => []TaskConserved`; `Spec => ImplementsScan`, the refinement of `TaskSet` | `DriversAssumption` |
| `DetectorIsExact` | `Drivers_proofs` | `DetectorSpec => []DetectorExact` of `OverFlowDetector` | `DetectorAssumption` |
| `FuzzerIsSound` | `FuzzInt_proofs` | `Spec => []FuzzerSound` | `FuzzAssumption` |
| `MemoryIsExact`, `JumpsAreExact` | `Interpreter_proofs` | `MemorySpec => []MemoryExact`, `JumpSpec => []JumpsExact` | `MemoryAssumption`, `JumpAssumption` |
| `ArithmeticIsExact` | `Arithmetic_proofs` | `WordsSpec => []ArithmeticExact` | `WordAssumption` |
| `KeysAreGuarded`, `IndefiniteIsKept`, `WalletIsSafe` | `Accounts_proofs` | `Spec => []KeysGuarded`, `Spec => IndefiniteStays`, `Spec => []WalletSafe` of `MCWallets` | `AcctsAssumption` |
| `KeyFilesAreExact` | `Accounts_proofs` | `FilesSpec => []KeyFilesExact` | none |
| `HubIsExact` | `Hub_proofs` | `HubSpec => [](HubEventsExact /\ SecondRefreshRepairs /\ OneUpdater)` | `HubAssumption` |

All assumptions are evaluated by TLC in the runs.  What the less obvious ones say:
a value transfer costs at least the stipend (2300 and 9000 in `params`); the limit of
memory is a whole number of words and the square of its word count exceeds the word,
so the proof is about the case in which the fee really wraps; a word is a whole
number of bytes; a program is a non-empty sequence of bytes; functions have names;
`"nil"`, which stands for the nil map, is no account.

**EVM.**  None of the four invariants is inductive alone.  That gas stays a word
needs `GasInv`, since `contract.Gas += returnGas` is unchecked; `GasInv` needs the
types; the readOnly flag returns to its owner only if at most one frame owns it; the
depth counter must agree with the stack for the limit to mean anything.  Their
conjunction `IInv` is inductive.  `Stacked` and `Flagged` restate `GasInv` and
`ReadOnlyInv` of an arbitrary sequence of frames; `SetTopGas`, `Push...` and `Pop...`
say what the three changes of the stack do to them; `DeliverCore`, `EnterCore`,
`InvokeCore`, `CreateCore`, `ExitCore` and `FinishCore` lift that to the parts of an
action.  The heart is `CallPays` with `opCallCore`: if a call opcode passes the two
`SafeAdd` checks and `UseGas`, the subtraction in `callGas` did not wrap in a way that
matters, and what the callee gets, stipend included, is at most what the caller paid.

`StateIsKept` needs more (`SInv`): every account that a frame runs for has a nonce,
the one a constructor runs for has no code and no second constructor, no constructor
runs above a static call, with NoRecursion there is one frame, and accounts without
nonce have neither code nor storage.  That is why the collision check of `Create`, which
looks at the nonce, protects code and storage, although `Create` resets the account.
`OneInFlight` says that after `Cancel` at most the instruction past the test of `abort`
takes effect.

**Drivers.**  `IInv` says where a listed file is (`Apart`), what main has done by the
time it is where it is (`Course`), and that the WaitGroup counts the workers that have
not left (`Counted`).  Without `Course` a worker could be thought to leave before the
close, and the program to return with files in the channel.

**Detector.**  `DInv`: the flag and its reasons agree in every phase of an invocation,
and `ran` is what the loops over contracts, functions and variants have been through;
that `(n - 1) \div 4` and `(n - 1) % 4` enumerate every combination once is
`InvocationsCombine`.

**Fuzzer.**  `FInv` relates the taint in the storage, the backup (shared or copied),
the rows and the count of rows at each of the fuzzer's phases, and says that a main
contract without code is never tainted, so nothing is reported of it; `Buffered` bounds the
rows not yet flushed by what the methods begun so far may have left.

**Interpreter.**  `MemoryExact` is inductive once the word arithmetic is in place:
`Telescope` says that a sum of differences modulo the word is the difference of the
ends, which is why the fees add up although squares wrap.  For the jumps, `codeBitmap`
is a recursive function over positions, and what it computes is proved by induction
over the naturals (below); `JumpInv` says whose bitmap each entry of the cache is, and
that a client call in which nothing nested has cached only its own.

**Arithmetic.**  The state does not change; the theorem is about all operands.  The
powers of two and the loop of `Exp` are recursive functions; quotients and
remainders of negative numbers, the sign bit, and the mask of SIGNEXTEND are lemmas of
their own, because the provers know `\div` and `%` only through their defining
inequalities.

**Accounts.**  `KeyInv`: a listed key is whole, is on its way in nowhere, and its abort
channel is open; timers run for timed keys only.  Without it an expiry could zero a
key that was unlocked anew.  `UsbInv`: who is inside holds the read lock of an open
device, who talks also holds the token (`Talk`); a confirmation is counted under the
lock an enumeration holds (`Confirm`); an open driver has a map (`Maps`), so that an
address derived without one was derived on a device its driver had not opened.  `FilesInv`:
the file of an acknowledged key is sealed as a whole, which only the rename of
`writeKeyFile` guarantees across crashes, and nothing is under way on a file removed
without a race.

**Hub.**  `refreshWallets` merges two ordered lists in one loop.  `Loop` is the invariant
of that loop: what was taken from the old list is a prefix, the new list is in order
and of devices seen so far, what was announced and dropped is the difference.
`Outcome` is what a whole refresh does; it says why one refresh may lose a wallet whose
device is attached and a second from a current scan cannot: after the first, no wallet
of the list is without its device (`SettledInv`).  Listeners know the list up to the
events still to be sent: `EventInv` says that an arrival is to be sent by one refresh,
and only while nobody heard of it; that of a wallet in the list no drop is to be sent;
and that a wallet heard or arriving that is in no list is one whose drop is on its way
or overtook its arrival.  `IdleInv` says that a scan begins only when the events of the
one before are sent.  `HubInv` adds the scans under way
and that there is one updater exactly while `updating` is set.

**Recursion.**  `Interpreter_proofs`, `Arithmetic_proofs` and `Hub_proofs` derive
induction over the naturals from the least-element principle (`Least`), for sets
rather than for predicates, and from it that a recursive function exists and equals
its defining expression (`Recursion`, `HeadsExist`).  What holds for every element of a set of naturals is thereby provable;
RECURSIVE operators on trees and sequences are not.

**Only model-checked.**

- Liveness (`CallReturns`, `AllProcessed`, `Main2Returns`, `ToolEnds`,
  `WalletsProgress`): fairness and ENABLED are outside what the prover handles.
- Properties of modules that have RECURSIVE operators: `RlpExact`, `AbiExact`,
  `TypesExact`, `TrieExact`, `WalkExact`, `NodesKept`, `SyncComplete`, `StoresExact`,
  `TablesApart`, `BindingsExact` and `WireExact`.  What such an operator computes on
  every tree or sequence needs induction over data, and the prover loses its SMT
  solver in a module that has one.
- `MachineSafe`: `Machine` renames integers after every step, by operators that are
  RECURSIVE over frames, so that TLC's states are finite in number; and the invariant
  would have to speak of every opcode of the table at every statement of its body.
- `PrecompilesExact`: that the curve formulas are the group law is algebra over a
  field, which none of the provers does; TLC computes it over small fields.
- `RefreshExact`, the manager's part of `ListsExact`, `ReplayExact`: their models fold
  an operator over a sequence, and the facts about such folds take an operator as a
  parameter.
- `CacheExact`, `SigningExact` and the input values in `DetectorExact` of `MCTools`:
  no obstacle of principle, but not proved.  `LocalKept` is `StateKept` with other
  constants, and so follows from `StateIsKept`.

## 5. Not modelled

- `rlp/typecache.go`: encoders and decoders are chosen by the type directly.
- `seckeybuf` of the trie database, one buffer for the keys of preimages, which `Commit`
  fills under the read lock and `preimage` without any (`database.go:148`, `256`).
- What the drivers of hardware wallets make of a reply: versions and addresses of a
  Ledger, the kinds of message of a Trezor (failures, requests for a button).
- Log filters of `bind/base.go`, and the generator of Go and Java sources, which is
  text templates.
- The figures the LevelDB meter parses from a statistics text; LevelDB itself.
- Presale and plain key files beyond what `KeyFiles` needs of their formats.
- Signing curves and hash functions, which every module takes as opaque and
  injective: bit-level permutations and 256-bit fields are out of TLC's reach, and
  `secp256k1` is a C library.  The square-and-multiply loops of `bn256` are modelled,
  its optimised multi-word arithmetic is not present in this code base.
- Generated code: JSON of headers, protocol buffers of the Trezor, which are opaque
  messages in `UsbFraming`.
- `CallFunction` of the detector, which calls one method and prints a slot, and
  `main3`, an endless search for addresses that nothing calls.
- Terminal interface, RPC transport, compiler invocation, tracing, logging, metrics,
  text forms of numbers: input and output.
