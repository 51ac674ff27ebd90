-------------------------- MODULE OverFlowDetector --------------------------
(***************************************************************************)
(* detectors/overflowdetection.go and RunDetector of main.go: every        *)
(* contract of a file is deployed eight times (two functions, with and     *)
(* without tokens for the attacker and for the victims), and the function  *)
(* is called with every product of generated inputs.  An input is reported *)
(* when the call returned without error and the log has an overflow event. *)
(*                                                                         *)
(* The detector reads nothing of the state but the first topics of the     *)
(* logs, so a call is its outcome: whether it failed and what it logged.   *)
(* Reverting to a snapshot does nothing (StateDB), so the logs stay.       *)
(***************************************************************************)
EXTENDS Integers, Sequences

CONSTANTS
  Contracts,      \* contracts in the compiler's output that are not skipped
  ABIs,           \* what their ABIs can be
  functionNames,  \* <<transfer, transferFrom>>
  Products,       \* products of the generated inputs
  Victims,        \* number of victims (10)
  None            \* nil

\* An ABI is unreadable, or has or lacks the methods asked for; Pack accepts the
\* generated inputs or does not (none are generated for a bool), and likewise
\* the address and amount of ERC20Transfer.
DetectorAssumption ==
  /\ None \notin Products /\ None \notin Contracts /\ None \notin ABIs
  /\ Victims \in Nat \ {0}
  /\ functionNames \in Seq(STRING)
  /\ \A a \in ABIs : a \in [readable : BOOLEAN, packs : BOOLEAN, transferPacks : BOOLEAN,
                            methods : SUBSET ({"totalSupply"} \cup {functionNames[k] : k \in 1..Len(functionNames)})]

VARIABLES
  phase,         \* control state
  remaining,     \* contracts left
  contract,      \* the contract under test
  abi,           \* its ABI
  n,             \* invocations begun for the contract
  Logs,          \* first topics in ofd.state.Logs
  transfers,     \* transfers still to be made by InitAttackerToken or InitVictimsToken
  products,      \* products not yet received from the channel
  Detected,      \* ofd.Detected
  Attackvector,  \* ofd.Attackvector, and ofd.Unpackedinput with it
  ran,           \* history: invocations that came to their end
  events,        \* history: this invocation logged an overflow event
  returned,      \* history: products whose call returned without error
  hits           \* history: those of them whose own call overflowed

loopVars == <<remaining, contract, abi>>
ofdVars == <<Detected, Attackvector>>
prodVars == <<products, returned, hits>>
detectorVars == <<phase, loopVars, n, Logs, transfers, ofdVars, ran, events, prodVars>>

\* What one call logs, by first topic: the overflow event, another event, a log
\* without topics.
Outcomes == SUBSET {"overflow", "other", "bare"}

\* The invocation that runs: the function, and the number i of the variant, whose
\* bits withhold the tokens of the attacker and of the victims.
function == functionNames[(n - 1) \div 4 + 1]
i == (n - 1) % 4
initAttacker == i \div 2 = 0
initVictims == i % 2 = 0

DetectorInit ==
  /\ phase = "contract"
  /\ remaining = Contracts /\ contract = None /\ abi = None /\ n = 0
  /\ Logs = {} /\ transfers = 0 /\ products = {}
  /\ Detected = FALSE /\ Attackvector = None
  /\ ran = {} /\ events = FALSE /\ returned = {} /\ hits = {}

-----------------------------------------------------------------------------
\* The loop over solcOutput.Contracts, a Go map: in any order.
NextContract ==
  /\ phase = "contract"
  /\ \E c \in remaining, a \in ABIs : contract' = c /\ abi' = a /\ remaining' = remaining \ {c}
  /\ n' = 0
  /\ phase' = "init"
  /\ UNCHANGED <<Logs, transfers, ofdVars, ran, events, prodVars>>

RunDetectorDone ==
  /\ phase = "contract" /\ remaining = {}
  /\ phase' = "done"
  /\ UNCHANGED <<loopVars, n, Logs, transfers, ofdVars, ran, events, prodVars>>

\* Iterations of the two inner loops of RunDetector.
Invocations == 4 * Len(functionNames)

ContractDone ==
  /\ phase = "init" /\ n = Invocations
  /\ phase' = "contract"
  /\ UNCHANGED <<loopVars, n, Logs, transfers, ofdVars, ran, events, prodVars>>

\* Init of a new detector, and the reset at the head of OverFlowDetector.  When
\* the ABI is unreadable Init returns early, without an EVM, and CreateContract
\* dereferences nil.
NewDetector ==
  /\ phase = "init" /\ n < Invocations
  /\ n' = n + 1
  /\ Logs' = {}
  /\ Detected' = FALSE /\ Attackvector' = None
  /\ events' = FALSE /\ returned' = {} /\ hits' = {}
  /\ phase' = IF abi.readable THEN "create" ELSE "panic"
  /\ UNCHANGED <<loopVars, transfers, products, ran>>

\* FunctionCall, or Create: what the call adds to the logs, failed or not.
FunctionCall(topics) ==
  /\ Logs' = Logs \cup topics
  /\ events' = (events \/ "overflow" \in topics)

CreateContract ==
  /\ phase = "create"
  /\ \E topics \in Outcomes : FunctionCall(topics)
  /\ phase' \in {"report", "attacker"}
  /\ UNCHANGED <<loopVars, n, transfers, ofdVars, ran, prodVars>>

\* InitAttackerToken and InitVictimsToken up to their transfers: totalSupply is
\* missing, or its call fails, or there will be count transfers.
GetTotalSupply(count) ==
  IF "totalSupply" \in abi.methods
  THEN /\ \E topics \in Outcomes : FunctionCall(topics)
       /\ transfers' \in {0, count}
  ELSE transfers' = 0 /\ UNCHANGED <<Logs, events>>

InitAttackerToken ==
  /\ phase = "attacker"
  /\ IF initAttacker THEN GetTotalSupply(1) ELSE UNCHANGED <<transfers, Logs, events>>
  /\ phase' = "toAttacker"
  /\ UNCHANGED <<loopVars, n, ofdVars, ran, prodVars>>

InitVictimsToken ==
  /\ phase = "toAttacker" /\ transfers = 0
  /\ IF initVictims THEN GetTotalSupply(Victims) ELSE UNCHANGED <<transfers, Logs, events>>
  /\ phase' = "toVictims"
  /\ UNCHANGED <<loopVars, n, ofdVars, ran, prodVars>>

\* ERC20Transfer: nothing when it cannot be packed; an error is ignored.
ERC20Transfer ==
  /\ phase \in {"toAttacker", "toVictims"} /\ transfers > 0
  /\ transfers' = transfers - 1
  /\ IF "transfer" \in abi.methods /\ abi.transferPacks
     THEN \E topics \in Outcomes : FunctionCall(topics)
     ELSE UNCHANGED <<Logs, events>>
  /\ UNCHANGED <<phase, loopVars, n, ofdVars, ran, prodVars>>

\* A faulty variant of GenerateInputsByABI: the loop receives from a nil channel.
GenerateInputsWaiting ==
  /\ phase = "toVictims" /\ transfers = 0 /\ function \in abi.methods
  /\ phase' = "product" /\ products' = Products
  /\ UNCHANGED <<loopVars, n, Logs, transfers, ofdVars, ran, events, returned, hits>>

\* GenerateInputsByABI: a nil channel when the function is missing.
GenerateInputsByABI ==
  /\ phase = "toVictims" /\ transfers = 0
  /\ IF function \in abi.methods
     THEN phase' = "product" /\ products' = Products
     ELSE phase' = "report" /\ UNCHANGED products
  /\ UNCHANGED <<loopVars, n, Logs, transfers, ofdVars, ran, events, returned, hits>>

-----------------------------------------------------------------------------
\* A faulty variant of ScanLogs: every call decides anew.
ScanLogsAnew(p, failed) ==
  /\ UNCHANGED phase
  /\ Detected' = (~failed /\ "overflow" \in Logs' \ Logs)
  /\ Attackvector' = IF Detected' THEN p ELSE Attackvector

\* After a call without error: the loop over all logs there are.  Topics[0] of a
\* log without topics is out of range.
ScanLogs(p, failed) ==
  IF failed THEN UNCHANGED <<phase, ofdVars>>
  ELSE IF "bare" \in Logs' THEN phase' = "panic" /\ UNCHANGED ofdVars
  ELSE /\ UNCHANGED phase
       /\ IF "overflow" \in Logs' THEN Detected' = TRUE /\ Attackvector' = p ELSE UNCHANGED ofdVars

\* One iteration of the loop over the products, in the order of the channel,
\* which an external library fills.
Product ==
  /\ phase = "product"
  /\ \E p \in products :
       /\ products' = products \ {p}
       /\ IF abi.packs
          THEN \E topics \in Outcomes, failed \in BOOLEAN :
                 /\ FunctionCall(topics)
                 /\ ScanLogs(p, failed)
                 /\ returned' = IF failed THEN returned ELSE returned \cup {p}
                 /\ hits' = IF failed \/ "overflow" \notin topics THEN hits ELSE hits \cup {p}
          ELSE UNCHANGED <<phase, Logs, ofdVars, events, returned, hits>>
  /\ UNCHANGED <<loopVars, n, transfers, ran>>

ProductsDone ==
  /\ phase = "product" /\ products = {}
  /\ phase' = "report"
  /\ UNCHANGED <<loopVars, n, Logs, transfers, ofdVars, ran, events, prodVars>>

\* RunOverflowDetector prints what was detected.
Report ==
  /\ phase = "report"
  /\ ran' = ran \cup {<<contract, function, initAttacker, initVictims>>}
  /\ phase' = "init"
  /\ UNCHANGED <<loopVars, n, Logs, transfers, ofdVars, events, prodVars>>

DetectorNext ==
  \/ NextContract \/ RunDetectorDone \/ ContractDone \/ NewDetector \/ CreateContract
  \/ InitAttackerToken \/ InitVictimsToken \/ ERC20Transfer \/ GenerateInputsByABI
  \/ Product \/ ProductsDone \/ Report

\* One goroutine that keeps running; every call of the EVM returns.
DetectorSpec == DetectorInit /\ [][DetectorNext]_detectorVars /\ WF_detectorVars(DetectorNext)

-----------------------------------------------------------------------------
\* Type correctness of the detector's state.
DetectorTypes ==
  /\ phase \in {"contract", "init", "create", "attacker", "toAttacker", "toVictims",
                "product", "report", "done", "panic"}
  /\ remaining \subseteq Contracts /\ contract \in Contracts \cup {None} /\ abi \in ABIs \cup {None}
  /\ n \in 0..(4 * Len(functionNames)) /\ transfers \in 0..Victims
  /\ Logs \in Outcomes /\ products \subseteq Products
  /\ Detected \in BOOLEAN /\ Attackvector \in Products \cup {None}
  /\ hits \subseteq returned /\ returned \subseteq Products

\* No overflow is lost on the way to the report: if the call of some product
\* overflowed and returned without error, the invocation ends with a detection,
\* whatever the calls after it did.
HitsDetected == phase = "report" /\ hits # {} => Detected

\* A detection never rests on another invocation: this one logged an overflow
\* event, though perhaps in the constructor, while tokens were handed out, or in
\* a call that failed.
DetectionJustified == Detected => events

\* The input that is reported is one whose call returned without error.
ReportedReturned == Detected => Attackvector \in returned

\* When the detector ends, every contract went through both functions with and
\* without tokens for the attacker and for the victims.
AllCombinations ==
  phase = "done" =>
    ran = Contracts \X {functionNames[k] : k \in 1..Len(functionNames)} \X BOOLEAN \X BOOLEAN

\* The detector ends, by a panic if not otherwise.
Terminates == <>(phase \in {"done", "panic"})

\* What an invocation finds is all there is to find, and rests on what happened.
DetectorExact ==
  DetectorTypes /\ HitsDetected /\ DetectionJustified /\ ReportedReturned /\ AllCombinations
=============================================================================
