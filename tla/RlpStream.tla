------------------------------- MODULE RlpStream -------------------------------
(* A Stream in the hands of a DecodeRLP method: any of its operations, in any *)
(* order, whatever the earlier ones returned.                                 *)
EXTENDS Rlp

CONSTANTS
    Inputs,    \* the inputs read
    MaxReads   \* bound on the operations called

VARIABLES
    s,         \* the stream
    input,     \* what it was given
    reads

vars == <<s, input, reads>>

\* A stream over an input, or one set inside a list.
Init ==
    /\ input \in Inputs
    /\ s \in {NewStream(input, TRUE), NewListStream(input)}
    /\ reads = 0

Calling(op(_)) == reads < MaxReads /\ reads' = reads + 1 /\ s' = op(s).s /\ UNCHANGED input

CallKind == Calling(Kind)

CallBytes == Calling(Bytes)

CallRaw == Calling(Raw)

CallUint == Calling(LAMBDA x : uint(x, SizeLens))

CallBool == Calling(Bool)

CallList == Calling(OpenList)

CallListEnd == Calling(ListEnd)

\* The stream is used again for another input.
Reset == reads < MaxReads /\ reads' = reads + 1 /\ s' = NewStream(input, TRUE) /\ UNCHANGED input

Next ==
    \/ CallKind \/ CallBytes \/ CallRaw \/ CallUint \/ CallBool
    \/ CallList \/ CallListEnd \/ Reset

--------------------------------------------------------------------------------

\* Whatever is called, and however it failed, lists stay within lists: no more
\* is read of a list than its header said, what is open inside it fits into
\* what is left of it, and the outermost list into what is left of the input.
StaysNested ==
    /\ s.remaining = Len(s.in)
    /\ \A i \in 1..Len(s.stack) : s.stack[i].pos <= s.stack[i].size
    /\ \A i \in 2..Len(s.stack) : s.stack[i].size <= s.stack[i - 1].size - s.stack[i - 1].pos
    /\ s.stack # <<>> => s.stack[1].size - s.stack[1].pos <=
                           s.remaining + FoldLeft(+, 0, [i \in 1..Len(s.stack) - 1 |-> s.stack[i + 1].pos])
================================================================================
