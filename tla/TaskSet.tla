------------------------------ MODULE TaskSet ------------------------------
(***************************************************************************)
(* What a scan of a folder promises: the listed contracts are processed    *)
(* one by one, in any order, none twice; the program either crashes or     *)
(* returns, and it returns only when every listed contract was processed.  *)
(***************************************************************************)
CONSTANT Tasks

VARIABLES listed, done, ended

Init == listed = {} /\ done = {} /\ ended = "no"

List == /\ ended = "no" /\ listed = {}
        /\ listed' \in SUBSET Tasks
        /\ UNCHANGED <<done, ended>>

Process == /\ ended = "no"
           /\ \E t \in listed \ done : done' = done \cup {t}
           /\ UNCHANGED <<listed, ended>>

End == /\ ended = "no"
       /\ \/ done = listed /\ ended' = "exit"
          \/ ended' = "crashed"
       /\ UNCHANGED <<listed, done>>

Next == List \/ Process \/ End

Spec == Init /\ [][Next]_<<listed, done, ended>>
=============================================================================
