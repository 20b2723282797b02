--------------------------- MODULE OrderedWriter ---------------------------
(***************************************************************************)
(* What a file writer promises to the code that hands it blocks: they are  *)
(* written one at a time in the order they were handed over, each of them  *)
(* once, and the writer is not given up while one is left.  That another   *)
(* thread writes them, and how far behind it is, does not show.            *)
(***************************************************************************)
EXTENDS Integers, Sequences

CONSTANTS
    Files,      \* what is written to
    Blocks,     \* what may be handed over: records with a field "file"
    Outcomes    \* what a write may come to: "ok", "short", "throws"

VARIABLES
    accepted,   \* the blocks handed over, in order
    done,       \* how many of them were written or failed
    contents,   \* file -> the blocks written to it
    over        \* the writer is gone

vars == <<accepted, done, contents, over>>

Init == /\ accepted = <<>> /\ done = 0
        /\ contents = [f \in Files |-> <<>>]
        /\ over = FALSE

Accept == /\ ~over
          /\ \E b \in Blocks : accepted' = Append(accepted, b)
          /\ UNCHANGED <<done, contents, over>>

\* The next block is written, or is not because its write failed.
Complete == /\ ~over /\ done < Len(accepted)
            /\ done' = done + 1
            /\ LET b == accepted[done + 1] IN
               \/ contents' = [contents EXCEPT ![b.file] = Append(@, b)]
               \/ Outcomes # {"ok"} /\ contents' = contents
            /\ UNCHANGED <<accepted, over>>

End == /\ ~over /\ done = Len(accepted)
       /\ over' = TRUE
       /\ UNCHANGED <<accepted, done, contents>>

\* A write of the destructor throws, which ends the program.
Abort == /\ ~over /\ done < Len(accepted) /\ "throws" \in Outcomes
         /\ over' = TRUE /\ done' = done + 1
         /\ UNCHANGED <<accepted, contents>>

Next == Accept \/ Complete \/ End \/ Abort

SafeSpec == Init /\ [][Next]_vars
Spec == SafeSpec /\ WF_vars(Complete \/ Abort)
=============================================================================
