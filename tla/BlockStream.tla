---------------------------- MODULE BlockStream ----------------------------
(***************************************************************************)
(* What readBlock promises to the reader of one file: from the position it *)
(* last moved to, every unit in order, in blocks that end at a multiple of *)
(* BlockSize or with the file, and DATA_EOF after the last of them.  Which *)
(* thread read them, and how far ahead, does not show.                     *)
(***************************************************************************)
EXTENDS Integers

CONSTANTS Readers, Size, BlockSize

VARIABLES
    from,   \* where the reader last moved to
    got,    \* how many units it got since
    ended   \* whether the last call returned DATA_EOF

vars == <<from, got, ended>>

Boundary(p) == (p \div BlockSize + 1) * BlockSize
EndOfBlock(r, p) == IF Boundary(p) < Size[r] THEN Boundary(p) ELSE Size[r]

Init == /\ from = [r \in Readers |-> 0]
        /\ got = [r \in Readers |-> 0]
        /\ ended = [r \in Readers |-> FALSE]

Block(r) == LET p == from[r] + got[r] IN
            /\ p < Size[r] /\ ~ended[r]
            /\ got' = [got EXCEPT ![r] = EndOfBlock(r, p) - from[r]]
            /\ UNCHANGED <<from, ended>>

Eof(r) == /\ from[r] + got[r] >= Size[r]
          /\ ended' = [ended EXCEPT ![r] = TRUE]
          /\ UNCHANGED <<from, got>>

Move(r) == /\ from'[r] \in Nat
           /\ from' = [from EXCEPT ![r] = from'[r]]
           /\ got' = [got EXCEPT ![r] = 0]
           /\ ended' = [ended EXCEPT ![r] = FALSE]

Next == \E r \in Readers : Block(r) \/ Eof(r) \/ Move(r)

Spec == Init /\ [][Next]_vars
=============================================================================
