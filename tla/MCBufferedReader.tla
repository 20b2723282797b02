-------------------------- MODULE MCBufferedReader --------------------------
(***************************************************************************)
(* Instances of BufferedReader for TLC.  A block is two units, so a file   *)
(* may end inside a block or exactly at its end.                           *)
(***************************************************************************)
EXTENDS BufferedReader

MCNames == {"a", "b", "c"}
MCNoName == ""
MCFileSize == [name \in MCNames |->
                 CASE name = "a" -> 3 [] name = "b" -> 4 [] name = "c" -> 1]

\* Two readers, each of one file: the demuxers of two inputs.
SingleFiles == (1 :> <<"a">>) @@ (2 :> <<"b">>)
\* Two files that both end inside a block.
TwoShortTails == 1 :> <<"a", "c">>
\* A file that fills its blocks, then one shorter than a block, then another.
FullThenShort == 1 :> <<"b", "c", "a">>
\* One reader of one file, and one of a list whose files end both inside and
\* at the end of a block.
FileAndList == (1 :> <<"a">>) @@ (2 :> <<"c", "b", "a">>)
=============================================================================
