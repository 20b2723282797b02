--------------------------------- MODULE MCGui ---------------------------------
(***************************************************************************)
(* Instances for TLC of the window.                                        *)
(***************************************************************************)
EXTENDS MCReaders

-----------------------------------------------------------------------------
(* Files of one extension and another one, with one that is not known;     *)
(* playlists of two parts and of one, with a file.                         *)

InputFile(ext, tracks, marks) == [ext |-> ext, tracks |-> tracks, parts |-> <<>>, dur |-> 10, marks |-> marks]
PlainFiles ==
    ("a" :> InputFile("ts", <<"V", "A">>, {0, 4})) @@ ("b" :> InputFile("ts", <<"F", "none", "S">>, {}))
    @@ ("c" :> InputFile("ts", <<"none">>, {0, 3})) @@ ("d" :> InputFile("ac3", <<"A">>, {}))
    @@ ("e" :> InputFile("txt", <<>>, {}))
Playlists ==
    ("p" :> [InputFile("mpls", <<"V", "S">>, {0, 4}) EXCEPT !.parts = <<"x", "y">>])
    @@ ("q" :> [InputFile("mpls", <<"A">>, {1}) EXCEPT !.parts = <<"z">>]) @@ ("d" :> PlainFiles["d"])
Library(files, adds, appends, disk, steps) ==
    [files |-> files, adds |-> adds, appends |-> appends, disk |-> disk, steps |-> steps]
InputLibraries ==
    {Library(PlainFiles, {<<"a">>, <<"b", "d">>, <<"e", "a">>}, {<<"b", "c">>, <<"d">>}, TRUE, 4),
     Library(PlainFiles, {<<"a", "b">>}, {<<"c">>}, FALSE, 4),
     Library(Playlists, {<<"p">>, <<"d", "q">>}, {<<"q">>, <<"d">>}, TRUE, 4)}

Window == INSTANCE Gui WITH Libraries <- InputLibraries, OwnMarks <- {7}

-----------------------------------------------------------------------------

GuiAssumptions == ReaderAssumptions /\ Window!WindowAssumption
=============================================================================
