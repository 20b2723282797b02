---------------------------------- MODULE Gui ----------------------------------
(***************************************************************************)
(* The window of tsMuxerGUI: the list of files, some of them joined, the   *)
(* table of tracks, the boxes for the default tracks, the chapters and the *)
(* meta file that is made of them, and the process that looks at a file or *)
(* muxes (TsMuxerWindow).                                                  *)
(*                                                                         *)
(* A handler is a function from windows to windows.  The user does nothing *)
(* while a file is looked at, because what the handlers of that use is     *)
(* what the window shows when the process ends.                            *)
(***************************************************************************)
EXTENDS Integers, Sequences, FiniteSets, SequencesExt

CONSTANTS
    Libraries,      \* [files, adds, appends, disk, steps]: what each file has, the lists of
                    \* files that may be added and appended, the output, what the user does
    OwnMarks        \* chapters the user writes

WindowAssumption ==
    /\ OwnMarks \subseteq Nat
    /\ \A options \in Libraries : \A name \in DOMAIN options.files :
          /\ options.files[name].tracks \in Seq({"V", "A", "F", "S", "none"})
          /\ options.files[name].dur \in Nat /\ options.files[name].marks \subseteq Nat

VARIABLES options, mux, fed
vars == <<options, mux, fed>>

Lesser(a, b) == IF a < b THEN a ELSE b
Info(name) == options.files[name]

-----------------------------------------------------------------------------
(* The meta file: a line for each track.                                   *)

\* getFileList: the playlists, if there are any.
GetFileList(row) == IF row.playlists = <<>> THEN row.files ELSE row.playlists
\* The number of the track that a box shows, as currentData().toInt() gives it: the
\* first one's, if the box is empty.
CurrentData(box) == IF box.at = 0 THEN 1 ELSE box.items[box.at]
IsDefault(w, i, box) == w.disk /\ box.on /\ CurrentData(box) = i
\* FLAC is for Matroska only; a line of a track that does not fit is off.
IsCodecIncompatibleWithFormat(w, i) == w.rows[i].kind = "F" /\ w.disk
IsAudio(row) == row.kind \in {"A", "F"}
Line(w, i) ==
    [on |-> w.rows[i].on /\ ~IsCodecIncompatibleWithFormat(w, i), opts |-> w.rows[i].opts, id |-> w.rows[i].id, files |-> GetFileList(w.rows[i]),
     default |-> \/ IsAudio(w.rows[i]) /\ IsDefault(w, i, w.audio)
                 \/ w.rows[i].kind = "S" /\ IsDefault(w, i, w.subs)]
GetMuxOpts(w) == IF w.disk /\ w.custom THEN w.memo ELSE {}
UpdateMetaLines(w) ==
    [w EXCEPT !.meta = [chapters |-> GetMuxOpts(w), lines |-> [i \in DOMAIN w.rows |-> Line(w, i)]]]

\* updateCustomChapters: what the user wrote stays.
MarksOf(files) ==
    LET own == SelectSeq(files, LAMBDA f : f.role # "part")
        offset[i \in DOMAIN own] == IF i = 1 \/ own[i].joins = 0 THEN 0 ELSE offset[i - 1] + own[i - 1].dur IN
    UNION {{m + offset[i] : m \in own[i].marks} : i \in DOMAIN own}
UpdateCustomChapters(w) == IF w.custom /\ w.override THEN w ELSE [w EXCEPT !.memo = MarksOf(w.files)]

-----------------------------------------------------------------------------
(* The boxes for the default tracks hold the numbers of the rows.          *)

AddTo(box, i) == [box EXCEPT !.items = Append(@, i), !.at = IF @ = 0 THEN 1 ELSE @]
AddTrackToDefaultComboBox(w, i) ==
    [w EXCEPT !.audio = IF IsAudio(w.rows[i]) THEN AddTo(@, i) ELSE @,
              !.subs = IF w.rows[i].kind = "S" THEN AddTo(@, i) ELSE @]

\* Mutant: the numbers of the rows behind the one that went stay as they were.
FixupIndices_Kept(box, i) == box
FixupIndices(box, i) == [box EXCEPT !.items = [p \in DOMAIN @ |-> IF @[p] > i THEN @[p] - 1 ELSE @[p]]]
\* The item that is shown stays, or the next one is, or the last.
RemoveItem(box, i) ==
    LET p == SelectInSeq(box.items, LAMBDA n : n = i) IN
    IF p = 0 THEN box
    ELSE [box EXCEPT !.on = @ /\ CurrentData(box) # i, !.items = RemoveAt(@, p),
                     !.at = IF p < @ THEN @ - 1 ELSE Lesser(@, Len(box.items) - 1)]
RemoveTrackFromDefaultComboBox(w, i) ==
    [w EXCEPT !.audio = FixupIndices(RemoveItem(@, i), i), !.subs = FixupIndices(RemoveItem(@, i), i)]

PostMoveComboBoxUpdate(box, before, old, new) ==
    LET row == CurrentData(before)
        moved == IF row = old THEN new ELSE IF row = new THEN old ELSE row IN
    IF before.at = 0 THEN box ELSE [box EXCEPT !.at = SelectInSeq(box.items, LAMBDA n : n = moved)]
MoveTrackInDefaultComboBox(w, old, new) ==
    LET Cleared(box) == [box EXCEPT !.items = <<>>, !.at = 0]
        empty == [w EXCEPT !.audio = Cleared(@), !.subs = Cleared(@)]
        again == FoldLeft(AddTrackToDefaultComboBox, empty, [i \in DOMAIN w.rows |-> i]) IN
    [again EXCEPT !.audio = PostMoveComboBoxUpdate(@, w.audio, old, new),
                  !.subs = PostMoveComboBoxUpdate(@, w.subs, old, new)]

-----------------------------------------------------------------------------
(* Tracks.                                                                 *)

\* trackLVItemSelectionChanged: without a track that is selected the meta file stays; a
\* video track gets the SEI of the one that was shown before it.
TrackLVItemSelectionChanged(w) ==
    IF w.row = 0 THEN w
    ELSE UpdateMetaLines(IF w.rows[w.row].kind = "V" THEN [w EXCEPT !.rows[w.row].opts = w.sei] ELSE w)
DeleteTrack(w, i) ==
    LET boxes == RemoveTrackFromDefaultComboBox(w, i)
        rest == [boxes EXCEPT !.rows = RemoveAt(@, i), !.row = Lesser(i, Len(w.rows) - 1)] IN
    TrackLVItemSelectionChanged(IF rest.rows = <<>> THEN [rest EXCEPT !.out = "default", !.modified = FALSE] ELSE rest)

\* delTracksByFileName: from the last track to the first.
RECURSIVE DelTracks(_, _, _)
DelTracks(w, i, name) ==
    LET without(names) == SelectSeq(names, LAMBDA n : n # name)
        less == [w EXCEPT !.rows[i].files = without(@), !.rows[i].playlists = without(@)] IN
    IF i = 0 THEN w ELSE DelTracks(IF less.rows[i].files = <<>> THEN DeleteTrack(less, i) ELSE less, i - 1, name)
DelTracksByFileName(w, name) == UpdateMetaLines(DelTracks(w, Len(w.rows), name))

MoveRow(w, old, new) ==
    LET swapped == [w EXCEPT !.rows[old] = w.rows[new], !.rows[new] = w.rows[old], !.row = new] IN
    UpdateMetaLines(MoveTrackInDefaultComboBox(swapped, old, new))
OnMoveUpButtonClick(w) == IF w.row <= 1 THEN w ELSE MoveRow(w, w.row, w.row - 1)
OnMoveDownButtonClick(w) == IF w.row \in {0, Len(w.rows)} THEN w ELSE MoveRow(w, w.row, w.row + 1)
OnRemoveTrackButtonClick(w) == IF w.row = 0 THEN w ELSE DeleteTrack(w, w.row)

-----------------------------------------------------------------------------
(* Files.                                                                  *)

\* doAppendInt: a file after the current one, and in the lists of the tracks after the
\* one it follows.
After(names, parent, name) ==
    LET p == SelectInSeq(names, LAMBDA n : n = parent) IN IF p = 0 THEN names ELSE InsertAt(names, p + 1, name)
DoAppendInt(w, file, parent) ==
    [w EXCEPT !.files = InsertAt(@, w.file + 1, file), !.file = @ + 1,
              !.rows = [i \in DOMAIN @ |->
                  IF file.role = "playlist" THEN [@[i] EXCEPT !.playlists = After(@, parent, file.name)]
                  ELSE [@[i] EXCEPT !.files = After(@, parent, file.name)]]]
File(name, role, joins) ==
    [name |-> name, role |-> role, joins |-> joins, dur |-> IF role = "part" THEN 0 ELSE Info(name).dur,
     marks |-> IF role = "part" THEN {} ELSE Info(name).marks]
AppendParts(w, name, joins) ==
    LET parts == Info(name).parts IN
    FoldLeft(LAMBDA v, k : DoAppendInt(v, File(parts[k], "part", joins), IF k = 1 THEN name ELSE parts[k - 1]),
             w, [k \in DOMAIN parts |-> k])

\* modifyOutFileName: the first file gives the output its name.
ModifyOutFileName(w, name) ==
    IF w.modified THEN w ELSE [w EXCEPT !.out = IF @ = "default" THEN name ELSE @, !.modified = TRUE]

\* continueAddFile: what was not recognized is no track.
AddTrack(w, name, n, kind) ==
    LET files == IF Info(name).parts = <<>> THEN <<name>> ELSE <<Info(name).parts[1]>>
        row == [id |-> <<name, n>>, kind |-> kind, files |-> files, on |-> TRUE, opts |-> 0,
                playlists |-> IF Info(name).parts = <<>> THEN <<>> ELSE <<name>>] IN
    AddTrackToDefaultComboBox([w EXCEPT !.rows = Append(@, row)], Len(w.rows) + 1)
ContinueAddFile(w, name) ==
    LET tracks == Info(name).tracks
        known == SelectSeq([n \in DOMAIN tracks |-> n], LAMBDA n : tracks[n] # "none")
        added == FoldLeft(LAMBDA v, n : AddTrack(v, name, n, tracks[n]), w, known)
        shown == [added EXCEPT !.row = IF known = <<>> THEN @ ELSE Len(w.rows) + 1,
                               !.files = Append(@, File(name, IF Info(name).parts = <<>> THEN "file" ELSE "playlist", 0)),
                               !.file = Len(w.files) + 1]
        whole == [AppendParts(shown, name, 1) EXCEPT !.file = Len(w.files) + 1] IN
    TrackLVItemSelectionChanged(UpdateCustomChapters(ModifyOutFileName(whole, name)))

\* continueAppendFile: behind the parts of a playlist that is the current file.
PartsFrom(files, i) ==
    LET ends == {j \in (i + 1)..(Len(files) + 1) : j = Len(files) + 1 \/ files[j].role # "part"} IN
    (CHOOSE j \in ends : \A k \in ends : j <= k) - 1
ContinueAppendFile(w, name) ==
    LET parent == w.files[w.file]
        list == parent.role # "file"
        at == IF list THEN [w EXCEPT !.file = PartsFrom(w.files, w.file)] ELSE w
        one == DoAppendInt(at, File(name, IF list THEN "playlist" ELSE "file", 1), parent.name)
        whole == AppendParts(one, name, IF list THEN 2 ELSE 1) IN
    IF Info(name).ext # Info(parent.name).ext THEN w
    ELSE UpdateCustomChapters(UpdateMetaLines(ModifyOutFileName(whole, name)))

\* onRemoveBtnClick: a playlist goes with all that is joined to it; the file behind the
\* first of joined ones becomes the first.
RECURSIVE RemoveJoined(_, _)
RemoveJoined(w, i) ==
    IF i > Len(w.files) \/ w.files[i].joins = 0 THEN w
    ELSE RemoveJoined([DelTracksByFileName(w, w.files[i].name) EXCEPT !.files = RemoveAt(@, i)], i)
Current(i, role, files) == IF role = "playlist" /\ i > Len(files) THEN 0 ELSE Lesser(i, Len(files))
OnRemoveBtnClick(w) ==
    LET i == w.file
        role == w.files[i].role
        first == role # "playlist" /\ w.files[i].joins = 0
        next == IF first /\ i < Len(w.files) THEN [w EXCEPT !.files[i + 1].joins = IF @ > 0 THEN @ - 1 ELSE 0] ELSE w
        gone == [DelTracksByFileName(next, w.files[i].name) EXCEPT !.files = RemoveAt(@, i)]
        rest == IF i < Len(w.files) /\ role = "playlist" THEN RemoveJoined(gone, i) ELSE gone IN
    IF i = 0 THEN w
    ELSE UpdateCustomChapters([rest EXCEPT !.file = Current(i, role, rest.files)])

-----------------------------------------------------------------------------
(* The process.                                                            *)

Init ==
    /\ options \in Libraries
    /\ mux = [files |-> <<>>, file |-> 0, rows |-> <<>>, row |-> 0, disk |-> options.disk, custom |-> FALSE,
              audio |-> [items |-> <<>>, at |-> 0, on |-> FALSE], subs |-> [items |-> <<>>, at |-> 0, on |-> FALSE],
              override |-> FALSE, memo |-> {}, meta |-> [chapters |-> {}, lines |-> <<>>],
              out |-> "default", modified |-> FALSE, sei |-> 0,
              job |-> "none", name |-> "", toAdd |-> <<>>, saved |-> {}, form |-> "hidden"]
    /\ fed = [left |-> options.steps, audio |-> <<>>, subs |-> <<>>, stale |-> FALSE]

\* processAddFileList: a file that is there already ends the list.
CheckFileDuplicate(w, name) == \A i \in DOMAIN w.files : w.files[i].name # name
ProcessAddFileList(w, job) ==
    IF w.toAdd = <<>> THEN [w EXCEPT !.job = "none"]
    ELSE [w EXCEPT !.name = w.toAdd[1], !.toAdd = Tail(@),
                   !.job = IF CheckFileDuplicate(w, w.toAdd[1]) THEN job ELSE "none"]

\* The track that a box shows, while its box is checked.
Shown(w, box) == IF box.on /\ box.at > 0 THEN w.rows[CurrentData(box)].id ELSE <<>>
Kept(w, id) == IF \E i \in DOMAIN w.rows : w.rows[i].id = id THEN id ELSE <<>>
\* What the user chose, as long as it is there.
Does(w, audio, subs, stale) ==
    /\ mux.job \in {"none", "mux"} /\ fed.left > 0
    /\ mux' = w
    /\ fed' = [left |-> fed.left - 1, audio |-> Kept(w, audio), subs |-> Kept(w, subs), stale |-> stale]
    /\ UNCHANGED options
User(w, stale) == Does(w, fed.audio, fed.subs, stale)

\* The buttons of a part of a playlist are off.
InputFilesLVChanged(i) == mux.files[i].role # "part"
AddFile ==
    /\ mux.job = "none"
    /\ \E list \in options.adds :
          User(ProcessAddFileList([mux EXCEPT !.toAdd = list], "analysis_add"), fed.stale)
AppendFile ==
    /\ mux.job = "none"
    /\ \E list \in options.appends : \E i \in DOMAIN mux.files :
          /\ InputFilesLVChanged(i)
          /\ User(ProcessAddFileList([mux EXCEPT !.toAdd = list, !.file = i], "analysis_append"), fed.stale)
\* onTsMuxerCodecInfoReceived, and what waits for it; and the next file.
Received(w) ==
    IF Info(w.name).marks # {} THEN UpdateMetaLines([w EXCEPT !.custom = TRUE, !.override = FALSE])
    ELSE UpdateMetaLines(w)
OnProcessFinished ==
    /\ mux.job \in {"analysis_add", "analysis_append"} /\ Info(mux.name).tracks # <<>>
    /\ mux' = IF mux.job = "analysis_add"
              THEN ProcessAddFileList(ContinueAddFile(Received(mux), mux.name), mux.job)
              ELSE IF Info(mux.name).ext # Info(mux.files[mux.file].name).ext
              THEN [Received(mux) EXCEPT !.job = "none"]
              ELSE ProcessAddFileList(ContinueAppendFile(Received(mux), mux.name), mux.job)
    /\ fed' = [fed EXCEPT !.stale = mux.job = "analysis_append"]
    /\ UNCHANGED options
\* The process failed, or nothing is known of the file: the rest of the list is left.
OnProcessError ==
    /\ mux.job \in {"analysis_add", "analysis_append"}
    /\ mux' = [mux EXCEPT !.job = "none"]
    /\ UNCHANGED <<options, fed>>

\* startMuxing: the meta file is what the window shows of it.
SaveMetaFile(w) == [w EXCEPT !.saved = {w.meta}]
StartMuxing == mux.job = "none" /\ User([SaveMetaFile(mux) EXCEPT !.job = "mux", !.form = "running"], fed.stale)
\* It ends, or fails; its file goes.
MuxFinished ==
    /\ mux.job = "mux"
    /\ mux' = [mux EXCEPT !.job = "none", !.saved = {}, !.form = IF @ = "running" THEN "finished" ELSE @]
    /\ UNCHANGED <<options, fed>>
\* MuxForm: onAbort and closeEvent kill the process, whichever it is now.
OnAbort ==
    /\ mux.form = "running"
    /\ mux' = [mux EXCEPT !.job = "none", !.saved = {}, !.form = "finished"]
    /\ UNCHANGED <<options, fed>>
CloseForm ==
    /\ mux.form # "hidden"
    /\ mux' = [mux EXCEPT !.job = "none", !.saved = {}, !.form = "hidden"]
    /\ UNCHANGED <<options, fed>>

RemoveFile ==
    \E i \in DOMAIN mux.files : InputFilesLVChanged(i) /\ User(OnRemoveBtnClick([mux EXCEPT !.file = i]), TRUE)
Selected(i) == TrackLVItemSelectionChanged([mux EXCEPT !.row = i])
RemoveTrack ==
    \E i \in DOMAIN mux.rows : User(OnRemoveTrackButtonClick(Selected(i)), FALSE)
MoveUp == \E i \in DOMAIN mux.rows : User(OnMoveUpButtonClick(Selected(i)), FALSE)
MoveDown == \E i \in DOMAIN mux.rows : User(OnMoveDownButtonClick(Selected(i)), FALSE)
TrackLVItemChanged == \E i \in DOMAIN mux.rows : User(UpdateMetaLines([mux EXCEPT !.rows[i].on = ~@]), FALSE)
At_sectionCheckstateChanged ==
    \E on \in BOOLEAN :
        User(TrackLVItemSelectionChanged([mux EXCEPT !.rows = [i \in DOMAIN @ |-> [@[i] EXCEPT !.on = on]]]),
             mux.row = 0 /\ fed.stale)
\* The options of the track that is selected; the SEI of the video also stays in the window.
OnVideoCheckBoxChanged ==
    \E i \in DOMAIN mux.rows :
        /\ mux.rows[i].kind = "V"
        /\ User(UpdateMetaLines([Selected(i) EXCEPT !.sei = 1 - @, !.rows[i].opts = 1 - mux.sei]), FALSE)
OnAudioSubtitlesParamsChanged ==
    \E i \in DOMAIN mux.rows :
        /\ mux.rows[i].kind # "V"
        /\ User(UpdateMetaLines([Selected(i) EXCEPT !.rows[i].opts = 1 - @]), FALSE)
\* The box is checked, or another of its tracks is chosen.
ChooseAudio ==
    \E at \in DOMAIN mux.audio.items : \E on \in BOOLEAN :
        LET w == UpdateMetaLines([mux EXCEPT !.audio.at = at, !.audio.on = on]) IN
        Does(w, Shown(w, w.audio), fed.subs, FALSE)
ChooseSubs ==
    \E at \in DOMAIN mux.subs.items : \E on \in BOOLEAN :
        LET w == UpdateMetaLines([mux EXCEPT !.subs.at = at, !.subs.on = on]) IN
        Does(w, fed.audio, Shown(w, w.subs), FALSE)
\* A stream or a disk; the name of the output gets another extension.
RadioButtonMuxClick == User(UpdateMetaLines([mux EXCEPT !.disk = ~@, !.modified = TRUE]), FALSE)
\* onChapterParamsChanged: of the kind of chapters, and of the text.
OnChapterKind ==
    User(UpdateMetaLines([mux EXCEPT !.custom = ~@, !.override = @ /\ ~mux.custom]), FALSE)
OnChapterText ==
    mux.custom /\ User(UpdateMetaLines([mux EXCEPT !.memo = OwnMarks, !.override = TRUE]), FALSE)
OutFileNameChanged == User([mux EXCEPT !.out = "own", !.modified = TRUE], fed.stale)

Next ==
    \/ AddFile
    \/ AppendFile
    \/ OnProcessFinished
    \/ OnProcessError
    \/ StartMuxing
    \/ MuxFinished
    \/ OnAbort
    \/ CloseForm
    \/ RemoveFile
    \/ RemoveTrack
    \/ MoveUp
    \/ MoveDown
    \/ TrackLVItemChanged
    \/ At_sectionCheckstateChanged
    \/ OnVideoCheckBoxChanged
    \/ OnAudioSubtitlesParamsChanged
    \/ ChooseAudio
    \/ ChooseSubs
    \/ RadioButtonMuxClick
    \/ OnChapterKind
    \/ OnChapterText
    \/ OutFileNameChanged
    \/ fed.left = 0 /\ mux.job = "none" /\ mux.form = "hidden" /\ UNCHANGED vars

Spec == Init /\ [][Next]_vars

-----------------------------------------------------------------------------
(* Properties.                                                             *)

BoxTypeOK(box) == box.at \in 0..Len(box.items) /\ box.on \in BOOLEAN
TypeOK ==
    /\ options \in Libraries
    /\ mux.job \in {"none", "analysis_add", "analysis_append", "mux"}
    /\ mux.file \in 0..Len(mux.files) /\ mux.row \in 0..Len(mux.rows)
    /\ \A i \in DOMAIN mux.files : mux.files[i].role \in {"file", "playlist", "part"} /\ mux.files[i].joins \in 0..2
    /\ \A i \in DOMAIN mux.rows : mux.rows[i].kind \in {"V", "A", "F", "S"}
    /\ BoxTypeOK(mux.audio) /\ BoxTypeOK(mux.subs)
    /\ fed.left \in 0..options.steps

\* Each box has the tracks of its kind, in the order of the table, and the track it shows
\* is the one the user chose there, wherever it is now; a track that goes takes the choice
\* with it.
RowsOf(w, kinds) == SelectSeq([i \in DOMAIN w.rows |-> i], LAMBDA i : w.rows[i].kind \in kinds)
DefaultsTrue ==
    /\ mux.audio.items = RowsOf(mux, {"A", "F"}) /\ Shown(mux, mux.audio) = fed.audio
    /\ mux.subs.items = RowsOf(mux, {"S"}) /\ Shown(mux, mux.subs) = fed.subs

\* The meta file says what the window shows: each track with its files and the mark of
\* the default one, and the chapters, which only a file that is appended or removed
\* leaves as they were.  Its copy is there while it is muxed.
MetaTrue ==
    /\ (mux.saved # {}) = (mux.job = "mux")
    /\ mux.rows # <<>> =>
          /\ mux.meta.lines = [i \in DOMAIN mux.rows |-> Line(mux, i)]
          /\ \A i \in DOMAIN mux.rows :
                mux.meta.lines[i].default = (mux.disk /\ mux.rows[i].id \in {fed.audio, fed.subs})
          /\ ~fed.stale => mux.meta.chapters = GetMuxOpts(mux)

\* A track is of all files of one group of the list, one that is first and the ones joined
\* to it, in their order; no group is of two extensions.
Own(w) == SelectSeq(w.files, LAMBDA f : f.role # "part")
GroupFrom(own, i) ==
    LET end == CHOOSE j \in i..Len(own) : /\ j = Len(own) \/ own[j + 1].joins = 0
                                         /\ \A k \in (i + 1)..j : own[k].joins > 0 IN
    [k \in 1..(end - i + 1) |-> own[i + k - 1].name]
FilesTrue ==
    LET own == Own(mux)
        groups == {GroupFrom(own, i) : i \in {j \in DOMAIN own : own[j].joins = 0}} IN
    /\ own # <<>> => own[1].joins = 0
    /\ \A i \in DOMAIN mux.rows : GetFileList(mux.rows[i]) \in groups
    /\ \A group \in groups : \A k \in DOMAIN group : Info(group[k]).ext = Info(group[1]).ext

\* The window: the boxes, the meta file and the lists of files agree.
WindowTrue == DefaultsTrue /\ MetaTrue /\ FilesTrue
=============================================================================
