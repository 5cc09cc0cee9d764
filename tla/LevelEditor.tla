------------------------------ MODULE LevelEditor ------------------------------
(***************************************************************************)
(* The level editor and the point editor of one row of the warning settings*)
(* (lib/warnings/LevelEditor.svelte, PointEditor.svelte, levelUndo.ts) with*)
(* the part of pages/WarningSettingsPage.svelte that sends their lists and *)
(* the host's SaveWarningDatalink.                                         *)
(*                                                                         *)
(* Every edit sends both lists, built from the row as the page shows it at *)
(* the time of the edit, through the one queue of the bridge.  Ids are made*)
(* by the host, so a new level or point has none until the re-read that    *)
(* follows an accepted write.  WarningSettings has the rest of the page and*)
(* takes the contents of a row as one value.                               *)
(*                                                                         *)
(* A level is its id and its looks (name, color, autolog, flash).  Its     *)
(* order is left out: the level a new point gets, the first by order, is   *)
(* any level here.                                                         *)
(***************************************************************************)
EXTENDS Naturals, Sequences, FiniteSets, SequencesExt

CONSTANTS LevelLooks,     \* what a level can look like
          PointValues,    \* the values a user enters
          TopPoint,       \* the largest value of the data link
          MaxLevels,      \* bound: levels of the row
          MaxPoints,      \* bound: points of the row
          MaxRowIds,      \* bound: ids the host makes
          MaxRowCalls,    \* bound: calls in the queue
          NoLevel, NoWindow

ASSUME TopPointAssumption == TopPoint \in PointValues

VARIABLES storedRow,    \* the host: levels and points of the row
          shownRow,     \* the same, as the page shows it
          rowCalls,     \* the calls in the queue of the bridge
          rowFailed,    \* rowWriteError has an entry of the row
          askDelete,    \* confirmDeleteId
          undoWindow,   \* the window of levelUndo
          undoRow,      \* undoRow is this row
          rowIds,       \* ids made so far
          rowStale      \* a re-read failed, or a write of the looks took away
                        \* points that the page shows

levelVars == <<storedRow, shownRow, rowCalls, rowFailed, askDelete, undoWindow, undoRow,
               rowIds, rowStale>>

Unmade == 0   \* the blank id of what the host has not stored yet

Level == [id : 0..MaxRowIds, looks : LevelLooks]
Point == [id : 0..MaxRowIds, value : PointValues, above : BOOLEAN, level : 0..MaxRowIds,
          on : BOOLEAN]

LevelIds(row) == {l.id : l \in ToSet(row.levels)}
Triple(p) == <<p.value, p.above, p.level>>

RowCall(op, row) == [op |-> op, row |-> row, deletes |-> FALSE]

LevelInit ==
  /\ \E looks \in LevelLooks :
       storedRow \in {[levels |-> <<>>, points |-> {}],
                      [levels |-> <<[id |-> 1, looks |-> looks]>>,
                       points |-> {[id |-> 2, value |-> TopPoint, above |-> TRUE,
                                    level |-> 1, on |-> TRUE]}]}
  /\ shownRow = storedRow
  /\ rowCalls = <<>>
  /\ rowFailed = FALSE
  /\ askDelete = NoLevel
  /\ undoWindow = NoWindow
  /\ undoRow = FALSE
  /\ rowIds = 2
  /\ rowStale = FALSE

------------------------------------------------------------------------------
(* The user.  The question of a deletion covers the row.                     *)

EditorFree == askDelete = NoLevel

PutCall(call) ==
  /\ Len(rowCalls) < MaxRowCalls
  /\ rowCalls' = Append(rowCalls, call)

\* commitLevels: the points are those of the page.
SendLevels(levels) == PutCall(RowCall("save", [shownRow EXCEPT !.levels = levels]))

\* commitPoints: the levels are those of the page.
SendPoints(points) == PutCall(RowCall("save", [shownRow EXCEPT !.points = points]))

\* expireByMutation: an edit of the levels ends the undo of a deletion.
ExpiredBy(window) == IF window # NoWindow /\ window.frozen THEN window ELSE NoWindow

AddLevel ==
  /\ EditorFree
  /\ Len(shownRow.levels) < MaxLevels
  /\ \E looks \in LevelLooks :
       SendLevels(Append(shownRow.levels, [id |-> Unmade, looks |-> looks]))
  /\ undoWindow' = ExpiredBy(undoWindow)
  /\ UNCHANGED <<storedRow, shownRow, rowFailed, askDelete, undoRow, rowIds, rowStale>>

MoveLevel(i) ==
  /\ EditorFree
  /\ i + 1 \in DOMAIN shownRow.levels
  /\ SendLevels([shownRow.levels EXCEPT ![i] = shownRow.levels[i + 1],
                                        ![i + 1] = shownRow.levels[i]])
  /\ undoWindow' = ExpiredBy(undoWindow)
  /\ UNCHANGED <<storedRow, shownRow, rowFailed, askDelete, undoRow, rowIds, rowStale>>

\* commitName, selectColor, toggleAutolog, toggleFlash: a write of the looks,
\* which sends the points as well.
ChangeLooks(i, looks) ==
  /\ EditorFree
  /\ i \in DOMAIN shownRow.levels
  /\ shownRow.levels[i].looks # looks
  /\ PutCall(RowCall("display", [shownRow EXCEPT !.levels[i].looks = looks]))
  /\ UNCHANGED <<storedRow, shownRow, rowFailed, askDelete, undoWindow, undoRow, rowIds,
                 rowStale>>

ConfirmDelete(l) ==
  /\ EditorFree
  /\ l \in LevelIds(shownRow)
  /\ askDelete' = l
  /\ UNCHANGED <<storedRow, shownRow, rowCalls, rowFailed, undoWindow, undoRow, rowIds,
                 rowStale>>

CancelDelete ==
  /\ ~EditorFree
  /\ askDelete' = NoLevel
  /\ UNCHANGED <<storedRow, shownRow, rowCalls, rowFailed, undoWindow, undoRow, rowIds,
                 rowStale>>

\* levelUndo.begin with the level and its points.
Begun(l) ==
  [level |-> l, points |-> {p \in shownRow.points : p.level = l}, frozen |-> FALSE]

\* performDelete: deleteLevel runs up to its await, so the window is there when
\* onMutate expires it.  The points are sent as they are.
PerformDelete ==
  /\ ~EditorFree
  /\ askDelete' = NoLevel
  /\ IF askDelete \in LevelIds(shownRow)
       THEN /\ undoWindow' = ExpiredBy(Begun(askDelete))
            /\ PutCall([RowCall("save",
                         [shownRow EXCEPT !.levels = SelectSeq(@, LAMBDA l : l.id # askDelete)])
                          EXCEPT !.deletes = TRUE])
       ELSE UNCHANGED <<undoWindow, rowCalls>>
  /\ UNCHANGED <<storedRow, shownRow, rowFailed, undoRow, rowIds, rowStale>>

\* isDuplicate, among the points the page shows.
IsDuplicate(p) == \E q \in shownRow.points : q.id # p.id /\ Triple(q) = Triple(p)

PointsEdited(points) ==
  /\ SendPoints(points)
  /\ UNCHANGED <<storedRow, shownRow, rowFailed, askDelete, undoWindow, undoRow, rowIds,
                 rowStale>>

\* addPoint; the page gives no bounds, so the editor's own clamp does nothing.
AddPoint(v, l) ==
  LET p == [id |-> Unmade, value |-> v, above |-> TRUE, level |-> l, on |-> TRUE]
  IN  /\ EditorFree
      /\ l \in LevelIds(shownRow)
      /\ Cardinality(shownRow.points) < MaxPoints
      /\ ~IsDuplicate(p)
      /\ PointsEdited(shownRow.points \cup {p})

\* commitValue, toggleDirection and changeLevel.
MovedPoints(p) ==
  {q \in {[p EXCEPT !.value = v] : v \in PointValues} \cup {[p EXCEPT !.above = ~@]}
           \cup {[p EXCEPT !.level = l] : l \in LevelIds(shownRow)} :
     q # p /\ ~IsDuplicate(q)}

\* One of them, or togglePointEnabled, which asks for no duplicate.
ChangePoint(p) ==
  /\ EditorFree
  /\ p \in shownRow.points
  /\ \E q \in MovedPoints(p) \cup {[p EXCEPT !.on = ~@]} :
       PointsEdited((shownRow.points \ {p}) \cup {q})

RemovePoint(p) ==
  /\ EditorFree
  /\ p \in shownRow.points
  /\ PointsEdited(shownRow.points \ {p})

\* toggleEnabled sends the lists as they are; its checkbox waits for the write
\* of the row.
ResendRow ==
  /\ EditorFree
  /\ \A i \in DOMAIN rowCalls : rowCalls[i].op # "save"
  /\ PutCall(RowCall("save", shownRow))
  /\ UNCHANGED <<storedRow, shownRow, rowFailed, askDelete, undoWindow, undoRow, rowIds,
                 rowStale>>

\* retryWrite reads; it does not write again.
RetryRow ==
  /\ EditorFree
  /\ rowFailed
  /\ rowFailed' = FALSE
  /\ PutCall(RowCall("read", shownRow))
  /\ UNCHANGED <<storedRow, shownRow, askDelete, undoWindow, undoRow, rowIds, rowStale>>

LevelUser ==
  \/ AddLevel
  \/ \E i \in 1..MaxLevels : MoveLevel(i) \/ \E looks \in LevelLooks : ChangeLooks(i, looks)
  \/ \E l \in 1..MaxRowIds :
       ConfirmDelete(l) \/ \E v \in PointValues : AddPoint(v, l)
  \/ CancelDelete \/ PerformDelete
  \/ \E p \in shownRow.points : RemovePoint(p) \/ ChangePoint(p)
  \/ ResendRow \/ RetryRow

------------------------------------------------------------------------------
(* The host's SaveWarningDatalink and the answers.                           *)

HeadCall == Head(rowCalls)

\* Ids for what has none: an edit adds at most one level or one point.
Named(row) ==
  [levels |-> [i \in DOMAIN row.levels |->
                 [row.levels[i] EXCEPT !.id = IF @ = Unmade THEN rowIds + 1 ELSE @]],
   points |-> {[p EXCEPT !.id = IF @ = Unmade THEN rowIds + 1 ELSE @] : p \in row.points}]

Blank(row) == Unmade \in LevelIds(row) \cup {p.id : p \in row.points}

\* A mutation: points without a level pass.
AcceptsOrphans(row) ==
  \A p, q \in row.points : Triple(p) = Triple(q) => p = q

\* Two equal points, or a point without a level, refuse the write.
AcceptsRow(row) ==
  /\ \A p, q \in row.points : Triple(p) = Triple(q) => p = q
  /\ \A p \in row.points : p.level \in LevelIds(row)

\* Only then are the values clamped to those of the data link.
ClampedRow(row) ==
  [row EXCEPT !.points = {[p EXCEPT !.value = IF @ > TopPoint THEN TopPoint ELSE @] : p \in @}]

KeepRow(row) ==
  /\ storedRow' = ClampedRow(Named(row))
  /\ rowIds' = IF Blank(row) THEN rowIds + 1 ELSE rowIds
  /\ rowIds' <= MaxRowIds

\* A write was accepted: the row is re-read.
WriteAccepted ==
  /\ rowCalls # <<>> /\ HeadCall.op = "save"
  /\ AcceptsRow(Named(HeadCall.row))
  /\ KeepRow(HeadCall.row)
  /\ rowCalls' = Append(Tail(rowCalls), [HeadCall EXCEPT !.op = "read"])
  /\ UNCHANGED <<shownRow, rowFailed, askDelete, undoWindow, undoRow, rowStale>>

\* It was refused, by what Accepts asks or by an error of the host.
WriteRefused ==
  /\ rowCalls # <<>> /\ HeadCall.op \in {"save", "display"}
  /\ rowFailed' = TRUE
  /\ rowCalls' = Tail(rowCalls)
  /\ UNCHANGED <<storedRow, shownRow, askDelete, undoWindow, undoRow, rowIds, rowStale>>

\* The page gets what is stored; after a deletion it would offer the undo.
RowRead ==
  /\ rowCalls # <<>> /\ HeadCall.op = "read"
  /\ shownRow' = storedRow
  /\ rowStale' = FALSE
  /\ undoRow' = (undoRow \/ HeadCall.deletes)
  /\ rowCalls' = Tail(rowCalls)
  /\ UNCHANGED <<storedRow, rowFailed, askDelete, undoWindow, rowIds>>

RowReadFails ==
  /\ rowCalls # <<>> /\ HeadCall.op = "read"
  /\ rowFailed' = TRUE
  /\ rowStale' = TRUE
  /\ undoRow' = (undoRow \/ HeadCall.deletes)
  /\ rowCalls' = Tail(rowCalls)
  /\ UNCHANGED <<storedRow, shownRow, askDelete, undoWindow, rowIds>>

\* commitDisplay: the page's levels become those that were sent, its points
\* stay, and the re-read that follows is for the evaluator only.
LooksAccepted ==
  /\ rowCalls # <<>> /\ HeadCall.op = "display"
  /\ AcceptsRow(HeadCall.row)
  /\ KeepRow(HeadCall.row)
  /\ shownRow' = [shownRow EXCEPT !.levels = HeadCall.row.levels]
  /\ rowStale' = (rowStale \/ storedRow'.points # shownRow.points)
  /\ rowCalls' = Tail(rowCalls)
  /\ UNCHANGED <<rowFailed, askDelete, undoWindow, undoRow>>

LevelMoves == WriteAccepted \/ WriteRefused \/ RowRead \/ RowReadFails \/ LooksAccepted

LevelNext == LevelUser \/ LevelMoves

LevelSpec == LevelInit /\ [][LevelNext]_levelVars

------------------------------------------------------------------------------
(* Properties.                                                              *)

LevelTypeOK ==
  /\ {storedRow.points, shownRow.points} \subseteq SUBSET Point
  /\ \A row \in {storedRow, shownRow} : ToSet(row.levels) \subseteq Level
  /\ \A i \in DOMAIN rowCalls : rowCalls[i].op \in {"save", "display", "read"}
  /\ askDelete \in {NoLevel} \cup 1..MaxRowIds
  /\ rowIds \in 0..MaxRowIds
  /\ {rowFailed, undoRow, rowStale} \subseteq BOOLEAN

\* Whatever writes, each made of lists the others have since replaced, cross in
\* the queue, what is stored and what is shown has ids, no id twice, and no
\* point without its level.
RowHoldsTogether ==
  \A row \in {storedRow, shownRow} :
    /\ \A i, j \in DOMAIN row.levels : row.levels[i].id = row.levels[j].id => i = j
    /\ \A p, q \in row.points : p.id = q.id => p = q
    /\ \A p \in row.points : p.level \in LevelIds(row) /\ p.id # Unmade
    /\ Unmade \notin LevelIds(row)

\* When the calls are done the page shows what is stored, unless a re-read
\* failed or a write of the looks undid points it shows.
RowShownIsStored == (rowCalls = <<>> /\ ~rowStale) => shownRow = storedRow

\* Two stored points of one value, direction and level are two that were typed
\* beyond the data link's domain and clamped to its end, after the host looked for
\* duplicates; no two edits that cross make any others.
EqualOnlyByClamp ==
  \A p, q \in storedRow.points : Triple(p) = Triple(q) => p = q \/ p.value = TopPoint

RowSound == RowHoldsTogether /\ RowShownIsStored /\ EqualOnlyByClamp

\* "C# as the validation authority (KTD4): duplicate-tuple rejection, clamp
\* application" (WarningBridgeMethods.cs): no stored row has two points of one
\* value, direction and level.  The code breaks it: see EqualOnlyByClamp.
StoredAreDistinct ==
  \A p, q \in storedRow.points : Triple(p) = Triple(q) => p = q

\* "You can undo right after." (the question of LevelEditor.svelte): when the
\* deletion of a level is answered, the row offers its undo.
UndoOffered ==
  [][(rowCalls # <<>> /\ HeadCall.op = "read" /\ HeadCall.deletes)
       => undoWindow # NoWindow]_levelVars
===============================================================================
