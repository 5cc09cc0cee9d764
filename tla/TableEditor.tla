------------------------------ MODULE TableEditor ------------------------------
(***************************************************************************)
(* The table editor (pages/TableEditorPage.svelte) with its undo history   *)
(* (lib/tables/tableUndoRedo.ts).  The page keeps a copy of the ECU's      *)
(* table, the baseline it was read as, the cells that differ, and two      *)
(* stacks of entries that can be undone and redone by groups.  The table   *)
(* stays editable while a write of it is under way.                        *)
(*                                                                         *)
(* A cell stands for a cell of the output or of one of the two axes.  A    *)
(* change is a function on some cells to the values they get; what the     *)
(* transforms compute is the subject of TableTransforms.                   *)
(***************************************************************************)
EXTENDS Naturals, Sequences, FiniteSets, SequencesExt, Functions, FiniteSetsExt

CONSTANTS TableCells,  \* the cells of output and axes
          CellValues,
          MaxGroups,   \* bound: groups of edits
          MaxVisits,   \* bound: times the page is mounted
          NoTable      \* tableData and the session cache before anything is there

VARIABLES table,       \* the state of the page
          ecuTable,    \* the table as the ECU has it
          tableCalls,  \* the calls of the page in the queue of the bridge
          tableCache,  \* the session cache of the table
          apart        \* a history: cells edited during the write under way, and cells whose
                       \* baseline may be another value than the ECU's

tableVars == <<table, ecuTable, tableCalls, tableCache, apart>>

Changes == UNION {[cells -> CellValues] : cells \in SUBSET TableCells \ {{}}}

\* onMount; groups and visit are counters, reverted is a history of the cells
\* that were reverted one by one since the stacks were empty.
TableMounted(visit, groups) ==
  [phase |-> "loading", data |-> NoTable, base |-> NoTable, undo |-> <<>>, redo |-> <<>>,
   dirty |-> {}, marks |-> {}, sel |-> {}, clip |-> NoTable, dialog |-> "none", picking |-> FALSE,
   writing |-> FALSE, visit |-> visit, groups |-> groups, reverted |-> {}]

NoneApart == [edited |-> {}, stale |-> {}]

ReadCall(visit) == [op |-> "read", sent |-> NoTable, visit |-> visit]

TableInit ==
  /\ ecuTable \in [TableCells -> CellValues]
  /\ table = TableMounted(1, 0)
  /\ tableCalls = <<ReadCall(1)>>
  /\ tableCache = NoTable
  /\ apart = NoneApart

------------------------------------------------------------------------------
(* The page's data and its history.                                         *)

TableLoaded(t) == t.data # NoTable

Differing(data, base) == {c \in TableCells : data[c] # base[c]}

\* recalculateDirty.
Recalculated(t) == [t EXCEPT !.dirty = Differing(t.data, t.base)]

Patched(data, change) == [c \in TableCells |-> IF c \in DOMAIN change THEN change[c] ELSE data[c]]

\* The entries of a change, in the order of the cells; cells that keep their
\* value have none.
Entries(t, change) ==
  LET cells == SetToSeq({c \in DOMAIN change : change[c] # t.data[c]})
  IN  [i \in DOMAIN cells |-> [cell |-> cells[i], from |-> t.data[cells[i]],
                               to |-> change[cells[i]], group |-> t.groups + 1]]

\* A mutation: what was undone can be redone over the new edit.
RecordedKeepsRedo(t, change) ==
  Recalculated([t EXCEPT !.data = Patched(t.data, change), !.undo = @ \o Entries(t, change),
                         !.groups = @ + 1])

\* Every edit: the data, a group on the undo stack, and nothing to redo.
RecordedEdit(t, change) ==
  Recalculated([t EXCEPT !.data = Patched(t.data, change), !.undo = @ \o Entries(t, change),
                         !.redo = <<>>, !.groups = @ + 1])

TopGroup(stack) == Last(stack).group

\* The entries of the group on top, last one first.
Popped(stack) ==
  Reverse(SelectSeq(stack, LAMBDA e : e.group = TopGroup(stack)))

Below(stack) == SelectSeq(stack, LAMBDA e : e.group # TopGroup(stack))

\* handleUndo and handleRedo: the group moves to the other stack, reversed.
Undone(t) ==
  LET entries == Popped(t.undo)
      old == [c \in {entries[i].cell : i \in DOMAIN entries} |->
                entries[CHOOSE i \in DOMAIN entries : entries[i].cell = c].from]
  IN  Recalculated([t EXCEPT !.data = Patched(t.data, old), !.undo = Below(t.undo),
                             !.redo = @ \o entries])

Redone(t) ==
  LET entries == Popped(t.redo)
      new == [c \in {entries[i].cell : i \in DOMAIN entries} |->
                entries[CHOOSE i \in DOMAIN entries : entries[i].cell = c].to]
  IN  Recalculated([t EXCEPT !.data = Patched(t.data, new), !.redo = Below(t.redo),
                             !.undo = @ \o entries])

\* handleJumpToGroup: groups are undone, or redone, up to the one named.
GroupsDownTo(stack, group) ==
  LET lowest == CHOOSE i \in DOMAIN stack :
                  /\ stack[i].group = group
                  /\ \A k \in DOMAIN stack : stack[k].group = group => i <= k
  IN  Cardinality({stack[i].group : i \in lowest..Len(stack)})

UndoneTo(t, group) ==
  LET after[n \in Nat] == IF n = 0 THEN t ELSE Undone(after[n - 1])
  IN  after[GroupsDownTo(t.undo, group)]

RedoneTo(t, group) ==
  LET after[n \in Nat] == IF n = 0 THEN t ELSE Redone(after[n - 1])
  IN  after[GroupsDownTo(t.redo, group)]

\* saveSessionCache.
Cached(t, marks) == [undo |-> t.undo, redo |-> t.redo, base |-> t.base, marks |-> marks]

------------------------------------------------------------------------------
(* Steps.                                                                   *)

Shown == table.phase = "shown"
Free == Shown /\ table.dialog = "none"   \* no dialog covers the page

TableBecomes(t) ==
  /\ table' = t
  /\ apart' = IF table.writing
                THEN [apart EXCEPT !.edited = @ \cup Differing(t.data, table.data)] ELSE apart
  /\ UNCHANGED <<ecuTable, tableCalls>>

\* persistUndo.
Persists(t) == TableBecomes(t) /\ tableCache' = Cached(t, t.marks)

Keeps(t) == TableBecomes(t) /\ UNCHANGED tableCache

Edits(change) == table.groups < MaxGroups /\ Entries(table, change) # <<>>

\* handleApplyValue, from the cell editor.
ApplyValue(c, v) ==
  /\ Free
  /\ Edits([x \in {c} |-> v])
  /\ Persists(RecordedEdit(table, [x \in {c} |-> v]))

\* handle3DEditCell and handle3DBatchEdit: the cache is not written.
BatchEdit(change) ==
  /\ Free
  /\ Edits(change)
  /\ Keeps(RecordedEdit(table, change))

\* handleTransform: inside the selection.
TransformSelection(change) ==
  /\ Free
  /\ DOMAIN change \subseteq table.sel
  /\ Edits(change)
  /\ Persists(RecordedEdit(table, change))

Select(cells) ==
  /\ Free
  /\ table.sel # cells
  /\ Keeps([table EXCEPT !.sel = cells])

\* handleCopy and handlePaste; the copy is pasted cell by cell from the corner
\* of the selection, clipped to it.
Copy ==
  /\ Free
  /\ table.sel # {}
  /\ Keeps([table EXCEPT !.clip = {table.data[c] : c \in table.sel}])

Paste(change) ==
  /\ Free
  /\ table.clip # NoTable
  /\ DOMAIN change \subseteq table.sel
  /\ Range(change) \subseteq table.clip
  /\ Edits(change)
  /\ Keeps(RecordedEdit(table, change))

\* The keys work in every phase, once there is a table.
Undo ==
  /\ TableLoaded(table) /\ table.phase # "gone"
  /\ table.undo # <<>>
  /\ Persists(Undone(table))

Redo ==
  /\ TableLoaded(table) /\ table.phase # "gone"
  /\ table.redo # <<>>
  /\ Persists(Redone(table))

JumpToGroup(group) ==
  /\ Free
  /\ \/ /\ \E i \in DOMAIN table.undo : table.undo[i].group = group
        /\ Persists(UndoneTo(table, group))
     \/ /\ \E i \in DOMAIN table.redo : table.redo[i].group = group
        /\ Persists(RedoneTo(table, group))

\* handleRevertCell leaves the history as it is.
RevertCell(c) ==
  /\ Free
  /\ c \in table.dirty
  /\ Keeps(Recalculated([table EXCEPT !.data[c] = table.base[c], !.reverted = @ \cup {c}]))

RevertAll ==
  /\ Free
  /\ table.dirty # {}
  /\ Keeps(Recalculated([table EXCEPT !.data = table.base, !.undo = <<>>, !.redo = <<>>,
                                      !.reverted = {}]))

\* handleBookmark and handleRemoveBookmark.
Bookmark(group) ==
  /\ Free
  /\ \E i \in DOMAIN table.undo : table.undo[i].group = group
  /\ group \notin table.marks
  /\ Persists([table EXCEPT !.marks = @ \cup {group}])

RemoveBookmark(group) ==
  /\ Free
  /\ group \in table.marks
  /\ Persists([table EXCEPT !.marks = @ \ {group}])

------------------------------------------------------------------------------
(* The dialog: one, whose action is what was asked for last.                *)

\* handleWriteToEcu; the button is disabled while a write is under way.
AskToWrite ==
  /\ Free
  /\ table.dirty # {}
  /\ ~table.writing
  /\ Keeps([table EXCEPT !.dialog = "write"])

AskToRead ==
  /\ Free
  /\ table.dirty # {}
  /\ Keeps([table EXCEPT !.dialog = "read"])

\* handleImportYaml and handleImportCsv up to the file picker of the host.
PickFile ==
  /\ Free
  /\ ~table.picking
  /\ Keeps([table EXCEPT !.picking = TRUE])

\* The picker answers when it likes: the question replaces the one that is open.
FilePicked ==
  /\ table.picking
  /\ table.phase # "gone"
  /\ \/ Keeps([table EXCEPT !.picking = FALSE, !.dialog = "import"])
     \/ Keeps([table EXCEPT !.picking = FALSE])

LoadTable(t) == [t EXCEPT !.phase = "loading", !.dialog = "none"]

Calls(call) ==
  /\ tableCalls' = Append(tableCalls, call)
  /\ apart' = IF call.op = "write" THEN [apart EXCEPT !.edited = {}] ELSE apart
  /\ UNCHANGED <<ecuTable, tableCache>>

ReadAgain ==
  /\ Free
  /\ table.dirty = {}
  /\ table' = LoadTable(table)
  /\ Calls(ReadCall(table.visit))

ConfirmRead ==
  /\ table.dialog = "read"
  /\ table' = LoadTable(table)
  /\ Calls(ReadCall(table.visit))

ConfirmWrite ==
  /\ table.dialog = "write"
  /\ table' = [table EXCEPT !.dialog = "none", !.writing = TRUE]
  /\ Calls([op |-> "write", sent |-> table.data, visit |-> table.visit])

ConfirmImport(change) ==
  /\ table.dialog = "import"
  /\ table.groups < MaxGroups
  /\ LET closed == [table EXCEPT !.dialog = "none"]
     IN  Keeps(IF Entries(table, change) = <<>> THEN closed ELSE RecordedEdit(closed, change))

CancelTableDialog ==
  /\ table.dialog # "none"
  /\ Keeps([table EXCEPT !.dialog = "none"])

------------------------------------------------------------------------------
(* The answers of the host.                                                 *)

TableCall == Head(tableCalls)

\* The answer is for this mount of the page.
TableMine == table.visit = TableCall.visit /\ table.phase # "gone"

TableAsked(op) == tableCalls # <<>> /\ TableCall.op = op

\* loadTable: the ECU's table is data and baseline, the history is gone; of the
\* cache only the bookmarks are taken.
ReadAnswered ==
  /\ TableAsked("read")
  /\ table' = IF ~TableMine THEN table
              ELSE [table EXCEPT !.phase = "shown", !.data = ecuTable, !.base = ecuTable,
                                 !.undo = <<>>, !.redo = <<>>, !.dirty = {}, !.reverted = {},
                                 !.marks = IF tableCache = NoTable THEN @ ELSE tableCache.marks]
  /\ tableCalls' = Tail(tableCalls)
  /\ apart' = IF TableMine THEN NoneApart ELSE apart
  /\ UNCHANGED <<ecuTable, tableCache>>

ReadFailed ==
  /\ TableAsked("read")
  /\ table' = IF TableMine THEN [table EXCEPT !.phase = "error"] ELSE table
  /\ tableCalls' = Tail(tableCalls)
  /\ UNCHANGED <<ecuTable, tableCache, apart>>

\* A mutation: the baseline stays what was read.
WriteAnsweredOldBase ==
  /\ TableAsked("write")
  /\ ecuTable' = TableCall.sent
  /\ table' = IF TableMine THEN [table EXCEPT !.dirty = {}, !.writing = FALSE] ELSE table
  /\ apart' = IF TableMine THEN [edited |-> {}, stale |-> apart.edited] ELSE apart
  /\ tableCalls' = Tail(tableCalls)
  /\ UNCHANGED tableCache

\* The baseline becomes the data of now, not what was sent.
TableWritten ==
  /\ TableAsked("write")
  /\ ecuTable' = TableCall.sent
  /\ table' = IF TableMine THEN [table EXCEPT !.base = table.data, !.dirty = {}, !.writing = FALSE]
              ELSE table
  /\ apart' = IF TableMine THEN [edited |-> {}, stale |-> apart.edited] ELSE apart
  /\ tableCalls' = Tail(tableCalls)
  /\ UNCHANGED tableCache

\* Refused, or no answer: the table may have been written all the same.
WriteFailed ==
  /\ TableAsked("write")
  /\ \/ UNCHANGED <<ecuTable, apart>>
     \/ /\ ecuTable' = TableCall.sent
        /\ apart' = IF TableMine
                      THEN [apart EXCEPT !.stale = @ \cup Differing(TableCall.sent, table.base)] ELSE apart
  /\ table' = IF TableMine THEN [table EXCEPT !.writing = FALSE] ELSE table
  /\ tableCalls' = Tail(tableCalls)
  /\ UNCHANGED tableCache

\* onDestroy: the cache is written once more, without the bookmarks.
LeaveTable ==
  /\ table.phase # "gone"
  /\ table.dialog = "none"
  /\ table' = [table EXCEPT !.phase = "gone"]
  /\ tableCache' = IF TableLoaded(table) THEN Cached(table, {}) ELSE tableCache
  /\ UNCHANGED <<ecuTable, tableCalls, apart>>

Return ==
  /\ table.phase = "gone"
  /\ table.visit < MaxVisits
  /\ table' = TableMounted(table.visit + 1, table.groups)
  /\ Calls(ReadCall(table.visit + 1))

TableUser ==
  \/ \E c \in TableCells : RevertCell(c) \/ \E v \in CellValues : ApplyValue(c, v)
  \/ \E change \in Changes :
       BatchEdit(change) \/ TransformSelection(change) \/ Paste(change) \/ ConfirmImport(change)
  \/ \E cells \in SUBSET TableCells : Select(cells)
  \/ \E group \in 1..MaxGroups : JumpToGroup(group) \/ Bookmark(group) \/ RemoveBookmark(group)
  \/ Copy \/ Undo \/ Redo \/ RevertAll
  \/ AskToWrite \/ AskToRead \/ PickFile \/ ReadAgain
  \/ ConfirmRead \/ ConfirmWrite \/ CancelTableDialog
  \/ LeaveTable \/ Return

TableMoves == FilePicked \/ ReadAnswered \/ ReadFailed \/ TableWritten \/ WriteFailed

TableSpec == TableInit /\ [][TableUser \/ TableMoves]_tableVars

------------------------------------------------------------------------------
(* Properties.                                                              *)

HistoryEntry == [cell : TableCells, from : CellValues, to : CellValues, group : 1..MaxGroups]

TableContents == [TableCells -> CellValues] \cup {NoTable}

TableTypeOK ==
  /\ table.phase \in {"loading", "shown", "error", "gone"}
  /\ table.data \in TableContents
  /\ table.base \in TableContents
  /\ \A stack \in {table.undo, table.redo} : Range(stack) \subseteq HistoryEntry
  /\ table.dirty \subseteq TableCells
  /\ table.sel \subseteq TableCells
  /\ table.dialog \in {"none", "write", "read", "import"}
  /\ table.groups \in 0..MaxGroups
  /\ ecuTable \in [TableCells -> CellValues]

\* The cells marked as changed are those that differ from the baseline: a write
\* is offered and counted by them, and an unmarked change would not be written
\* or asked about, however edits, undos and answers follow each other.
DirtyAgrees == TableLoaded(table) => table.dirty = Differing(table.data, table.base)

Of(stack, c) == SelectSeq(stack, LAMBDA e : e.cell = c)

\* Both stacks continue the present data, cell by cell: undoing or redoing any
\* number of groups passes through the contents the user has seen, never
\* through a mixture.  A cell that was reverted by itself is the exception.
HistoryContinues ==
  \A c \in TableCells \ table.reverted :
    LET back == Of(table.undo, c)
        forth == Of(table.redo, c)
    IN  /\ back # <<>> => Last(back).to = table.data[c]
        /\ forth # <<>> => Last(forth).from = table.data[c]
        /\ \A i \in 1..(Len(back) - 1) : back[i].to = back[i + 1].from
        /\ \A i \in 1..(Len(forth) - 1) : forth[i].from = forth[i + 1].to

\* The baseline of a cell is what the ECU has, whatever writes, refusals, edits and
\* undos there were: all but the cells that were edited while the last write was under
\* way, whose edits the answer takes for written, and those of a write that threw and
\* may have been executed.  The next write or reading puts them right.
BaselineKnown ==
  (TableLoaded(table) /\ table.phase # "gone") => Differing(table.base, ecuTable) \subseteq apart.stale

\* The page knows what it would lose and what it would write.
TableSound == DirtyAgrees /\ HistoryContinues /\ BaselineKnown

\* "Update baseline to what's now on the ECU" (handleWriteToEcu): with no call under
\* way, the baseline is the table of the ECU.
BaselineIsEcu ==
  (Shown /\ tableCalls = <<>>) => table.base = ecuTable
================================================================================
