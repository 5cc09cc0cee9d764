------------------------------ MODULE DriverEditor -----------------------------
(***************************************************************************)
(* The driver editor (pages/DriverEditorPage.svelte), its rows             *)
(* (lib/drivers/DriverParamRow.svelte) and its undo history                *)
(* (lib/drivers/driverUndoRedo.ts).  A cell is a parameter or the data     *)
(* link of an input or an output; every edit changes one cell and is an    *)
(* entry of the undo stack.  The page goes on being editable while its     *)
(* configuration is written.                                               *)
(***************************************************************************)
EXTENDS Integers, Sequences, FiniteSets, SequencesExt

CONSTANTS Params, Slots,     \* configs; input and output links
          DriverValues,
          Low, High,         \* the range of every parameter
          Guarded, Guard,    \* a parameter enabled while another one has the value Accepted
          Accepted,
          NeedsReset,        \* the parameters that require a power cycle
          MaxDriverEntries,  \* bound: entries of the history
          NoDriver

VARIABLES driver,       \* the state of the page
          driverEcu,    \* the configuration as the ECU has it
          driverCalls,  \* the calls of the page
          driverApart   \* a history: cells edited during the write under way, and cells
                        \* whose baseline may be another value than the ECU's

driverVars == <<driver, driverEcu, driverCalls, driverApart>>

Cells == Params \cup Slots

ASSUME DriverAssumption ==
  /\ Guarded \in Params /\ Guard \in Params /\ NeedsReset \subseteq Params
  /\ Low \in Int /\ High \in Int /\ Low..High \subseteq DriverValues

OffDriver == [phase |-> "off", data |-> NoDriver, base |-> NoDriver, undo |-> <<>>, redo |-> <<>>,
              saving |-> FALSE, dialog |-> "none", editing |-> {}]

InStep == [edited |-> {}, stale |-> {}]

DriverInit ==
  /\ driver = OffDriver
  /\ driverEcu \in {d \in [Cells -> DriverValues] : \A p \in Params : d[p] \in Low..High}
  /\ driverCalls = <<>>
  /\ driverApart = InStep

------------------------------------------------------------------------------
(* The history.                                                             *)

Entry(cell, to) == [cell |-> cell, from |-> driver.data[cell], to |-> to]

\* A mutation: what was undone can still be redone after a new edit.
ChangedKeepsRedo(cell, to) ==
  [driver EXCEPT !.data[cell] = to, !.undo = Append(@, Entry(cell, to))]

\* pushDriverUndo and the change.
Changed(cell, to) ==
  [driver EXCEPT !.data[cell] = to, !.undo = Append(@, Entry(cell, to)), !.redo = <<>>]

\* driverUndo and driverRedo.
DriverUndone ==
  LET e == driver.undo[Len(driver.undo)]
  IN  [driver EXCEPT !.data[e.cell] = e.from, !.undo = Front(@), !.redo = Append(@, e)]

DriverRedone ==
  LET e == driver.redo[Len(driver.redo)]
  IN  [driver EXCEPT !.data[e.cell] = e.to, !.redo = Front(@), !.undo = Append(@, e)]

Dirty == {c \in Cells : driver.data[c] # driver.base[c]}

EntryEnabled(p) == p = Guarded => driver.data[Guard] = Accepted

ClampedEntry(v) == IF v < Low THEN Low ELSE IF v > High THEN High ELSE v

------------------------------------------------------------------------------
(* Steps.                                                                   *)

OnDriver == driver.phase = "shown"

\* A change made while the configuration is written is not part of it.
EditNoted(cell) ==
  driverApart' = IF driver.saving THEN [driverApart EXCEPT !.edited = @ \cup {cell}] ELSE driverApart

OpenDriver ==
  /\ driver.phase = "off"
  /\ driver' = [OffDriver EXCEPT !.phase = "loading"]
  /\ driverCalls' = Append(driverCalls, [op |-> "read", sent |-> NoDriver])
  /\ UNCHANGED <<driverEcu, driverApart>>

\* The page goes, with or without edits: only its own button asks first.
LeaveDriver ==
  /\ driver.phase # "off"
  /\ driver' = OffDriver
  /\ driverCalls' = [k \in DOMAIN driverCalls |-> [driverCalls[k] EXCEPT !.op = IF @ = "read" THEN "unheard" ELSE "orphan"]]
  /\ UNCHANGED <<driverEcu, driverApart>>

\* Edits of a cell through its row.
EditCell(cell, to) ==
  /\ Len(driver.undo) < MaxDriverEntries
  /\ driver' = [Changed(cell, to) EXCEPT !.editing = {}]
  /\ EditNoted(cell)
  /\ UNCHANGED <<driverEcu, driverCalls>>

\* The buttons of a parameter, also while one is held; the value is clamped.
StepParam(p) ==
  /\ OnDriver /\ driver.dialog = "none" /\ EntryEnabled(p)
  /\ \E dir \in {-1, 1} :
       /\ ClampedEntry(driver.data[p] + dir) # driver.data[p]
       /\ EditCell(p, ClampedEntry(driver.data[p] + dir))

OpenInput(p) ==
  /\ OnDriver /\ driver.dialog = "none" /\ EntryEnabled(p)
  /\ driver' = [driver EXCEPT !.editing = {p}]
  /\ UNCHANGED <<driverEcu, driverCalls, driverApart>>

\* commitInput: what is out of range stays in the input; whether the parameter
\* is still enabled is not asked again.
CommitInput(p) ==
  /\ OnDriver /\ driver.editing = {p}
  /\ \E v \in Low..High : v # driver.data[p] /\ EditCell(p, v)

CancelInput ==
  /\ driver.editing # {}
  /\ driver' = [driver EXCEPT !.editing = {}]
  /\ UNCHANGED <<driverEcu, driverCalls, driverApart>>

\* DataLinkRow: any link, the one it has included.
AssignLink(slot) ==
  /\ OnDriver /\ driver.dialog = "none"
  /\ \E link \in DriverValues : EditCell(slot, link)

\* The keys work in every state of the page.
DriverUndo ==
  /\ driver.undo # <<>>
  /\ driver' = DriverUndone
  /\ EditNoted(Last(driver.undo).cell)
  /\ UNCHANGED <<driverEcu, driverCalls>>

DriverRedo ==
  /\ driver.redo # <<>>
  /\ driver' = DriverRedone
  /\ EditNoted(Last(driver.redo).cell)
  /\ UNCHANGED <<driverEcu, driverCalls>>

\* doSave.
Saved(d) ==
  /\ driver' = [d EXCEPT !.saving = TRUE]
  /\ driverCalls' = Append(driverCalls, [op |-> "write", sent |-> driver.data])
  /\ driverApart' = [driverApart EXCEPT !.edited = {}]

PressDriverSave ==
  /\ OnDriver /\ driver.dialog = "none" /\ Dirty # {} /\ ~driver.saving
  /\ IF Dirty \cap NeedsReset # {}
     THEN driver' = [driver EXCEPT !.dialog = "reset"] /\ UNCHANGED <<driverCalls, driverApart>>
     ELSE Saved(driver)
  /\ UNCHANGED driverEcu

\* "Save Anyway": nothing is asked again.
ConfirmReset ==
  /\ driver.dialog = "reset"
  /\ Saved([driver EXCEPT !.dialog = "none"])
  /\ UNCHANGED driverEcu

PressBack ==
  /\ OnDriver /\ driver.dialog = "none" /\ Dirty # {}
  /\ driver' = [driver EXCEPT !.dialog = "discard"]
  /\ UNCHANGED <<driverEcu, driverCalls, driverApart>>

CancelDialog ==
  /\ driver.dialog # "none"
  /\ driver' = [driver EXCEPT !.dialog = "none"]
  /\ UNCHANGED <<driverEcu, driverCalls, driverApart>>

\* A mutation: the edits stay marked as unsaved against the old baseline.
WrittenOldBase == [driver EXCEPT !.saving = FALSE]

\* What the page shows when the write is answered is taken for what was written.
Written == [driver EXCEPT !.saving = FALSE, !.base = driver.data]

DriverAnswered ==
  /\ driverCalls # <<>>
  /\ LET call == driverCalls[1]
     IN  /\ driverEcu' = IF call.op \in {"write", "orphan"} /\ call.sent # NoDriver THEN call.sent ELSE driverEcu
         /\ driver' = CASE call.op = "read" ->
                             [OffDriver EXCEPT !.phase = "shown", !.data = driverEcu, !.base = driverEcu]
                        [] call.op = "write" -> Written
                        [] OTHER -> driver
         /\ driverApart' = CASE call.op = "read" -> InStep
                             [] call.op = "write" -> [edited |-> {}, stale |-> driverApart.edited]
                             [] OTHER -> driverApart
  /\ driverCalls' = Tail(driverCalls)

\* A refusal leaves the ECU as it was; a call that throws may have written. The
\* page of a read that fails goes back to the list.
DriverFails ==
  /\ driverCalls # <<>>
  /\ LET call == driverCalls[1]
     IN  /\ driver' = CASE call.op = "read" -> OffDriver
                        [] call.op = "write" -> [driver EXCEPT !.saving = FALSE]
                        [] OTHER -> driver
         /\ driverEcu' \in {driverEcu} \cup (IF call.sent = NoDriver THEN {} ELSE {call.sent})
         /\ driverApart' = IF driverEcu' # driverEcu /\ call.op = "write"
                             THEN [driverApart EXCEPT !.stale = @ \cup {c \in Cells : call.sent[c] # driver.base[c]}]
                             ELSE driverApart
  /\ driverCalls' = Tail(driverCalls)

DriverUser ==
  \/ OpenDriver \/ LeaveDriver \/ CancelInput \/ DriverUndo \/ DriverRedo
  \/ PressDriverSave \/ ConfirmReset \/ PressBack \/ CancelDialog
  \/ \E p \in Params : StepParam(p) \/ OpenInput(p) \/ CommitInput(p)
  \/ \E slot \in Slots : AssignLink(slot)

DriverMoves == DriverAnswered \/ DriverFails

------------------------------------------------------------------------------
(* Properties.                                                              *)

DriverContents == [Cells -> DriverValues]

\* The shape of the variables.
DriverTypeOK ==
  /\ driver.phase \in {"off", "loading", "shown"}
  /\ driver.data \in DriverContents \cup {NoDriver} /\ driver.base \in DriverContents \cup {NoDriver}
  /\ (driver.phase = "shown") = (driver.data # NoDriver)
  /\ driver.dialog \in {"none", "discard", "reset"}
  /\ driverEcu \in DriverContents
  /\ driver.editing \subseteq Params

\* The entries above i in a stack that change the same cell.
Above(stack, i) == {k \in i + 1 .. Len(stack) : stack[k].cell = stack[i].cell}

Nearest(ks) == CHOOSE k \in ks : \A l \in ks : k <= l

\* Undo and redo retrace the edits: each entry of either stack finds the value
\* it expects when its turn comes, whatever was edited, undone and redone.
HistoryFits ==
  /\ \A i \in DOMAIN driver.undo :
       driver.undo[i].to = IF Above(driver.undo, i) = {} THEN driver.data[driver.undo[i].cell]
                           ELSE driver.undo[Nearest(Above(driver.undo, i))].from
  /\ \A i \in DOMAIN driver.redo :
       driver.redo[i].from = IF Above(driver.redo, i) = {} THEN driver.data[driver.redo[i].cell]
                             ELSE driver.redo[Nearest(Above(driver.redo, i))].to

\* What the page takes for saved the ECU has, whatever was written, refused, edited and
\* undone: all but the parameters and links that were edited while the last write was
\* under way, which its answer takes for written, and those of a write that threw and
\* may have been executed.
BaseOnEcu ==
  driver.phase = "shown" => {c \in Cells : driver.base[c] # driverEcu[c]} \subseteq driverApart.stale

\* One write at a time, and never two from one page.
OneWrite == Cardinality({k \in DOMAIN driverCalls : driverCalls[k].op = "write"}) <= 1

\* No step through the rows leaves the range of a parameter.
ParamsInRange == driver.phase = "shown" => \A p \in Params : driver.data[p] \in Low..High

DriverSound == HistoryFits /\ BaseOnEcu /\ OneWrite /\ ParamsInRange
================================================================================
