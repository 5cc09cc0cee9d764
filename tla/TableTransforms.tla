---------------------------- MODULE TableTransforms ----------------------------
(***************************************************************************)
(* The operations on a selection of a table (applyTransform of             *)
(* lib/tables/tableTransforms.ts), and the gestures, keys and menus that   *)
(* make the selection (pages/TableEditorPage.svelte, lib/tables/           *)
(* TableGrid.svelte and CurveEditor.svelte).                               *)
(*                                                                         *)
(* Values are in hundredths, to which every operation rounds: v stands     *)
(* for v / 100.  The weights of the Gaussian, exponentials in the code,    *)
(* are a constant.  A selection is a rectangle of the output, or a range   *)
(* of one axis.  Rows and columns count from 1.                            *)
(***************************************************************************)
EXTENDS Integers, FiniteSets, FiniteSetsExt

CONSTANTS Height, Width,  \* the size of the output
          GridValues,     \* the values a table may start with
          Percents,       \* factors of scale and of the conditional scale
          Kernel          \* Kernel[d]: the weight of a neighbour at distance d

VARIABLES grid,  \* the output of the table
          axes,  \* its two axes
          was,   \* what the output was before the last operation
          wasAxes,
          did    \* the last operation, its selection and what it was applied to

gridVars == <<grid, axes, was, wasAxes, did>>

VARIABLES pick,   \* cursor, selection, menu, sheet and cell editor of the page
          press,  \* the pointer and the flags of the grid about its last gesture
          past    \* history: what has happened since the page was opened

pickVars == <<pick, press, past>>

GridCells == (1..Height) \X (1..Width)

\* Math.round(n / d), halves upwards.
Rounded(n, d) == (2 * n + d) \div (2 * d)

\* selBounds.
Rectangles ==
  {b \in [top : 1..Height, bottom : 1..Height, left : 1..Width, right : 1..Width] :
     b.top <= b.bottom /\ b.left <= b.right}

\* The rectangle between two taps.
Spanned(anchor, cell) ==
  [top |-> Min({anchor[1], cell[1]}), bottom |-> Max({anchor[1], cell[1]}),
   left |-> Min({anchor[2], cell[2]}), right |-> Max({anchor[2], cell[2]})]

\* deriveSelectionType: where two taps are decides what is operated on, not
\* whether they were on the output or on the headings of an axis.  The menu of a
\* cell names the kind itself.
SelectionType(b) ==
  IF b.left = 1 /\ b.right = 1 /\ b.top < b.bottom THEN "input1"
  ELSE IF b.top = 1 /\ b.bottom = 1 /\ b.left < b.right THEN "input0"
  ELSE "output"

In(b) == (b.top..b.bottom) \X (b.left..b.right)

SumOf(g, cells) == MapThenSumSet(LAMBDA c : g[c], cells)

At(g, r, c) == g[<<r, c>>]

------------------------------------------------------------------------------
(* What each operation makes of a cell of the selection.                    *)

Near(r, c, radius) ==
  {n \in GridCells : n[1] \in (r - radius)..(r + radius) /\ n[2] \in (c - radius)..(c + radius)}

\* A mutation: the neighbours that are missing at an edge count as zero.
SmoothOverAll(g, r, c, radius) ==
  Rounded(SumOf(g, Near(r, c, radius)), (2 * radius + 1) * (2 * radius + 1))

Smooth(g, r, c, radius) ==
  Rounded(SumOf(g, Near(r, c, radius)), Cardinality(Near(r, c, radius)))

\* fill and interpolate: the corners of the selection stay, the rest lies
\* between them; with one row or one column it lies between its two ends.
Fill(g, b, r, c) ==
  LET high == IF b.bottom = b.top THEN 1 ELSE b.bottom - b.top
      wide == IF b.right = b.left THEN 1 ELSE b.right - b.left
      y == r - b.top
      x == c - b.left
      mixed(row) == At(g, row, b.left) * (wide - x) + At(g, row, b.right) * x
  IN  IF r \in {b.top, b.bottom} /\ c \in {b.left, b.right} THEN At(g, r, c)
      ELSE Rounded(mixed(b.top) * (high - y) + mixed(b.bottom) * y, high * wide)

\* A row, or a column, is stretched to 0..100; a constant one becomes 50.
Normalized(v, all) ==
  IF Max(all) = Min(all) THEN 5000
  ELSE Rounded((v - Min(all)) * 10000, Max(all) - Min(all))

RowNormalize(g, b, r, c) == Normalized(At(g, r, c), {At(g, r, k) : k \in b.left..b.right})
ColNormalize(g, b, r, c) == Normalized(At(g, r, c), {At(g, k, c) : k \in b.top..b.bottom})

\* gaussianSmooth: over the column only, by the weights of the whole kernel
\* even where it hangs over the edge.
GaussianSmooth(g, r, c) ==
  LET reach == Max(DOMAIN Kernel)
      total == Kernel[0] + 2 * MapThenSumSet(LAMBDA d : Kernel[d], 1..reach)
      rows == (r - reach)..(r + reach) \cap 1..Height
      weight(k) == Kernel[IF k < r THEN r - k ELSE k - r]
  IN  Rounded(MapThenSumSet(LAMBDA k : At(g, k, c) * weight(k), rows), total)

MirrorH(g, b, r, c) == At(g, r, b.right - (c - b.left))
MirrorV(g, b, r, c) == At(g, b.bottom - (r - b.top), c)

\* copyRow: the source is clamped into the selection.
CopyRow(g, b, c, source) ==
  At(g, IF source < b.top THEN b.top ELSE IF source > b.bottom THEN b.bottom ELSE source, c)

\* ramp runs through the selection row by row.
Ramp(b, r, c, start, end) ==
  LET wide == b.right - b.left + 1
      last == (b.bottom - b.top + 1) * wide - 1
      i == (r - b.top) * wide + (c - b.left)
  IN  IF last = 0 THEN start ELSE Rounded(start * last + (end - start) * i, last)

Scale(v, percent) == Rounded(v * percent, 100)

Clamp(v, low, high) == IF v < low THEN low ELSE IF v > high THEN high ELSE v

\* conditionalScale: 0 above, 1 below, 2 at the threshold.
ConditionalScale(v, threshold, condOp, percent) ==
  IF \/ condOp = 0 /\ v > threshold
     \/ condOp = 1 /\ v < threshold
     \/ condOp = 2 /\ v = threshold
    THEN Scale(v, percent) ELSE v

------------------------------------------------------------------------------
(* applyTransform on the output.                                            *)

On(g, b, new(_, _)) == [cell \in GridCells |-> IF cell \in In(b) THEN new(cell[1], cell[2])
                                               ELSE g[cell]]

Plain == {"smooth", "fill", "rowNormalize", "colNormalize", "gaussianSmooth", "mirrorH", "mirrorV"}

Apply(op, g, b) ==
  CASE op = "smooth" -> On(g, b, LAMBDA r, c : Smooth(g, r, c, 1))
    [] op = "fill" -> On(g, b, LAMBDA r, c : Fill(g, b, r, c))
    [] op = "rowNormalize" -> On(g, b, LAMBDA r, c : RowNormalize(g, b, r, c))
    [] op = "colNormalize" -> On(g, b, LAMBDA r, c : ColNormalize(g, b, r, c))
    [] op = "gaussianSmooth" -> On(g, b, LAMBDA r, c : GaussianSmooth(g, r, c))
    [] op = "mirrorH" -> On(g, b, LAMBDA r, c : MirrorH(g, b, r, c))
    [] op = "mirrorV" -> On(g, b, LAMBDA r, c : MirrorV(g, b, r, c))

GridBecomes(g, op, b) ==
  /\ was' = grid /\ grid' = g
  /\ did' = [op |-> op, on |-> b, kind |-> "output"]
  /\ UNCHANGED <<axes, wasAxes>>

TransformPlain(b, op) == GridBecomes(Apply(op, grid, b), op, b)

TransformWith(b, v, w) ==
  \/ GridBecomes(On(grid, b, LAMBDA r, c : v), "set", b)
  \/ GridBecomes(On(grid, b, LAMBDA r, c : At(grid, r, c) + v), "offset", b)
  \/ GridBecomes(On(grid, b, LAMBDA r, c : Ramp(b, r, c, v, w)), "ramp", b)
  \/ v <= w /\ GridBecomes(On(grid, b, LAMBDA r, c : Clamp(At(grid, r, c), v, w)), "clamp", b)

TransformBy(b, percent, v) ==
  \/ GridBecomes(On(grid, b, LAMBDA r, c : Scale(At(grid, r, c), percent)), "scale", b)
  \/ \E condOp \in 0..2 :
       GridBecomes(On(grid, b, LAMBDA r, c : ConditionalScale(At(grid, r, c), v, condOp, percent)),
                   "conditionalScale", b)

TransformCopy(b, source) ==
  GridBecomes(On(grid, b, LAMBDA r, c : CopyRow(grid, b, c, source)), "copyRow", b)

------------------------------------------------------------------------------
(* applyTransform on the range a..z of an axis l.                           *)

OnRange(l, a, z, new(_)) == [i \in DOMAIN l |-> IF i \in a..z THEN new(i) ELSE l[i]]

Window(l, i, radius) == (i - radius)..(i + radius) \cap DOMAIN l

MeanAround(l, i) ==
  Rounded(MapThenSumSet(LAMBDA k : l[k], Window(l, i, 1)), Cardinality(Window(l, i, 1)))

\* Here the weights are those of the neighbours there are.
GaussianAround(l, i) ==
  LET weight(k) == Kernel[IF k < i THEN i - k ELSE k - i]
      near == Window(l, i, Max(DOMAIN Kernel))
  IN  Rounded(MapThenSumSet(LAMBDA k : l[k] * weight(k), near), MapThenSumSet(weight, near))

\* fill, interpolate and ramp: the line from one end to the other.
Between(a, z, i, start, end) ==
  IF a = z THEN start ELSE Rounded(start * (z - a) + (end - start) * (i - a), z - a)

\* A constant range becomes 0, not 50 as on the output.
Stretched(l, a, z, i) ==
  LET all == {l[k] : k \in a..z}
  IN  IF Max(all) = Min(all) THEN 0 ELSE Rounded((l[i] - Min(all)) * 10000, Max(all) - Min(all))

\* The sheet sends no source that is read here: copyRow takes the first value.
AxisApply(op, l, a, z) ==
  CASE op \in {"mirrorH", "mirrorV"} -> OnRange(l, a, z, LAMBDA i : l[a + z - i])
    [] op = "smooth" -> OnRange(l, a, z, LAMBDA i : MeanAround(l, i))
    [] op = "gaussianSmooth" -> OnRange(l, a, z, LAMBDA i : GaussianAround(l, i))
    [] op = "fill" -> OnRange(l, a, z, LAMBDA i : Between(a, z, i, l[a], l[z]))
    [] op = "copyRow" -> OnRange(l, a, z, LAMBDA i : l[a])
    [] op \in {"rowNormalize", "colNormalize"} -> OnRange(l, a, z, LAMBDA i : Stretched(l, a, z, i))

AxisEnds(b, kind) == IF kind = "input0" THEN <<b.left, b.right>> ELSE <<b.top, b.bottom>>

AxisBecomes(l, op, b, kind) ==
  /\ wasAxes' = axes /\ axes' = [axes EXCEPT ![kind] = l]
  /\ did' = [op |-> op, on |-> b, kind |-> kind]
  /\ UNCHANGED <<grid, was>>

TransformAxis(b, kind, op) ==
  LET ends == AxisEnds(b, kind)
  IN  AxisBecomes(AxisApply(op, axes[kind], ends[1], ends[2]), op, b, kind)

TransformAxisBy(b, kind, percent, v, w) ==
  LET l == axes[kind]
      a == AxisEnds(b, kind)[1]
      z == AxisEnds(b, kind)[2]
  IN  \/ AxisBecomes(OnRange(l, a, z, LAMBDA i : v), "set", b, kind)
      \/ AxisBecomes(OnRange(l, a, z, LAMBDA i : l[i] + v), "offset", b, kind)
      \/ AxisBecomes(OnRange(l, a, z, LAMBDA i : Between(a, z, i, v, w)), "ramp", b, kind)
      \/ v <= w /\ AxisBecomes(OnRange(l, a, z, LAMBDA i : Clamp(l[i], v, w)), "clamp", b, kind)
      \/ AxisBecomes(OnRange(l, a, z, LAMBDA i : Scale(l[i], percent)), "scale", b, kind)
      \/ \E condOp \in 0..2 :
           AxisBecomes(OnRange(l, a, z, LAMBDA i : ConditionalScale(l[i], v, condOp, percent)),
                       "conditionalScale", b, kind)

------------------------------------------------------------------------------

\* The table starts with any output and even axes, or with any axes and an even
\* output.
GridInit ==
  /\ grid \in [GridCells -> GridValues]
  /\ axes \in [input0 : [1..Width -> GridValues], input1 : [1..Height -> GridValues]]
  /\ \/ axes = [input0 |-> [i \in 1..Width |-> Min(GridValues)],
                input1 |-> [i \in 1..Height |-> Min(GridValues)]]
     \/ grid = [cell \in GridCells |-> Min(GridValues)]
  /\ was = grid /\ wasAxes = axes
  /\ did = [op |-> "none", on |-> [top |-> 1, bottom |-> 1, left |-> 1, right |-> 1],
            kind |-> "output"]

Selections == {Spanned(anchor, cell) : anchor \in GridCells, cell \in GridCells}

\* A range of an axis is one of its headings; the rows, or columns, beside it do
\* not matter.
Ranges(kind) ==
  {b \in Selections : IF kind = "input0" THEN b.bottom = 1 ELSE b.right = 1}

GridNext ==
  \/ \E b \in Selections :
       \/ \E op \in Plain : TransformPlain(b, op)
       \/ \E v, w \in GridValues : TransformWith(b, v, w)
       \/ \E percent \in Percents, v \in GridValues : TransformBy(b, percent, v)
       \/ \E source \in 1..Height : TransformCopy(b, source)
  \/ \E kind \in {"input0", "input1"} : \E b \in Ranges(kind) :
       \/ \E op \in Plain \cup {"copyRow"} : TransformAxis(b, kind, op)
       \/ \E percent \in Percents, v, w \in GridValues : TransformAxisBy(b, kind, percent, v, w)

GridSpec == GridInit /\ [][GridNext]_gridVars

------------------------------------------------------------------------------
(* What is selected.                                                        *)

None == <<>>

\* How many rows a table has: one, when it is a curve (is1DTable).
RowsOf(p) == IF p.flat THEN 1 ELSE Height

CellsOf(p) == (1..RowsOf(p)) \X (1..Width)

\* What a pointer can be on: a cell, or a heading, whose other coordinate is the
\* first one.  A curve has no headings of rows.
Spots(p) ==
  [at : CellsOf(p), type : {"output"}]
    \cup [at : {1} \X (1..Width), type : {"input0"}]
    \cup IF p.flat THEN {} ELSE [at : (1..Height) \X {1}, type : {"input1"}]

\* handleAnchorSet and clearSelection; with the selection goes the sheet's choice.
AnchorSet(p, cell, type) ==
  [p EXCEPT !.anchor = cell, !.kind = type, !.sel = None, !.editor = FALSE, !.chosen = FALSE]

Cleared(p) == [p EXCEPT !.anchor = None, !.sel = None, !.kind = "output", !.chosen = FALSE]

\* handleSelectionComplete; a curve keeps the kind of the anchor.
SelectionComplete(p, cell) ==
  IF p.anchor = None THEN p
  ELSE [p EXCEPT !.sel = <<p.anchor, cell>>, !.editor = FALSE,
                 !.kind = IF p.flat THEN @ ELSE SelectionType(Spanned(p.anchor, cell))]

\* One tap has been made, the second is awaited.
Waiting(p) == p.anchor # None /\ p.sel = None

\* handleCellClick, handleAxis0Click and handleAxis1Click of the page.
EditorOpened(p, spot) ==
  [p EXCEPT !.cursor = spot.at, !.mode = spot.type, !.editor = TRUE]

\* The page shows the sheet when it is open and there is a selection.
SheetShown(p) == p.sheet /\ p.sel # None

\* What can be touched: the grid, when the sheet does not cover it.
GridShown == pick.view = "grid" /\ ~SheetShown(pick)

PickInit ==
  /\ pick \in [flat : BOOLEAN, view : {"grid"}, cursor : {<<1, 1>>}, mode : {"output"},
               anchor : {None}, sel : {None}, kind : {"output"}, editor : {FALSE},
               sheet : {FALSE}, chosen : {FALSE}, menu : {None}]
  /\ press = [at |-> None, down |-> FALSE, timer |-> FALSE, fired |-> FALSE, just |-> FALSE,
              click |-> FALSE]
  /\ past = [headings |-> FALSE, undone |-> FALSE, made |-> FALSE]

Picks(p) == pick' = p /\ UNCHANGED <<press, past>>

------------------------------------------------------------------------------
(* The pointer, of which there is one.                                      *)

\* handlePointerDown: the timer of the long press starts.  A menu closes.
PointerDown(spot) ==
  /\ GridShown /\ ~press.down
  /\ press' = [at |-> <<spot>>, down |-> TRUE, timer |-> TRUE, fired |-> FALSE,
               just |-> FALSE, click |-> FALSE]
  /\ pick' = [pick EXCEPT !.menu = None]
  /\ past' = [past EXCEPT !.made = FALSE]

\* handlePointerMove by more than ten pixels.
PointerMove ==
  /\ press.timer
  /\ press' = [press EXCEPT !.timer = FALSE]
  /\ UNCHANGED <<pick, past>>

\* The timer fires: the first end of a range, or the second.
LongPress ==
  /\ press.timer
  /\ press' = [press EXCEPT !.timer = FALSE, !.fired = TRUE]
  /\ LET spot == press.at[1]
     IN  pick' = IF Waiting(pick) THEN SelectionComplete(pick, spot.at)
                 ELSE AnchorSet(pick, spot.at, spot.type)
  /\ past' = [past EXCEPT !.made = TRUE]

\* A mutation: the click that follows is not told that the range is complete.
PointerUpUntold(spot) ==
  /\ press.down
  /\ LET completes == ~press.fired /\ Waiting(pick)
     IN  /\ pick' = IF completes THEN SelectionComplete(pick, spot.at) ELSE pick
         /\ past' = [past EXCEPT !.made = @ \/ completes]
         /\ press' = [press EXCEPT !.down = FALSE, !.timer = FALSE,
                                   !.click = (press.at = <<spot>>)]

\* handlePointerUp, where the pointer is now; a click follows where it went down.
PointerUp(spot) ==
  /\ press.down
  /\ LET completes == ~press.fired /\ Waiting(pick)
     IN  /\ pick' = IF completes THEN SelectionComplete(pick, spot.at) ELSE pick
         /\ past' = [past EXCEPT !.made = @ \/ completes]
         /\ press' = [press EXCEPT !.down = FALSE, !.timer = FALSE, !.just = @ \/ completes,
                                   !.click = (press.at = <<spot>>)]

\* handlePointerCancel: the gesture became a scroll, or left the grid.
PointerCancel ==
  /\ press.down
  /\ press' = [press EXCEPT !.down = FALSE, !.timer = FALSE]
  /\ UNCHANGED <<pick, past>>

\* handleCellClick of the grid, handleCellTap of the curve, which knows no shift.
Clicked(p, spot, shift) ==
  IF press.fired \/ press.just THEN p
  ELSE IF shift /\ ~p.flat
    THEN SelectionComplete(IF p.anchor = None THEN AnchorSet(p, p.cursor, p.kind) ELSE p, spot.at)
  ELSE IF Waiting(p) THEN SelectionComplete(p, spot.at)
  ELSE EditorOpened(IF p.sel # None THEN Cleared(p) ELSE p, spot)

Click(shift) ==
  /\ press.click
  /\ pick' = Clicked(pick, press.at[1], shift)
  /\ press' = [press EXCEPT !.click = FALSE]
  /\ past' = [past EXCEPT !.undone = @ \/ (past.made /\ pick' # pick)]

------------------------------------------------------------------------------
(* The menu of a cell, the toolbar of a selection and the sheet.            *)

\* handleContextMenu.
OpenMenu(spot) == GridShown /\ pick.menu # <<spot>> /\ Picks([pick EXCEPT !.menu = <<spot>>])

CloseMenu == pick.menu # None /\ Picks([pick EXCEPT !.menu = None])

\* The range from one end to the other, with the kind it is said to have.
Ranged(p, from, to, kind) == [p EXCEPT !.anchor = from, !.sel = <<from, to>>, !.kind = kind]

\* Select Cell: the second end, a new first end, or the first one.
MenuSelectCell(p, spot) ==
  IF Waiting(p) THEN Ranged(p, p.anchor, spot.at, spot.type) ELSE AnchorSet(p, spot.at, spot.type)

\* A mutation: the row has a cell too many.
MenuSelectRowTooFar(p, spot) ==
  Ranged(p, <<spot.at[1], 1>>, <<spot.at[1], Width + 1>>, "output")

MenuSelectRow(p, spot) == Ranged(p, <<spot.at[1], 1>>, <<spot.at[1], Width>>, "output")

MenuSelectCol(p, spot) == Ranged(p, <<1, spot.at[2]>>, <<RowsOf(p), spot.at[2]>>, "output")

SelectAll(p) ==
  [Ranged(p, <<1, 1>>, <<RowsOf(p), Width>>, "output") EXCEPT !.editor = FALSE]

\* Transform on a single cell opens the sheet over it.
MenuTransform(p, spot) ==
  [Ranged(p, spot.at, spot.at, spot.type) EXCEPT !.editor = FALSE, !.sheet = TRUE]

\* Copy and Paste work on the cell and leave nothing selected; the last entry
\* takes the cursor to the operating point of the engine.
MenuAction(p, spot) ==
  {MenuSelectCell(p, spot), Cleared(AnchorSet(p, spot.at, spot.type)), MenuTransform(p, spot),
   MenuSelectRow(p, spot), MenuSelectCol(p, spot), SelectAll(p)}
    \cup {[p EXCEPT !.cursor = cell] : cell \in CellsOf(p)}

\* handleContextMenuAction, after which the menu closes.
ChooseInMenu ==
  /\ pick.menu # None
  /\ \E p \in MenuAction(pick, pick.menu[1]) : Picks([p EXCEPT !.menu = None])

\* SelectionToolbar, under the sheet; the hint and the corner of the grid clear.
ToolbarTransform == pick.sel # None /\ ~pick.sheet /\ Picks([pick EXCEPT !.sheet = TRUE])

ClearSelection ==
  /\ pick.anchor # None /\ ~SheetShown(pick)
  /\ Picks(Cleared(pick))

\* OpsSheet: an operation is chosen, or not; applying it closes the sheet and
\* leaves the selection.
ChooseOp == SheetShown(pick) /\ Picks([pick EXCEPT !.chosen = ~@])

CloseSheet == SheetShown(pick) /\ Picks([pick EXCEPT !.sheet = FALSE, !.chosen = FALSE])

ApplyInSheet == pick.chosen /\ CloseSheet

\* CellEditor: apply, revert and close.
CloseEditor == pick.editor /\ Picks([pick EXCEPT !.editor = FALSE])

\* The surface instead of the grid, between two gestures, and a cell of it.
ToggleView3D ==
  /\ ~pick.flat /\ ~SheetShown(pick) /\ ~press.down
  /\ pick' = [pick EXCEPT !.view = IF @ = "grid" THEN "surface" ELSE "grid"]
  /\ press' = [at |-> None, down |-> FALSE, timer |-> FALSE, fired |-> FALSE, just |-> FALSE,
               click |-> FALSE]
  /\ past' = [past EXCEPT !.made = FALSE]

SelectOnSurface(cell) ==
  /\ pick.view = "surface" /\ ~SheetShown(pick)
  /\ Picks([pick EXCEPT !.cursor = cell, !.mode = "output"])

------------------------------------------------------------------------------
(* handleKeydown: the keys, while no text field has them.                   *)

\* The menu closes too, and the sheet if its backdrop has the focus.
Escape ==
  \E sheet \in {pick.sheet, pick.sheet /\ ~SheetShown(pick)} :
    Picks([IF pick.anchor # None THEN Cleared(pick) ELSE [pick EXCEPT !.editor = FALSE]
             EXCEPT !.menu = None, !.sheet = sheet])

KeySelectAll == Picks(SelectAll(pick))

\* An arrow moves inside the output, or goes from its first row or column to the
\* headings, along them and back.  There the index of one axis is used, and
\* bounded, as that of the other.
Arrow(p, key) ==
  LET row == p.cursor[1]
      col == p.cursor[2]
      to(mode, r, c) == [mode |-> mode, at |-> <<r, c>>]
      before(i) == IF i > 1 THEN i - 1 ELSE 1
      after(i, n) == IF i < n THEN i + 1 ELSE n
  IN  CASE p.mode = "output" /\ key = "up" ->
             IF row = 1 THEN to("input1", col, col) ELSE to("output", before(row), col)
        [] p.mode = "output" /\ key = "left" ->
             IF col = 1 THEN to("input0", row, row) ELSE to("output", row, before(col))
        [] p.mode = "output" /\ key = "down" -> to("output", after(row, RowsOf(p)), col)
        [] p.mode = "output" /\ key = "right" -> to("output", row, after(col, Width))
        [] p.mode = "input1" /\ key = "down" -> to("output", 1, row)
        [] p.mode = "input1" /\ key = "left" -> to("input1", before(row), col)
        [] p.mode = "input1" /\ key = "right" -> to("input1", after(row, Width), col)
        [] p.mode = "input0" /\ key = "right" -> to("output", col, 1)
        [] p.mode = "input0" /\ key = "up" -> to("input0", row, before(col))
        [] p.mode = "input0" /\ key = "down" -> to("input0", row, after(col, RowsOf(p)))
        [] OTHER -> to(p.mode, row, col)

\* With shift the selection is extended from the anchor to where the arrow goes.
Extended(p, new) ==
  LET from == IF p.anchor = None THEN p.cursor ELSE p.anchor
  IN  Ranged(p, from, new.at, new.mode)

KeyArrow(key, shift) ==
  /\ ~pick.editor
  /\ LET new == Arrow(pick, key)
         moved == IF shift THEN Extended(pick, new) ELSE Cleared(pick)
     IN  /\ pick' = [moved EXCEPT !.mode = new.mode, !.cursor = new.at]
         /\ past' = [past EXCEPT !.headings = @ \/ {pick.mode, new.mode} # {"output"}]
  /\ UNCHANGED press

\* Enter opens the editor at the cursor.  A cell that has the focus, the one that
\* was pressed last, takes Enter and Space for a click first.
KeyEnter ==
  \/ ~pick.editor /\ Picks([pick EXCEPT !.editor = TRUE])
  \/ /\ press.at # None
     /\ \/ Picks(Clicked(pick, press.at[1], FALSE))
        \/ Picks([Clicked(pick, press.at[1], FALSE) EXCEPT !.editor = TRUE])

\* Tab in the open editor goes one column on.
KeyTab ==
  /\ pick.editor /\ pick.cursor[2] < Width
  /\ Picks([pick EXCEPT !.cursor[2] = @ + 1])

------------------------------------------------------------------------------
(* What the user begins, and what follows from it.                          *)

PickUser ==
  \/ \E spot \in Spots(pick) : PointerDown(spot) \/ OpenMenu(spot)
  \/ ChooseInMenu \/ ToolbarTransform \/ ClearSelection
  \/ ToggleView3D
  \/ \E cell \in CellsOf(pick) : SelectOnSurface(cell)
  \/ Escape \/ KeySelectAll \/ KeyEnter \/ KeyTab
  \/ \E key \in {"up", "down", "left", "right"}, shift \in BOOLEAN : KeyArrow(key, shift)

PickMoves ==
  \/ PointerMove \/ LongPress \/ PointerCancel
  \/ \E spot \in Spots(pick) : PointerUp(spot)
  \/ \E shift \in BOOLEAN : Click(shift)
  \/ CloseMenu \/ ChooseOp \/ CloseSheet \/ ApplyInSheet \/ CloseEditor

------------------------------------------------------------------------------
(* Properties.                                                              *)

GridTypeOK ==
  /\ grid \in [GridCells -> Int]
  /\ axes \in [input0 : [1..Width -> Int], input1 : [1..Height -> Int]]
  /\ did.on \in Rectangles

AllValues(f) == {f[x] : x \in DOMAIN f}

Within(new, old) ==
  Max(AllValues(new)) <= Max(AllValues(old)) /\ Min(AllValues(new)) >= Min(AllValues(old))

\* Smoothing, filling, mirroring and copying bring no value into the table that
\* lies outside the values it had: a fuel table never gets richer or leaner than
\* its cells by being smoothed at an edge.  (The Gaussian of the output does, see
\* the README; that of an axis does not.)
StaysInRange ==
  LET mild == {"smooth", "fill", "mirrorH", "mirrorV", "copyRow"}
  IN  IF did.kind = "output" THEN did.op \in mild => Within(grid, was)
      ELSE did.op \in mild \cup {"gaussianSmooth"} => Within(axes[did.kind], wasAxes[did.kind])

\* Mirroring and filling agree with the table they started from: a mirror undoes
\* itself, a fill keeps the corners of the selection, and a row that is normalised
\* spans 0..100.
UndoesItself ==
  LET b == did.on
      corners == {b.top, b.bottom} \X {b.left, b.right}
  IN  did.kind = "output" =>
        /\ did.op \in {"mirrorH", "mirrorV"} => Apply(did.op, grid, b) = was
        /\ did.op = "fill" => \A cell \in corners : grid[cell] = was[cell]
        /\ did.op = "rowNormalize" =>
             \A r \in b.top..b.bottom :
               LET row(g) == {At(g, r, c) : c \in b.left..b.right}
               IN  row(grid) = {5000} \/ (Min(row(grid)) = 0 /\ Max(row(grid)) = 10000)

TransformsSound == StaysInRange /\ UndoesItself

\* The shapes of the variables of the gestures.
PickTypeOK ==
  /\ pick.cursor \in Nat \X Nat
  /\ pick.anchor = None \/ pick.anchor \in Nat \X Nat
  /\ {pick.kind, pick.mode} \subseteq {"output", "input0", "input1"}
  /\ press.timer => press.down
  /\ press.down \/ press.click => press.at # None

\* Whatever taps, long presses, drags, menus and keys made it, a selection lies
\* in the table and starts at the anchor that shift extends it from, its kind is
\* an axis the table has, and the cursor, which the editor writes to, is on a
\* cell or heading.  (An arrow key on the headings, or to or from them, breaks it
\* in a table that is not square, see the README.)
SelectionInTable ==
  ~past.headings =>
    /\ pick.cursor \in CellsOf(pick)
    /\ pick.anchor # None => pick.anchor \in CellsOf(pick)
    /\ pick.sel # None =>
         pick.sel[1] = pick.anchor /\ pick.sel[2] \in CellsOf(pick)
    /\ pick.flat => "input1" \notin {pick.kind, pick.mode}

\* The click that ends a gesture never takes back what the gesture did: a long
\* press, or a second tap, leaves its selection, and the editor closed.
GestureKept == ~past.undone

GesturesSound == SelectionInTable /\ GestureKept
================================================================================
