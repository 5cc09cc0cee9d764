---------------------------- MODULE DashboardConfig ----------------------------
(***************************************************************************)
(* What a dashboard shows: the selection of sensors and tables on the      *)
(* configuration page (pages/DashboardConfigPage.svelte), loaded by three  *)
(* calls of the bridge and saved by three more (Services/Bridge/           *)
(* DashboardBridgeMethods.cs).  The footer with the save button is not     *)
(* covered while the page loads or shows an error.                         *)
(*                                                                         *)
(* A sensor has a customisation or none; a table has the place it was      *)
(* moved to in the gauge builder, or a default.  A call fails in one of    *)
(* two ways: it is answered by an empty result, as the host does with its  *)
(* own exceptions, or it throws and the host has not executed it.          *)
(***************************************************************************)
EXTENDS Naturals, Sequences, FiniteSets

CONSTANTS Dashboards, Sensors, DashTables,
          Backdrops,      \* background images
          NoBackdrop,
          MaxDashCalls    \* bound: calls in the queue

VARIABLES dashHost,    \* what the host has for each dashboard
          dashCalls,   \* the calls of the page
          picker,      \* the state of the page
          active,      \* the active dashboard
          since        \* a history: what the page has read, and the user picked since

dashVars == <<dashHost, dashCalls, picker, active, since>>

\* The places of tables: where the gauge builder has put them, or a default.
Places == {"moved", "default"}

\* `listed' and `offered': there are sensors, or tables, to pick from.
Closed(visit) ==
  [on |-> FALSE, visit |-> visit, loading |-> FALSE, saving |-> FALSE, error |-> FALSE,
   picking |-> FALSE, sensors |-> {}, listed |-> FALSE, custom |-> {}, tables |-> {}, offered |-> FALSE,
   backdrop |-> NoBackdrop, expanded |-> {}, search |-> "none", timer |-> "none"]

NothingRead == [read |-> {}, sensors |-> {}, tables |-> {}, placed |-> <<>>]

Placements == UNION {[ts -> Places] : ts \in SUBSET DashTables}

DashContents ==
  [sensors : SUBSET Sensors, custom : SUBSET Sensors, placed : Placements,
   backdrop : Backdrops \cup {NoBackdrop}]

DashInit ==
  /\ dashHost \in [Dashboards -> {d \in DashContents : /\ d.custom = {}
                                                  /\ d.sensors \in {{}, Sensors}
                                                  /\ d.placed = [t \in DashTables |-> "moved"]
                                                  /\ d.backdrop = NoBackdrop}]
  /\ dashCalls = <<>>
  /\ picker = Closed(0)
  /\ active \in Dashboards
  /\ since = NothingRead

\* `from' is the dashboard a save began with; `tables' what a page that was left
\* with the call under way still has picked.
DashCall(op, arg) ==
  [op |-> op, visit |-> picker.visit, of |-> active, from |-> active, tables |-> {}, arg |-> arg]

DashRoom == Len(dashCalls) < MaxDashCalls

LeftBehind(calls) ==
  [i \in DOMAIN calls |-> IF calls[i].visit = picker.visit
                            THEN [calls[i] EXCEPT !.tables = picker.tables] ELSE calls[i]]

------------------------------------------------------------------------------
(* The page.                                                                *)

StartLoad(p) == [p EXCEPT !.loading = TRUE, !.error = FALSE]

\* The page is mounted for dashboard d.
Mounted(d) ==
  /\ picker' = [StartLoad(Closed(picker.visit + 1)) EXCEPT !.on = TRUE]
  /\ dashCalls' = Append(LeftBehind(dashCalls),
                         [DashCall("sensors", {}) EXCEPT !.visit = @ + 1, !.of = d])
  /\ since' = NothingRead

OpenConfig ==
  /\ ~picker.on /\ DashRoom
  /\ Mounted(active)
  /\ UNCHANGED <<dashHost, active>>

LeaveConfig ==
  /\ picker.on
  /\ picker' = Closed(picker.visit)
  /\ dashCalls' = LeftBehind(dashCalls)
  /\ UNCHANGED <<dashHost, active, since>>

RetryLoad ==
  /\ picker.on /\ picker.error /\ ~picker.loading /\ DashRoom
  /\ picker' = StartLoad(picker)
  /\ dashCalls' = Append(dashCalls, DashCall("sensors", {}))
  /\ since' = NothingRead
  /\ UNCHANGED <<dashHost, active>>

\* A mutation: the page stays as it is when its dashboard is another.
SwitchUnderPage(d) ==
  /\ d # active /\ DashRoom
  /\ active' = d
  /\ UNCHANGED <<dashHost, picker, dashCalls, since>>

\* The shell switches the dashboard: the page is mounted anew for it.
SwitchActive(d) ==
  /\ d # active /\ DashRoom
  /\ active' = d
  /\ IF picker.on THEN Mounted(d) ELSE UNCHANGED <<picker, dashCalls, since>>
  /\ UNCHANGED dashHost

\* The lists are under the overlay while the page loads or shows an error.
ListedSensors == picker.on /\ ~picker.loading /\ ~picker.error

PickerBecomes(p) ==
  /\ picker' = p
  /\ UNCHANGED <<dashHost, dashCalls, active>>

Flip(set, x) == IF x \in set THEN set \ {x} ELSE set \cup {x}

ToggleSensor(s) ==
  /\ ListedSensors /\ picker.listed
  /\ PickerBecomes([picker EXCEPT !.sensors = Flip(@, s)])
  /\ since' = [since EXCEPT !.sensors = @ \cup {s}]

ToggleTable(t) ==
  /\ ListedSensors /\ picker.offered
  /\ PickerBecomes([picker EXCEPT !.tables = Flip(@, t)])
  /\ since' = [since EXCEPT !.tables = @ \cup {t}]

\* One sensor's panel is open at a time.
ToggleCustomization(s) ==
  /\ ListedSensors /\ picker.listed
  /\ PickerBecomes([picker EXCEPT !.expanded = IF @ = {s} THEN {} ELSE {s}])
  /\ UNCHANGED since

\* saveCustomization, and clearCustomization.
SaveCustomization(s, given) ==
  /\ ListedSensors /\ picker.expanded = {s}
  /\ PickerBecomes([picker EXCEPT !.expanded = {},
                                  !.custom = IF given THEN @ \cup {s} ELSE @ \ {s}])
  /\ UNCHANGED since

\* Both searches wait on the same timer: typing in one drops what was typed in
\* the other.
TypeSearch(which) ==
  /\ ListedSensors
  /\ picker.search # which
  /\ PickerBecomes([picker EXCEPT !.timer = which])
  /\ UNCHANGED since

SearchTimer ==
  /\ picker.on /\ picker.timer # "none"
  /\ PickerBecomes([picker EXCEPT !.timer = "none", !.search = picker.timer])
  /\ UNCHANGED since

PickBackground ==
  /\ picker.on /\ ~picker.picking /\ DashRoom
  /\ picker' = [picker EXCEPT !.picking = TRUE]
  /\ dashCalls' = Append(dashCalls, DashCall("pick", {}))
  /\ UNCHANGED <<dashHost, active, since>>

RemoveBackground ==
  /\ picker.on /\ picker.backdrop # NoBackdrop
  /\ PickerBecomes([picker EXCEPT !.backdrop = NoBackdrop])
  /\ UNCHANGED since

\* The first call of handleSave: what the page has, loaded or not.
PressSave ==
  /\ picker.on /\ ~picker.saving /\ DashRoom
  /\ picker' = [picker EXCEPT !.saving = TRUE]
  /\ dashCalls' = Append(dashCalls, DashCall("save", [sensors |-> picker.sensors, custom |-> picker.custom,
                                                      backdrop |-> picker.backdrop]))
  /\ UNCHANGED <<dashHost, active, since>>

------------------------------------------------------------------------------
(* The answers of the host.                                                 *)

DashFirst == Head(dashCalls)
Rest == Tail(dashCalls)
Asked(op) == dashCalls # <<>> /\ DashFirst.op = op
Here == picker.on /\ picker.visit = DashFirst.visit

\* loadSensors goes on while its page is mounted.
LoadGoesOn(op) == dashCalls' = IF Here THEN Append(Rest, DashCall(op, {})) ELSE Rest

\* A host that fails has no sensors to list, and says nothing else of it.
SensorsAnswered ==
  /\ Asked("sensors")
  /\ LoadGoesOn("definitions")
  /\ \/ Here
        /\ picker' = [picker EXCEPT !.sensors = dashHost[DashFirst.of].sensors, !.listed = TRUE,
                                    !.custom = dashHost[DashFirst.of].custom,
                                    !.backdrop = dashHost[DashFirst.of].backdrop]
        /\ since' = [since EXCEPT !.read = @ \cup {"sensors"}]
     \/ Here
        /\ picker' = [picker EXCEPT !.sensors = {}, !.listed = FALSE, !.custom = {},
                                    !.backdrop = NoBackdrop]
        /\ UNCHANGED since
     \/ ~Here /\ UNCHANGED <<picker, since>>
  /\ UNCHANGED <<dashHost, active>>

DefinitionsAnswered ==
  /\ Asked("definitions")
  /\ LoadGoesOn("tables")
  /\ \E some \in BOOLEAN : picker' = IF Here THEN [picker EXCEPT !.offered = some] ELSE picker
  /\ UNCHANGED <<dashHost, active, since>>

\* GetDashboardConfig: a dashboard without gauges is not found, tables or not; a
\* host that fails finds none.
Found(d) == {FALSE} \cup {dashHost[d].sensors # {}}

\* Without an answer the page keeps the tables it had.
TablesAnswered ==
  /\ Asked("tables")
  /\ dashCalls' = Rest
  /\ \E found \in Found(DashFirst.of) :
       /\ picker' = IF ~Here THEN picker
                    ELSE [picker EXCEPT !.tables = IF found THEN DOMAIN dashHost[DashFirst.of].placed ELSE @,
                                        !.loading = FALSE]
       /\ since' = IF Here /\ found
                     THEN [since EXCEPT !.read = @ \cup {"tables"}, !.placed = dashHost[DashFirst.of].placed]
                     ELSE since
  /\ UNCHANGED <<dashHost, active>>

\* A call of the load throws.
LoadFails ==
  /\ dashCalls # <<>> /\ DashFirst.op \in {"sensors", "definitions", "tables"}
  /\ picker' = IF Here THEN [picker EXCEPT !.error = TRUE, !.loading = FALSE] ELSE picker
  /\ dashCalls' = Rest
  /\ UNCHANGED <<dashHost, active, since>>

Picked ==
  /\ Asked("pick")
  /\ \E b \in Backdrops \cup {NoBackdrop} :
       picker' = IF ~Here THEN picker
                 ELSE [picker EXCEPT !.picking = FALSE, !.backdrop = IF b = NoBackdrop THEN @ ELSE b]
  /\ dashCalls' = Rest
  /\ UNCHANGED <<dashHost, active, since>>

\* The second part of a save asks for the dashboard that is active by then; so
\* does the third.
SaveGoesOn(op, tables, arg) ==
  dashCalls' = Append(Rest, [op |-> op, visit |-> DashFirst.visit, of |-> active,
                             from |-> DashFirst.from, tables |-> tables, arg |-> arg])

\* SaveSensorSelection: the definition is built anew, without the tables.
SelectionSaved ==
  /\ Asked("save")
  /\ dashHost' = [dashHost EXCEPT ![DashFirst.of] =
                    [sensors |-> DashFirst.arg.sensors, custom |-> DashFirst.arg.custom,
                     backdrop |-> DashFirst.arg.backdrop, placed |-> <<>>]]
  /\ SaveGoesOn("positions", DashFirst.tables, {})
  /\ UNCHANGED <<picker, active, since>>

\* Tables that are found on the dashboard keep their place.
PlacedAs(wanted, placed) == [t \in wanted |-> IF t \in DOMAIN placed THEN placed[t] ELSE "default"]

PositionsAnswered ==
  /\ Asked("positions")
  /\ LET wanted == IF Here THEN picker.tables ELSE DashFirst.tables
     IN  \E found \in Found(DashFirst.of) :
           SaveGoesOn("place", wanted,
                      PlacedAs(wanted, IF found THEN dashHost[DashFirst.of].placed ELSE <<>>))
  /\ UNCHANGED <<dashHost, picker, active, since>>

\* On to the gauge builder, whatever page is open by now and whether the host took
\* the tables or refused them.
TablesPlaced ==
  /\ Asked("place")
  /\ \/ dashHost' = [dashHost EXCEPT ![DashFirst.of].placed = DashFirst.arg]
     \/ UNCHANGED dashHost
  /\ dashCalls' = LeftBehind(Rest)
  /\ picker' = Closed(picker.visit)
  /\ UNCHANGED <<active, since>>

\* The selection is refused, or one of the three calls throws: what was written
\* before it stays written.
SaveFails ==
  /\ dashCalls # <<>> /\ DashFirst.op \in {"save", "positions", "place"}
  /\ picker' = IF Here THEN [picker EXCEPT !.saving = FALSE, !.error = TRUE] ELSE picker
  /\ dashCalls' = Rest
  /\ UNCHANGED <<dashHost, active, since>>

DashUser ==
  \/ OpenConfig \/ LeaveConfig \/ RetryLoad \/ PressSave \/ PickBackground \/ RemoveBackground
  \/ \E d \in Dashboards : SwitchActive(d)
  \/ \E s \in Sensors : \/ ToggleSensor(s) \/ ToggleCustomization(s)
                        \/ \E given \in BOOLEAN : SaveCustomization(s, given)
  \/ \E t \in DashTables : ToggleTable(t)
  \/ \E which \in {"sensors", "tables"} : TypeSearch(which)

DashMoves ==
  \/ SensorsAnswered \/ DefinitionsAnswered \/ TablesAnswered \/ LoadFails \/ Picked \/ SearchTimer
  \/ SelectionSaved \/ PositionsAnswered \/ TablesPlaced \/ SaveFails

DashSpec == DashInit /\ [][DashUser \/ DashMoves]_dashVars

------------------------------------------------------------------------------
(* Properties.                                                              *)

DashTypeOK ==
  /\ dashHost \in [Dashboards -> DashContents]
  /\ picker.sensors \subseteq Sensors /\ picker.custom \subseteq Sensors
  /\ picker.tables \subseteq DashTables
  /\ since.read \subseteq {"sensors", "tables"} /\ since.placed \in Placements
  /\ Cardinality(picker.expanded) <= 1

SaveUnderWay == \E i \in DOMAIN dashCalls : dashCalls[i].op \in {"save", "positions", "place"}

\* What a page without an error has read and nobody has picked otherwise since is
\* the selection of the dashboard that is active: whatever was switched, left,
\* retried or saved, here or on an earlier visit, and whatever call of it failed.
\* Only while a save is under way the two may differ.  A part the host answered
\* nothing for is not read.
DashConfigSound ==
  (picker.on /\ ~picker.error /\ ~SaveUnderWay) =>
    /\ "sensors" \in since.read =>
         \A s \in Sensors \ since.sensors : s \in picker.sensors <=> s \in dashHost[active].sensors
    /\ "tables" \in since.read =>
         \A t \in DashTables \ since.tables :
           t \in picker.tables <=> t \in DOMAIN dashHost[active].placed

\* "preserve existing positions, only default new ones" (handleSave): a table the
\* page has read and nobody touched is placed where it was.
PlacesKept ==
  \A i \in DOMAIN dashCalls :
    (picker.on /\ dashCalls[i].op = "place" /\ dashCalls[i].visit = picker.visit) =>
      \A t \in DOMAIN dashCalls[i].arg \ since.tables :
        t \in DOMAIN since.placed => dashCalls[i].arg[t] = since.placed[t]

\* What the overlay over the lists suggests: a page is saved only when it has read
\* what it saves over.
UnloadedSavesNothing == [][(picker'.saving /\ ~picker.saving) => "sensors" \in since.read]_dashVars

\* A save writes the dashboard it was begun for.
OthersUntouched == \A i \in DOMAIN dashCalls : dashCalls[i].of = dashCalls[i].from
================================================================================
