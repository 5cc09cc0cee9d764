------------------------------ MODULE MCDashboard ------------------------------
(* The shell and the parts of the live dashboard, each on its own as in        *)
(* MCPages: the frames and who watches them, the values of the gauges, the     *)
(* trip, the shift light, the layout and the presets of the monitor.           *)
EXTENDS AppShell, DashboardLayout, FuelTrip, LiveData, ShiftLight, GaugeValues, MonitorPresets

CONSTANT MaxEdits \* bound: edits of the configuration page the shell guards

VARIABLES turn,   \* the part that moves
          edits,  \* the edits made
          acts    \* what its user has done

MCVars == <<shellVars, layoutVars, tripVars, liveVars, shiftVars, gaugeVars, presetVars, edits, turn, acts>>

\* The bound of each part: things its user does.
MaxActs == [shell |-> 2, layout |-> 4, trip |-> 3, live |-> 4, shift |-> 2, gauge |-> 1, preset |-> 7]

\* The initial states: those of the part that moves, one of every other part.
MCInit ==
  /\ turn \in DOMAIN MaxActs /\ acts = 0 /\ edits = 0
  /\ ShellInit /\ (turn # "shell" => ecu = "up")
  /\ LayoutInit /\ (turn # "layout" => DOMAIN layoutHost.items = {})
  /\ TripInit /\ (turn # "trip" => tripActive = "d" /\ \A d \in TripDashboards : tripDisk[d] = 0)
  /\ LiveInit
  /\ ShiftInit /\ (turn # "shift" => vehicle = CHOOSE v \in Marks : TRUE)
  /\ GaugesInit
  /\ gaugeSettings = [s \in GaugeSensors |-> CHOOSE g \in GaugeSetting : TRUE]
  /\ PresetsInit /\ (turn # "preset" => usedIds = {})

\* A part has its turn, or its variables stay.
Turn(part, user, others, vars) ==
  IF turn = part
    THEN \/ acts < MaxActs[part] /\ acts' = acts + 1 /\ user
         \/ acts' = acts /\ others
    ELSE UNCHANGED vars

\* The edits of the shell's user are counted on their own; what resolves the dialog
\* they lead to is not counted.
ShellMoves == HostLoses \/ ShellRuns \/ Stay \/ LeaveBySaveOrDiscard

ShellTurn ==
  \/ Turn("shell", ShellUser, ShellMoves, shellVars) /\ UNCHANGED edits
  \/ turn = "shell" /\ edits < MaxEdits /\ edits' = edits + 1 /\ Edit /\ UNCHANGED acts

\* The sensors are alike: it is enough that one of them is the first.
AlikeGauges == gaugeOrder'[1] = CHOOSE s \in GaugeSensors : TRUE

MCNext ==
  /\ UNCHANGED turn
  /\ ShellTurn
  /\ Turn("layout", LayoutUser, LayoutMoves, layoutVars)
  /\ Turn("trip", TripUser, TripMoves, tripVars)
  /\ Turn("live", LiveUser, LiveMoves, liveVars)
  /\ Turn("shift", ShiftUser, ShiftMoves, shiftVars)
  /\ Turn("gauge", GaugeUser /\ AlikeGauges, GaugeMoves, gaugeVars)
  /\ Turn("preset", PresetUser, PresetMoves, presetVars)

MCSpec == MCInit /\ [][MCNext]_MCVars /\ ShellFairness

------------------------------------------------------------------------------

\* A part that does not move is in an initial state of its own.
Of(part, holds) == turn = part => holds

\* The shapes of the variables of all parts.
DashboardTypeOK ==
  /\ Of("shell", ShellTypeOK) /\ Of("layout", LayoutTypeOK) /\ Of("trip", TripTypeOK)
  /\ Of("live", LiveTypeOK) /\ Of("shift", ShiftTypeOK) /\ Of("gauge", GaugesTypeOK)
  /\ Of("preset", PresetTypeOK)

\* The small parts of the dashboard: the watchdog of the frames asks once, the shift
\* light has its cause, a gauge stays in what its sensor read, and the presets are
\* those of the host.
DashboardSound ==
  /\ Of("live", LiveSound) /\ Of("shift", ShiftHasCause)
  /\ Of("gauge", NoOvershoot) /\ Of("preset", PresetsAgree)
================================================================================
