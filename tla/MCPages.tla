------------------------------- MODULE MCPages -------------------------------
(* The pages, stores and the bridge of the front end, each on its own: they   *)
(* share no state but the host's, of which every module has its part, so a    *)
(* behaviour has one of them move and leaves the others in an initial state.  *)
(* What a user does is counted, what answers and timers do is not.            *)
EXTENDS TableEditor, TableTransforms, SessionRecorder, SessionStore, ListPages, DriverEditor,
        Companion, ApprovalBanner, SetupPages, VehicleSettings, DashboardConfig,
        LogsPage, CalibrationImport, AppSettings, LevelEditor, BridgeQueue

VARIABLES turn,   \* the part that moves
          acts    \* what its user has done

MCVars == <<tableVars, gridVars, pickVars, recVars, storeVars, listVars, driverVars, companionVars,
            bannerVars, setupVars, vehicleVars, dashVars, logVars, importVars, settingsVars,
            levelVars, bridgeVars, turn, acts>>

\* The bound of each part: things its user does.
MaxActs == [table |-> 5, grid |-> 1, pick |-> 3, recorder |-> 5, store |-> 4, list |-> 4, driver |-> 5,
            companion |-> 4, banner |-> 0, setup |-> 3, vehicle |-> 5, dash |-> 4, logs |-> 2,
            import |-> 4, settings |-> 3, level |-> 3, bridge |-> 5]

\* Small data for the parts: a kernel of the smoothing, the category of an
\* item, the length of a session, what a host may list, older settings.
MCKernel == [d \in 0..1 |-> IF d = 0 THEN 3 ELSE 2]
MCCategory == [i \in Items |-> IF i = "i" THEN "c1" ELSE "c2"]
MCLength == [i \in SessionIds |-> IF i = "m" THEN 1 ELSE 2]
MCHostLists == {{"a"}, {"b"}}
MCLegacy == {[point |-> 0, floor |-> 0], [point |-> 40, floor |-> 1],
             [point |-> 20, floor |-> 40]}

\* The initial states: those of the part that moves, one of every other part.
MCInit ==
  /\ turn \in DOMAIN MaxActs /\ acts = 0
  /\ TableInit /\ (turn # "table" => ecuTable = [c \in TableCells |-> 0])
  /\ IF turn = "grid" THEN GridInit
     ELSE /\ grid = [c \in GridCells |-> 0]
          /\ axes = [input0 |-> [i \in 1..Width |-> 0], input1 |-> [i \in 1..Height |-> 0]]
          /\ was = grid /\ wasAxes = axes
          /\ did = [op |-> "none", on |-> [top |-> 1, bottom |-> 1, left |-> 1, right |-> 1],
                    kind |-> "output"]
  /\ PickInit /\ (turn # "pick" => ~pick.flat)
  /\ RecInit /\ CompanionInit /\ BannerInit /\ LogsInit
  /\ BridgeInit
  /\ IF turn = "store" THEN StoreInit ELSE StoreIsEmpty
  /\ ImportInit /\ (turn # "import" => enabled = {})
  /\ ListInit /\ (turn # "list" => \A k \in Kinds : files[k].favs = {})
  /\ DriverInit /\ (turn # "driver" => driverEcu = [c \in Cells |-> Low])
  /\ SetupInit /\ (turn # "setup" => granted = {} /\ remembered.type = "none"
                                       /\ hostCalibration = "none")
  /\ VehicleInit /\ (turn # "vehicle" => config = [vehicle |-> DefaultVehicle,
                                                   shifter |-> [point |-> 0, floor |-> 0]])
  /\ DashInit /\ (turn # "dash" => active = "a" /\ \A d \in Dashboards : dashHost[d].sensors = {})
  /\ SettingsInit /\ (turn # "settings" => deviceStore = [viewers |-> {}, name |-> "h"])
  /\ LevelInit /\ (turn # "level" => storedRow.levels = <<>>)

\* A part has its turn, or its variables stay.
Turn(part, user, others, vars) ==
  IF turn = part
    THEN \/ acts < MaxActs[part] /\ acts' = acts + 1 /\ user
         \/ acts' = acts /\ others
    ELSE UNCHANGED vars

RecMoves == AnimationTick \/ EcuGoes \/ EcuIsBack \/ SessionConnects \/ SessionEnds \/ FeedFrame

MCNext ==
  /\ UNCHANGED turn
  /\ Turn("table", TableUser, TableMoves, tableVars)
  /\ Turn("grid", GridNext, FALSE, gridVars)
  /\ Turn("pick", PickUser, PickMoves, pickVars)
  /\ Turn("recorder", RecUser, RecMoves, recVars)
  /\ Turn("store", StoreUser, StoreMoves, storeVars)
  /\ Turn("list", ListUser, ListMoves, listVars)
  /\ Turn("driver", DriverUser, DriverMoves, driverVars)
  /\ Turn("companion", CompanionUser, CompanionMoves, companionVars)
  /\ Turn("banner", FALSE, BannerMoves, bannerVars)
  /\ Turn("setup", SetupUser, SetupMoves, setupVars)
  /\ Turn("vehicle", VehicleUser, VehicleMoves, vehicleVars)
  /\ Turn("dash", DashUser, DashMoves, dashVars)
  /\ Turn("logs", LogUser, LogMoves, logVars)
  /\ Turn("import", ImportUser, ImportMoves, importVars)
  /\ Turn("settings", SettingsUser, SettingsMoves, settingsVars)
  /\ Turn("level", LevelUser, LevelMoves, levelVars)
  /\ Turn("bridge", BridgeUser, BridgeMoves, bridgeVars)

MCSpec == MCInit /\ [][MCNext]_MCVars

------------------------------------------------------------------------------
(* Properties, gathered by what the parts are about.                          *)

\* A part that does not move is in an initial state of its own.
InTurn(part, holds) == turn = part => holds

\* The shapes of the variables of all parts.
PagesTypeOK ==
  /\ InTurn("table", TableTypeOK) /\ InTurn("grid", GridTypeOK) /\ InTurn("pick", PickTypeOK)
  /\ InTurn("recorder", RecTypeOK) /\ InTurn("store", StoreTypeOK) /\ InTurn("list", ListTypeOK)
  /\ InTurn("driver", DriverTypeOK) /\ InTurn("companion", CompanionTypeOK) /\ InTurn("banner", BannerTypeOK)
  /\ InTurn("setup", SetupTypeOK) /\ InTurn("vehicle", VehicleTypeOK) /\ InTurn("dash", DashTypeOK)
  /\ InTurn("logs", LogTypeOK) /\ InTurn("import", ImportTypeOK) /\ InTurn("settings", SettingsTypeOK)
  /\ InTurn("level", LevelTypeOK) /\ InTurn("bridge", BridgeTypeOK)

\* The editors of tables and drivers: the base is what the ECU was last known to
\* hold, changed cells are those that differ from it, undo and redo restore what
\* was, a driver's entries are in step with what the ECU answered.
EditorsSound == InTurn("table", TableSound) /\ InTurn("driver", DriverSound)

\* The grid under the table editor: a transform keeps to its selection and its
\* range, what gestures and keys select lies in the table and is told.
GridSound == InTurn("grid", TransformsSound) /\ InTurn("pick", GesturesSound)

\* The lists a page keeps beside the host's: recent and favourite items, the
\* levels and points of a warning, the log, the viewers of the settings page.
ListsSound ==
  /\ InTurn("list", ListsAgree) /\ InTurn("level", RowSound)
  /\ InTurn("logs", LogsSound) /\ InTurn("settings", SettingsSound)
==============================================================================
