------------------------------- MODULE SetupPages ------------------------------
(***************************************************************************)
(* The pages before the dashboard: the permission wizard                   *)
(* (pages/WelcomePage.svelte), the connection page                         *)
(* (pages/ConnectionPage.svelte) and the calibration check                 *)
(* (pages/CalibrationPage.svelte).  Each keeps one variable; the native    *)
(* side is what the operating system granted, the calibration the host     *)
(* holds and the connection it remembers.  Calls of a page run one after   *)
(* the other, so an answer is that of the oldest call.                     *)
(***************************************************************************)
EXTENDS Integers, Sequences, FiniteSets, SequencesExt

CONSTANTS Ports, NoPort,     \* serial ports; nothing selected
          MaxSetupCalls      \* bound: calls under way, timers pending

VARIABLES wizard, granted, linker, remembered, calib, hostCalibration

setupVars == <<wizard, granted, linker, remembered, calib, hostCalibration>>

wizardVars == <<wizard, granted>>
linkerVars == <<linker, remembered>>
calibVars == <<calib, hostCalibration>>

Permissions == <<"location", "storage">>      \* the steps; the third is "done"
Granted == {"location", "storage"}

SetupInit ==
  /\ wizard = [phase |-> "off", step |-> 0, status |-> {}, asking |-> FALSE, settings |-> FALSE, advances |-> 0, call |-> "none"]
  /\ granted \in SUBSET Granted
  /\ linker = [shown |-> FALSE, state |-> "Disconnected", connecting |-> FALSE, type |-> "tcp", port |-> NoPort,
               ports |-> {}, calls |-> <<>>]
  /\ remembered \in [type : {"tcp", "serial", "none"}, port : Ports \cup {NoPort}]
  /\ remembered.type # "serial" => remembered.port = NoPort
  /\ remembered.type = "serial" => remembered.port # NoPort
  /\ calib = [phase |-> "off", gone |-> FALSE, ecu |-> FALSE, saved |-> FALSE, call |-> "none", timers |-> 0]
  /\ hostCalibration \in {"none", "same", "other"}

------------------------------------------------------------------------------
(* The wizard.                                                              *)

OnStep(k) == wizard.phase = "shown" /\ wizard.step = k

\* goToStep.
GoTo(w, k) == [w EXCEPT !.step = k, !.asking = FALSE, !.settings = FALSE]

OpenWizard ==
  /\ wizard.phase = "off"
  /\ wizard' = [wizard EXCEPT !.phase = "checking", !.step = 0, !.status = {}, !.asking = FALSE,
                             !.settings = FALSE, !.advances = 0, !.call = "status"]
  /\ UNCHANGED granted

\* onMount: the first permission that is missing.
WizardMounts ==
  /\ wizard.call = "status"
  /\ wizard' = LET w == [wizard EXCEPT !.phase = "shown", !.call = "none",
                                     !.status = IF granted = Granted THEN Granted
                                                ELSE IF "location" \in granted THEN {"location"} ELSE {}]
               IN  GoTo(w, IF granted = Granted THEN 2 ELSE IF "location" \in granted THEN 1 ELSE 0)
  /\ UNCHANGED granted

\* A button that asks; it is off while a question is open, not while the page
\* waits before it moves on.
AskPermission(k, call) ==
  /\ OnStep(k) /\ ~wizard.asking /\ wizard.call = "none"
  /\ wizard' = [wizard EXCEPT !.asking = TRUE, !.call = call]
  /\ UNCHANGED granted

PressGrant ==
  \/ AskPermission(0, "location")
  \/ ~wizard.settings /\ AskPermission(1, "storage")
  \/ wizard.settings /\ AskPermission(1, "check")

\* A mutation: a permission granted in the settings is noted, the page stays.
GrantedNoAdvance(k) == [wizard EXCEPT !.asking = FALSE, !.call = "none", !.status = @ \cup {Permissions[k]}]

\* The permission is there: after a moment the page moves on.
GrantedHere(k) ==
  [wizard EXCEPT !.asking = FALSE, !.call = "none", !.settings = FALSE,
                 !.status = @ \cup {Permissions[k]}, !.advances = @ + 1]

GrantAnswered ==
  /\ wizard.advances < MaxSetupCalls
  /\ \/ \E k \in 1..2 :
          /\ wizard.call = Permissions[k]
          /\ \/ granted' = granted \cup {Permissions[k]} /\ wizard' = GrantedHere(k)
             \/ /\ Permissions[k] \notin granted
                /\ wizard' = [wizard EXCEPT !.asking = FALSE, !.call = "none"]
                /\ UNCHANGED granted
     \/ /\ wizard.call = "storage" /\ "storage" \notin granted
        /\ wizard' = [wizard EXCEPT !.asking = FALSE, !.call = "none", !.settings = TRUE]
        /\ UNCHANGED granted
     \/ /\ wizard.call = "check"
        /\ wizard' = IF "storage" \in granted THEN GrantedHere(2)
                     ELSE [wizard EXCEPT !.asking = FALSE, !.call = "none"]
        /\ UNCHANGED granted

\* The user turns the permission on in the settings of the device.
GrantInSettings ==
  /\ wizard.settings
  /\ granted' = granted \cup {"storage"}
  /\ UNCHANGED wizard

\* advance(), once per granted answer, from wherever the wizard is by then.
Advance ==
  /\ wizard.advances > 0
  /\ wizard' = LET w == [wizard EXCEPT !.advances = @ - 1]
               IN  IF w.step < 2 THEN GoTo(w, w.step + 1) ELSE w
  /\ UNCHANGED granted

WizardContinues ==
  /\ OnStep(2)
  /\ wizard' = [wizard EXCEPT !.phase = "off", !.step = 0, !.status = {}, !.advances = 0, !.asking = FALSE, !.call = "none"]
  /\ UNCHANGED granted

------------------------------------------------------------------------------
(* The connection page.                                                     *)

Locked == linker.state = "Connected" \/ linker.connecting
LinkRoom == Len(linker.calls) < MaxSetupCalls

\* onMount: the ports, then the connection of last time.
OpenLinker ==
  /\ ~linker.shown /\ linker.calls = <<>>
  /\ linker' = [linker EXCEPT !.shown = TRUE, !.connecting = FALSE, !.type = "tcp", !.port = NoPort, !.ports = {},
                              !.calls = <<[op |-> "ports", port |-> NoPort], [op |-> "last", port |-> NoPort]>>]
  /\ UNCHANGED remembered

EditLinker ==
  /\ linker.shown /\ ~Locked
  /\ \/ \E t \in {"tcp", "serial"} : t # linker.type /\ linker' = [linker EXCEPT !.type = t]
     \/ linker.type = "serial" /\ \E p \in linker.ports : linker' = [linker EXCEPT !.port = p]
     \/ /\ linker.type = "serial" /\ LinkRoom
        /\ linker' = [linker EXCEPT !.calls = Append(@, [op |-> "ports", port |-> NoPort])]
  /\ UNCHANGED remembered

\* A mutation: the button works while a connection is made.
PressLinkAlways ==
  /\ linker.shown /\ linker.state # "Connected" /\ LinkRoom
  /\ linker' = [linker EXCEPT !.connecting = TRUE, !.calls = Append(@, [op |-> linker.type, port |-> linker.port])]
  /\ UNCHANGED remembered

\* connect: what is asked for is what is selected now.
PressLink ==
  /\ linker.shown /\ linker.state # "Connected" /\ ~linker.connecting /\ LinkRoom
  /\ linker' = [linker EXCEPT !.connecting = TRUE, !.calls = Append(@, [op |-> linker.type, port |-> linker.port])]
  /\ UNCHANGED remembered

PressUnlink ==
  /\ linker.shown /\ LinkRoom
  /\ \/ /\ linker.state = "Connected"
        /\ linker' = [linker EXCEPT !.calls = Append(@, [op |-> "disconnect", port |-> NoPort])]
     \/ linker.state = "Error" /\ linker' = [linker EXCEPT !.state = "Disconnected"]
  /\ UNCHANGED remembered

\* The answer to the oldest call.
LinkAnswered ==
  /\ linker.calls # <<>>
  /\ LET c == Head(linker.calls)
         after == [linker EXCEPT !.calls = Tail(@)]
     IN CASE c.op = "ports" ->
             /\ \E ports \in SUBSET Ports :
                  linker' = [after EXCEPT !.ports = ports,
                               !.port = IF ports # {} /\ @ = NoPort THEN CHOOSE p \in ports : TRUE ELSE @]
             /\ UNCHANGED remembered
          [] c.op = "last" ->
             /\ linker' = IF remembered.type = "none" THEN after
                          ELSE [after EXCEPT !.type = remembered.type,
                                  !.port = IF remembered.port = NoPort THEN @ ELSE remembered.port]
             /\ UNCHANGED remembered
          [] c.op \in {"tcp", "serial"} ->
             \/ /\ linker' = [after EXCEPT !.connecting = FALSE, !.state = "Connected"]
                /\ remembered' = [type |-> linker.type, port |-> IF linker.type = "serial" THEN linker.port ELSE NoPort]
             \/ /\ linker' = [after EXCEPT !.connecting = FALSE, !.state = "Error"]
                /\ UNCHANGED remembered
          [] c.op = "disconnect" ->
             /\ linker' = [after EXCEPT !.state = "Disconnected"]
             /\ UNCHANGED remembered

------------------------------------------------------------------------------
(* The calibration page.  The application can take it away in any phase; the *)
(* call it made is answered nevertheless, and its timer runs on.  Bound: it is *)
(* opened again once they are over.                                            *)

Busy == {"loading", "parsing", "force_loading"}

\* The page is in phase p and waits for the answer to op; nothing is left of one
\* that is gone and waits for nothing.
Calls1(op, p) ==
  [calib EXCEPT !.call = op, !.phase = IF calib.gone /\ op = "none" THEN "off" ELSE p,
                !.gone = @ /\ op # "none"]

OpenCalibration ==
  /\ calib.phase = "off"
  /\ calib' = [calib EXCEPT !.phase = "loading", !.ecu = FALSE, !.saved = FALSE, !.call = "info"]
  /\ UNCHANGED hostCalibration

\* loadCalibrationPage.
InfoAnswered ==
  /\ calib.call = "info"
  /\ \/ calib' = [Calls1("none", "error") EXCEPT !.ecu = FALSE]
     \/ calib' = [Calls1("match", "loading") EXCEPT !.ecu = TRUE]
  /\ UNCHANGED hostCalibration

Verified == [calib EXCEPT !.phase = "matched", !.call = "none", !.timers = @ + 1, !.saved = TRUE]

MatchAnswered ==
  /\ calib.call = "match"
  /\ \/ calib' = Calls1("none", "error")
     \/ hostCalibration = "none" /\ calib' = Calls1("none", "no_calibration")
     \/ hostCalibration = "same" /\ calib' = Verified
     \/ hostCalibration = "other" /\ calib' = [Calls1("none", "mismatch") EXCEPT !.saved = TRUE]
  /\ UNCHANGED hostCalibration

\* handleBrowse.
Browse ==
  /\ calib.phase \in {"error", "no_calibration", "mismatch"} /\ ~calib.gone
  /\ calib' = Calls1("pick", "parsing")
  /\ UNCHANGED hostCalibration

\* The picker returns; with a file the host holds a new calibration, and it is
\* checked against an ECU the page may not know: that throws, and nothing is asked.
PickAnswered ==
  /\ calib.call = "pick"
  /\ \/ /\ calib' = Calls1("none", IF calib.saved THEN "mismatch" ELSE "no_calibration")
        /\ UNCHANGED hostCalibration
     \/ calib' = Calls1("none", "error") /\ UNCHANGED hostCalibration
     \/ /\ hostCalibration' \in {"same", "other"}
        /\ calib' = IF calib.ecu THEN Calls1("recheck", "parsing") ELSE Calls1("none", "parsing")

\* A mutation: a picked file is taken for the calibration of the ECU.
RecheckTrusted ==
  /\ calib.call = "recheck"
  /\ calib' = Verified
  /\ UNCHANGED hostCalibration

RecheckAnswered ==
  /\ calib.call = "recheck"
  /\ \/ hostCalibration = "same" /\ calib' = Verified
     \/ calib' = [Calls1("none", "mismatch") EXCEPT !.saved = TRUE]
  /\ UNCHANGED hostCalibration

ForceUse ==
  /\ calib.phase = "mismatch" /\ ~calib.gone
  /\ calib' = Calls1("force", "force_loading")
  /\ UNCHANGED hostCalibration

ForceAnswered ==
  /\ calib.call = "force"
  /\ \/ calib' = [calib EXCEPT !.phase = "off", !.gone = FALSE, !.call = "none"]
     \/ calib' = Calls1("none", "mismatch")
  /\ UNCHANGED hostCalibration

\* The moment after a match is over: the dashboard, wherever the user is by now.
MatchTimer ==
  /\ calib.timers > 0
  /\ calib' = [calib EXCEPT !.timers = @ - 1, !.phase = "off", !.gone = FALSE]
  /\ UNCHANGED hostCalibration

\* handleBack, and the loss of the connection (App.svelte handleConnectionChange):
\* the connection page takes the place of this one.
LeaveCalibration ==
  /\ calib.phase # "off" /\ ~calib.gone
  /\ calib' = IF calib.call = "none" /\ calib.timers = 0 THEN [calib EXCEPT !.phase = "off"]
              ELSE [calib EXCEPT !.gone = TRUE]
  /\ UNCHANGED hostCalibration

------------------------------------------------------------------------------

SetupUser ==
  \/ (OpenWizard \/ PressGrant \/ GrantInSettings \/ WizardContinues) /\ UNCHANGED <<linkerVars, calibVars>>
  \/ (OpenLinker \/ EditLinker \/ PressLink \/ PressUnlink) /\ UNCHANGED <<wizardVars, calibVars>>
  \/ (OpenCalibration \/ Browse \/ ForceUse \/ LeaveCalibration) /\ UNCHANGED <<wizardVars, linkerVars>>

SetupMoves ==
  \/ (WizardMounts \/ GrantAnswered \/ Advance) /\ UNCHANGED <<linkerVars, calibVars>>
  \/ LinkAnswered /\ UNCHANGED <<wizardVars, calibVars>>
  \/ (InfoAnswered \/ MatchAnswered \/ PickAnswered \/ RecheckAnswered \/ ForceAnswered \/ MatchTimer)
       /\ UNCHANGED <<wizardVars, linkerVars>>

------------------------------------------------------------------------------
(* Properties.                                                              *)

SetupTypeOK ==
  /\ wizard.step \in 0..2 /\ wizard.advances \in 0..MaxSetupCalls /\ wizard.status \subseteq Granted
  /\ linker.port \in Ports \cup {NoPort} /\ Len(linker.calls) <= MaxSetupCalls
  /\ calib.phase \in Busy \cup {"off", "no_calibration", "mismatch", "matched", "error"}
  /\ calib.timers \in 0..1

\* The wizard notes a permission only when the device has it, and never waits on
\* the step of a permission that is granted: a move is pending.
GrantMovesOn ==
  /\ wizard.status \subseteq granted
  /\ \A k \in 1..2 : OnStep(k - 1) /\ Permissions[k] \in wizard.status => wizard.advances > 0

\* The page makes one connection at a time.
OneLink == Cardinality({k \in DOMAIN linker.calls : linker.calls[k].op \in {"tcp", "serial"}}) <= 1

\* The dashboard opens by itself only for a calibration that is that of the ECU,
\* whichever file was picked since the page opened.
MatchedHolds == calib.timers > 0 => calib.phase = "matched" /\ hostCalibration = "same"

\* A calibration page that was taken away opens no dashboard over the connection
\* page: "already on a non-dashboard page, go to connection page" (App.svelte:544).
GoneOpensNothing == calib.gone => calib.timers = 0

\* The setup pages as a whole.
SetupSound == GrantMovesOn /\ OneLink /\ MatchedHolds

\* "All required permissions have been granted" (WelcomePage.svelte:344).
DoneMeansGranted == OnStep(2) => granted = Granted

==============================================================================
