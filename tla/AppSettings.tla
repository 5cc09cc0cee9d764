------------------------------ MODULE AppSettings ------------------------------
(***************************************************************************)
(* The settings page (pages/AppSettingsPage.svelte): what it reads when it *)
(* is opened, the exports and imports of files, and the section of the     *)
(* companion viewers, where the device is renamed, and a viewer revoked or *)
(* all pairings reset by a second press within three seconds.  Both        *)
(* confirmations share one timer.  The bridge executes the calls one at a  *)
(* time, in order.  A file that was picked is taken over by the preview of *)
(* CalibrationImport, which covers the page.                               *)
(***************************************************************************)
EXTENDS Naturals, Sequences, FiniteSets, SequencesExt

CONSTANTS Viewers,          \* viewers that may be approved
          NoViewer,         \* none
          ListedDashes,     \* names dashboards may have
          NoListedDash,     \* none chosen
          DeviceNames,      \* names the device may have
          NoDeviceName,     \* a blank one
          MaxSettingsCalls  \* bound: calls in the queue

ASSUME SettingsConstants == 
  NoViewer \notin Viewers /\ NoListedDash \notin ListedDashes /\ NoDeviceName \notin DeviceNames

VARIABLES settingsPage,     \* the page
          confirming,       \* the armed confirmations and whose expiry the timer is
          viewerList,       \* the list of approved viewers, and whether it was read
          settingsCalls,    \* the queue of the bridge
          deviceStore,      \* the host's store: the viewers it approves of, and its name
          settingsGaps      \* what came between (a history variable)

settingsVars == <<settingsPage, confirming, viewerList, settingsCalls, deviceStore, settingsGaps>>

\* The operations a flag of the page stands for; their buttons wait for them.
Flagged == {"exportMecal", "importMecal", "exportDash", "importDash", "rename"}

ClosedSettings == [open |-> FALSE, connected |-> FALSE, names |-> {}, chosen |-> NoListedDash,
                   name |-> NoDeviceName, preview |-> FALSE, busy |-> {}]
Unarmed == [viewer |-> NoViewer, reset |-> FALSE, timer |-> "none"]
UnreadViewers == [viewers |-> {}, loaded |-> FALSE]

SettingsInit ==
  /\ settingsPage = ClosedSettings
  /\ confirming = Unarmed
  /\ viewerList = UnreadViewers
  /\ settingsCalls = <<>>
  /\ deviceStore \in [viewers : SUBSET Viewers, name : DeviceNames]
  /\ settingsGaps = {}

SettingsCall(op, arg, flag) == [op |-> op, arg |-> arg, flag |-> flag, gone |-> FALSE]
PlainCall(op) == SettingsCall(op, NoViewer, "none")

SendSettings(call) == Len(settingsCalls) < MaxSettingsCalls /\ settingsCalls' = Append(settingsCalls, call)

------------------------------------------------------------------------------
(* The user. *)

OpenSettings ==
  /\ ~settingsPage.open
  /\ settingsPage' = [ClosedSettings EXCEPT !.open = TRUE]
  /\ confirming' = Unarmed /\ viewerList' = UnreadViewers
  /\ SendSettings(PlainCall("connection"))
  /\ settingsGaps' = {}
  /\ UNCHANGED deviceStore

\* Leaving clears the timer; the calls go on.
LeaveSettings ==
  /\ settingsPage.open
  /\ settingsPage' = ClosedSettings
  /\ confirming' = Unarmed /\ viewerList' = UnreadViewers
  /\ settingsCalls' = [i \in 1..Len(settingsCalls) |-> [settingsCalls[i] EXCEPT !.gone = TRUE]]
  /\ UNCHANGED <<deviceStore, settingsGaps>>

\* The page's controls can be reached.
AtSettings == settingsPage.open /\ ~settingsPage.preview

\* Export, import and rename: a flag is raised until the call is done.
StartFlagged ==
  /\ AtSettings
  /\ \E op \in Flagged \ settingsPage.busy :
       /\ op \in {"exportMecal", "importMecal"} => settingsPage.connected
       /\ op = "exportDash" => settingsPage.chosen # NoListedDash
       /\ op = "rename" => settingsPage.name # NoDeviceName
       /\ settingsPage' = [settingsPage EXCEPT !.busy = @ \cup {op}]
       /\ SendSettings(SettingsCall(op, IF op = "rename" THEN settingsPage.name ELSE NoViewer, op))
  /\ UNCHANGED <<confirming, viewerList, deviceStore, settingsGaps>>

\* The list of dashboards is shown when there are several.
ChooseDash ==
  /\ AtSettings /\ Cardinality(settingsPage.names) > 1
  /\ \E n \in settingsPage.names \ {settingsPage.chosen} : settingsPage' = [settingsPage EXCEPT !.chosen = n]
  /\ UNCHANGED <<confirming, viewerList, settingsCalls, deviceStore, settingsGaps>>

TypeDeviceName ==
  /\ AtSettings
  /\ \E n \in (DeviceNames \cup {NoDeviceName}) \ {settingsPage.name} :
       settingsPage' = [settingsPage EXCEPT !.name = n]
  /\ settingsGaps' = settingsGaps \cup {"typed"}
  /\ UNCHANGED <<confirming, viewerList, settingsCalls, deviceStore>>

\* The preview of a calibration is applied or cancelled.
ClosePreview ==
  /\ settingsPage.preview
  /\ settingsPage' = [settingsPage EXCEPT !.preview = FALSE]
  /\ UNCHANGED <<confirming, viewerList, settingsCalls, deviceStore, settingsGaps>>

\* A confirmed command is sent with its confirmation and the timer cleared.
Execute(armed) == [armed EXCEPT !.timer = "none"]

\* Revoke: the first press arms, the second on the same viewer executes.
PressRevoke ==
  /\ AtSettings
  /\ \E v \in viewerList.viewers :
       IF confirming.viewer = v
       THEN /\ confirming' = Execute([confirming EXCEPT !.viewer = NoViewer])
            /\ SendSettings(SettingsCall("revoke", v, "none"))
            /\ UNCHANGED settingsGaps
       ELSE /\ confirming' = [confirming EXCEPT !.viewer = v, !.timer = "revoke"]
            /\ settingsGaps' = IF confirming.reset THEN settingsGaps \cup {"crossed"} ELSE settingsGaps
            /\ UNCHANGED settingsCalls
  /\ UNCHANGED <<settingsPage, viewerList, deviceStore>>

\* Reset all pairings, the same way.
PressReset ==
  /\ AtSettings
  /\ IF confirming.reset
     THEN /\ confirming' = Execute([confirming EXCEPT !.reset = FALSE])
          /\ SendSettings(PlainCall("reset"))
          /\ UNCHANGED settingsGaps
     ELSE /\ confirming' = [confirming EXCEPT !.reset = TRUE, !.timer = "reset"]
          /\ settingsGaps' = IF confirming.viewer # NoViewer THEN settingsGaps \cup {"crossed"} ELSE settingsGaps
          /\ UNCHANGED settingsCalls
  /\ UNCHANGED <<settingsPage, viewerList, deviceStore>>

\* Three seconds passed: the confirmation the timer was started for is withdrawn.
ConfirmExpires ==
  /\ confirming.timer # "none"
  /\ confirming' = [confirming EXCEPT !.timer = "none",
                                      !.viewer = IF confirming.timer = "revoke" THEN NoViewer ELSE @,
                                      !.reset = IF confirming.timer = "reset" THEN FALSE ELSE @]
  /\ UNCHANGED <<settingsPage, viewerList, settingsCalls, deviceStore, settingsGaps>>

------------------------------------------------------------------------------
(* The calls. *)

\* What may follow a call that answered or was thrown: opening reads on, the
\* information only of an ECU that is connected; a change of the viewers reads them
\* again, and that reads the state of the server.
Following(op, thrown) ==
  CASE op = "connection" -> IF thrown THEN {"devices"} ELSE {"info", "names"}
    [] op = "info" -> IF thrown THEN {"devices"} ELSE {"names"}
    [] op = "names" -> {"devices"}
    [] op \in {"revoke", "reset", "rename"} -> IF thrown THEN {"none"} ELSE {"devices"}
    [] op = "devices" -> IF thrown THEN {"none"} ELSE {"server"}
    [] OTHER -> {"none"}

\* The call is done and the next of its chain is sent; behind the last one the flag
\* the chain was started under is lowered.
Follow(call, next) ==
  settingsCalls' = IF next = "none" THEN Tail(settingsCalls)
                   ELSE Append(Tail(settingsCalls), [call EXCEPT !.op = next, !.arg = NoViewer])
Lowered(call, next) ==
  IF call.gone \/ next # "none" THEN settingsPage ELSE [settingsPage EXCEPT !.busy = @ \ {call.flag}]

\* What a call does at the host.
SettingsExecuted(call) ==
  CASE call.op = "revoke" -> [deviceStore EXCEPT !.viewers = @ \ {call.arg}]
    [] call.op = "reset" -> [deviceStore EXCEPT !.viewers = {}]
    [] call.op = "rename" -> [deviceStore EXCEPT !.name = call.arg]
    [] OTHER -> deviceStore

\* A host lists a dashboard at least, and the active one among them.
Listings == {l \in (SUBSET ListedDashes) \X ListedDashes : l[2] \in l[1]}

\* What the page may be at the answer; a name that is read replaces what was typed.
PageShows(call, next) ==
  LET page == Lowered(call, next)
  IN  CASE call.gone -> {page}
        [] call.op = "connection" -> {[page EXCEPT !.connected = (next = "info")]}
        [] call.op = "names" ->
             {[page EXCEPT !.names = listing[1], !.chosen = listing[2]] : listing \in Listings}
        [] call.op = "devices" -> {[page EXCEPT !.name = deviceStore.name]}
        [] call.op = "importMecal" -> {[page EXCEPT !.preview = TRUE]}
        [] OTHER -> {page}

\* A mutation: behind a revoke the list is not read again.
AnsweredUnread(call) ==
  \E next \in IF call.op = "revoke" THEN {"none"} ELSE Following(call.op, FALSE) :
    Follow(call, next) /\ settingsPage' \in PageShows(call, next)

\* The page at the answer.
SettingsAnswered(call) ==
  \E next \in Following(call.op, FALSE) : Follow(call, next) /\ settingsPage' \in PageShows(call, next)

\* The next call is executed at the host and answers.
SettingsAnswers ==
  /\ settingsCalls # <<>>
  /\ LET call == Head(settingsCalls)
     IN /\ SettingsAnswered(call)
        /\ deviceStore' = SettingsExecuted(call)
        /\ IF call.op = "devices" /\ ~call.gone
           THEN /\ viewerList' = [viewers |-> deviceStore.viewers, loaded |-> TRUE]
                /\ settingsGaps' = settingsGaps \ {"approved", "failed", "typed"}
           ELSE UNCHANGED viewerList /\ settingsGaps' = settingsGaps \cup (IF call.gone THEN {"zombie"} ELSE {})
  /\ UNCHANGED confirming

\* The host refuses, or no file was picked: the viewers are read again all the same,
\* a rename ends.
SettingsRefused ==
  /\ settingsCalls # <<>>
  /\ LET call == Head(settingsCalls)
     IN /\ call.op \in {"info", "revoke", "reset", "devices", "server"} \cup Flagged
        /\ \E next \in IF call.op = "rename" THEN {"none"} ELSE Following(call.op, FALSE) :
             Follow(call, next) /\ settingsPage' = Lowered(call, next)
        /\ IF call.op = "devices" /\ ~call.gone
           THEN viewerList' = [viewerList EXCEPT !.loaded = FALSE] /\ settingsGaps' = settingsGaps \cup {"failed"}
           ELSE UNCHANGED <<viewerList, settingsGaps>>
  /\ UNCHANGED <<confirming, deviceStore>>

\* A call is thrown; what it was to do may have been done.  The list stays, and
\* counts as not read where reading it was what failed.
SettingsThrown ==
  /\ settingsCalls # <<>>
  /\ LET call == Head(settingsCalls)
     IN /\ \E next \in Following(call.op, TRUE) : Follow(call, next) /\ settingsPage' = Lowered(call, next)
        /\ deviceStore' \in {deviceStore, SettingsExecuted(call)}
        /\ viewerList' = IF ~call.gone /\ call.op \in {"devices", "server"} THEN [viewerList EXCEPT !.loaded = FALSE]
                         ELSE viewerList
  /\ settingsGaps' = settingsGaps \cup {"failed"}
  /\ UNCHANGED confirming

\* A viewer is approved at the banner; the page is not told.
ViewerApproved ==
  /\ \E v \in Viewers \ deviceStore.viewers : deviceStore' = [deviceStore EXCEPT !.viewers = @ \cup {v}]
  /\ settingsGaps' = settingsGaps \cup {"approved"}
  /\ UNCHANGED <<settingsPage, confirming, viewerList, settingsCalls>>

SettingsUser ==
  \/ OpenSettings \/ LeaveSettings \/ StartFlagged \/ ChooseDash \/ TypeDeviceName \/ ClosePreview
  \/ PressRevoke \/ PressReset \/ ViewerApproved
SettingsMoves == SettingsAnswers \/ SettingsRefused \/ SettingsThrown \/ ConfirmExpires

SettingsNext == SettingsUser \/ SettingsMoves
SettingsSpec == SettingsInit /\ [][SettingsNext]_settingsVars

------------------------------------------------------------------------------

SettingsTypeOK ==
  /\ settingsPage \in [open : BOOLEAN, connected : BOOLEAN, names : SUBSET ListedDashes,
                       chosen : ListedDashes \cup {NoListedDash}, name : DeviceNames \cup {NoDeviceName},
                       preview : BOOLEAN, busy : SUBSET Flagged]
  /\ confirming \in [viewer : Viewers \cup {NoViewer}, reset : BOOLEAN, timer : {"none", "revoke", "reset"}]
  /\ viewerList \in [viewers : SUBSET Viewers, loaded : BOOLEAN]
  /\ deviceStore \in [viewers : SUBSET Viewers, name : DeviceNames]

\* The timer runs for a confirmation that is armed, and one that is armed expires,
\* unless the two were armed across each other.
ConfirmationsExpire ==
  /\ confirming.timer = "revoke" => confirming.viewer # NoViewer
  /\ confirming.timer = "reset" => confirming.reset
  /\ "crossed" \notin settingsGaps =>
       /\ confirming.viewer # NoViewer => confirming.timer = "revoke"
       /\ confirming.reset => confirming.timer = "reset"

\* Once the calls of the page are done, the list is the host's, if no call was
\* thrown, no viewer approved and no older page revoked one since it was read, and
\* so is the name, unless one was typed.
ListIsHost ==
  settingsPage.open /\ settingsCalls = <<>> /\ settingsGaps \cap {"approved", "failed", "zombie"} = {} =>
    /\ viewerList.loaded /\ viewerList.viewers = deviceStore.viewers
    /\ "typed" \notin settingsGaps => settingsPage.name = deviceStore.name

\* A flag is raised exactly while a call of its chain is under way, whatever fails.
FlagsArePending ==
  settingsPage.open =>
    settingsPage.busy =
      {settingsCalls[i].flag : i \in {j \in 1..Len(settingsCalls) : ~settingsCalls[j].gone}} \ {"none"}

SettingsSound == ConfirmationsExpire /\ ListIsHost /\ FlagsArePending

==============================================================================
