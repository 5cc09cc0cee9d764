------------------------------- MODULE AppShell -------------------------------
(***************************************************************************)
(* The shell of the front end (App.svelte): which page is shown, the loop  *)
(* that reconnects after a loss, and the gate that asks before unsaved     *)
(* edits of the configuration page are dropped.                            *)
(*                                                                         *)
(* The shell hears of the connection in two ways that are not ordered: the *)
(* events of the host and the answers to the calls it made.  The calls go  *)
(* through one queue (HybridBridge.ts); each is a record that says what    *)
(* its answer leads to, as the code keeps it in the continuation of the    *)
(* await.  A function of a shell returns [s, q]: the new shell and the     *)
(* calls it queues.                                                        *)
(***************************************************************************)
EXTENDS Naturals, Sequences, FiniteSets, SequencesExt

CONSTANTS MaxAttempts,   \* MAX_RECONNECT_ATTEMPTS
          Dashboards,    \* the names of dashboards
          Tabs,          \* the pages the navigation bar leads to
          MaxLosses,     \* bound: times the host loses the ECU
          MaxEvents,     \* bound: events on their way when the host begins to connect
          Nowhere        \* no page, no name

VARIABLES shell,   \* the state of the component
          calls,   \* the queue of the bridge
          events,  \* connectionStateChanged events on their way
          ecu,     \* the host's connection: "up", "down" or "retrying"
          losses

shellVars == <<shell, calls, events, ecu, losses>>

\* DASHBOARD_PAGES, and the pages whose opener is remembered.
FunctionalPages == {"dashboard", "config", "tableList", "tableEditor", "driverList",
                    "driverEditor", "ecuMonitor", "warnings", "gaugeBuilder"}
Openers == {"dashboard", "config", "tableList", "driverList"}
AllPages == FunctionalPages \cup {"splash", "welcome", "connection", "calibration", "logs",
                                  "sessions", "settings"}

\* What a navigation gate keeps: where the user wanted to go, or to do what.
Intents == [kind : {"page"}, target : AllPages]
             \cup [kind : {"disconnect"}, target : {"connection"}]
             \cup [kind : {"create", "delete"}, target : Dashboards]

ASSUME ShellAssumption ==
  /\ MaxAttempts \in Nat \ {0}
  /\ Dashboards # {} /\ Tabs \subseteq AllPages
  /\ Nowhere \notin Dashboards \cup Intents

Call(op, then) ==
  [op |-> op, then |-> then, page |-> Nowhere, name |-> Nowhere, intent |-> Nowhere]

\* initDeviceMode and startGps come before; startup waits for the first answer.
ShellInit ==
  /\ shell = [state |-> "Disconnected", page |-> "splash", source |-> Nowhere,
              before |-> "connection", reconnecting |-> FALSE,
              attempt |-> 0, handle |-> FALSE, orphans |-> 0, manual |-> FALSE, calibrated |-> FALSE,
              matched |-> 0, armed |-> FALSE, withheld |-> FALSE, dialog |-> FALSE,
              stash |-> Nowhere, names |-> {CHOOSE d \in Dashboards : TRUE},
              active |-> CHOOSE d \in Dashboards : TRUE, remount |-> Nowhere]
  /\ calls = <<Call("state", "startup")>>
  /\ events = <<>>
  /\ ecu \in {"up", "down"}
  /\ losses = 0

IsConnected(s) == s.state = "Connected"

Done(s) == [s |-> s, q |-> <<>>]
Ask(s, call) == [s |-> s, q |-> <<call>>]

------------------------------------------------------------------------------
(* Pages and the gate.                                                      *)

\* A mutation: the page that goes leaves the gate armed.
DisarmedNot(s) == s

\* setShifterDirty(false), on unmount, save and discard: the dialog goes too.
Disarmed(s) == [s EXCEPT !.armed = FALSE, !.dialog = FALSE]

\* Another page is mounted; the configuration page disarms the gate as it goes.
Show(s, page) ==
  IF s.page = "config" /\ page # "config" THEN [Disarmed(s) EXCEPT !.page = page]
  ELSE [s EXCEPT !.page = page]

\* activeDashboard changes: a configuration page is mounted anew.
Activate(s, name) ==
  IF s.page = "config" /\ name # s.active THEN [Disarmed(s) EXCEPT !.active = name]
  ELSE [s EXCEPT !.active = name]

\* navigationGate.stashNavigation and openDirtyDialog.
AskFirst(s, intent) == [s EXCEPT !.stash = intent, !.dialog = TRUE]

Intent(kind, target) == [kind |-> kind, target |-> target]

Refused(s, page) ==
  \/ s.withheld
  \/ IsConnected(s) /\ page = "connection"
  \/ page = "calibration" /\ s.calibrated

NavigateTo(s, page) ==
  IF s.armed THEN AskFirst(s, Intent("page", page))
  ELSE IF Refused(s, page) THEN s
  ELSE Show([s EXCEPT !.source = IF s.page \in Openers THEN s.page ELSE @], page)

BackTarget(s) == IF s.source = Nowhere THEN "dashboard" ELSE s.source

------------------------------------------------------------------------------
(* The chains of awaits: dashboard names, reporting, and what comes then.   *)

\* Reconnected: the page the user was on is put back, past the gate.
Restored(s, call) ==
  LET page == IF call.page \in {"connection", "splash", "welcome", "calibration"}
                THEN "dashboard" ELSE call.page
  IN  [Show(s, page) EXCEPT !.reconnecting = FALSE, !.attempt = 0, !.handle = FALSE]

\* loadDashboardNames has returned.
Loaded(s, call) ==
  CASE call.then = "again" -> Done(Restored(s, call))
    [] call.then = "calibrated" -> Done(NavigateTo(s, "dashboard"))
    [] OTHER -> Ask(s, [call EXCEPT !.op = "reporting"])

\* loadDashboardNames: it returns at once without a connection.
LoadNames(s, call) ==
  IF IsConnected(s) THEN Ask(s, [call EXCEPT !.op = "names"]) ELSE Loaded(s, call)

\* enableReporting has returned; it never throws.
Reported(s, call) ==
  CASE call.then = "again" -> LoadNames(s, call)
    [] call.then = "startup" -> Done(NavigateTo(s, "dashboard"))
    [] OTHER -> Done(NavigateTo(s, IF s.calibrated THEN "dashboard" ELSE "calibration"))

------------------------------------------------------------------------------
(* Reconnection.                                                            *)

\* cancelReconnect clears the timer it has the handle of.
CancelReconnect(s) == [s EXCEPT !.reconnecting = FALSE, !.attempt = 0, !.handle = FALSE]

\* setTimeout: a timer whose handle is overwritten can no longer be cleared.
RetryLater(s) == [s EXCEPT !.orphans = IF s.handle THEN @ + 1 ELSE @, !.handle = TRUE]

\* A mutation: the bound is noticed one attempt late.
TryReconnectOneMore(s) ==
  IF ~s.reconnecting THEN Done(s)
  ELSE IF s.attempt > MaxAttempts THEN Done(NavigateTo(CancelReconnect(s), "connection"))
  ELSE Ask([s EXCEPT !.attempt = @ + 1], Call("last", "again"))

\* tryReconnect up to its first await.
TryReconnect(s) ==
  IF ~s.reconnecting THEN Done(s)
  ELSE IF s.attempt >= MaxAttempts THEN Done(NavigateTo(CancelReconnect(s), "connection"))
  ELSE Ask([s EXCEPT !.attempt = @ + 1], Call("last", "again"))

StartReconnect(s) ==
  TryReconnect([CancelReconnect(s) EXCEPT !.reconnecting = TRUE, !.before = s.page])

Keeps(page) == page \in FunctionalPages \cup {"logs"}

\* handleConnectionChange.
OnConnection(s, state) ==
  LET told == [s EXCEPT !.state = state]
  IN  CASE state = "Connected" ->
             IF IsConnected(s) THEN Done(CancelReconnect(told))
             ELSE LoadNames(CancelReconnect(told), Call("names", "first"))
        [] state = "Disconnected" ->
             IF s.manual THEN Done(NavigateTo(CancelReconnect(told), "connection"))
             ELSE IF s.reconnecting THEN Done(told)
             ELSE IF Keeps(s.page) THEN StartReconnect(told)
             ELSE Done(NavigateTo(told, "connection"))
        [] state = "Error" ->
             IF s.reconnecting THEN Done(told)
             ELSE IF Keeps(s.page) THEN StartReconnect(told)
             ELSE Done(CancelReconnect(told))
        [] OTHER -> Done(told)

------------------------------------------------------------------------------
(* Steps: the shell becomes r.s, and r.q is queued behind rest.             *)

Becomes(r, rest) ==
  /\ shell' = r.s
  /\ calls' = rest \o r.q

Queues(call) == Becomes(Ask(shell, call), calls)
Turns(s) == Becomes(Done(s), calls)

Asked(op) == calls # <<>> /\ Head(calls).op = op
Same == UNCHANGED <<events, ecu, losses>>

------------------------------------------------------------------------------
(* The host: it works on the first call of the queue, and reports changes   *)
(* of the connection by events, before it answers.                          *)

\* ConnectTcp and ConnectSerial: connected already, connected now, or failed.
HostConnects(succeeded) ==
  IF ecu = "up" THEN succeeded /\ UNCHANGED <<events, ecu>>
  ELSE /\ Len(events) <= MaxEvents
       /\ ecu' = IF succeeded THEN "up" ELSE "down"
       /\ events' = events \o <<"Connecting", IF succeeded THEN "Connected" ELSE "Error">>

\* The loss is reported, and then that nothing more is tried; a serial target
\* is first connected again by the host itself.
HostLoses ==
  /\ ecu = "up"
  /\ losses < MaxLosses
  /\ losses' = losses + 1
  /\ ecu' = "retrying"
  /\ events' = Append(events, "Disconnected")
  /\ UNCHANGED <<shell, calls>>

HostRetryEnds ==
  /\ ecu = "retrying"
  /\ \/ ecu' = "up" /\ events' = events \o <<"Connecting", "Connected">>
     \/ ecu' = "down" /\ events' = Append(events, "Error")
  /\ UNCHANGED <<shell, calls, losses>>

EventArrives ==
  /\ events # <<>>
  /\ Becomes(OnConnection(shell, Head(events)), calls)
  /\ events' = Tail(events)
  /\ UNCHANGED <<ecu, losses>>

------------------------------------------------------------------------------
(* The answers.                                                             *)

\* startup: connected, or on to the platform checks.
StateAnswered ==
  /\ Asked("state")
  /\ LET up == [shell EXCEPT !.state = IF ecu = "up" THEN "Connected" ELSE "Disconnected"]
     IN  Becomes(IF IsConnected(up)
                   THEN LoadNames([up EXCEPT !.calibrated = TRUE], Head(calls))
                   ELSE Ask(up, Call("platform", "startup")), Tail(calls))
  /\ Same

PlatformAnswered ==
  /\ Asked("platform")
  /\ \E page \in {"connection", "welcome"} : Becomes(Done(NavigateTo(shell, page)), Tail(calls))
  /\ Same

\* The active dashboard may be another one than the shell had.
NamesAnswered ==
  /\ Asked("names")
  /\ \E name \in shell.names : Becomes(Loaded(Activate(shell, name), Head(calls)), Tail(calls))
  /\ Same

ReportingAnswered ==
  /\ Asked("reporting")
  /\ Becomes(Reported(shell, Head(calls)), Tail(calls))
  /\ Same

\* getLastConnection: without stored parameters the loop gives up.
LastAnswered ==
  /\ Asked("last")
  /\ \/ Becomes(Ask(shell, Call("reconnect", "again")), Tail(calls))
     \/ Becomes(Done(NavigateTo(CancelReconnect(shell), "connection")), Tail(calls))
  /\ Same

\* A mutation: an attempt that was refused is not followed by another one.
ReconnectAnsweredOnce ==
  /\ Asked("reconnect")
  /\ \E ok \in BOOLEAN :
       /\ HostConnects(ok)
       /\ Becomes(IF ok THEN Ask([shell EXCEPT !.state = "Connected", !.before = "connection"],
                                 [Call("reporting", "again") EXCEPT !.page = shell.before])
                  ELSE Done(shell), Tail(calls))
  /\ UNCHANGED losses

\* The second half of tryReconnect.
ReconnectAnswered ==
  /\ Asked("reconnect")
  /\ \E ok \in BOOLEAN :
       /\ HostConnects(ok)
       /\ Becomes(IF ok THEN Ask([shell EXCEPT !.state = "Connected", !.before = "connection"],
                                 [Call("reporting", "again") EXCEPT !.page = shell.before])
                  ELSE Done(RetryLater(shell)), Tail(calls))
  /\ UNCHANGED losses

\* The timer of the loop.
RetryTimer ==
  /\ \/ shell.handle /\ Becomes(TryReconnect([shell EXCEPT !.handle = FALSE]), calls)
     \/ shell.orphans > 0 /\ Becomes(TryReconnect([shell EXCEPT !.orphans = @ - 1]), calls)
  /\ Same

\* connect of the connection page.
ConnectAnswered ==
  /\ Asked("connect")
  /\ \E ok \in BOOLEAN :
       /\ HostConnects(ok)
       /\ Becomes(OnConnection(shell, IF ok THEN "Connected" ELSE "Error"), Tail(calls))
  /\ UNCHANGED losses

\* DisconnectAsync: it reports what it does, and does nothing when the host calls
\* itself disconnected: between two tries of its own, which go on, or for good.  A
\* host that is down may also be in error.
HostDisconnects ==
  \/ ecu # "up" /\ UNCHANGED <<events, ecu>>
  \/ ecu # "retrying" /\ ecu' = "down" /\ events' = events \o <<"Disconnecting", "Disconnected">>

\* The second half of performDisconnect.
DisconnectAnswered ==
  /\ Asked("disconnect")
  /\ HostDisconnects
  /\ Becomes(Done([Show(shell, "connection") EXCEPT !.state = "Disconnected", !.manual = FALSE]),
             Tail(calls))
  /\ UNCHANGED losses

\* switchDashboard: local even when the host refused.
SwitchAnswered ==
  /\ Asked("setActive")
  /\ Becomes(Done(NavigateTo(Activate(shell, Head(calls).name), "dashboard")), Tail(calls))
  /\ Same

CreateAnswered ==
  /\ Asked("create")
  /\ \/ Becomes(Done(Show([Activate(shell, Head(calls).name) EXCEPT
                             !.names = @ \cup {Head(calls).name}], "config")), Tail(calls))
     \/ Becomes(Done(shell), Tail(calls))
  /\ Same

\* performDeleteDashboard: the page is remounted by way of the splash page.
DeleteAnswered ==
  /\ Asked("delete")
  /\ LET left == shell.names \ {Head(calls).name}
         to(s) == IF s.page \in {"dashboard", "config"}
                    THEN [Show(s, "splash") EXCEPT !.remount = s.page] ELSE s
     IN  \/ \E name \in left :
              Becomes(Done(to([Activate(shell, name) EXCEPT !.names = left])), Tail(calls))
         \/ Becomes(Done(shell), Tail(calls))
  /\ Same

\* The frame deleteDashboard waits for before it shows the page again.
NextFrame ==
  /\ shell.remount # Nowhere
  /\ Turns([Show(shell, shell.remount) EXCEPT !.remount = Nowhere])
  /\ Same

------------------------------------------------------------------------------
(* The dialog of the gate.                                                  *)

PerformDisconnect(s) ==
  Ask([CancelReconnect(s) EXCEPT !.manual = TRUE], Call("disconnect", "user"))

\* What was asked for is done; a dashboard is created unless the gate is armed
\* again, and deleted without a further check.
Resolve(s, intent) ==
  CASE intent = Nowhere -> Done(s)
    [] intent # Nowhere /\ intent.kind = "disconnect" -> PerformDisconnect(s)
    [] intent # Nowhere /\ intent.kind \in {"create", "delete"} ->
         Ask(s, [Call(intent.kind, "user") EXCEPT !.name = intent.target])
    [] OTHER -> Done(NavigateTo(s, intent.target))

\* dirtyStay.
Stay ==
  /\ shell.dialog
  /\ Turns([shell EXCEPT !.dialog = FALSE, !.stash = Nowhere])
  /\ Same

\* resolveDirty up to its await: a save, or the refetch of a discard.
LeaveBySaveOrDiscard ==
  /\ shell.dialog
  /\ \E op \in {"save", "discard"} :
       /\ op = "save" => shell.stash.kind # "delete"
       /\ Becomes(Ask([shell EXCEPT !.dialog = FALSE, !.stash = Nowhere],
                      [Call(op, "user") EXCEPT !.intent = shell.stash]), calls)
  /\ Same

\* A save that was refused stays on the page.  resolveDirty clears the gate; a dialog
\* that was opened again goes with the page's own effect, in the same turn.
ChoiceAnswered ==
  /\ Asked("save") \/ Asked("discard")
  /\ LET r == Resolve(Disarmed(shell), Head(calls).intent)
     IN  \/ shell' = r.s /\ calls' = Tail(calls) \o r.q
         \/ Asked("save") /\ shell' = shell /\ calls' = Tail(calls)
  /\ Same

------------------------------------------------------------------------------
(* The user.                                                                *)

\* The bar offers every tab with a connection, three pages without; the pages
\* themselves lead to the configuration page and to the monitor.
Reach(s) ==
  IF IsConnected(s) THEN Tabs
  ELSE {"connection", "logs", "sessions"}
         \cup (IF s.page = "sessions" THEN {"ecuMonitor"} ELSE {})
         \cup (IF s.page \in {"dashboard", "settings"} THEN {"config"} ELSE {})

Navigate(page) ==
  /\ shell.page # "splash" /\ ~shell.dialog
  /\ page \in Reach(shell)
  /\ Turns(NavigateTo(shell, page))
  /\ Same

\* androidBack: while the dialog is open, back stays on it.
Back ==
  /\ shell.page \in FunctionalPages \cup {"logs", "sessions", "settings"}
  /\ ~shell.dialog
  /\ Turns(IF shell.armed THEN AskFirst(shell, Intent("page", BackTarget(shell)))
           ELSE NavigateTo([shell EXCEPT !.source = Nowhere], BackTarget(shell)))
  /\ Same

\* The configuration page is edited, or edited back to what is stored.
Edit ==
  /\ shell.page = "config" /\ ~shell.dialog
  /\ shell' = IF shell.armed THEN Disarmed(shell) ELSE [shell EXCEPT !.armed = TRUE]
  /\ UNCHANGED calls /\ Same

\* Another reason of the gate: a batch runs, or a modal is open.
Withhold ==
  /\ shell.page \in FunctionalPages
  /\ Turns([shell EXCEPT !.withheld = ~@])
  /\ Same

CancelBanner ==
  /\ shell.reconnecting
  /\ Turns(CancelReconnect(shell))
  /\ Same

Connect ==
  /\ shell.page = "connection" /\ ~IsConnected(shell)
  /\ ~\E i \in DOMAIN calls : calls[i].op = "connect"
  /\ Queues(Call("connect", "user"))
  /\ Same

DisconnectEcu ==
  /\ IsConnected(shell) /\ ~shell.dialog
  /\ Becomes(IF shell.armed THEN Done(AskFirst(shell, Intent("disconnect", "connection")))
             ELSE PerformDisconnect(shell), calls)
  /\ Same

SwitchDashboard(name) ==
  /\ IsConnected(shell) /\ ~shell.dialog /\ name \in shell.names
  /\ Becomes(IF name = shell.active THEN Done(NavigateTo(shell, "dashboard"))
             ELSE Ask(shell, [Call("setActive", "user") EXCEPT !.name = name]), calls)
  /\ Same

CreateDashboard(name) ==
  /\ IsConnected(shell) /\ ~shell.dialog /\ name \notin shell.names
  /\ Becomes(IF shell.armed THEN Done(AskFirst(shell, Intent("create", name)))
             ELSE Ask(shell, [Call("create", "user") EXCEPT !.name = name]), calls)
  /\ Same

DeleteDashboard(name) ==
  /\ IsConnected(shell) /\ ~shell.dialog
  /\ name \in shell.names /\ Cardinality(shell.names) > 1
  /\ Becomes(IF shell.armed THEN Done(AskFirst(shell, Intent("delete", name)))
             ELSE Ask(shell, [Call("delete", "user") EXCEPT !.name = name]), calls)
  /\ Same

\* The calibration page has found the calibration of the ECU, and shows it for
\* 800 ms before it goes on; nothing ends that wait.
CalibrationMatches ==
  /\ shell.page = "calibration" /\ shell.matched = 0
  /\ Turns([shell EXCEPT !.matched = 1])
  /\ Same

\* handleCalibrationDone.
CalibrationDone ==
  /\ shell.matched = 1
  /\ Becomes(LoadNames([shell EXCEPT !.matched = 0, !.calibrated = TRUE],
                       Call("names", "calibrated")), calls)
  /\ Same

HostAnswersShell ==
  \/ StateAnswered \/ PlatformAnswered \/ NamesAnswered \/ ReportingAnswered
  \/ LastAnswered \/ ReconnectAnswered \/ ConnectAnswered \/ DisconnectAnswered
  \/ SwitchAnswered \/ CreateAnswered \/ DeleteAnswered \/ ChoiceAnswered

ShellUser ==
  \/ \E page \in Tabs \cup {"connection", "ecuMonitor", "logs", "sessions"} : Navigate(page)
  \/ \E name \in Dashboards :
       SwitchDashboard(name) \/ CreateDashboard(name) \/ DeleteDashboard(name)
  \/ Back \/ Withhold \/ CancelBanner \/ Connect \/ DisconnectEcu \/ CalibrationMatches

\* What the user does on the configuration page and in its dialog.
ShellEditor == Edit \/ Stay \/ LeaveBySaveOrDiscard

\* What happens by itself.
ShellRuns ==
  HostAnswersShell \/ EventArrives \/ HostRetryEnds \/ RetryTimer \/ NextFrame \/ CalibrationDone

ShellNext == HostLoses \/ ShellRuns \/ ShellUser \/ ShellEditor

\* One event loop, and a host that answers: what can happen by itself does not wait
\* for ever, whatever comes first.
ShellFairness == WF_shellVars(ShellRuns)

ShellSpec == ShellInit /\ [][ShellNext]_shellVars /\ ShellFairness

------------------------------------------------------------------------------
(* Properties.                                                              *)

\* The calls of the queue: a call of the loop reads the last parameters, connects,
\* and then goes back to a page; a call about a dashboard names one.
ShellCalls ==
  {c \in [op : {"state", "platform", "names", "reporting", "last", "reconnect", "connect",
                "disconnect", "setActive", "create", "delete", "save", "discard"},
          then : {"startup", "first", "again", "calibrated", "user"},
          page : AllPages \cup {Nowhere}, name : Dashboards \cup {Nowhere},
          intent : Intents \cup {Nowhere}] :
     /\ c.then = "again" =>
          \/ c.op \in {"last", "reconnect"}
          \/ c.op \in {"reporting", "names"} /\ c.page \in AllPages
     /\ c.op \in {"setActive", "create", "delete"} => c.name \in Dashboards}

ConnectionStates == {"Disconnected", "Disconnecting", "Connecting", "Connected", "Error"}

ShellTypeOK ==
  /\ shell.state \in ConnectionStates
  /\ shell.page \in AllPages
  /\ shell.source \in Openers \cup {Nowhere}
  /\ shell.before \in AllPages
  /\ shell.attempt \in 0..MaxAttempts
  /\ shell.orphans \in Nat
  /\ shell.stash \in Intents \cup {Nowhere}
  /\ shell.names \subseteq Dashboards
  /\ shell.remount \in {"dashboard", "config", Nowhere}
  /\ calls \in Seq(ShellCalls)
  /\ events \in Seq(ConnectionStates)
  /\ ecu \in {"up", "down", "retrying"}

\* The gate is armed only while the page with the edits is there, and the
\* dialog is open only over an armed gate and with something to resolve to: an
\* armed gate on a dead page would block every navigation, a dialog on a dead
\* page would save through a component that is gone.
GateAgrees ==
  /\ shell.armed => shell.page = "config"
  /\ shell.dialog => shell.armed /\ shell.stash # Nowhere

\* While the banner says that the application is reconnecting, somebody is: a
\* call of the loop is in the queue or its timer runs, or an answer that ends
\* it is being waited for.
ReconnectAlive ==
  shell.reconnecting =>
    \/ \E i \in DOMAIN calls : calls[i].then = "again"
    \/ shell.handle
    \/ shell.orphans > 0

\* The banner does not stay for ever.
ReconnectEnds == shell.reconnecting ~> ~shell.reconnecting
===============================================================================
