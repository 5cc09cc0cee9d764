------------------------------- MODULE Companion -------------------------------
(***************************************************************************)
(* Companion mode on the phone that mirrors another dashboard: the store   *)
(* of the session (lib/stores/MirrorStore.svelte.ts), the discovery page   *)
(* (pages/CompanionDiscoveryPage.svelte), the dashboards of the session    *)
(* (lib/mirror/sessionDashboards.svelte.ts) and the effects and overlays   *)
(* of App.svelte that tie them together.                                   *)
(*                                                                         *)
(* phone is the native side (Services/Mirror): the state of its session    *)
(* and whether frames pass.  Its events reach the page in order (inbox);   *)
(* the page's calls run one after the other (mirrorCalls).  A connect and  *)
(* an exit do not wait for the receive loop of the session before, whose   *)
(* last snapshot may so follow the event of the new state.                 *)
(***************************************************************************)
EXTENDS Integers, Sequences, FiniteSets, SequencesExt

CONSTANTS DashNames,        \* names of dashboards
          HostLists,        \* the lists of dashboards the host may have
          NoDash,           \* 'default', the name of no dashboard of the session
          MaxConnects,      \* bound: connects of the phone
          MaxMirrorCalls    \* bound: calls under way

VARIABLES phone, inbox, mirrorCalls, mirror, shell, discover, session

companionVars == <<phone, inbox, mirrorCalls, mirror, shell, discover, session>>

ASSUME CompanionAssumption ==
  /\ HostLists \subseteq SUBSET DashNames \ {{}}
  /\ NoDash \notin DashNames

MirrorWaits == {"AwaitingApproval", "Refused", "Revoked", "RePair", "Connected"}
Terminal == {"Refused", "Revoked", "RePair"}
Chunks == 2

Reset == [on |-> FALSE, state |-> "Searching", error |-> "none", applied |-> FALSE, list |-> {}, active |-> NoDash,
          of |-> 0, stale |-> FALSE, timer |-> FALSE, framed |-> FALSE, chunks |-> 0]

FreshPage == [shown |-> TRUE, forced |-> FALSE, scanning |-> FALSE, found |-> "nothing",
              connecting |-> FALSE, last |-> FALSE]

NoDashboards == [list |-> {}, active |-> NoDash, of |-> 0]

CompanionInit ==
  /\ phone = [state |-> "Searching", error |-> "none", gate |-> FALSE, connects |-> 0]
  /\ inbox = <<>> /\ mirrorCalls = <<>>
  /\ mirror = Reset
  /\ shell = [mode |-> FALSE, page |-> "connection", seeded |-> FALSE]
  /\ discover = [FreshPage EXCEPT !.shown = FALSE]
  /\ session = NoDashboards

------------------------------------------------------------------------------
(* The store.                                                               *)


\* #onSessionState: a snapshot is forgotten only when the session is over.
OnSessionState(m, s, err) ==
  [m EXCEPT !.state = s, !.error = err,
            !.stale = @ /\ s = "Connected",
            !.timer = @ /\ s = "Connected",
            !.framed = @ /\ s = "Connected",
            !.applied = @ /\ s \notin {"Disconnected", "Revoked", "Stopped"},
            !.chunks = IF s \in {"Disconnected", "Revoked", "Stopped"} THEN 0 ELSE @]

\* #onChunk with MirrorChunkReassembler.tryAdd: a chunk out of its order is dropped.
OnChunk(m, index) ==
  [m EXCEPT !.chunks = IF index = 0 THEN 1 ELSE IF @ = index THEN @ + 1 ELSE @]

\* #onSnapshotDone: only a whole assembly is applied.
OnSnapshotDone(m, list, active, of) ==
  IF m.chunks = Chunks
  THEN [m EXCEPT !.chunks = 0, !.applied = TRUE, !.list = list, !.active = active, !.of = of]
  ELSE [m EXCEPT !.chunks = 0]

\* #onFrame: fresh again, and the timer starts anew.
OnFrame(m) == [m EXCEPT !.stale = FALSE, !.timer = TRUE, !.framed = (m.state = "Connected")]

\* stop(): the assembly is kept.
Stopped(m) == [Reset EXCEPT !.chunks = m.chunks]

------------------------------------------------------------------------------
(* The dashboards of the session.                                           *)

\* loadFromSnapshot.
MirrorLoaded(m) ==
  [list |-> m.list, active |-> IF m.active \in m.list THEN m.active ELSE CHOOSE n \in m.list : TRUE, of |-> m.of]

\* createDashboard and deleteDashboard, as the shell calls them.
Created(n) == [session EXCEPT !.list = @ \cup {n}, !.active = n]

Deleted(n) ==
  LET rest == session.list \ {n}
  IN  {[session EXCEPT !.list = rest, !.active = a] : a \in IF session.active = n THEN rest ELSE {session.active}}

------------------------------------------------------------------------------
(* What follows every change: the effects of the shell and of the page.     *)

\* The discovery page appears: it scans unless the session has a screen to show.
CompanionMounted(m) ==
  IF m.state \in MirrorWaits THEN FreshPage ELSE [FreshPage EXCEPT !.forced = TRUE, !.scanning = TRUE]

\* The page goes: the store of a visit without a session stops.
StoreAfter(m) ==
  IF m.state \in {"AwaitingApproval", "Connected"} THEN m ELSE Stopped(m)

\* The dashboards are seeded from the snapshot once, and again after a disconnect;
\* a state with its own screen brings the discovery page, an approval leaves it.
Settled(m, page) ==
  LET sh == [shell EXCEPT !.seeded = (@ \/ (shell.mode /\ m.applied)) /\ ~(shell.mode /\ m.state = "Disconnected")]
  IN  /\ mirror' = m
      /\ shell' = [sh EXCEPT !.page =
                    IF shell.mode /\ m.state \in Terminal THEN "companion"
                    ELSE IF page = "companion" /\ m.state = "Connected" THEN "dashboard" ELSE page]
      /\ session' = IF shell.mode /\ m.applied /\ ~shell.seeded THEN MirrorLoaded(m) ELSE session
      /\ discover' = IF shell'.page = "companion"
                     THEN IF discover.shown THEN discover ELSE CompanionMounted(m)
                     ELSE [discover EXCEPT !.shown = FALSE]

\* A call of the page; when the page goes its answers change no page.
Call(op) == [op |-> op, mine |-> TRUE]

MirrorCalls(more) ==
  [k \in DOMAIN mirrorCalls |-> [mirrorCalls[k] EXCEPT !.mine = @ /\ discover'.shown]] \o more

Asks(op) == mirrorCalls' = Append(mirrorCalls, Call(op))

MountScan == IF discover'.shown /\ discover'.scanning /\ ~discover.shown THEN <<Call("scan")>> ELSE <<>>

------------------------------------------------------------------------------
(* The user.                                                                *)

\* Which screen covers everything.
Overlay ==
  CASE shell.mode /\ mirror.state = "Connected" /\ ~mirror.applied -> "loading"
    [] shell.mode /\ mirror.state = "Disconnected" /\ mirror.error = "update" -> "update"
    [] shell.mode /\ mirror.state = "Disconnected" /\ mirror.error = "snapshot" -> "failed"
    [] shell.mode /\ mirror.state = "Disconnected" /\ mirror.error \notin {"update", "snapshot"} -> "lost"
    [] OTHER -> "none"

\* What the discovery page shows.
Screen ==
  CASE ~discover.forced /\ mirror.state \in {"AwaitingApproval"} \cup Terminal -> mirror.state
    [] discover.scanning -> "scanning"
    [] OTHER -> discover.found

OnDiscovery == shell.page = "companion" /\ discover.shown /\ Overlay = "none"
Room == Len(mirrorCalls) < MaxMirrorCalls

StartCompanion ==
  /\ shell.page = "connection" /\ ~shell.mode /\ Room
  /\ shell' = [mode |-> TRUE, page |-> "companion", seeded |-> FALSE]
  /\ mirror' = [mirror EXCEPT !.on = TRUE]
  /\ discover' = CompanionMounted(mirror)
  /\ mirrorCalls' = MirrorCalls(MountScan)
  /\ UNCHANGED <<phone, inbox, session>>

\* "Scan Again", "Return to Discovery".
PressScan ==
  /\ OnDiscovery /\ Room
  /\ Screen \in {"Revoked", "error", "nothing", "hosts"}
  /\ discover' = [discover EXCEPT !.forced = TRUE, !.scanning = TRUE]
  /\ Asks("scan")
  /\ UNCHANGED <<phone, inbox, mirror, shell, session>>

PressConnect ==
  /\ OnDiscovery /\ Room /\ Screen = "hosts" /\ ~discover.connecting
  /\ discover' = [discover EXCEPT !.connecting = TRUE]
  /\ Asks("connect")
  /\ UNCHANGED <<phone, inbox, mirror, shell, session>>

\* "Cancel" and "Request Again"; what follows starts when the call answers.
PressOther ==
  /\ OnDiscovery /\ Room
  /\ \/ Screen = "AwaitingApproval" /\ Asks("cancel")
     \/ Screen \in {"Refused", "RePair"} /\ ~discover.connecting /\ discover.last /\ Asks("forget")
  /\ UNCHANGED <<phone, inbox, mirror, shell, discover, session>>

\* exitCompanion: the page stays until the call answers.
ExitCompanion ==
  /\ shell.mode /\ Room
  /\ Overlay \in {"failed", "lost"} \/ OnDiscovery
  /\ mirror' = Stopped(mirror) /\ session' = NoDashboards
  /\ shell' = [shell EXCEPT !.mode = FALSE]
  /\ Asks("exit")
  /\ UNCHANGED <<phone, inbox, discover>>

\* The buttons of the notices: "Reconnect", "Retry".
PressRetry ==
  /\ Overlay \in {"update", "failed", "lost"} /\ Room
  /\ Settled(mirror, "companion")
  /\ mirrorCalls' = MirrorCalls(MountScan)
  /\ UNCHANGED <<phone, inbox>>

EditDashboards ==
  /\ shell.mode /\ mirror.state = "Connected" /\ Overlay = "none"
  /\ \/ \E n \in DashNames \ session.list : session' = Created(n)
     \/ Cardinality(session.list) > 1 /\ \E n \in session.list : session' \in Deleted(n)
     \/ \E n \in session.list : session' = [session EXCEPT !.active = n]
  /\ UNCHANGED <<phone, inbox, mirrorCalls, mirror, shell, discover>>

------------------------------------------------------------------------------
(* The native side.                                                         *)

Says(s, err) == <<[event |-> "state", state |-> s, error |-> err]>>

\* Transition: a state that stays is not announced.
Becomes(s, err) ==
  /\ phone' = [phone EXCEPT !.state = s, !.error = err]
  /\ inbox' = inbox \o IF phone.state = s THEN <<>> ELSE Says(s, err)

\* FinalizeSnapshotAsync of the relay.
Relayed(list, active) ==
  [k \in 1..Chunks |-> [event |-> "chunk", index |-> k - 1]]
    \o <<[event |-> "done", list |-> list, active |-> active, of |-> phone.connects]>>

\* What the receive loop of a session that is replaced or left may still relay.
LateEvents ==
  {<<>>} \cup IF phone.state # "Connected" THEN {}
             ELSE UNION {{Relayed(list, active) : active \in list \cup {NoDash}} : list \in HostLists}

MirrorAnswers ==
  /\ mirrorCalls # <<>>
  /\ LET c == Head(mirrorCalls)
         rest(more) == mirrorCalls' = Tail(mirrorCalls) \o more
     IN \/ /\ c.op = "scan"
           /\ discover' \in IF c.mine THEN {[discover EXCEPT !.scanning = FALSE, !.found = f] : f \in {"hosts", "nothing", "error"}}
                          ELSE {discover}
           /\ rest(<<>>)
           /\ UNCHANGED <<phone, inbox, mirror, shell, session>>
        \/ /\ c.op = "connect"
           /\ \E done \in {"gone", "asked", "refused", "changed"} :
                /\ done \in {"gone"} \/ phone.connects < MaxConnects
                /\ discover' = IF ~c.mine THEN discover
                               ELSE IF done = "asked"
                               THEN [discover EXCEPT !.connecting = FALSE, !.last = TRUE, !.forced = FALSE]
                               ELSE [discover EXCEPT !.connecting = FALSE]
                /\ IF done = "gone" THEN UNCHANGED <<phone, inbox>>
                   ELSE /\ phone' = [phone EXCEPT !.connects = @ + 1,
                                       !.state = IF done = "changed" THEN "RePair" ELSE "AwaitingApproval",
                                       !.error = IF done = "changed" THEN "other" ELSE @]
                        /\ \E late \in LateEvents :
                             inbox' = inbox \o (IF phone.state = "AwaitingApproval" THEN <<>> ELSE Says("AwaitingApproval", phone.error))
                                        \o late \o (IF done = "changed" THEN Says("RePair", "other") ELSE <<>>)
           /\ rest(<<>>)
           /\ UNCHANGED <<mirror, shell, session>>
        \/ /\ c.op = "cancel"
           /\ Becomes("Stopped", phone.error)
           /\ discover' = IF c.mine THEN [discover EXCEPT !.forced = TRUE, !.scanning = TRUE] ELSE discover
           /\ rest(<<[c EXCEPT !.op = "scan"]>>)
           /\ UNCHANGED <<mirror, shell, session>>
        \/ /\ c.op = "forget"
           /\ IF c.mine /\ discover.connecting THEN rest(<<>>) /\ UNCHANGED discover
              ELSE /\ rest(<<[c EXCEPT !.op = "connect"]>>)
                   /\ discover' = IF c.mine THEN [discover EXCEPT !.connecting = TRUE] ELSE discover
           /\ UNCHANGED <<phone, inbox, mirror, shell, session>>
        \/ /\ c.op = "exit"
           /\ phone' = [phone EXCEPT !.state = "Stopped"]
           /\ \E late \in LateEvents :
                inbox' = inbox \o (IF phone.state = "Stopped" THEN <<>> ELSE Says("Stopped", phone.error)) \o late
           /\ shell' = [shell EXCEPT !.page = "connection"]
           /\ discover' = [discover EXCEPT !.shown = FALSE]
           /\ mirror' = StoreAfter(mirror)
           /\ mirrorCalls' = [k \in DOMAIN Tail(mirrorCalls) |-> [Tail(mirrorCalls)[k] EXCEPT !.mine = FALSE]]
           /\ UNCHANGED session

\* The host approves, refuses, revokes, changes its configuration or is lost.
HostActs ==
  /\ inbox = <<>>
  /\ \/ phone.state = "AwaitingApproval"
        /\ \E s \in {"Connected", "Refused", "Revoked", "Disconnected"} :
             Becomes(s, IF s = "Connected" THEN "none" ELSE IF s = "Refused" THEN phone.error ELSE "other")
     \/ phone.state = "Connected"
        /\ \/ Becomes("Disconnected", "update")
           \/ Becomes("Disconnected", "other")
           \/ Becomes("Revoked", "other")
           \/ inbox' = Says("Disconnected", "snapshot") /\ UNCHANGED phone
  /\ UNCHANGED <<mirrorCalls, mirror, shell, discover, session>>

\* A snapshot is relayed in chunks; the gate of the frames opens.
HostSnapshot ==
  /\ inbox = <<>> /\ phone.state = "Connected"
  /\ \E list \in HostLists : \E active \in list \cup {NoDash} : inbox' = Relayed(list, active)
  /\ phone' = [phone EXCEPT !.gate = TRUE]
  /\ UNCHANGED <<mirrorCalls, mirror, shell, discover, session>>

\* The store of a running session handles the next event; then the effects run.
Deliver ==
  /\ inbox # <<>>
  /\ LET e == Head(inbox)
         m == CASE e.event = "state" -> OnSessionState(mirror, e.state, e.error)
                [] e.event = "chunk" -> OnChunk(mirror, e.index)
                [] e.event = "done" -> OnSnapshotDone(mirror, e.list, e.active, e.of)
     IN IF mirror.on THEN Settled(m, shell.page) ELSE UNCHANGED <<mirror, shell, session, discover>>
  /\ mirrorCalls' = MirrorCalls(MountScan)
  /\ inbox' = Tail(inbox)
  /\ UNCHANGED phone

HostFrame ==
  /\ inbox = <<>> /\ phone.gate /\ phone.state = "Connected" /\ mirror.on
  /\ mirror' = OnFrame(mirror)
  /\ UNCHANGED <<phone, inbox, mirrorCalls, shell, discover, session>>

\* #armStaleTimer: two seconds without a frame.
StaleTimer ==
  /\ mirror.timer
  /\ mirror' = IF mirror.state = "Connected" THEN [mirror EXCEPT !.stale = TRUE] ELSE [mirror EXCEPT !.timer = FALSE]
  /\ UNCHANGED <<phone, inbox, mirrorCalls, shell, discover, session>>

CompanionUser ==
  StartCompanion \/ PressScan \/ PressConnect \/ PressOther \/ ExitCompanion \/ PressRetry \/ EditDashboards

CompanionMoves == MirrorAnswers \/ HostActs \/ HostSnapshot \/ Deliver \/ HostFrame \/ StaleTimer

------------------------------------------------------------------------------
(* Properties.                                                              *)

CompanionTypeOK ==
  /\ phone.state \in MirrorWaits \cup {"Searching", "Disconnected", "Stopped"}
  /\ phone.connects \in 0..MaxConnects /\ phone.gate \in BOOLEAN
  /\ mirror.state \in MirrorWaits \cup {"Searching", "Disconnected", "Stopped"}
  /\ mirror.error \in {"none", "update", "snapshot", "other"} /\ mirror.chunks \in 0..Chunks
  /\ shell \in [mode : BOOLEAN, page : {"connection", "companion", "dashboard"}, seeded : BOOLEAN]
  /\ DOMAIN discover = DOMAIN FreshPage /\ discover.shown = (shell.page = "companion")
  /\ session.list \subseteq DashNames /\ session.active \in DashNames \cup {NoDash}
  /\ Len(mirrorCalls) <= MaxMirrorCalls + 1

\* The page asks for one connection at a time, also when the answer to a
\* "forget" asks for it.
OneConnect == Cardinality({k \in DOMAIN mirrorCalls : mirrorCalls[k] = Call("connect")}) <= 1

\* Only a live session is called stale, and one that has had a frame is watched:
\* its silence will be noticed, whatever ended and began in between.
SilenceNoticed ==
  /\ mirror.stale => mirror.state = "Connected"
  /\ mirror.on /\ mirror.framed => mirror.timer

\* While dashboards of a host are shown, one of them is the active one, through
\* every edit; a refused or revoked session is shown where it can be answered.
SessionShown ==
  /\ session.list # {} => session.active \in session.list
  /\ shell.mode /\ mirror.applied => session.list # {}
  /\ shell.mode /\ mirror.state \in Terminal => shell.page = "companion"


\* "A new session starts from A's dashboards again" (sessionDashboards.svelte.ts:4):
\* the dashboards shown with a snapshot are those of the session it belongs to.
\* The code breaks it: only a disconnect, not a revocation or a second connect,
\* makes the next snapshot replace them.
SessionStartsFromHost ==
  shell.mode /\ mirror.applied => session.of = mirror.of

==============================================================================
