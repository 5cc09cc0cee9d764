---------------------------- MODULE EcuConnection ----------------------------
(***************************************************************************)
(* EcuConnectionService: connecting to and disconnecting from the ECU,     *)
(* the connection monitor, the handler of a lost connection with its one   *)
(* automatic reconnect, and the reporting switch.                          *)
(*                                                                         *)
(* ConnectAsync, DisconnectAsync and DisposeAsync run under _lock.         *)
(* HandleConnectionLostAsync does not, and neither do Enable- and          *)
(* DisableReportingAsync.  The code between two awaits is one action.      *)
(***************************************************************************)
EXTENDS Naturals, FiniteSets

CONSTANTS
    Callers,    \* bridge calls that connect, disconnect, switch reporting
    Handlers,   \* concurrent runs of HandleConnectionLostAsync
    Services,   \* ProtocolService objects
    None        \* null

ASSUME ProcAssumption ==
    /\ Callers \cap Handlers = {}
    /\ {None, "disposed"} \cap (Callers \cup Handlers) = {}
    /\ None # "disposed"
ASSUME ServiceAssumption == None \notin Services

VARIABLES
    state,      \* _state
    svc,        \* _protocolService
    lock,       \* holder of _lock, None, or "disposed"
    lastTarget, \* _lastTarget: "serial", "tcp" or None
    attempts,   \* _autoReconnectAttempts
    monitor,    \* is MonitorConnectionAsync running
    misses,     \* its openCheckFailures
    info,       \* ProtocolInfo, named by the service it was read from
    pc,         \* where each process is
    mine,       \* the service it is opening, disposing or talking to
    target,     \* the target of its ConnectAsync
    attempt,    \* the loop counter of its ConnectAsync
    link,       \* state of each service's channel
    heard,      \* services with OnHeartbeatFailed subscribed
    active,     \* services with _isReportingActive
    overlap,    \* did ConnectAsync ever run beside the handler (history)
    stopped     \* was the last finished command a disconnect (history)

connVars == <<state, lastTarget, attempts>>
monVars == <<monitor, misses>>
svcVars == <<link, heard, active>>
procVars == <<mine, target, attempt>>
histVars == <<overlap, stopped>>
vars == <<connVars, svc, lock, monVars, info, pc, procVars, svcVars, histVars>>

Procs == Callers \cup Handlers

Targets == {"serial", "tcp"}
MaxAttempts(t) == IF t = "serial" THEN 3 ELSE 1
MaxAutoReconnects == 3
MaxMisses == 3

ConnectPcs == {"opening", "connClean", "connDelay", "connError"}
Holding == ConnectPcs \cup {"discClean", "discEnd", "shutClean", "shutEnd"}
Waiting == {"connWait", "discWait", "shutWait"}
LossPcs == {"lostClean", "lostDecide", "reconnFailed"}
Reporting == {"enableSet", "enableInfo"}
PcValues == {"idle", "backoff"} \cup Holding \cup Waiting \cup LossPcs \cup Reporting

(* Objects nothing refers to any more stand for the ones not created yet.   *)
Fresh == {s \in Services : link[s] = "gone" /\ svc # s /\ info # s
                           /\ \A p \in Procs : mine[p] # s}

Init ==
    /\ state = "Disconnected"
    /\ svc = None
    /\ lock = None
    /\ lastTarget = None
    /\ attempts = 0
    /\ monitor = FALSE
    /\ misses = 0
    /\ info = None
    /\ pc = [p \in Procs |-> "idle"]
    /\ mine = [p \in Procs |-> None]
    /\ target = [p \in Procs |-> "tcp"]
    /\ attempt = [p \in Procs |-> 0]
    /\ link = [s \in Services |-> "gone"]
    /\ heard = {}
    /\ active = {}
    /\ overlap = FALSE
    /\ stopped = FALSE

Goto(p, place) == pc' = [pc EXCEPT ![p] = place]

(* SemaphoreSlim: taken by anyone when free; WaitAsync throws once disposed. *)
Acquire(p) == lock = None /\ lock' = p

-----------------------------------------------------------------------------
(* CleanupAsync.  With a service: unsubscribe, await its DisposeAsync at    *)
(* `waiting', and only then clear the field - whatever it holds by then.    *)

BeginCleanup(p, waiting, after) ==
    /\ monitor' = FALSE
    /\ misses' = 0
    /\ IF svc = None
       THEN /\ Goto(p, after)
            /\ info' = None
            /\ UNCHANGED <<mine, svcVars>>
       ELSE /\ Goto(p, waiting)
            /\ mine' = [mine EXCEPT ![p] = svc]
            /\ heard' = heard \ {svc}
            /\ active' = active \ {svc}
            /\ link' = [link EXCEPT ![svc] = IF @ = "gone" THEN @ ELSE "closing"]
            /\ info' = info

EndCleanup(p, after) ==
    /\ svc' = None
    /\ info' = None
    /\ link' = [link EXCEPT ![mine[p]] = "gone"]
    /\ mine' = [mine EXCEPT ![p] = None]
    /\ Goto(p, after)

(* A second DisposeAsync of the same object may meet its disposed token     *)
(* source and throw before the fields are cleared.  A channel whose CloseAsync *)
(* throws, because its device is gone, is left out.                         *)
CleanupThrows(p, after) ==
    /\ link[mine[p]] = "gone"
    /\ mine' = [mine EXCEPT ![p] = None]
    /\ Goto(p, after)
    /\ UNCHANGED <<svc, info, link>>

FinishCleanup(p, waiting, after, thrown) ==
    /\ pc[p] = waiting
    /\ EndCleanup(p, after) \/ CleanupThrows(p, thrown)
    /\ UNCHANGED <<connVars, lock, monVars, target, attempt, heard, active, histVars>>

-----------------------------------------------------------------------------
(* ConnectAsync, by a bridge call or by a handler's automatic reconnect. *)

CallConnect(c, t) ==
    /\ pc[c] = "idle"
    /\ Goto(c, "connWait")
    /\ target' = [target EXCEPT ![c] = t]
    /\ UNCHANGED <<connVars, svc, lock, monVars, info, mine, attempt, svcVars, histVars>>

(* Where a ConnectAsync that returned or threw leaves its caller. *)
AfterConnect(p, ok) == IF p \in Handlers /\ ~ok THEN "reconnFailed" ELSE "idle"

ReturnConnect(p, ok) ==
    /\ Goto(p, AfterConnect(p, ok))
    /\ target' = [target EXCEPT ![p] = "tcp"]
    /\ attempt' = [attempt EXCEPT ![p] = 0]

LossCleanupRuns == \E h \in Handlers : pc[h] \in LossPcs

ConnectAlready(p) ==
    /\ pc[p] = "connWait"
    /\ lock = None
    /\ state \in {"Connected", "Connecting"}
    /\ ReturnConnect(p, TRUE)
    /\ stopped' = (stopped /\ p \in Handlers)
    /\ UNCHANGED <<connVars, svc, lock, monVars, info, mine, svcVars, overlap>>

(* Mutated form: the test for an existing connection is dropped. *)
ConnectBeginAnyway(p) ==
    /\ pc[p] = "connWait"
    /\ Acquire(p)
    /\ \E s \in Fresh :
        /\ mine' = [mine EXCEPT ![p] = s]
        /\ link' = [link EXCEPT ![s] = "opening"]
    /\ Goto(p, "opening")
    /\ state' = "Connecting"
    /\ lastTarget' = target[p]
    /\ attempts' = 0
    /\ attempt' = [attempt EXCEPT ![p] = 1]
    /\ overlap' = (overlap \/ LossCleanupRuns)
    /\ stopped' = (stopped /\ p \in Handlers)
    /\ UNCHANGED <<svc, monVars, info, target, heard, active>>

ConnectBegin(p) ==
    /\ pc[p] = "connWait"
    /\ Acquire(p)
    /\ state \notin {"Connected", "Connecting"}
    /\ \E s \in Fresh :
        /\ mine' = [mine EXCEPT ![p] = s]
        /\ link' = [link EXCEPT ![s] = "opening"]
    /\ Goto(p, "opening")
    /\ state' = "Connecting"
    /\ lastTarget' = target[p]
    /\ attempts' = 0
    /\ attempt' = [attempt EXCEPT ![p] = 1]
    /\ overlap' = (overlap \/ LossCleanupRuns)
    /\ stopped' = (stopped /\ p \in Handlers)
    /\ UNCHANGED <<svc, monVars, info, target, heard, active>>

LockGone(p) ==
    /\ pc[p] \in Waiting
    /\ lock = "disposed"
    /\ ReturnConnect(p, pc[p] # "connWait")
    /\ UNCHANGED <<connVars, svc, lock, monVars, info, mine, svcVars, histVars>>

(* Opened and probed: install the service, start the monitor, release. *)
ConnectInstall(p) ==
    /\ pc[p] = "opening"
    /\ svc' = mine[p]
    /\ link' = [link EXCEPT ![mine[p]] = "open"]
    /\ heard' = heard \cup {mine[p]}
    /\ monitor' = TRUE
    /\ misses' = 0
    /\ state' = "Connected"
    /\ lock' = None
    /\ mine' = [mine EXCEPT ![p] = None]
    /\ ReturnConnect(p, TRUE)
    /\ UNCHANGED <<lastTarget, attempts, info, active, histVars>>

(* The open or the probe failed and the new service is disposed.  A serial  *)
(* target is retried after a cleanup and a delay, unless it was cancelled.  *)
ConnectAttemptFails(p) ==
    /\ pc[p] = "opening"
    /\ link' = [link EXCEPT ![mine[p]] = "gone"]
    /\ mine' = [mine EXCEPT ![p] = None]
    /\ \/ attempt[p] < MaxAttempts(target[p]) /\ Goto(p, "connClean")
       \/ Goto(p, "connError")
    /\ UNCHANGED <<connVars, svc, lock, monVars, info, target, attempt, heard, active, histVars>>

ConnectCleanup(p) ==
    /\ pc[p] = "connClean"
    /\ mine[p] = None
    /\ BeginCleanup(p, "connClean", "connDelay")
    /\ UNCHANGED <<connVars, svc, lock, target, attempt, histVars>>

ConnectCleaned(p) ==
    /\ mine[p] # None
    /\ FinishCleanup(p, "connClean", "connDelay", "connError")

ConnectRetry(p) ==
    /\ pc[p] = "connDelay"
    /\ \E s \in Fresh :
        /\ mine' = [mine EXCEPT ![p] = s]
        /\ link' = [link EXCEPT ![s] = "opening"]
    /\ attempt' = [attempt EXCEPT ![p] = @ + 1]
    /\ Goto(p, "opening")
    /\ UNCHANGED <<connVars, svc, lock, monVars, info, target, heard, active, histVars>>

(* Mutated form: the error path returns without releasing the lock. *)
ConnectErrorHolding(p) ==
    /\ pc[p] = "connError"
    /\ state' = "Disconnected"
    /\ ReturnConnect(p, FALSE)
    /\ UNCHANGED <<lastTarget, attempts, svc, lock, monVars, info, mine, svcVars, histVars>>

(* TransitionToError: the Error event, then Disconnected. *)
ConnectError(p) ==
    /\ pc[p] = "connError"
    /\ state' = "Disconnected"
    /\ lock' = None
    /\ ReturnConnect(p, FALSE)
    /\ UNCHANGED <<lastTarget, attempts, svc, monVars, info, mine, svcVars, histVars>>

-----------------------------------------------------------------------------
(* DisconnectAsync and DisposeAsync. *)

CallDisconnect(c) ==
    /\ pc[c] = "idle"
    /\ Goto(c, "discWait")
    /\ UNCHANGED <<connVars, svc, lock, monVars, info, procVars, svcVars, histVars>>

DisconnectNoop(c) ==
    /\ pc[c] = "discWait"
    /\ lock = None
    /\ state = "Disconnected"
    /\ stopped' = TRUE
    /\ Goto(c, "idle")
    /\ UNCHANGED <<connVars, svc, lock, monVars, info, procVars, svcVars, overlap>>

DisconnectBegin(c) ==
    /\ pc[c] = "discWait"
    /\ Acquire(c)
    /\ state # "Disconnected"
    /\ state' = "Disconnecting"
    /\ lastTarget' = None
    /\ attempts' = 0
    /\ BeginCleanup(c, "discClean", "discEnd")
    /\ UNCHANGED <<svc, target, attempt, histVars>>

(* An exception of the cleanup leaves the state as it is. *)
DisconnectCleaned(c) ==
    /\ pc[c] = "discClean"
    /\ \/ EndCleanup(c, "discEnd") /\ lock' = lock
       \/ CleanupThrows(c, "idle") /\ lock' = None
    /\ UNCHANGED <<connVars, monVars, target, attempt, heard, active, histVars>>

DisconnectEnd(c) ==
    /\ pc[c] = "discEnd"
    /\ state' = "Disconnected"
    /\ lock' = None
    /\ stopped' = TRUE
    /\ Goto(c, "idle")
    /\ UNCHANGED <<lastTarget, attempts, svc, monVars, info, procVars, svcVars, overlap>>

CallShutdown(c) ==
    /\ pc[c] = "idle"
    /\ Goto(c, "shutWait")
    /\ UNCHANGED <<connVars, svc, lock, monVars, info, procVars, svcVars, histVars>>

ShutdownBegin(c) ==
    /\ pc[c] = "shutWait"
    /\ Acquire(c)
    /\ BeginCleanup(c, "shutClean", "shutEnd")
    /\ overlap' = (overlap \/ LossCleanupRuns)
    /\ UNCHANGED <<connVars, svc, target, attempt, stopped>>

ShutdownCleaned(c) == FinishCleanup(c, "shutClean", "shutEnd", "shutEnd")

ShutdownEnd(c) ==
    /\ pc[c] = "shutEnd"
    /\ lock' = "disposed"
    /\ Goto(c, "idle")
    /\ UNCHANGED <<connVars, svc, monVars, info, procVars, svcVars, histVars>>

-----------------------------------------------------------------------------
(* HandleConnectionLostAsync: not under the lock. *)

\* Its look at the state and its write of it are one step here: the heartbeat
\* and the monitor do not both pass the look.
HandleConnectionLost(h) ==
    /\ pc[h] = "idle"
    /\ state = "Connected"
    /\ state' = "Disconnected"
    /\ BeginCleanup(h, "lostClean", "lostDecide")
    /\ overlap' = (overlap \/ lock # None)
    /\ UNCHANGED <<lastTarget, attempts, svc, lock, target, attempt, stopped>>

(* A failed write or 5 s of silence while the service reports. *)
HeartbeatFailed(h) ==
    /\ \E s \in heard : s \in active
    /\ HandleConnectionLost(h)

(* Mutated form: the misses are compared before they are counted. *)
MonitorDetectsLossLate(h) ==
    /\ monitor
    /\ svc # None
    /\ link[svc] # "open"
    /\ misses = MaxMisses
    /\ HandleConnectionLost(h)

(* The third check in a row that finds the installed channel closed. *)
MonitorDetectsLoss(h) ==
    /\ monitor
    /\ svc # None
    /\ link[svc] # "open"
    /\ misses = MaxMisses - 1
    /\ HandleConnectionLost(h)

MonitorChecks ==
    /\ monitor
    /\ svc # None
    /\ state = "Connected"
    /\ IF link[svc] = "open"
       THEN misses' = 0
       ELSE misses < MaxMisses - 1 /\ misses' = misses + 1
    /\ misses' # misses
    /\ UNCHANGED <<connVars, svc, lock, monitor, info, pc, procVars, svcVars, histVars>>

LostCleaned(h) == FinishCleanup(h, "lostClean", "lostDecide", "idle")

(* One automatic reconnect for a serial target, else the Error event. *)
LostBackoff(h) ==
    /\ pc[h] = "lostDecide"
    /\ lastTarget = "serial"
    /\ attempts < MaxAutoReconnects
    /\ attempts' = attempts + 1
    /\ Goto(h, "backoff")
    /\ UNCHANGED <<state, lastTarget, svc, lock, monVars, info, procVars, svcVars, histVars>>

LostGivesUp(h) ==
    /\ \/ pc[h] = "lostDecide" /\ ~(lastTarget = "serial" /\ attempts < MaxAutoReconnects)
       \/ pc[h] = "reconnFailed"
    /\ state' = "Disconnected"
    /\ Goto(h, "idle")
    /\ UNCHANGED <<lastTarget, attempts, svc, lock, monVars, info, procVars, svcVars, histVars>>

BackoffCancelled(h) ==
    /\ pc[h] = "backoff"
    /\ state # "Disconnected" \/ lastTarget = None
    /\ Goto(h, "idle")
    /\ UNCHANGED <<connVars, svc, lock, monVars, info, procVars, svcVars, histVars>>

AutoReconnect(h) ==
    /\ pc[h] = "backoff"
    /\ state = "Disconnected"
    /\ lastTarget # None
    /\ target' = [target EXCEPT ![h] = lastTarget]
    /\ Goto(h, "connWait")
    /\ UNCHANGED <<connVars, svc, lock, monVars, info, mine, attempt, svcVars, overlap, stopped>>

-----------------------------------------------------------------------------
(* EnableReportingAsync and DisableReportingAsync.  Enabling returns the    *)
(* cached ProtocolInfo while connected, otherwise it asks the service it    *)
(* read first, twice.  A failed enable makes the bridge disconnect.         *)

EnableStart(c) ==
    /\ pc[c] = "idle"
    /\ ~(info # None /\ state = "Connected")
    /\ IF svc = None THEN Goto(c, "discWait") ELSE Goto(c, "enableSet")
    /\ mine' = [mine EXCEPT ![c] = svc]
    /\ UNCHANGED <<connVars, svc, lock, monVars, info, target, attempt, svcVars, histVars>>

EnableReply(c) ==
    /\ pc[c] = "enableSet"
    /\ link[mine[c]] = "open"
    /\ active' = active \cup {mine[c]}
    /\ Goto(c, "enableInfo")
    /\ UNCHANGED <<connVars, svc, lock, monVars, info, procVars, link, heard, histVars>>

(* GetEcuInfoAsync answers "Unknown" when its request is cancelled. *)
EnableDone(c) ==
    /\ pc[c] = "enableInfo"
    /\ info' = mine[c]
    /\ mine' = [mine EXCEPT ![c] = None]
    /\ Goto(c, "idle")
    /\ UNCHANGED <<connVars, svc, lock, monVars, target, attempt, svcVars, histVars>>

EnableFails(c) ==
    /\ pc[c] \in Reporting
    /\ mine' = [mine EXCEPT ![c] = None]
    /\ Goto(c, "discWait")
    /\ UNCHANGED <<connVars, svc, lock, monVars, info, target, attempt, svcVars, histVars>>

(* The reply changes nothing more: its failures are swallowed. *)
DisableReporting(c) ==
    /\ pc[c] = "idle"
    /\ svc # None
    /\ info' = None
    /\ active' = active \ {svc}
    /\ UNCHANGED <<connVars, svc, lock, monVars, pc, procVars, link, heard, histVars>>

(* The cable is pulled, the ECU powers off, the peer closes. *)
LinkDies(s) ==
    /\ link[s] = "open"
    /\ link' = [link EXCEPT ![s] = "dead"]
    /\ UNCHANGED <<connVars, svc, lock, monVars, info, pc, procVars, heard, active, histVars>>

-----------------------------------------------------------------------------
ConnectStep(p) ==
    \/ ConnectAlready(p) \/ ConnectBegin(p) \/ LockGone(p) \/ ConnectInstall(p)
    \/ ConnectAttemptFails(p) \/ ConnectCleanup(p) \/ ConnectCleaned(p)
    \/ ConnectRetry(p) \/ ConnectError(p)

CallerCalls(c) ==
    \/ \E t \in Targets : CallConnect(c, t)
    \/ CallDisconnect(c) \/ CallShutdown(c) \/ EnableStart(c) \/ DisableReporting(c)

CallerStep(c) ==
    \/ ConnectStep(c)
    \/ DisconnectNoop(c) \/ DisconnectBegin(c) \/ DisconnectCleaned(c) \/ DisconnectEnd(c)
    \/ ShutdownBegin(c) \/ ShutdownCleaned(c) \/ ShutdownEnd(c)
    \/ EnableReply(c) \/ EnableDone(c) \/ EnableFails(c)

HandlerStep(h) ==
    \/ ConnectStep(h)
    \/ LostCleaned(h) \/ LostBackoff(h) \/ LostGivesUp(h)
    \/ BackoffCancelled(h) \/ AutoReconnect(h)

Next ==
    \/ \E c \in Callers : CallerCalls(c) \/ CallerStep(c)
    \/ \E h \in Handlers : HeartbeatFailed(h) \/ MonitorDetectsLoss(h) \/ HandlerStep(h)
    \/ MonitorChecks
    \/ \E s \in Services : LinkDies(s)

(* Started calls run on and the monitor's timer fires.  Nothing obliges a   *)
(* caller to call or a link to die.                                         *)
Fairness ==
    /\ \A c \in Callers : WF_vars(CallerStep(c))
    /\ \A h \in Handlers : WF_vars(HandlerStep(h))
    /\ WF_vars(MonitorChecks \/ \E h \in Handlers : MonitorDetectsLoss(h))

Spec == Init /\ [][Next]_vars
FairSpec == Spec /\ Fairness

-----------------------------------------------------------------------------
TypeOK ==
    /\ state \in {"Disconnected", "Connecting", "Connected", "Disconnecting"}
    /\ svc \in Services \cup {None}
    /\ lock \in Procs \cup {None, "disposed"}
    /\ lastTarget \in Targets \cup {None}
    /\ attempts \in 0..MaxAutoReconnects
    /\ monitor \in BOOLEAN
    /\ misses \in 0..MaxMisses
    /\ info \in Services \cup {None}
    /\ pc \in [Procs -> PcValues]
    /\ mine \in [Procs -> Services \cup {None}]
    /\ target \in [Procs -> Targets]
    /\ attempt \in [Procs -> 0..3]
    /\ link \in [Services -> {"gone", "opening", "open", "dead", "closing"}]
    /\ heard \subseteq Services
    /\ active \subseteq Services
    /\ overlap \in BOOLEAN
    /\ stopped \in BOOLEAN

(* The lock does its work: only its holder is inside ConnectAsync,          *)
(* DisconnectAsync or DisposeAsync, so two bridge calls never open or tear  *)
(* down a service at the same time; and no path leaves the lock held.       *)
LockDiscipline ==
    \A p \in Procs : pc[p] \in Holding <=> lock = p

(* No open service escapes: as long as no connect overlapped the cleanup of *)
(* a lost connection, every channel that is open is the installed one, and  *)
(* the monitor watches it while the state is Connected.                     *)
NoLeakUnlessOverlap ==
    ~overlap =>
        /\ \A s \in Services : link[s] \in {"open", "dead"} => svc = s /\ state = "Connected"
        /\ state = "Connected" /\ lock # "disposed" /\ (\A p \in Procs : pc[p] \notin {"shutClean", "shutEnd"})
              => svc # None /\ link[svc] # "gone" /\ monitor

(* A dead connection does not stay Connected: the monitor finds the closed  *)
(* channel and the state leaves Connected, or another service is installed. *)
DeadLinkNoticed ==
    \A s \in Services :
        (state = "Connected" /\ svc = s /\ link[s] = "dead")
            ~> (state # "Connected" \/ svc # s)

(* Connecting ends: whatever fails, ConnectAsync releases the lock.         *)
LockReleased == \A p \in Procs : lock = p ~> lock # p

(* GetProtocolService (EcuConnectionService.cs:155) answers "Not connected  *)
(* to any ECU" exactly when the field is null: a connection that says it is *)
(* Connected, with no call in progress, has a service.                      *)
ConnectedHasService ==
    state = "Connected" /\ lock # "disposed" /\ (\A p \in Procs : pc[p] = "idle") => svc # None

(* "Auto-reconnect: attempt up to 3 times with backoff"                     *)
(* (EcuConnectionService.cs:274): the handler of a serial connection that   *)
(* reports the loss as final after its reconnect failed has tried 3 times.  *)
ThreeReconnects ==
    [][\A h \in Handlers :
        pc[h] = "reconnFailed" /\ pc'[h] = "idle" /\ lock # "disposed" => attempts = 3]_vars

(* "Check if user disconnected during the delay"                            *)
(* (EcuConnectionService.cs:285): once the user's disconnect has finished,  *)
(* a handler waiting in its backoff does not open a connection.             *)
DisconnectSticks ==
    [][\A h \in Handlers : ~(pc[h] = "backoff" /\ pc'[h] = "connWait" /\ stopped)]_vars
=============================================================================
