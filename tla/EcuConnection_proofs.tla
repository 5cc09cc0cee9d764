------------------------- MODULE EcuConnection_proofs -------------------------
(***************************************************************************)
(* TypeOK, LockDiscipline and NoLeakUnlessOverlap hold for any number of   *)
(* callers, handlers and services.  For the first two the inductive        *)
(* invariant adds only that a retried connect has attempts left, which     *)
(* keeps the loop counter within its three, and that who opens a service   *)
(* has one.  For the third it adds PlacesTell: without an overlap the      *)
(* state is what the place of the lock's holder says, and the loss handler *)
(* cleans up while nobody holds the lock.                                  *)
(***************************************************************************)
EXTENDS EcuConnection, TLAPS

(* A retry of ConnectAsync is within its three attempts. *)
AttemptBound ==
    \A p \in Procs : pc[p] \in {"connClean", "connDelay"} => attempt[p] \in 0..2

(* Who opens a service or asks it to report has one.                        *)
UsesService ==
    \A p \in Procs : pc[p] \in {"opening", "enableSet"} => mine[p] \in Services

IInv == TypeOK /\ LockDiscipline /\ AttemptBound /\ UsesService

-----------------------------------------------------------------------------
USE ProcAssumption, ServiceAssumption
USE DEF ProcAssumption, ServiceAssumption, Procs, connVars, monVars, svcVars, procVars, histVars, Targets, MaxAutoReconnects, MaxMisses,
        ConnectPcs, Holding, Waiting, LossPcs, Reporting, PcValues, Fresh

(* The initial state, nobody in a call and the lock free, satisfies it. *)
LEMMA InitIInv == Init => IInv
<1> SUFFICES ASSUME Init PROVE IInv
  OBVIOUS
<1>1. TypeOK
  <2>1. pc \in [Procs -> PcValues] /\ mine \in [Procs -> Services \cup {None}]
        /\ target \in [Procs -> Targets] /\ attempt \in [Procs -> 0..3]
        /\ link \in [Services -> {"gone", "opening", "open", "dead", "closing"}]
    BY DEF Init
  <2>2. /\ state \in {"Disconnected", "Connecting", "Connected", "Disconnecting"}
        /\ svc \in Services \cup {None}
        /\ lock \in Procs \cup {None, "disposed"}
        /\ lastTarget \in Targets \cup {None}
        /\ attempts \in 0..MaxAutoReconnects
        /\ misses \in 0..MaxMisses
    BY DEF Init
  <2>3. /\ monitor \in BOOLEAN
        /\ info \in Services \cup {None}
        /\ heard \subseteq Services
        /\ active \subseteq Services
        /\ overlap \in BOOLEAN
        /\ stopped \in BOOLEAN
    BY DEF Init
  <2> QED BY <2>1, <2>2, <2>3 DEF TypeOK
<1>2. LockDiscipline BY DEF Init, LockDiscipline
<1>3. AttemptBound /\ UsesService BY DEF Init, AttemptBound, UsesService
<1> QED BY <1>1, <1>2, <1>3 DEF IInv

(* The first half of a cleanup stays within the types, whichever place it   *)
(* leads to.                                                                *)
LEMMA BeginCleanupTypes ==
    ASSUME TypeOK, NEW p \in Procs, NEW waiting \in PcValues, NEW after \in PcValues,
           BeginCleanup(p, waiting, after)
    PROVE  /\ monitor' \in BOOLEAN /\ misses' \in 0..MaxMisses
           /\ info' \in Services \cup {None}
           /\ pc' \in [Procs -> PcValues]
           /\ mine' \in [Procs -> Services \cup {None}]
           /\ link' \in [Services -> {"gone", "opening", "open", "dead", "closing"}]
           /\ heard' \subseteq Services /\ active' \subseteq Services
<1>1. monitor' \in BOOLEAN BY DEF BeginCleanup
<1>2. misses' \in 0..MaxMisses BY DEF BeginCleanup
<1>3. /\ info' \in Services \cup {None}
      /\ pc' \in [Procs -> PcValues]
      /\ mine' \in [Procs -> Services \cup {None}]
      /\ link' \in [Services -> {"gone", "opening", "open", "dead", "closing"}]
      /\ heard' \subseteq Services /\ active' \subseteq Services
  <2>1. CASE svc = None BY <2>1 DEF BeginCleanup, TypeOK, Goto
  <2>2. CASE svc # None BY <2>2 DEF BeginCleanup, TypeOK, Goto
  <2> QED BY <2>1, <2>2
<1> QED BY <1>1, <1>2, <1>3

(* ConnectAsync keeps the invariant, whoever runs it. *)
LEMMA ConnectSteps == ASSUME IInv, NEW p \in Procs, ConnectStep(p) PROVE IInv'
<1> USE DEF IInv, AttemptBound, UsesService, LockDiscipline, Goto
<1>1. CASE ConnectAlready(p)
  <2>1. TypeOK' BY <1>1 DEF ConnectAlready, ReturnConnect, AfterConnect, TypeOK
  <2>2. LockDiscipline' /\ AttemptBound' /\ UsesService' BY <1>1 DEF ConnectAlready, ReturnConnect, AfterConnect, TypeOK
  <2> QED BY <2>1, <2>2
<1>2. CASE ConnectBegin(p)
  <2>1. TypeOK' BY <1>2 DEF ConnectBegin, Acquire, TypeOK
  <2>2. LockDiscipline' /\ AttemptBound' /\ UsesService' BY <1>2 DEF ConnectBegin, Acquire, TypeOK
  <2> QED BY <2>1, <2>2
<1>3. CASE LockGone(p)
  <2>1. TypeOK' BY <1>3 DEF LockGone, ReturnConnect, AfterConnect, TypeOK
  <2>2. LockDiscipline' /\ AttemptBound' /\ UsesService' BY <1>3 DEF LockGone, ReturnConnect, AfterConnect, TypeOK
  <2> QED BY <2>1, <2>2
<1>4. CASE ConnectInstall(p)
  <2>1. TypeOK' BY <1>4 DEF ConnectInstall, ReturnConnect, AfterConnect, TypeOK
  <2>2. LockDiscipline' /\ AttemptBound' /\ UsesService' BY <1>4 DEF ConnectInstall, ReturnConnect, AfterConnect, TypeOK
  <2> QED BY <2>1, <2>2
<1>5. CASE ConnectAttemptFails(p)
  <2>1. TypeOK' BY <1>5 DEF ConnectAttemptFails, MaxAttempts, TypeOK
  <2>2. LockDiscipline' /\ AttemptBound' /\ UsesService' BY <1>5 DEF ConnectAttemptFails, MaxAttempts, TypeOK
  <2> QED BY <2>1, <2>2
<1>6. CASE ConnectCleanup(p)
  <2>1. BeginCleanup(p, "connClean", "connDelay") BY <1>6 DEF ConnectCleanup
  <2>2. TypeOK' BY <1>6, <2>1, BeginCleanupTypes, SMTT(20) DEF ConnectCleanup, TypeOK
  <2>3. LockDiscipline' /\ AttemptBound' /\ UsesService' BY <1>6 DEF ConnectCleanup, BeginCleanup, TypeOK
  <2> QED BY <2>2, <2>3
<1>7. CASE ConnectCleaned(p)
  <2>1. TypeOK' BY <1>7 DEF ConnectCleaned, FinishCleanup, EndCleanup, CleanupThrows, TypeOK
  <2>2. LockDiscipline' /\ AttemptBound' /\ UsesService' BY <1>7 DEF ConnectCleaned, FinishCleanup, EndCleanup, CleanupThrows, TypeOK
  <2> QED BY <2>1, <2>2
<1>8. CASE ConnectRetry(p)
  <2>1. TypeOK' BY <1>8 DEF ConnectRetry, TypeOK
  <2>2. LockDiscipline' /\ AttemptBound' /\ UsesService' BY <1>8 DEF ConnectRetry, TypeOK
  <2> QED BY <2>1, <2>2
<1>9. CASE ConnectError(p)
  <2>1. TypeOK' BY <1>9 DEF ConnectError, ReturnConnect, AfterConnect, TypeOK
  <2>2. LockDiscipline' /\ AttemptBound' /\ UsesService' BY <1>9 DEF ConnectError, ReturnConnect, AfterConnect, TypeOK
  <2> QED BY <2>1, <2>2
<1> QED BY <1>1, <1>2, <1>3, <1>4, <1>5, <1>6, <1>7, <1>8, <1>9 DEF ConnectStep

(* Disconnecting, shutting down and the reporting switch keep it. *)
LEMMA CommandSteps == ASSUME IInv, NEW p \in Callers, CallerStep(p) PROVE IInv'
<1> USE DEF IInv, AttemptBound, UsesService, LockDiscipline, Goto
<1>1. CASE DisconnectNoop(p)
  <2>1. TypeOK' BY <1>1 DEF DisconnectNoop, TypeOK
  <2>2. LockDiscipline' /\ AttemptBound' /\ UsesService' BY <1>1 DEF DisconnectNoop, TypeOK
  <2> QED BY <2>1, <2>2
<1>2. CASE DisconnectBegin(p)
  <2>1. BeginCleanup(p, "discClean", "discEnd") BY <1>2 DEF DisconnectBegin
  <2>2. TypeOK' BY <1>2, <2>1, BeginCleanupTypes, SMTT(20) DEF DisconnectBegin, Acquire, TypeOK
  <2>3. LockDiscipline' /\ AttemptBound' /\ UsesService' BY <1>2 DEF DisconnectBegin, Acquire, BeginCleanup, TypeOK
  <2> QED BY <2>2, <2>3
<1>3. CASE DisconnectCleaned(p)
  <2>1. TypeOK' BY <1>3 DEF DisconnectCleaned, EndCleanup, CleanupThrows, TypeOK
  <2>2. LockDiscipline' /\ AttemptBound' /\ UsesService' BY <1>3 DEF DisconnectCleaned, EndCleanup, CleanupThrows, TypeOK
  <2> QED BY <2>1, <2>2
<1>4. CASE DisconnectEnd(p)
  <2>1. TypeOK' BY <1>4 DEF DisconnectEnd, TypeOK
  <2>2. LockDiscipline' /\ AttemptBound' /\ UsesService' BY <1>4 DEF DisconnectEnd, TypeOK
  <2> QED BY <2>1, <2>2
<1>5. CASE ShutdownBegin(p)
  <2>1. BeginCleanup(p, "shutClean", "shutEnd") BY <1>5 DEF ShutdownBegin
  <2>2. TypeOK' BY <1>5, <2>1, BeginCleanupTypes DEF ShutdownBegin, Acquire, TypeOK
  <2>3. LockDiscipline' /\ AttemptBound' /\ UsesService' BY <1>5 DEF ShutdownBegin, Acquire, BeginCleanup, TypeOK
  <2> QED BY <2>2, <2>3
<1>6. CASE ShutdownCleaned(p)
  <2>1. TypeOK' BY <1>6 DEF ShutdownCleaned, FinishCleanup, EndCleanup, CleanupThrows, TypeOK
  <2>2. LockDiscipline' /\ AttemptBound' /\ UsesService' BY <1>6 DEF ShutdownCleaned, FinishCleanup, EndCleanup, CleanupThrows, TypeOK
  <2> QED BY <2>1, <2>2
<1>7. CASE ShutdownEnd(p)
  <2>1. TypeOK' BY <1>7 DEF ShutdownEnd, TypeOK
  <2>2. LockDiscipline' /\ AttemptBound' /\ UsesService' BY <1>7 DEF ShutdownEnd, TypeOK
  <2> QED BY <2>1, <2>2
<1>8. CASE EnableReply(p)
  <2>1. TypeOK' BY <1>8 DEF EnableReply, TypeOK
  <2>2. LockDiscipline' /\ AttemptBound' /\ UsesService' BY <1>8 DEF EnableReply, TypeOK
  <2> QED BY <2>1, <2>2
<1>9. CASE EnableDone(p)
  <2>1. TypeOK' BY <1>9 DEF EnableDone, TypeOK
  <2>2. LockDiscipline' /\ AttemptBound' /\ UsesService' BY <1>9 DEF EnableDone, TypeOK
  <2> QED BY <2>1, <2>2
<1>10. CASE EnableFails(p)
  <2>1. TypeOK' BY <1>10 DEF EnableFails, TypeOK
  <2>2. LockDiscipline' /\ AttemptBound' /\ UsesService' BY <1>10 DEF EnableFails, TypeOK
  <2> QED BY <2>1, <2>2
<1> QED BY <1>1, <1>2, <1>3, <1>4, <1>5, <1>6, <1>7, <1>8, <1>9, <1>10, ConnectSteps DEF CallerStep

(* So does the handler of a lost connection, which never holds the lock. *)
LEMMA LossSteps == ASSUME IInv, NEW p \in Handlers, HandlerStep(p) PROVE IInv'
<1> USE DEF IInv, AttemptBound, UsesService, LockDiscipline, Goto
<1>1. CASE LostCleaned(p)
  <2>1. TypeOK' BY <1>1 DEF LostCleaned, FinishCleanup, EndCleanup, CleanupThrows, TypeOK
  <2>2. LockDiscipline' /\ AttemptBound' /\ UsesService' BY <1>1 DEF LostCleaned, FinishCleanup, EndCleanup, CleanupThrows, TypeOK
  <2> QED BY <2>1, <2>2
<1>2. CASE LostBackoff(p)
  <2>1. TypeOK' BY <1>2 DEF LostBackoff, TypeOK
  <2>2. LockDiscipline' /\ AttemptBound' /\ UsesService' BY <1>2 DEF LostBackoff, TypeOK
  <2> QED BY <2>1, <2>2
<1>3. CASE LostGivesUp(p)
  <2>1. TypeOK' BY <1>3 DEF LostGivesUp, TypeOK
  <2>2. LockDiscipline' /\ AttemptBound' /\ UsesService' BY <1>3 DEF LostGivesUp, TypeOK
  <2> QED BY <2>1, <2>2
<1>4. CASE BackoffCancelled(p)
  <2>1. TypeOK' BY <1>4 DEF BackoffCancelled, TypeOK
  <2>2. LockDiscipline' /\ AttemptBound' /\ UsesService' BY <1>4 DEF BackoffCancelled, TypeOK
  <2> QED BY <2>1, <2>2
<1>5. CASE AutoReconnect(p)
  <2>1. TypeOK' BY <1>5 DEF AutoReconnect, TypeOK
  <2>2. LockDiscipline' /\ AttemptBound' /\ UsesService' BY <1>5 DEF AutoReconnect, TypeOK
  <2> QED BY <2>1, <2>2
<1> QED BY <1>1, <1>2, <1>3, <1>4, <1>5, ConnectSteps DEF HandlerStep

(* Calls start, and only the loss of a connection or the monitor runs       *)
(* beside them.                                                             *)
LEMMA CallSteps == ASSUME IInv, NEW p \in Callers, CallerCalls(p) PROVE IInv'
<1> USE DEF IInv, AttemptBound, UsesService, LockDiscipline, Goto
<1>1. ASSUME NEW t \in Targets, CallConnect(p, t) PROVE IInv'
  <2>1. TypeOK' BY <1>1 DEF CallConnect, TypeOK
  <2>2. LockDiscipline' /\ AttemptBound' /\ UsesService' BY <1>1 DEF CallConnect, TypeOK
  <2> QED BY <2>1, <2>2
<1>2. CASE CallDisconnect(p)
  <2>1. TypeOK' BY <1>2 DEF CallDisconnect, TypeOK
  <2>2. LockDiscipline' /\ AttemptBound' /\ UsesService' BY <1>2 DEF CallDisconnect, TypeOK
  <2> QED BY <2>1, <2>2
<1>3. CASE CallShutdown(p)
  <2>1. TypeOK' BY <1>3 DEF CallShutdown, TypeOK
  <2>2. LockDiscipline' /\ AttemptBound' /\ UsesService' BY <1>3 DEF CallShutdown, TypeOK
  <2> QED BY <2>1, <2>2
<1>4. CASE EnableStart(p)
  <2>1. TypeOK' BY <1>4 DEF EnableStart, TypeOK
  <2>2. LockDiscipline' /\ AttemptBound' /\ UsesService' BY <1>4 DEF EnableStart, TypeOK
  <2> QED BY <2>1, <2>2
<1>5. CASE DisableReporting(p)
  <2>1. TypeOK' BY <1>5 DEF DisableReporting, TypeOK
  <2>2. LockDiscipline' /\ AttemptBound' /\ UsesService' BY <1>5 DEF DisableReporting, TypeOK
  <2> QED BY <2>1, <2>2
<1> QED BY <1>1, <1>2, <1>3, <1>4, <1>5 DEF CallerCalls

(* A loss is handled outside the lock and disturbs none of the parts. *)
LEMMA LossBegins == ASSUME IInv, NEW p \in Handlers, HandleConnectionLost(p) PROVE IInv'
<1> USE DEF IInv, AttemptBound, UsesService, LockDiscipline, Goto
<1>1. BeginCleanup(p, "lostClean", "lostDecide") BY DEF HandleConnectionLost
<1>2. TypeOK' BY <1>1, BeginCleanupTypes DEF HandleConnectionLost, TypeOK
<1>3. LockDiscipline' /\ AttemptBound' /\ UsesService'
  BY DEF HandleConnectionLost, BeginCleanup, TypeOK
<1> QED BY <1>2, <1>3

(* Every step of the service keeps the invariant. *)
LEMMA Inductive == IInv /\ [Next]_vars => IInv'
<1> SUFFICES ASSUME IInv, [Next]_vars PROVE IInv'
  OBVIOUS
<1> USE DEF IInv, AttemptBound, UsesService, LockDiscipline
<1>1. ASSUME NEW c \in Callers, CallerCalls(c) \/ CallerStep(c) PROVE IInv'
  BY <1>1, CallSteps, CommandSteps
<1>2. ASSUME NEW h \in Handlers, HeartbeatFailed(h) \/ MonitorDetectsLoss(h) \/ HandlerStep(h)
      PROVE IInv'
  <2>1. CASE HeartbeatFailed(h) \/ MonitorDetectsLoss(h)
    <3>1. HandleConnectionLost(h) BY <2>1 DEF HeartbeatFailed, MonitorDetectsLoss
    <3> QED BY <3>1, LossBegins
  <2>2. CASE HandlerStep(h) BY <2>2, LossSteps
  <2> QED BY <1>2, <2>1, <2>2
<1>3. CASE MonitorChecks
  <2>1. TypeOK' BY <1>3 DEF MonitorChecks, TypeOK
  <2>2. LockDiscipline' /\ AttemptBound' /\ UsesService' BY <1>3 DEF MonitorChecks, TypeOK
  <2> QED BY <2>1, <2>2
<1>4. ASSUME NEW s \in Services, LinkDies(s) PROVE IInv'
  <2>1. TypeOK' BY <1>4 DEF LinkDies, TypeOK
  <2>2. LockDiscipline' /\ AttemptBound' /\ UsesService' BY <1>4 DEF LinkDies, TypeOK
  <2> QED BY <2>1, <2>2
<1>5. CASE UNCHANGED vars
  <2>1. TypeOK' BY <1>5 DEF vars, TypeOK
  <2>2. LockDiscipline' /\ AttemptBound' /\ UsesService' BY <1>5 DEF vars
  <2> QED BY <2>1, <2>2
<1> QED BY <1>1, <1>2, <1>3, <1>4, <1>5 DEF Next

-----------------------------------------------------------------------------
(* The invariant holds throughout. *)
LEMMA Invariant == Spec => []IInv
  BY InitIInv, Inductive, PTL DEF Spec

(* Every variable keeps its type, for any number of concurrent calls; in    *)
(* particular ConnectAsync never makes a fourth attempt.                    *)
THEOREM TypeCorrect == Spec => []TypeOK
  BY Invariant, PTL DEF IInv

(* EcuConnectionService._lock: a call is between WaitAsync and Release      *)
(* exactly when it holds the semaphore, on every path of success, failure,  *)
(* retry and exception, while the loss handler runs beside it unlocked.     *)
THEOREM LockHeldByOne == Spec => []LockDiscipline
  BY Invariant, PTL DEF IInv

-----------------------------------------------------------------------------
(* DisposeAsync has begun its cleanup or is done. *)
Shut == lock = "disposed" \/ \E p \in Procs : pc[p] \in {"shutClean", "shutEnd"}

(* While no connect has overlapped the cleanup of a lost connection, the     *)
(* place of each call tells the state, and a handler runs only while nobody *)
(* holds the lock.                                                          *)
Told ==
    /\ \A p \in Procs : pc[p] \in ConnectPcs => state = "Connecting"
    /\ \A p \in Procs : pc[p] \in {"discClean", "discEnd"} => state = "Disconnecting"
    /\ \A h \in Handlers : pc[h] \in LossPcs =>
           \/ state = "Disconnected" /\ lock = None
           \/ pc[h] = "reconnFailed" /\ lock = "disposed"
    /\ Shut => \A s \in Services : link[s] \notin {"open", "dead"}

PlacesTell == ~overlap => Told

(* The two halves of NoLeakUnlessOverlap.                                   *)
Installed == \A s \in Services : link[s] \in {"open", "dead"} => svc = s /\ state = "Connected"
Watched == state = "Connected" /\ ~Shut => svc # None /\ link[svc] # "gone" /\ monitor

(* The first half of a cleanup leaves no channel of the installed service   *)
(* open.                                                                    *)
LEMMA BeginCleanupCloses ==
    ASSUME TypeOK, Installed, NEW p \in Procs, NEW waiting, NEW after,
           BeginCleanup(p, waiting, after)
    PROVE  /\ \A s \in Services : link'[s] \notin {"open", "dead"}
           /\ pc' = [pc EXCEPT ![p] = waiting] \/ pc' = [pc EXCEPT ![p] = after]
<1>1. CASE svc = None BY <1>1 DEF BeginCleanup, TypeOK, Installed, Goto
<1>2. CASE svc # None BY <1>2 DEF BeginCleanup, TypeOK, Installed, Goto
<1> QED BY <1>1, <1>2

(* No step takes back that a connect overlapped a cleanup. *)
LEMMA OverlapStays == TypeOK /\ [Next]_vars /\ ~overlap' => ~overlap
<1> SUFFICES ASSUME TypeOK, [Next]_vars, ~overlap' PROVE ~overlap
  OBVIOUS
<1>1. overlap \in BOOLEAN BY DEF TypeOK
<1>2. ASSUME NEW p \in Procs, ConnectStep(p) PROVE ~overlap
  BY <1>1, <1>2 DEF ConnectStep, ConnectAlready, ConnectBegin, LockGone, ConnectInstall,
     ConnectAttemptFails, ConnectCleanup, ConnectCleaned, FinishCleanup, ConnectRetry, ConnectError
<1>3. ASSUME NEW c \in Callers, CallerCalls(c) \/ CallerStep(c) PROVE ~overlap
  BY <1>1, <1>2, <1>3 DEF CallerCalls, CallerStep, CallConnect, CallDisconnect, CallShutdown, EnableStart,
     DisableReporting, DisconnectNoop, DisconnectBegin, DisconnectCleaned, DisconnectEnd, ShutdownBegin,
     ShutdownCleaned, FinishCleanup, ShutdownEnd, EnableReply, EnableDone, EnableFails
<1>4. ASSUME NEW h \in Handlers, HeartbeatFailed(h) \/ MonitorDetectsLoss(h) \/ HandlerStep(h) PROVE ~overlap
  BY <1>1, <1>2, <1>4 DEF HandlerStep, HeartbeatFailed, MonitorDetectsLoss, HandleConnectionLost, LostCleaned,
     FinishCleanup, LostBackoff, LostGivesUp, BackoffCancelled, AutoReconnect
<1> QED BY <1>1, <1>3, <1>4 DEF Next, MonitorChecks, LinkDies, vars

(* ConnectAsync opens a service only when no other is open, and installs it *)
(* with its monitor.                                                        *)
LEMMA ConnectKeeps ==
    ASSUME IInv, Told, Installed, Watched, NEW p \in Procs, ConnectStep(p), ~overlap'
    PROVE  Told' /\ Installed' /\ Watched'
<1>0. /\ TypeOK /\ LockDiscipline /\ UsesService
      /\ pc \in [Procs -> PcValues] /\ mine \in [Procs -> Services \cup {None}]
      /\ link \in [Services -> {"gone", "opening", "open", "dead", "closing"}]
      /\ lock \in Procs \cup {None, "disposed"}
  BY DEF IInv, TypeOK
<1> USE DEF Told, Installed, Watched, Shut, Goto
<1>1. CASE ConnectAlready(p)
  BY <1>0, <1>1 DEF ConnectAlready, ReturnConnect, AfterConnect, LockDiscipline
<1>2. CASE ConnectBegin(p)
  BY <1>0, <1>2 DEF ConnectBegin, Acquire, LockDiscipline, LossCleanupRuns
<1>3. CASE LockGone(p)
  BY <1>0, <1>3 DEF LockGone, ReturnConnect, AfterConnect, LockDiscipline
<1>4. CASE ConnectInstall(p)
  <2>1. /\ pc[p] = "opening" /\ lock = p /\ lock' = None /\ mine[p] \in Services
        /\ state = "Connecting" /\ state' = "Connected" /\ svc' = mine[p] /\ monitor'
        /\ pc' = [pc EXCEPT ![p] = "idle"] /\ link' = [link EXCEPT ![mine[p]] = "open"]
    BY <1>0, <1>4 DEF ConnectInstall, ReturnConnect, AfterConnect, LockDiscipline, UsesService
  <2>2. \A q \in Procs : pc'[q] \notin Holding
    BY <1>0, <2>1 DEF LockDiscipline
  <2>3. Told'
    <3>1. \A h \in Handlers : pc[h] \notin LossPcs
      BY <2>1
    <3>2. \A h \in Handlers : pc'[h] \notin LossPcs
      BY <1>0, <2>1, <3>1
    <3>3. ~Shut'
      BY <2>1, <2>2
    <3> QED BY <2>2, <3>2, <3>3
  <2>4. Installed' /\ Watched'
    BY <1>0, <2>1
  <2> QED BY <2>3, <2>4
<1>5. CASE ConnectAttemptFails(p)
  BY <1>0, <1>5 DEF ConnectAttemptFails, LockDiscipline, UsesService
<1>6. CASE ConnectCleanup(p)
  BY <1>0, <1>6, BeginCleanupCloses DEF ConnectCleanup, LockDiscipline
<1>7. CASE ConnectCleaned(p)
  BY <1>0, <1>7 DEF ConnectCleaned, FinishCleanup, EndCleanup, CleanupThrows, LockDiscipline
<1>8. CASE ConnectRetry(p)
  BY <1>0, <1>8 DEF ConnectRetry, LockDiscipline
<1>9. CASE ConnectError(p)
  BY <1>0, <1>9 DEF ConnectError, ReturnConnect, AfterConnect, LockDiscipline
<1> QED BY <1>1, <1>2, <1>3, <1>4, <1>5, <1>6, <1>7, <1>8, <1>9 DEF ConnectStep

(* Disconnecting and shutting down close what is open before they give the  *)
(* lock back.                                                               *)
LEMMA CommandKeeps ==
    ASSUME IInv, Told, Installed, Watched, NEW p \in Callers, CallerCalls(p) \/ CallerStep(p), ~overlap'
    PROVE  Told' /\ Installed' /\ Watched'
<1>0. /\ TypeOK /\ LockDiscipline
      /\ pc \in [Procs -> PcValues] /\ mine \in [Procs -> Services \cup {None}]
      /\ link \in [Services -> {"gone", "opening", "open", "dead", "closing"}]
      /\ lock \in Procs \cup {None, "disposed"}
  BY DEF IInv, TypeOK
<1> USE DEF Told, Installed, Watched, Shut, Goto
<1>1. CASE \E t \in Targets : CallConnect(p, t)
  BY <1>0, <1>1 DEF CallConnect
<1>2. CASE CallDisconnect(p) \/ CallShutdown(p) \/ EnableStart(p) \/ DisableReporting(p)
  BY <1>0, <1>2 DEF CallDisconnect, CallShutdown, EnableStart, DisableReporting
<1>3. CASE DisconnectNoop(p)
  BY <1>0, <1>3 DEF DisconnectNoop
<1>4. CASE DisconnectBegin(p)
  <2>1. /\ pc[p] = "discWait" /\ lock = None /\ lock' = p /\ state' = "Disconnecting" /\ state # "Disconnected"
        /\ BeginCleanup(p, "discClean", "discEnd")
    BY <1>4 DEF DisconnectBegin, Acquire
  <2>2. /\ \A s \in Services : link'[s] \notin {"open", "dead"}
        /\ pc' = [pc EXCEPT ![p] = "discClean"] \/ pc' = [pc EXCEPT ![p] = "discEnd"]
    BY <1>0, <2>1, BeginCleanupCloses
  <2>3. \A q \in Procs : q # p => pc'[q] = pc[q] /\ pc[q] \notin Holding
    BY <1>0, <2>1, <2>2 DEF LockDiscipline
  <2> QED BY <1>0, <2>1, <2>2, <2>3
<1>5. CASE DisconnectCleaned(p)
  BY <1>0, <1>5 DEF DisconnectCleaned, EndCleanup, CleanupThrows, LockDiscipline
<1>6. CASE DisconnectEnd(p)
  BY <1>0, <1>6 DEF DisconnectEnd, LockDiscipline
<1>7. CASE ShutdownBegin(p)
  <2>1. /\ pc[p] = "shutWait" /\ lock = None /\ lock' = p /\ state' = state
        /\ BeginCleanup(p, "shutClean", "shutEnd") /\ \A h \in Handlers : pc[h] \notin LossPcs
    BY <1>7 DEF ShutdownBegin, Acquire, LossCleanupRuns
  <2>2. /\ \A s \in Services : link'[s] \notin {"open", "dead"}
        /\ pc' = [pc EXCEPT ![p] = "shutClean"] \/ pc' = [pc EXCEPT ![p] = "shutEnd"]
    BY <1>0, <2>1, BeginCleanupCloses
  <2>3. \A q \in Procs : q # p => pc'[q] = pc[q] /\ pc[q] \notin Holding
    BY <1>0, <2>1, <2>2 DEF LockDiscipline
  <2>4. pc'[p] \in {"shutClean", "shutEnd"}
    BY <1>0, <2>2
  <2> QED BY <1>0, <2>1, <2>2, <2>3, <2>4
<1>8. CASE ShutdownCleaned(p)
  BY <1>0, <1>8 DEF ShutdownCleaned, FinishCleanup, EndCleanup, CleanupThrows, LockDiscipline
<1>9. CASE ShutdownEnd(p)
  BY <1>0, <1>9 DEF ShutdownEnd, LockDiscipline
<1>10. CASE EnableReply(p) \/ EnableDone(p) \/ EnableFails(p)
  BY <1>0, <1>10 DEF EnableReply, EnableDone, EnableFails
<1> QED BY <1>1, <1>2, <1>3, <1>4, <1>5, <1>6, <1>7, <1>8, <1>9, <1>10, ConnectKeeps
        DEF CallerCalls, CallerStep

(* The handler of a lost connection closes it while the lock is free. *)
LEMMA LossKeeps ==
    ASSUME IInv, Told, Installed, Watched, NEW p \in Handlers, ~overlap',
           HeartbeatFailed(p) \/ MonitorDetectsLoss(p) \/ HandlerStep(p)
    PROVE  Told' /\ Installed' /\ Watched'
<1>0. /\ TypeOK /\ LockDiscipline
      /\ pc \in [Procs -> PcValues] /\ mine \in [Procs -> Services \cup {None}]
      /\ link \in [Services -> {"gone", "opening", "open", "dead", "closing"}]
      /\ lock \in Procs \cup {None, "disposed"}
  BY DEF IInv, TypeOK
<1> USE DEF Told, Installed, Watched, Shut, Goto
<1>1. CASE HandleConnectionLost(p)
  <2>1. /\ pc[p] = "idle" /\ lock = None /\ lock' = lock /\ state' = "Disconnected"
        /\ BeginCleanup(p, "lostClean", "lostDecide")
    BY <1>1 DEF HandleConnectionLost
  <2>2. /\ \A s \in Services : link'[s] \notin {"open", "dead"}
        /\ pc' = [pc EXCEPT ![p] = "lostClean"] \/ pc' = [pc EXCEPT ![p] = "lostDecide"]
    BY <1>0, <2>1, BeginCleanupCloses
  <2>3. \A q \in Procs : pc[q] \notin Holding /\ pc'[q] \notin Holding
    BY <1>0, <2>1, <2>2 DEF LockDiscipline
  <2> QED BY <1>0, <2>1, <2>2, <2>3
<1>2. CASE LostCleaned(p)
  BY <1>0, <1>2 DEF LostCleaned, FinishCleanup, EndCleanup, CleanupThrows, LockDiscipline
<1>3. CASE LostBackoff(p)
  BY <1>0, <1>3 DEF LostBackoff
<1>4. CASE LostGivesUp(p)
  BY <1>0, <1>4 DEF LostGivesUp, LockDiscipline
<1>5. CASE BackoffCancelled(p)
  BY <1>0, <1>5 DEF BackoffCancelled
<1>6. CASE AutoReconnect(p)
  BY <1>0, <1>6 DEF AutoReconnect
<1> QED BY <1>1, <1>2, <1>3, <1>4, <1>5, <1>6, ConnectKeeps
        DEF HandlerStep, HeartbeatFailed, MonitorDetectsLoss

(* Every step keeps them. *)
LEMMA LeakStep ==
    IInv /\ PlacesTell /\ NoLeakUnlessOverlap /\ [Next]_vars => PlacesTell' /\ NoLeakUnlessOverlap'
<1> SUFFICES ASSUME IInv, PlacesTell, NoLeakUnlessOverlap, [Next]_vars, ~overlap'
             PROVE  Told' /\ Installed' /\ Watched'
  BY DEF PlacesTell, NoLeakUnlessOverlap, Told, Installed, Watched, Shut
<1>1. ~overlap
  BY OverlapStays DEF IInv
<1>2. Told /\ Installed /\ Watched
  BY <1>1 DEF PlacesTell, NoLeakUnlessOverlap, Told, Installed, Watched, Shut
<1>3. CASE MonitorChecks
  BY <1>2, <1>3 DEF MonitorChecks, Told, Installed, Watched, Shut
<1>4. ASSUME NEW s \in Services, LinkDies(s) PROVE Told' /\ Installed' /\ Watched'
  BY <1>2, <1>4 DEF LinkDies, Told, Installed, Watched, Shut, IInv, TypeOK
<1>5. CASE UNCHANGED vars
  BY <1>2, <1>5 DEF vars, Told, Installed, Watched, Shut
<1> QED BY <1>2, <1>3, <1>4, <1>5, CommandKeeps, LossKeeps DEF Next

(* EcuConnectionService: as long as no connect and no shutdown ran beside   *)
(* the unlocked cleanup of HandleConnectionLostAsync, every open channel is *)
(* the installed one and a Connected service is monitored - for any number  *)
(* of callers, handlers and services.                                       *)
THEOREM NoLeak == Spec => []NoLeakUnlessOverlap
<1>1. Init => PlacesTell /\ NoLeakUnlessOverlap
  BY DEF Init, PlacesTell, Told, NoLeakUnlessOverlap, Shut
<1> QED BY <1>1, InitIInv, Inductive, LeakStep, PTL DEF Spec
=============================================================================
