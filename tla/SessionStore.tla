----------------------------- MODULE SessionStore ------------------------------
(***************************************************************************)
(* The recorded sessions: the store (lib/monitor/SessionStore.ts), which   *)
(* keeps them in memory and in the local storage and mirrors every change  *)
(* to the host's disk without waiting for it, and the sessions page        *)
(* (pages/SessionsPage.svelte), which shows a copy of the store's list and *)
(* plays a session back.                                                   *)
(*                                                                         *)
(* The calls go through the queue of the bridge one at a time, so the host *)
(* executes them in the order of the calls; an answer is taken together    *)
(* with the execution.  A session is its name and whether its samples are  *)
(* there: a list of the host has summaries only.                           *)
(*                                                                         *)
(* The host keeps 200 files and 500 MB: a save removes the oldest before   *)
(* it writes, and a write whose file is refused is logged and answered     *)
(* like one that was done (SessionStorageService).  Which files go, and    *)
(* which cannot be removed, depends on sizes and times the model has not:  *)
(* any of them may.  SessionStore.clear, the only one to set the flag init *)
(* looks at first, has no caller in the application and is left out.       *)
(***************************************************************************)
EXTENDS Naturals, Sequences, FiniteSets, Functions

CONSTANTS SessionIds, SessionNames,
          Length,          \* the duration of each session, in steps of the playback
          MaxSessionCalls, \* bound: calls in the queue
          NoSession

VARIABLES memory,          \* #sessions of the store
          local,           \* the sessions of the local storage
          quota,           \* the local storage refuses to store (an environment variable)
          synced,          \* #initialized
          disk,            \* the sessions of the host
          sessionCalls,    \* the queue of the bridge
          page,            \* the sessions page
          doubtful         \* ids whose two copies the code may leave different (a history variable)

storeVars == <<memory, local, quota, synced, disk, sessionCalls, page, doubtful>>

ASSUME LengthAssumption == Length \in [SessionIds -> Nat \ {0}]

Session == [name : SessionNames, full : BOOLEAN]

Nothing == [i \in SessionIds |-> NoSession]

Ids(list) == {i \in SessionIds : list[i] # NoSession}

ClosedStore == [open |-> FALSE, visit |-> 0, list |-> Nothing, active |-> NoSession, at |-> 0,
           timer |-> 0, playing |-> FALSE]

\* A call and what it carries: the ids and the sessions of its payload.
Called(op, ids, payload) == [op |-> op, ids |-> ids, payload |-> payload, visit |-> page.visit]

StoreIsEmpty ==
  /\ memory = Nothing /\ local = Nothing /\ disk = Nothing
  /\ quota = FALSE /\ synced = FALSE
  /\ sessionCalls = <<>>
  /\ page = ClosedStore
  /\ doubtful = {}

\* The sessions of an earlier run: the local storage has them, and the host.
StoreIsStocked ==
  /\ memory = [i \in SessionIds |-> [name |-> CHOOSE n \in SessionNames : TRUE, full |-> TRUE]]
  /\ local = memory /\ disk = memory
  /\ quota = FALSE /\ synced = FALSE
  /\ sessionCalls = <<>>
  /\ page = ClosedStore
  /\ doubtful = {}

StoreInit == StoreIsEmpty \/ StoreIsStocked

Ask(op, ids, payload) == sessionCalls' = Append(sessionCalls, Called(op, ids, payload))

MayAsk == Len(sessionCalls) < MaxSessionCalls

\* Every change goes to the memory first; the local storage may refuse it, and
\* then the statements after it are not reached.
Keep(list) ==
  /\ memory' = list
  /\ local' = IF quota THEN local ELSE list

Doubt(ids) == doubtful' = doubtful \cup ids

Pending(ops) == UNION {sessionCalls[k].ids : k \in {k \in DOMAIN sessionCalls : sessionCalls[k].op \in ops}}

Listing == \E k \in DOMAIN sessionCalls : sessionCalls[k].op = "list"

------------------------------------------------------------------------------
(* The store.                                                               *)

QuotaExceeded ==
  /\ ~quota
  /\ quota' = TRUE
  /\ UNCHANGED <<memory, local, synced, disk, sessionCalls, page, doubtful>>

\* save, from the monitor page.
SaveRecording(id) ==
  /\ ~page.open /\ MayAsk
  /\ id \notin Ids(memory) \cup Ids(disk) \cup Pending({"save", "delete", "migrate", "import"})
  /\ \E name \in SessionNames :
       LET session == [name |-> name, full |-> TRUE]
       IN  /\ Keep([memory EXCEPT ![id] = session])
           /\ IF quota THEN UNCHANGED sessionCalls
              ELSE Ask("save", {id}, [Nothing EXCEPT ![id] = session])
  /\ Doubt(IF quota THEN {id} ELSE {})
  /\ UNCHANGED <<quota, synced, disk, page>>

\* A mutation: a name is changed in the memory and the local storage only.
RenameSessionHere(id, name) ==
  /\ page.open /\ id \in Ids(page.list) /\ MayAsk
  /\ LET renamed == IF id \in Ids(memory) THEN [memory EXCEPT ![id].name = name] ELSE memory
     IN  /\ Keep(renamed)
         /\ UNCHANGED sessionCalls
         /\ page' = IF quota THEN page
                    ELSE [page EXCEPT !.list = renamed]
  /\ UNCHANGED doubtful
  /\ UNCHANGED <<quota, synced, disk>>

\* renameSession.  A load that is still to come brings the name it finds, and
\* a session that a file brings again comes with the name of the file.
RenameSession(id, name) ==
  /\ page.open /\ id \in Ids(page.list) /\ MayAsk
  /\ LET renamed == IF id \in Ids(memory) THEN [memory EXCEPT ![id].name = name] ELSE memory
     IN  /\ Keep(renamed)
         /\ IF quota THEN UNCHANGED sessionCalls
            ELSE Ask("rename", {id}, [Nothing EXCEPT ![id] = [name |-> name, full |-> FALSE]])
         /\ page' = IF quota THEN page ELSE [page EXCEPT !.list = renamed]
  /\ Doubt(IF quota \/ id \in Pending({"load", "import", "export"}) THEN {id} ELSE {})
  /\ UNCHANGED <<quota, synced, disk>>

\* deleteSession: the playback of the session goes with it, its timer does not.
DeleteSession(id) ==
  /\ page.open /\ id \in Ids(page.list) /\ MayAsk
  /\ Keep([memory EXCEPT ![id] = NoSession])
  /\ IF quota THEN UNCHANGED <<sessionCalls, page>>
     ELSE /\ Ask("delete", {id}, Nothing)
          /\ page' = [page EXCEPT !.list = memory',
                                  !.active = IF @ = id THEN NoSession ELSE @,
                                  !.at = IF page.active = id THEN 0 ELSE @]
  /\ Doubt(IF quota \/ id \in Pending({"import"}) \/ Listing THEN {id} ELSE {})
  /\ UNCHANGED <<quota, synced, disk>>

\* The app ends: calls that were not executed are lost, and the memory.
AppRestarts ==
  /\ memory' = local /\ synced' = FALSE /\ sessionCalls' = <<>> /\ page' = ClosedStore
  /\ Doubt(UNION {sessionCalls[k].ids : k \in DOMAIN sessionCalls})
  /\ UNCHANGED <<local, quota, disk>>

------------------------------------------------------------------------------
(* The page.                                                                *)

\* The page is shown and init asks the host for its list, unless it did.
OpenSessions ==
  /\ ~page.open /\ MayAsk
  /\ page' = [ClosedStore EXCEPT !.open = TRUE, !.list = memory, !.visit = 1 - page.visit]
  /\ IF synced THEN UNCHANGED sessionCalls
     ELSE sessionCalls' = Append(sessionCalls, [Called("list", {}, Nothing) EXCEPT !.visit = 1 - page.visit])
  /\ UNCHANGED <<memory, local, quota, synced, disk, doubtful>>

LeaveSessions ==
  /\ page.open
  /\ page' = [ClosedStore EXCEPT !.visit = page.visit]
  /\ UNCHANGED <<memory, local, quota, synced, disk, sessionCalls, doubtful>>

\* A mutation: the timer of the session before goes on.
LoadedOverTimer(p, id) == [p EXCEPT !.active = id, !.at = Length[id], !.playing = FALSE]

\* loadSession: a session is shown at its end, and nothing plays.
LoadedInto(p, id) == [p EXCEPT !.active = id, !.at = Length[id], !.playing = FALSE, !.timer = 0]

\* A session without samples is loaded from the host first.
ClickSession(id) ==
  /\ page.open /\ id \in Ids(page.list)
  /\ IF page.list[id].full
     THEN /\ page' = LoadedInto(page, id)
          /\ UNCHANGED sessionCalls
     ELSE /\ MayAsk
          /\ Ask("load", {id}, Nothing)
          /\ UNCHANGED page
  /\ UNCHANGED <<memory, local, quota, synced, disk, doubtful>>

\* startPlayback keeps the duration of its session for the timer.
Play ==
  /\ page.open /\ ~page.playing /\ page.active # NoSession
  /\ page' = [page EXCEPT !.playing = TRUE, !.timer = Length[page.active]]
  /\ UNCHANGED <<memory, local, quota, synced, disk, sessionCalls, doubtful>>

StopPlaying ==
  /\ page.open /\ page.playing /\ page.active # NoSession
  /\ page' = [page EXCEPT !.playing = FALSE, !.timer = 0]
  /\ UNCHANGED <<memory, local, quota, synced, disk, sessionCalls, doubtful>>

PlaybackTick ==
  /\ page.timer > 0
  /\ page' = IF page.at + 1 >= page.timer
             THEN [page EXCEPT !.at = page.timer, !.playing = FALSE, !.timer = 0]
             ELSE [page EXCEPT !.at = @ + 1]
  /\ UNCHANGED <<memory, local, quota, synced, disk, sessionCalls, doubtful>>

Seek ==
  /\ page.active # NoSession
  /\ \E at \in 0..Length[page.active] : page' = [page EXCEPT !.at = at]
  /\ UNCHANGED <<memory, local, quota, synced, disk, sessionCalls, doubtful>>

CloseSession ==
  /\ page.active # NoSession
  /\ page' = [page EXCEPT !.active = NoSession, !.at = 0, !.playing = FALSE, !.timer = 0]
  /\ UNCHANGED <<memory, local, quota, synced, disk, sessionCalls, doubtful>>

\* exportToMes saves the session the page shows before the host packs it; a
\* summary goes without samples, or with the name it had.
ExportSession(id) ==
  /\ page.open /\ id \in Ids(page.list) /\ MayAsk
  /\ Ask("export", {id}, [Nothing EXCEPT ![id] = page.list[id]])
  /\ Doubt(IF page.list[id] # memory[id] \/ ~page.list[id].full THEN {id} ELSE {})
  /\ UNCHANGED <<memory, local, quota, synced, disk, page>>

\* importFromMes: the host saves what the file holds before it answers.
ImportSessions(ids) ==
  /\ page.open /\ MayAsk
  /\ \E name \in SessionNames :
       Ask("import", ids, [i \in SessionIds |-> IF i \in ids THEN [name |-> name, full |-> TRUE]
                                                ELSE NoSession])
  /\ Doubt(ids \cap Pending({"save", "load", "rename", "migrate", "import", "export"}))
  /\ UNCHANGED <<memory, local, quota, synced, disk, page>>

------------------------------------------------------------------------------
(* The host executes the first call, and its answer is taken.               *)

FirstCall == sessionCalls[1]
Dequeued == Tail(sessionCalls)

Mine == page.open /\ page.visit = FirstCall.visit

Overwritten(list, payload) == [i \in SessionIds |-> IF payload[i] = NoSession THEN list[i] ELSE payload[i]]

Saving == {"save", "migrate", "export", "import"}

Without(list, ids) == [i \in SessionIds |-> IF i \in ids THEN NoSession ELSE list[i]]

\* What a call leaves on the disk: a save makes room first (gone), and the files
\* of some ids are not written (lost).
OnDisk(call, gone, lost) ==
  CASE call.op \in Saving -> Overwritten(Without(disk, gone), Without(call.payload, lost))
    [] call.op = "rename" ->
         [i \in SessionIds |-> IF i \in call.ids \ lost /\ disk[i] # NoSession
                               THEN [disk[i] EXCEPT !.name = call.payload[i].name] ELSE disk[i]]
    [] call.op = "delete" -> Without(disk, call.ids \ lost)

\* The host executes a call that writes, and answers that it did.
StoreExecuted(call, others) ==
  \E lost \in SUBSET call.ids, gone \in SUBSET (IF call.op \in Saving THEN Ids(disk) ELSE {}) :
    /\ disk' = OnDisk(call, gone, lost)
    /\ Doubt(lost \cup (gone \ call.ids) \cup others)

\* The list: an empty host gets every session, an empty store their summaries.
SessionsListed ==
  /\ FirstCall.op = "list"
  /\ LET summaries == [i \in SessionIds |-> IF disk[i] = NoSession THEN NoSession
                                            ELSE [disk[i] EXCEPT !.full = FALSE]]
         migrates == Ids(disk) = {} /\ Ids(memory) # {}
         fills == Ids(disk) # {} /\ Ids(memory) = {}
     IN  /\ IF fills THEN Keep(summaries) ELSE UNCHANGED <<memory, local>>
         /\ sessionCalls' = IF migrates
                            THEN Append(Dequeued, [Called("migrate", Ids(memory), memory)
                                                     EXCEPT !.visit = FirstCall.visit])
                            ELSE Dequeued
         /\ synced' = (synced \/ (~migrates /\ ~(fills /\ quota)))
         /\ page' = IF Mine /\ ~migrates THEN [page EXCEPT !.list = memory'] ELSE page
         /\ Doubt(IF migrates THEN Ids(memory)
                  ELSE IF ~fills THEN {i \in Ids(memory) : disk[i] = NoSession \/ disk[i].name # memory[i].name}
                  ELSE {})
  /\ UNCHANGED <<quota, disk>>

\* A list that failed is asked again by the next init.
ListFails ==
  /\ FirstCall.op \in {"list", "migrate"}
  /\ sessionCalls' = Dequeued
  /\ page' = IF Mine THEN [page EXCEPT !.list = memory] ELSE page
  /\ Doubt(FirstCall.ids)
  /\ UNCHANGED <<memory, local, quota, synced, disk>>

MigrateAnswered ==
  /\ FirstCall.op = "migrate"
  /\ StoreExecuted(FirstCall, {}) /\ synced' = TRUE /\ sessionCalls' = Dequeued
  /\ page' = IF Mine THEN [page EXCEPT !.list = memory] ELSE page
  /\ UNCHANGED <<memory, local, quota>>

\* save, rename, delete and the save before an export change the host only.
WriteAnswered ==
  /\ FirstCall.op \in {"save", "rename", "delete", "export"}
  /\ StoreExecuted(FirstCall, {}) /\ sessionCalls' = Dequeued
  /\ UNCHANGED <<memory, local, quota, synced, page>>

\* A failure of theirs is swallowed.
WriteFails ==
  /\ FirstCall.op \in {"save", "rename", "delete", "export", "load", "import"}
  /\ sessionCalls' = Dequeued
  /\ Doubt(IF FirstCall.op = "load" THEN {} ELSE FirstCall.ids)
  /\ UNCHANGED <<memory, local, quota, synced, disk, page>>

\* loadFullSession: the store gets the host's session if it still has one, the
\* page shows it, last click or not.
LoadAnswered ==
  /\ FirstCall.op = "load"
  /\ \E id \in FirstCall.ids :
       IF disk[id] = NoSession THEN UNCHANGED <<memory, local, page>>
       ELSE /\ Keep(IF id \in Ids(memory) THEN [memory EXCEPT ![id] = disk[id]] ELSE memory)
            /\ page' = IF Mine /\ ~quota THEN LoadedInto(page, id) ELSE page
  /\ sessionCalls' = Dequeued
  /\ UNCHANGED <<quota, synced, disk, doubtful>>

\* The store adds the sessions it does not have; of those it has, the host
\* now keeps the file's.
ImportAnswered ==
  /\ FirstCall.op = "import"
  /\ StoreExecuted(FirstCall, FirstCall.ids \cap Ids(memory)) /\ sessionCalls' = Dequeued
  /\ LET grown == [i \in SessionIds |-> IF memory[i] = NoSession THEN FirstCall.payload[i] ELSE memory[i]]
     IN  /\ Keep(grown)
         /\ page' = IF Mine /\ ~quota THEN [page EXCEPT !.list = grown] ELSE page
  /\ UNCHANGED <<quota, synced>>

CallAnswered ==
  /\ sessionCalls # <<>>
  /\ \/ SessionsListed \/ ListFails \/ MigrateAnswered \/ WriteAnswered \/ WriteFails
     \/ LoadAnswered \/ ImportAnswered

StoreUser ==
  \/ OpenSessions \/ LeaveSessions \/ Play \/ StopPlaying \/ Seek \/ CloseSession
  \/ \E id \in SessionIds :
       \/ SaveRecording(id) \/ DeleteSession(id) \/ ClickSession(id) \/ ExportSession(id)
       \/ \E name \in SessionNames : RenameSession(id, name)
  \/ \E ids \in SUBSET SessionIds \ {{}} : ImportSessions(ids)

StoreMoves == QuotaExceeded \/ AppRestarts \/ PlaybackTick \/ CallAnswered

------------------------------------------------------------------------------
(* Properties.                                                              *)

Lists == [SessionIds -> Session \cup {NoSession}]

\* The shape of the variables.
StoreTypeOK ==
  /\ memory \in Lists /\ local \in Lists /\ disk \in Lists /\ page.list \in Lists
  /\ \A k \in DOMAIN sessionCalls : sessionCalls[k].ids \subseteq SessionIds
  /\ page.active \in SessionIds \cup {NoSession}
  /\ doubtful \subseteq SessionIds

\* What the store has in memory a restart finds in the local storage, as long
\* as that storage takes what it is given.
LocalIsMemory == ~quota => local = memory

\* "Write-through": when the queue is empty the host has every session of the
\* store under the same name, apart from those that a refused write, a restart,
\* two overlapping operations or the room the host makes have left different.
HostHasSessions ==
  sessionCalls = <<>> =>
    \A i \in Ids(memory) \ doubtful : disk[i] # NoSession /\ disk[i].name = memory[i].name

\* The position is never beyond the session that is shown: the timer of another
\* session, of which the page remembers the duration, must not go on.
PositionInside == page.active # NoSession => page.at <= Length[page.active]

SessionsAgree == LocalIsMemory /\ HostHasSessions /\ PositionInside

\* "Ensure session exists on C# disk before exporting": the save before an export
\* takes no samples from the file the host has of that session.  The code breaks it: a
\* session the page shows as a summary is saved as that summary.
ExportKeepsSamples ==
  [][ \A i \in SessionIds :
        /\ sessionCalls # <<>> /\ FirstCall.op = "export" /\ i \in FirstCall.ids
        /\ disk[i] # NoSession /\ disk[i].full /\ disk'[i] # NoSession
        => disk'[i].full ]_storeVars
================================================================================
