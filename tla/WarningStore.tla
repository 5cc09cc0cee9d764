----------------------------- MODULE WarningStore -----------------------------
(***************************************************************************)
(* The warning store of the front end (lib/stores/warningStore.svelte.ts): *)
(* a listener of the evaluator (WarningSource) that keeps the warnings     *)
(* shown by the panel and the gauges, and the history of the activations   *)
(* of levels with autolog, which it saves to a file through the bridge.    *)
(*                                                                         *)
(* Its hazards: an entry is opened at one event and closed at another one, *)
(* the save runs behind a timer and two awaits while events go on, a save  *)
(* may fail, and the history is loaded and reset by the shell.             *)
(***************************************************************************)
EXTENDS WarningSource, FiniteSets

CONSTANTS MaxHistory,   \* MAX_HISTORY: entries the history keeps
          MaxEntries,   \* bound: entries opened in a run
          Stored        \* the entries in the file at the start

EntrySeq == Seq([id : Nat, link : Datalinks, cleared : BOOLEAN])

\* "No level" is no level, and the ids in the file are distinct.
ASSUME StoreAssumption ==
  /\ None \notin Levels
  /\ IsFiniteSet(Datalinks)
  /\ MaxHistory \in Nat
  /\ Stored \in EntrySeq
  /\ \A i, j \in DOMAIN Stored : Stored[i].id = Stored[j].id => i = j

VARIABLES shown,        \* activeWarnings: the level shown for a data link, or None
          history,      \* warningHistory, newest entry first
          counter,      \* historyCounter: the id given last
          open,         \* openEntryByDataId: id and level of the open entry, or None
          timer,        \* saveTimer is running
          pendingSave,  \* the snapshot of a failed save, or None
          saving,       \* the save under way: its kind and the snapshot sent, or None
          file,         \* the history file behind the bridge
          loaded,       \* loaded
          mounted,      \* the one call of loadHistory, by the mount, has returned
          forgot        \* the file was not read, or the history was reset, since
                        \* it was last loaded (a history variable)

storeVars == <<shown, history, counter, open, timer, pendingSave, saving, file,
               loaded, mounted, forgot>>

Entry(id, d) == [id |-> id, link |-> d, cleared |-> FALSE]

StoreInit ==
  /\ shown = [d \in Datalinks |-> None]
  /\ history = <<>>
  /\ counter = 0
  /\ open = [d \in Datalinks |-> None]
  /\ timer = FALSE
  /\ pendingSave = None
  /\ saving = None
  /\ file = Stored
  /\ loaded = FALSE
  /\ mounted = FALSE
  /\ forgot = TRUE

------------------------------------------------------------------------------
(* The reactions to one event, as functions of the records they change.     *)

StoreState == [shown |-> shown, history |-> history, counter |-> counter, open |-> open]

\* closeOpenEntry: the entry is closed in place.
Close(s, d) ==
  IF s.open[d] = None THEN s
  ELSE [s EXCEPT !.open[d] = None,
                 !.history = [i \in DOMAIN @ |->
                    IF @[i].id = s.open[d].id THEN [@[i] EXCEPT !.cleared = TRUE] ELSE @[i]]]

\* A mutation: the cap leaves one entry less.
OpenOneLess(s, d, level) ==
  IF s.open[d] # None THEN s
  ELSE LET id == s.counter + 1
           all == <<Entry(id, d)>> \o s.history
       IN  [s EXCEPT !.counter = id,
                     !.history = SubSeq(all, 1, IF Len(all) < MaxHistory THEN Len(all) ELSE MaxHistory - 1),
                     !.open[d] = [id |-> id, level |-> level]]

\* openSnapshot: a new entry in front, the oldest ones cut off.
Open(s, d, level) ==
  IF s.open[d] # None THEN s
  ELSE LET id == s.counter + 1
           all == <<Entry(id, d)>> \o s.history
       IN  [s EXCEPT !.counter = id,
                     !.history = SubSeq(all, 1, IF Len(all) < MaxHistory THEN Len(all) ELSE MaxHistory),
                     !.open[d] = [id |-> id, level |-> level]]

\* onActivation: an activation into another level closes the open entry; only
\* one made by a frame, into a level with autolog, opens a new one.
OnActivation(s, e, autolog) ==
  LET upserted == [s EXCEPT !.shown[e.link] = e.level]
      closed == IF s.open[e.link] # None /\ s.open[e.link].level # e.level
                  THEN Close(upserted, e.link) ELSE upserted
  IN  IF ~e.recompute /\ autolog THEN Open(closed, e.link, e.level) ELSE closed

\* A mutation: a drop to a lower level leaves the entry open.
OnDropKeeps(s, e, autolog) ==
  LET closed == [(IF e.level = None THEN Close(s, e.link) ELSE s) EXCEPT !.shown[e.link] = e.level]
  IN  IF e.level # None /\ autolog THEN Open(closed, e.link, e.level) ELSE closed

\* onDrop: the entry is closed, and the level dropped to may open its own.
OnDrop(s, e, autolog) ==
  LET closed == [Close(s, e.link) EXCEPT !.shown[e.link] = e.level]
  IN  IF e.level # None /\ autolog THEN Open(closed, e.link, e.level) ELSE closed

StoreAfter(e, autolog) ==
  IF e.type = "activation" THEN OnActivation(StoreState, e, autolog)
  ELSE OnDrop(StoreState, e, autolog)

Becomes(s) ==
  /\ s.counter <= MaxEntries
  /\ shown' = s.shown
  /\ history' = s.history
  /\ counter' = s.counter
  /\ open' = s.open
  /\ timer' = TRUE
  /\ UNCHANGED <<pendingSave, saving, file, loaded, mounted, forgot>>

\* handleEvents, then scheduleSave.  Only an event that may open an entry looks
\* whether the level has autolog.
StoreReacts(e) ==
  \E autolog \in BOOLEAN :
    /\ autolog => IF e.type = "drop" THEN e.level # None ELSE ~e.recompute
    /\ Becomes(StoreAfter(e, autolog))

------------------------------------------------------------------------------
(* The operations of the panel and of the shell.                            *)

\* snapshotToggle: autolog was switched on for the level that is active.
SnapshotToggle(d, level) ==
  /\ shown[d] = level
  /\ level # None
  /\ open[d] = None
  /\ Becomes(Open(StoreState, d, level))

ClearWarning(d) ==
  /\ shown[d] # None
  /\ Becomes([Close(StoreState, d) EXCEPT !.shown[d] = None])

\* The open entries of the links are closed, and the links shown without level.
Cleared(s, links) ==
  LET ids == {s.open[d].id : d \in {x \in links : s.open[x] # None}}
  IN  [s EXCEPT !.open = [d \in Datalinks |-> IF d \in links THEN None ELSE @[d]],
                !.shown = [d \in Datalinks |-> IF d \in links THEN None ELSE @[d]],
                !.history = [i \in DOMAIN @ |->
                   IF @[i].id \in ids THEN [@[i] EXCEPT !.cleared = TRUE] ELSE @[i]]]

\* clearAllWarnings closes the entries of the shown warnings.
ClearAllWarnings ==
  LET links == {d \in Datalinks : shown[d] # None}
  IN  /\ links # {}
      /\ Becomes(Cleared(StoreState, links))

Ids(entries) == {entries[i].id : i \in DOMAIN entries}

MaxId(entries) == CHOOSE id \in Ids(entries) : \A other \in Ids(entries) : other <= id

\* loadHistory: the file replaces the history, unless the read fails.  The
\* mount calls it before it asks for the warning settings, and the bridge
\* answers in order, so that no level is active before it has returned.
LoadHistory ==
  /\ ~mounted
  /\ ~loaded
  /\ mounted' = TRUE
  /\ loaded' = TRUE
  /\ \/ /\ history' = file
        /\ counter' = IF file = <<>> THEN counter ELSE MaxId(file)
        /\ forgot' = FALSE
     \/ UNCHANGED <<history, counter, forgot>>
  /\ UNCHANGED <<shown, open, timer, pendingSave, saving, file>>

\* reset, from the disconnect of the user; the history is empty from here on,
\* for the mount is over and nothing loads it again.
StoreReset ==
  /\ mounted
  /\ loaded' = FALSE
  /\ timer' = FALSE
  /\ shown' = [d \in Datalinks |-> None]
  /\ history' = <<>>
  /\ open' = [d \in Datalinks |-> None]
  /\ pendingSave' = None
  /\ forgot' = TRUE
  /\ UNCHANGED <<counter, saving, file, mounted>>

------------------------------------------------------------------------------
(* persistHistory: the timer has run out.  A snapshot kept from a failed    *)
(* save is written first; the second write sends what the history has       *)
(* become.  The bridge runs one call at a time, so a save that finds another*)
(* one under way waits in its queue: here it starts when that one is over.  *)

SaveTimerFires ==
  /\ timer
  /\ saving = None
  /\ timer' = FALSE
  /\ saving' = IF pendingSave # None THEN [kind |-> "pending", sent |-> pendingSave]
               ELSE [kind |-> "current", sent |-> history]
  /\ UNCHANGED <<shown, history, counter, open, pendingSave, file, loaded, mounted, forgot>>

\* The bridge has answered: with success, or with a refusal, which the store
\* does not look at.
SaveReturns ==
  /\ saving # None
  /\ file' \in {saving.sent, file}
  /\ IF saving.kind = "pending"
       THEN /\ pendingSave' = None
            /\ saving' = [kind |-> "current", sent |-> history]
       ELSE /\ saving' = None
            /\ UNCHANGED pendingSave
  /\ UNCHANGED <<shown, history, counter, open, timer, loaded, mounted, forgot>>

\* The bridge has thrown: the history as it is now is kept for the next save.
SaveFails ==
  /\ saving # None
  /\ saving' = None
  /\ pendingSave' = IF pendingSave = None THEN history ELSE pendingSave
  /\ UNCHANGED <<shown, history, counter, open, timer, file, loaded, mounted, forgot>>

StoreOperation ==
  \/ \E d \in Datalinks, level \in Levels : SnapshotToggle(d, level)
  \/ \E d \in Datalinks : ClearWarning(d)
  \/ ClearAllWarnings
  \/ LoadHistory
  \/ SaveTimerFires
  \/ SaveReturns
  \/ SaveFails

\* The connection was lost or a calibration was loaded: the drops of every
\* active level reach the store.
StoreSeesReset ==
  LET links == {d \in Datalinks : active[d] # None}
  IN  /\ mounted
      /\ Publish(DropsOfAll)
      /\ IF links = {} THEN UNCHANGED storeVars ELSE Becomes(Cleared(StoreState, links))

\* performDisconnect: the host reports the loss before it answers, so that the
\* evaluator has been reset.
UserDisconnect ==
  /\ \A d \in Datalinks : active[d] = None
  /\ StoreReset
  /\ UNCHANGED sourceVars

StoreSeesEvent ==
  /\ mounted
  /\ \E e \in Possible : Publish(<<e>>) /\ StoreReacts(e)

StoreNext ==
  \/ StoreSeesEvent
  \/ StoreSeesReset
  \/ UserDisconnect
  \/ StoreOperation /\ UNCHANGED sourceVars

StoreSpec == Init /\ StoreInit /\ [][StoreNext]_<<sourceVars, storeVars>>

------------------------------------------------------------------------------
(* Properties.                                                              *)

StoreTypeOK ==
  /\ history \in EntrySeq
  /\ file \in EntrySeq
  /\ counter \in Nat
  /\ timer \in BOOLEAN
  /\ loaded \in BOOLEAN
  /\ mounted \in BOOLEAN
  /\ pendingSave = None \/ pendingSave \in EntrySeq
  /\ saving = None \/ (saving.kind \in {"pending", "current"} /\ saving.sent \in EntrySeq)

\* An entry is open only while the level it was opened for is the one the
\* evaluator has active and the panel shows.
OpenEntryIsOngoing ==
  \A d \in Datalinks : open[d] # None =>
    /\ shown[d] = active[d]
    /\ open[d].level = active[d]

\* The panel shows the active level, or none after the user has cleared it.
PanelAgrees == \A d \in Datalinks : shown[d] \in {active[d], None}

\* Entries keep distinct ids, and the open one that is still listed is not
\* closed: closing by id hits the entry that was opened.
IdsNameEntries ==
  /\ \A i, j \in DOMAIN history : history[i].id = history[j].id => i = j
  /\ \A d \in Datalinks, i \in DOMAIN history :
       open[d] # None /\ history[i].id = open[d].id =>
         history[i].link = d /\ ~history[i].cleared

\* No sequence of activations, drops, recomputes, toggles, clears, loads and
\* resets leaves the panel on a level that has passed, an entry that waits for
\* an end that has passed, or an id that closes another warning's entry.
StoreAgrees == OpenEntryIsOngoing /\ PanelAgrees /\ IdsNameEntries

\* What the file holds is lost only to the cap: unless the history was reset or
\* never read, a save keeps every entry of the file that the cap leaves room
\* for, and one that the file has as closed is not opened again by a later
\* save, whatever became of the saves in between.
SavesKeepTheFile ==
  [][(file' # file /\ ~forgot) =>
       /\ Ids(file) \subseteq Ids(file') \/ Len(file') = MaxHistory
       /\ \A i \in DOMAIN file, j \in DOMAIN file' :
            (file[i].id = file'[j].id /\ file[i].cleared) => file'[j].cleared]_storeVars
==============================================================================
