---------------------------- MODULE DashboardLayout ----------------------------
(***************************************************************************)
(* Where the gauges and the tables of a dashboard are: dragging, the two   *)
(* settings dialogs and the popup that adds a gauge on the dashboard page  *)
(* (pages/DashboardPage.svelte), the gauge builder                         *)
(* (pages/GaugeBuilderPage.svelte), and what SaveDashboardLayout of the    *)
(* host makes of a payload.  In a companion session the layout is the      *)
(* session's: nothing is written.                                          *)
(*                                                                         *)
(* A part is a gauge or a table.  A ring shows the gauges it links instead *)
(* of them.  One pointer is assumed.                                       *)
(***************************************************************************)
EXTENDS Naturals, Sequences, SequencesExt, FiniteSets, Functions

CONSTANTS LayoutGauges, LayoutTables,
          Spots,            \* where a part can be; NewSpot is where a new one goes
          NewSpot,
          NoLimit, Limit,   \* the chart range of a gauge: automatic, or set
          NoPart,
          MaxBuilt,         \* bound: gauges in the builder
          MaxLayoutCalls    \* bound: calls in the queue

ASSUME LayoutAssumption == NewSpot \in Spots /\ NoLimit # Limit

VARIABLES layoutHost,   \* the saved dashboard
          layoutCalls,  \* the calls of the pages in the queue of the bridge
          board,        \* the dashboard page
          builder,      \* the builder page
          dashSession,  \* a companion session: its snapshot applied, its layout unlocked
          unsaved,      \* a history: parts edited since the last save was sent
          astray        \* a history: the last save failed, or one of the builder came after it
                        \* was left, and the page has not loaded the dashboard since

layoutVars == <<layoutHost, layoutCalls, board, builder, dashSession, unsaved, astray>>

Parts == LayoutGauges \cup LayoutTables
Shapes == {"arc", "ring"}
Laid == [at : Spots, shape : Shapes, limit : {NoLimit, Limit}, links : SUBSET LayoutGauges]

NewPart == [at |-> NewSpot, shape |-> "arc", limit |-> NoLimit, links |-> {}]

Only(items, parts) == Restrict(items, DOMAIN items \cap parts)

Put(items, more) ==
  [p \in DOMAIN items \cup DOMAIN more |-> IF p \in DOMAIN more THEN more[p] ELSE items[p]]

NoItems == [p \in {} |-> NewPart]

\* The gauges that a ring shows.
Absorbed(items) ==
  UNION {items[g].links : g \in {r \in DOMAIN items : items[r].shape = "ring"}}

\* loadRealConfig leaves those out.
Drawn(items) ==
  Only(items, {p \in DOMAIN items : items[p].shape = "ring" \/ p \notin Absorbed(items)})

OffBoard ==
  [on |-> FALSE, mirror |-> FALSE, visit |-> 0, loaded |-> FALSE, error |-> FALSE, items |-> NoItems,
   locked |-> FALSE, held |-> NoPart, dragging |-> FALSE, settings |-> NoPart, copy |-> NewPart,
   popup |-> FALSE, dirty |-> FALSE, timer |-> FALSE]

OffBuilder ==
  [on |-> FALSE, visit |-> 0, loading |-> FALSE, built |-> <<>>, next |-> 1, editing |-> 0,
   sheet |-> "none", review |-> FALSE]

LayoutInit ==
  /\ \E parts \in SUBSET Parts, r \in {NoPart} \cup LayoutGauges, links \in SUBSET LayoutGauges,
        spot \in Spots \ {NewSpot} :
       LET part == [NewPart EXCEPT !.at = spot]
       IN  /\ r = NoPart => links = {}
           /\ layoutHost = [items |-> [p \in parts |-> IF p = r
                                         THEN [part EXCEPT !.shape = "ring", !.links = links]
                                         ELSE part],
                            locked |-> FALSE]
  /\ layoutCalls = <<>>
  /\ board = OffBoard
  /\ builder = OffBuilder
  /\ dashSession = [applied |-> FALSE, editing |-> FALSE]
  /\ unsaved = {}
  /\ astray = FALSE

LayoutCall(op, visit, items, mirror) == [op |-> op, visit |-> visit, items |-> items, mirror |-> mirror]

CallRoom(n) == Len(layoutCalls) + n <= MaxLayoutCalls

------------------------------------------------------------------------------
(* The dashboard page: mounting, loading, leaving.                          *)

LoadCall(b) == LayoutCall("load", b.visit, NoItems, b.mirror)

\* In a companion session whose snapshot is applied both the effect and onMount
\* load; before it is, neither does.
MountBoard(mirror) ==
  /\ ~board.on /\ ~builder.on
  /\ LET b == [OffBoard EXCEPT !.on = TRUE, !.mirror = mirror, !.visit = board.visit + 1,
                               !.locked = mirror /\ ~dashSession.editing]
         loads == IF ~mirror THEN <<LoadCall(b)>>
                  ELSE IF dashSession.applied THEN <<LoadCall(b), LoadCall(b)>> ELSE <<>>
     IN  /\ CallRoom(Len(loads))
         /\ board' = b
         /\ layoutCalls' = layoutCalls \o loads
  /\ UNCHANGED <<layoutHost, builder, dashSession, unsaved, astray>>

\* The snapshot of the host is applied: a page that waits for it loads.
SnapshotApplies ==
  /\ ~dashSession.applied
  /\ dashSession' = [dashSession EXCEPT !.applied = TRUE]
  /\ IF board.on /\ board.mirror /\ ~board.loaded /\ ~board.error
       THEN CallRoom(1) /\ layoutCalls' = Append(layoutCalls, LoadCall(board))
       ELSE UNCHANGED layoutCalls
  /\ UNCHANGED <<layoutHost, board, builder, unsaved, astray>>

\* Retry leaves the error where it is: the page shows it whatever is loaded.
RetryBoard ==
  /\ board.on /\ board.error
  /\ board.mirror => dashSession.applied
  /\ CallRoom(1)
  /\ layoutCalls' = Append(layoutCalls, LoadCall(board))
  /\ UNCHANGED <<layoutHost, board, builder, dashSession, unsaved, astray>>

\* persistLayout: a payload of everything on the page, unless nothing was
\* marked, or the layout is a companion's.
PersistLayout(b) ==
  IF b.dirty /\ ~b.mirror
    THEN /\ CallRoom(1)
         /\ layoutCalls' = Append(layoutCalls, LayoutCall("save", b.visit, b.items, b.mirror))
         /\ unsaved' = {}
    ELSE UNCHANGED <<layoutCalls, unsaved>>


\* onDestroy.
LeaveBoard ==
  /\ board.on
  /\ PersistLayout(board)
  /\ board' = [OffBoard EXCEPT !.visit = board.visit]
  /\ UNCHANGED <<layoutHost, builder, dashSession, astray>>

------------------------------------------------------------------------------
(* The dashboard page: edits.                                               *)

\* What the page shows is its parts, not the error or the spinner.
OnBoard == board.on /\ board.loaded /\ ~board.error /\ board.items # NoItems

Uncovered == OnBoard /\ board.settings = NoPart

BoardOnly(b) ==
  /\ board' = b
  /\ UNCHANGED <<layoutHost, builder, dashSession, astray>>

\* An edit that is saved at once.
EditedNow(b, part) ==
  /\ PersistLayout([b EXCEPT !.dirty = TRUE])
  /\ BoardOnly([b EXCEPT !.dirty = FALSE])

\* schedulePersist: an edit that is saved when the timer fires.
EditedLater(b, part) ==
  /\ BoardOnly([b EXCEPT !.dirty = TRUE, !.timer = TRUE])
  /\ unsaved' = IF b.mirror THEN unsaved ELSE unsaved \cup {part}
  /\ UNCHANGED layoutCalls

PersistTimer ==
  /\ board.on /\ board.timer
  /\ PersistLayout(board)
  /\ BoardOnly([board EXCEPT !.timer = FALSE, !.dirty = FALSE])

\* handlePointerDown and handleTablePointerDown.
PointerDown(p) ==
  /\ Uncovered /\ ~board.locked
  /\ board.held = NoPart
  /\ p \in DOMAIN board.items
  /\ BoardOnly([board EXCEPT !.held = p, !.popup = FALSE])
  /\ UNCHANGED <<layoutCalls, unsaved>>

\* handlePointerMove: past the threshold the part is dragged.
PointerMove ==
  /\ OnBoard
  /\ board.held # NoPart /\ ~board.dragging
  /\ BoardOnly([board EXCEPT !.dragging = board.held \in DOMAIN board.items])
  /\ UNCHANGED <<layoutCalls, unsaved>>

PointerUp(spot) ==
  /\ OnBoard
  /\ board.held # NoPart
  /\ LET up == [board EXCEPT !.held = NoPart, !.dragging = FALSE]
     IN  IF board.dragging /\ board.held \in DOMAIN board.items
           THEN EditedNow([up EXCEPT !.items[board.held].at = spot], board.held)
           ELSE BoardOnly(up) /\ UNCHANGED <<layoutCalls, unsaved>>

\* handleContextMenu, of gauges and tables: the dialog has a copy.  A long press
\* opens it with the pointer still down.
OpenGaugeSettings(p) ==
  /\ Uncovered /\ ~board.dragging
  /\ p \in DOMAIN board.items
  /\ BoardOnly([board EXCEPT !.settings = p, !.copy = board.items[p], !.popup = FALSE])
  /\ UNCHANGED <<layoutCalls, unsaved>>

\* Each control of the dialog hands over the whole copy.
ChangeSettings(entry) ==
  /\ board.on
  /\ board.settings # NoPart
  /\ entry # board.copy
  /\ EditedLater([board EXCEPT !.copy = entry,
                               !.items = IF board.settings \in DOMAIN @
                                         THEN [@ EXCEPT ![board.settings] = entry] ELSE @],
                 board.settings)

\* setCategory and the chart range of a gauge; the place of a table.
GaugeSettings ==
  /\ board.settings \in LayoutGauges
  /\ \/ \E shape \in Shapes : ChangeSettings([board.copy EXCEPT !.shape = shape])
     \/ \E limit \in {NoLimit, Limit} : ChangeSettings([board.copy EXCEPT !.limit = limit])

TableSettings ==
  /\ board.settings \in LayoutTables
  /\ \E spot \in Spots : ChangeSettings([board.copy EXCEPT !.at = spot])

CloseSettings ==
  /\ board.settings # NoPart
  /\ BoardOnly([board EXCEPT !.settings = NoPart])
  /\ UNCHANGED <<layoutCalls, unsaved>>

\* handleContainerContextMenu, and AddGaugePopup's close.
TogglePopup ==
  /\ Uncovered
  /\ BoardOnly([board EXCEPT !.popup = ~@])
  /\ UNCHANGED <<layoutCalls, unsaved>>

\* handleAddGauge: any sensor that no gauge of the page shows.
AddOnBoard(g) ==
  /\ Uncovered /\ board.popup
  /\ g \notin DOMAIN board.items
  /\ EditedNow([board EXCEPT !.items = Put(@, [x \in {g} |-> NewPart]), !.popup = FALSE], g)

\* The lock: the host is told, or the session.
ToggleLock ==
  /\ Uncovered
  /\ board' = [board EXCEPT !.locked = ~@]
  /\ IF board.mirror
       THEN dashSession' = [dashSession EXCEPT !.editing = board.locked] /\ UNCHANGED layoutCalls
       ELSE /\ CallRoom(1)
            /\ layoutCalls' = Append(layoutCalls,
                 LayoutCall(IF board.locked THEN "unlock" ELSE "lock", board.visit, NoItems, FALSE))
            /\ UNCHANGED dashSession
  /\ UNCHANGED <<layoutHost, builder, unsaved, astray>>

------------------------------------------------------------------------------
(* The builder.                                                             *)

OnBuilder == builder.on /\ ~builder.loading

BuilderOnly(b) ==
  /\ builder' = b
  /\ UNCHANGED <<layoutHost, layoutCalls, board, dashSession, unsaved, astray>>

BuilderCalls(op, items) ==
  /\ CallRoom(1)
  /\ layoutCalls' = Append(layoutCalls, LayoutCall(op, builder'.visit, items, FALSE))
  /\ UNCHANGED <<layoutHost, board, dashSession, unsaved, astray>>

MountBuilder ==
  /\ ~board.on /\ ~builder.on
  /\ builder' = [OffBuilder EXCEPT !.on = TRUE, !.visit = builder.visit + 1, !.loading = TRUE]
  /\ BuilderCalls("sensors", NoItems)

LeaveBuilder ==
  /\ builder.on
  /\ BuilderOnly([OffBuilder EXCEPT !.visit = builder.visit])

\* An existing gauge as the builder has it.
Imported(items) ==
  LET gauges == SetToSeq(DOMAIN Drawn(Only(items, LayoutGauges)))
  IN  [i \in DOMAIN gauges |-> [uid |-> i, shape |-> items[gauges[i]].shape,
                                primary |-> gauges[i], links |-> items[gauges[i]].links]]

BuiltLayout(uid) == SelectSeq(builder.built, LAMBDA g : g.uid = uid)

Edited == IF BuiltLayout(builder.editing) = <<>> THEN {} ELSE {Head(BuiltLayout(builder.editing))}

Rebuilt(new) ==
  [i \in DOMAIN builder.built |-> IF builder.built[i].uid = new.uid THEN new ELSE builder.built[i]]

BuildGauge(shape) ==
  /\ OnBuilder /\ ~builder.review /\ builder.sheet = "type"
  /\ Len(builder.built) < MaxBuilt
  /\ BuilderOnly([builder EXCEPT
        !.built = Append(@, [uid |-> builder.next, shape |-> shape, primary |-> NoPart, links |-> {}]),
        !.editing = builder.next, !.next = @ + 1, !.sheet = "entity"])

RemoveBuilt(uid) ==
  /\ OnBuilder /\ ~builder.review
  /\ \/ builder.sheet = "none"
     \/ builder.sheet = "props" /\ uid = builder.editing
  /\ BuiltLayout(uid) # <<>>
  /\ BuilderOnly([builder EXCEPT !.built = SelectSeq(@, LAMBDA g : g.uid # uid),
                                 !.editing = IF @ = uid THEN 0 ELSE @, !.sheet = "none"])

Sheet(sheet, uid) == BuilderOnly([builder EXCEPT !.sheet = sheet, !.editing = uid])

OpenTypes ==
  /\ OnBuilder /\ ~builder.review /\ builder.sheet = "none"
  /\ Sheet("type", builder.editing)

OpenProps(uid) ==
  /\ OnBuilder /\ ~builder.review /\ builder.sheet = "none"
  /\ BuiltLayout(uid) # <<>>
  /\ Sheet("props", uid)

\* From the sheet of a gauge, or from the row below a ring.
OpenEntities(uid) ==
  /\ OnBuilder
  /\ \/ builder.sheet = "props" /\ uid = builder.editing
     \/ /\ builder.sheet = "none" /\ ~builder.review
        /\ BuiltLayout(uid) # <<>> /\ Head(BuiltLayout(uid)).shape = "ring" /\ Head(BuiltLayout(uid)).links # {}
  /\ Sheet("entity", uid)

CloseSheet ==
  /\ OnBuilder /\ builder.sheet # "none"
  /\ Sheet("none", builder.editing)

\* pickEntity: one of the selected sensors.
PickEntity(g) ==
  /\ OnBuilder /\ builder.sheet = "entity"
  /\ g \in DOMAIN layoutHost.items
  /\ \E e \in Edited :
       BuilderOnly(IF e.shape = "ring"
         THEN [builder EXCEPT !.built =
                 Rebuilt([e EXCEPT !.links = IF g \in @ THEN @ \ {g} ELSE @ \cup {g}])]
         ELSE [builder EXCEPT !.built = Rebuilt([e EXCEPT !.primary = IF @ = g THEN NoPart ELSE g]),
                              !.sheet = IF e.primary = g THEN @ ELSE "none"])

\* removeLinked, and the cross beside the one sensor of a gauge.
Unlink(g) ==
  /\ OnBuilder /\ builder.sheet = "props"
  /\ \E e \in Edited :
       /\ g \in IF e.shape = "ring" THEN e.links ELSE {e.primary}
       /\ BuilderOnly([builder EXCEPT !.built =
            Rebuilt(IF e.shape = "ring" THEN [e EXCEPT !.links = @ \ {g}]
                    ELSE [e EXCEPT !.primary = NoPart])])

ResetBuilder ==
  /\ OnBuilder /\ builder.sheet = "none"
  /\ BuilderOnly([builder EXCEPT !.built = <<>>, !.next = 1, !.editing = 0])

StepBuilder ==
  /\ OnBuilder /\ builder.sheet = "none"
  /\ builder.review \/ builder.built # <<>>
  /\ BuilderOnly([builder EXCEPT !.review = ~@])

\* saveAndGoToDashboard: the saved layout is read first.
SaveBuilt ==
  /\ OnBuilder /\ builder.review
  /\ builder' = builder
  /\ BuilderCalls("reread", NoItems)

Ringed(built) ==
  UNION {built[i].links : i \in {j \in DOMAIN built : built[j].shape = "ring"}}

\* The sensor whose entry a gauge of the builder goes into.
PrimaryOf(g) ==
  IF g.primary # NoPart THEN g.primary
  ELSE IF g.links # {} THEN CHOOSE l \in g.links : TRUE ELSE NoPart

\* What is sent: gauges that a ring shows are left out, and the last of two
\* gauges for one sensor wins.
PayloadAt(built, at) ==
  LET kept == SelectSeq(built, LAMBDA g : g.shape = "ring" \/ g.primary \notin Ringed(built))
      last(id) == CHOOSE i \in DOMAIN kept :
                    /\ PrimaryOf(kept[i]) = id
                    /\ \A k \in DOMAIN kept : PrimaryOf(kept[k]) = id => k <= i
  IN  [id \in {PrimaryOf(kept[i]) : i \in DOMAIN kept} \ {NoPart} |->
         [NewPart EXCEPT !.at = at[id], !.shape = kept[last(id)].shape, !.links = kept[last(id)].links]]

\* A mutation: places are what a new gauge gets.
PayloadPlacesAnew(built, items) == PayloadAt(built, [g \in LayoutGauges |-> NewSpot])

\* A gauge that the saved layout has keeps its place.
Payload(built, items) ==
  PayloadAt(built, [g \in LayoutGauges |-> IF g \in DOMAIN items THEN items[g].at ELSE NewSpot])

------------------------------------------------------------------------------
(* The answers.                                                             *)

LayoutAsked(ops) == layoutCalls # <<>> /\ Head(layoutCalls).op \in ops

LayoutAnswered == layoutCalls' = Tail(layoutCalls)

BoardAnswer == board.on /\ board.visit = Head(layoutCalls).visit

BuilderAnswer == builder.on /\ builder.visit = Head(layoutCalls).visit

\* loadRealConfig.
LayoutLoaded ==
  /\ LayoutAsked({"load"})
  /\ board' = IF ~BoardAnswer THEN board
              ELSE [board EXCEPT !.items = Drawn(layoutHost.items), !.loaded = TRUE,
                                 !.locked = IF board.mirror THEN ~dashSession.editing ELSE layoutHost.locked]
  /\ astray' = (astray /\ ~BoardAnswer)
  /\ LayoutAnswered
  /\ UNCHANGED <<layoutHost, builder, dashSession, unsaved>>

LayoutLoadFails ==
  /\ LayoutAsked({"load"})
  /\ board' = IF BoardAnswer THEN [board EXCEPT !.error = TRUE] ELSE board
  /\ LayoutAnswered
  /\ UNCHANGED <<layoutHost, builder, dashSession, unsaved, astray>>

\* SaveDashboardLayout: it refuses a payload without gauges, updates the gauges
\* it knows and no other, keeps a range that comes as null, adds tables.
SavedItems(payload) ==
  LET gauges == Only(payload, LayoutGauges)
      known == Only(gauges, DOMAIN layoutHost.items)
  IN  IF gauges = NoItems THEN layoutHost.items
      ELSE Put(layoutHost.items,
               Put([g \in DOMAIN known |->
                      [known[g] EXCEPT !.limit = IF @ = NoLimit THEN layoutHost.items[g].limit ELSE @]],
                   Only(payload, LayoutTables)))

\* saveAndGoToDashboard goes to the dashboard page however the host answers, even
\* from a builder that was left; the page is not mounted twice.
ToBoard ==
  IF board.on THEN LayoutAnswered /\ UNCHANGED <<board, builder>>
  ELSE /\ builder' = [OffBuilder EXCEPT !.visit = builder.visit]
       /\ board' = [OffBoard EXCEPT !.on = TRUE, !.visit = board.visit + 1]
       /\ layoutCalls' = Append(Tail(layoutCalls), LoadCall(board'))

\* Saved, or refused: nobody looks at the answer.
SaveAnswered ==
  /\ LayoutAsked({"save", "bsave"})
  /\ LET call == Head(layoutCalls)
     IN  /\ \/ /\ layoutHost' = [layoutHost EXCEPT !.items = SavedItems(call.items)]
               /\ astray' = (call.op = "bsave" /\ (astray \/ ~BuilderAnswer))
            \/ UNCHANGED layoutHost /\ astray' = TRUE
         /\ IF call.op = "bsave" THEN ToBoard ELSE LayoutAnswered /\ UNCHANGED <<builder, board>>
  /\ UNCHANGED <<dashSession, unsaved>>

LayoutCallFails ==
  /\ LayoutAsked({"save", "bsave", "reread", "lock", "unlock"})
  /\ astray' = (astray \/ LayoutAsked({"save", "bsave"}))
  /\ LayoutAnswered
  /\ UNCHANGED <<layoutHost, board, builder, dashSession, unsaved>>

LockAnswered ==
  /\ LayoutAsked({"lock", "unlock"})
  /\ layoutHost' = [layoutHost EXCEPT !.locked = Head(layoutCalls).op = "lock"]
  /\ LayoutAnswered
  /\ UNCHANGED <<board, builder, dashSession, unsaved, astray>>

\* The builder's onMount; without an answer it has no gauges.
BuilderAnswered ==
  /\ LayoutAsked({"sensors"})
  /\ \E items \in {layoutHost.items, NoItems} :
       builder' = IF ~BuilderAnswer THEN builder
                  ELSE [builder EXCEPT !.loading = FALSE, !.built = Imported(items),
                                       !.next = Len(Imported(items)) + 1]
  /\ LayoutAnswered
  /\ UNCHANGED <<layoutHost, board, dashSession, unsaved, astray>>

\* The payload is of the gauges of now; it is sent though the page may be gone.
RereadAnswered ==
  /\ LayoutAsked({"reread"})
  /\ layoutCalls' = Append(Tail(layoutCalls),
       LayoutCall("bsave", Head(layoutCalls).visit,
                  Payload(builder.built, layoutHost.items), FALSE))
  /\ UNCHANGED <<layoutHost, board, builder, dashSession, unsaved, astray>>

------------------------------------------------------------------------------

BoardUser ==
  \/ \E mirror \in BOOLEAN : MountBoard(mirror)
  \/ RetryBoard
  \/ LeaveBoard
  \/ \E p \in Parts : PointerDown(p) \/ OpenGaugeSettings(p)
  \/ \E spot \in Spots : PointerUp(spot)
  \/ GaugeSettings \/ TableSettings \/ CloseSettings
  \/ TogglePopup
  \/ \E g \in LayoutGauges : AddOnBoard(g)
  \/ ToggleLock

BuilderUser ==
  \/ MountBuilder \/ LeaveBuilder
  \/ \E shape \in Shapes : BuildGauge(shape)
  \/ \E uid \in 0..MaxBuilt + Cardinality(LayoutGauges) :
       RemoveBuilt(uid) \/ OpenProps(uid) \/ OpenEntities(uid)
  \/ OpenTypes \/ CloseSheet
  \/ \E g \in LayoutGauges : PickEntity(g) \/ Unlink(g)
  \/ ResetBuilder \/ StepBuilder \/ SaveBuilt

LayoutUser == BoardUser \/ BuilderUser

LayoutMoves ==
  \/ PointerMove \/ PersistTimer \/ SnapshotApplies
  \/ LayoutLoaded \/ LayoutLoadFails \/ SaveAnswered \/ LayoutCallFails \/ LockAnswered
  \/ BuilderAnswered \/ RereadAnswered

LayoutNext == LayoutUser \/ LayoutMoves

LayoutSpec == LayoutInit /\ [][LayoutNext]_layoutVars

------------------------------------------------------------------------------

PartItems == UNION {[parts -> Laid] : parts \in SUBSET Parts}

\* The type of the two pages and of the saved dashboard.
LayoutTypeOK ==
  /\ layoutHost.items \in PartItems /\ layoutHost.locked \in BOOLEAN
  /\ Len(layoutCalls) <= MaxLayoutCalls
  /\ \A i \in DOMAIN layoutCalls : layoutCalls[i].items \in PartItems
  /\ board.items \in PartItems
  /\ board.held \in Parts \cup {NoPart} /\ board.settings \in Parts \cup {NoPart}
  /\ \A i \in DOMAIN builder.built : builder.built[i].links \subseteq LayoutGauges
  /\ unsaved \subseteq Parts

\* An edit that waits for the timer is never forgotten, whatever the user does
\* meanwhile: leave, drag, change more.
NoEditForgotten == unsaved # {} => board.on /\ board.dirty /\ board.timer

SavesUnderWay == \E i \in DOMAIN layoutCalls : layoutCalls[i].op \in {"save", "bsave", "load"}

\* With no save to come the page shows what is saved, part by part: after a save
\* that failed (nobody looks at its answer, and the timer does not run again) from
\* the next that does not, or the next load.  A range set back to automatic is not
\* saved, nor is a dashboard that has tables only.
ShownIsSaved ==
  (/\ OnBoard /\ ~board.mirror /\ ~board.dirty /\ ~SavesUnderWay /\ ~astray
   /\ DOMAIN board.items \cap LayoutGauges # {}) =>
    \A p \in DOMAIN board.items \cap DOMAIN layoutHost.items :
      \/ board.items[p] = layoutHost.items[p]
      \/ board.items[p].limit = NoLimit
         /\ [board.items[p] EXCEPT !.limit = layoutHost.items[p].limit] = layoutHost.items[p]

\* A companion's layout edits stay in the session.
MirrorWritesNothing == \A i \in DOMAIN layoutCalls : layoutCalls[i].mirror => layoutCalls[i].op = "load"

\* A save of the builder moves nothing, and does not touch a gauge that one of
\* its rings shows in its place.
BuilderKeepsPlaces ==
  \A i \in DOMAIN layoutCalls :
    LET call == layoutCalls[i]
    IN  call.op = "bsave" =>
          /\ \A g \in DOMAIN call.items \cap DOMAIN layoutHost.items :
               call.items[g].at = layoutHost.items[g].at
          /\ \A g \in DOMAIN call.items \cap Absorbed(call.items) : call.items[g].shape = "ring"


==============================================================================
