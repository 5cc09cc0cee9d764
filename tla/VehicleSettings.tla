---------------------------- MODULE VehicleSettings ----------------------------
(***************************************************************************)
(* The vehicle configuration of a dashboard: its cache in the bridge       *)
(* (lib/HybridBridge.ts), the dialog that edits the vehicle                *)
(* (lib/VehicleConfigModal.svelte), and the form of the shift light on the *)
(* configuration page (pages/DashboardConfigPage.svelte with               *)
(* lib/shift/shifterConfig.ts), which writes the same record.              *)
(*                                                                         *)
(* A vehicle is its geometry, and whether its sensors are mapped.  Speeds  *)
(* are in units of 100 rpm.  The calls of the bridge are answered in       *)
(* order.  One dashboard is active throughout; the seed template of the    *)
(* host, and the flag that keeps a detected mapping out of it, are left    *)
(* out.                                                                    *)
(***************************************************************************)
EXTENDS Integers, Sequences, FiniteSets, SequencesExt

CONSTANTS Geometries,        \* tyre, gears and drive of a vehicle
          DefaultGeometry,   \* those of defaultDerivedConfig
          Typed,             \* speeds a user types
          NoNumber,          \* a text that is no number
          Step,              \* what the buttons beside a field add
          Legacy,            \* shifter blocks that older builds may have written
          ShiftPointMin, ShiftPointMax, FloorMin, IdleFloor, DefaultDip,
          MaxVehicleCalls,   \* bound: calls in the queue
          NoConfig           \* no cache, no session, no block, no draft, no text, no dip

ASSUME VehicleAssumption ==
  /\ DefaultGeometry \in Geometries
  /\ FloorMin < ShiftPointMin /\ 0 < FloorMin /\ 0 < DefaultDip

VARIABLES config,        \* vehicle and shifter as the host has them
          cached,        \* _configCache
          defaulted,     \* the cache is what the host answers when it cannot read
          vehicleCalls,  \* the queue of the bridge
          shifter,       \* the form of the shift light
          modal,         \* the dialog of the vehicle
          hasty          \* a history of what takes the form's word: see CleanMeansSaved

vehicleVars == <<config, cached, defaulted, vehicleCalls, shifter, modal, hasty>>

Vehicles == [geometry : Geometries, mapped : BOOLEAN]
DefaultVehicle == [geometry |-> DefaultGeometry, mapped |-> FALSE]

ZeroShifter == [point |-> 0, floor |-> 0]

OffPage == [on |-> FALSE, light |-> FALSE, session |-> NoConfig, base |-> ZeroShifter,
            pointDraft |-> NoConfig, floorDraft |-> NoConfig,
            pointText |-> NoConfig, floorText |-> NoConfig,
            dip |-> NoConfig, pending |-> FALSE, dismissed |-> FALSE, inactive |-> FALSE]

VehicleInit ==
  /\ config \in [vehicle : Vehicles, shifter : Legacy]
  /\ cached = NoConfig /\ defaulted = FALSE
  /\ vehicleCalls = <<>>
  /\ shifter = OffPage
  /\ modal = [open |-> FALSE, vehicle |-> DefaultVehicle]
  /\ hasty = FALSE

------------------------------------------------------------------------------
(* shifterConfig.ts.                                                        *)

ShiftPointValid(v) == ShiftPointMin <= v /\ v <= ShiftPointMax
FloorHeld(s) == s.floor > 0 /\ s.point > 0 /\ s.point <= s.floor
FloorEditValid(v, s) == v >= FloorMin /\ (FloorHeld(s) \/ (s.point > 0 /\ v < s.point))
SuggestionVisible(s) == s.point - DefaultDip > IdleFloor
EffectivelyInactive(s) == s.floor > 0 /\ s.floor <= IdleFloor

ClampedFloor(point, dip) ==
  LET high == IF point - dip > FloorMin THEN point - dip ELSE FloorMin
  IN  IF high < point THEN high ELSE point

ClampDip(f) ==
  IF f.dip # NoConfig /\ f.dip > 0 THEN f.dip
  ELSE IF f.base.point > 0 /\ f.base.floor > 0 /\ f.base.point > f.base.floor
    THEN f.base.point - f.base.floor
  ELSE DefaultDip

------------------------------------------------------------------------------
(* The form: f is its state.  What a field shows is the text that was typed *)
(* in it, or the value; a draft of the page is the last text typed, and     *)
(* stays when the field has committed it.                                   *)

NoticesCleared(f) == [f EXCEPT !.inactive = FALSE]

\* commitShiftPoint: a value out of range puts the field back to what is persisted.
PointCommitted(f, v) ==
  IF ~ShiftPointValid(v)
    THEN [f EXCEPT !.session.point = f.base.point]
    ELSE LET s == f.session
             next == [s EXCEPT !.point = v]
         IN  [NoticesCleared(f) EXCEPT
                !.session = next,
                !.dip = IF FloorHeld(next) /\ @ = NoConfig /\ s.floor > 0 /\ s.point > s.floor
                          THEN s.point - s.floor ELSE @,
                !.pending = @ \/ (s.point <= 0 /\ next.floor <= 0),
                !.dismissed = @ /\ (~f.pending \/ (s.point <= 0 /\ next.floor <= 0))]

\* commitFloor.
FloorCommitted(f, v) ==
  IF ~FloorEditValid(v, f.session)
    THEN [f EXCEPT !.session.floor = f.base.floor]
    ELSE LET next == [f.session EXCEPT !.floor = v]
         IN  [NoticesCleared(f) EXCEPT
                !.session = next, !.pending = FALSE, !.dismissed = FALSE,
                !.dip = IF next.point > 0 /\ ~FloorHeld(next) THEN next.point - v ELSE @]

\* commitPendingDrafts: a draft that is no number is only forgotten.
DraftsCommitted(f) ==
  LET p == IF f.pointDraft \notin {NoConfig, NoNumber, f.session.point}
             THEN PointCommitted(f, f.pointDraft) ELSE f
      q == IF p.floorDraft \notin {NoConfig, NoNumber, p.session.floor}
             THEN FloorCommitted(p, p.floorDraft) ELSE p
  IN  [q EXCEPT !.pointDraft = NoConfig, !.floorDraft = NoConfig]

ShifterDirty(f) ==
  /\ f.session # NoConfig
  /\ \/ f.session # f.base
     \/ f.pointDraft \notin {NoConfig, f.session.point}
     \/ f.floorDraft \notin {NoConfig, f.session.floor}

\* The start of saveShifter: the drafts, and the clamp of a floor that is held.
ReadyToSave(f) ==
  LET d == DraftsCommitted(f)
      s == IF FloorHeld(d.session)
             THEN [d.session EXCEPT !.floor = ClampedFloor(d.session.point, ClampDip(d))]
             ELSE d.session
  IN  [d EXCEPT !.session = s, !.inactive = @ /\ EffectivelyInactive(s)]

\* loadShifterConfig; a cache without the block reads as zero.
ShifterLoaded(f, block) ==
  LET b == IF block = NoConfig THEN ZeroShifter ELSE block
  IN  [f EXCEPT !.session = b, !.base = b, !.inactive = @ \/ EffectivelyInactive(b)]

\* After the answer, the baseline is the form as it is by then; without a session it
\* is empty, and nothing reads it until the next one is loaded.
PersistedNow(f) ==
  [f EXCEPT !.base = IF f.session = NoConfig THEN ZeroShifter ELSE f.session,
            !.pending = FALSE, !.dismissed = FALSE]

------------------------------------------------------------------------------
(* The fields (lib/NumberInput.svelte).                                     *)

\* A field that is unmounted, or whose value has changed, loses its text.
Fields(f, g) ==
  LET same(a) == g.light /\ g.session # NoConfig /\ f.session # NoConfig /\ g.session[a] = f.session[a]
  IN  [g EXCEPT !.pointText = IF same("point") THEN @ ELSE NoConfig,
                !.floorText = IF same("floor") /\ g.session.point > 0 THEN @ ELSE NoConfig]

\* commit: a text that is no number gives way to the value.
FieldCommitted(f, text, value, Commit(_, _)) ==
  IF text = NoNumber THEN f ELSE Commit(f, IF text = NoConfig THEN value ELSE text)

\* nudge: what the field had is committed first, and then what was committed last,
\* kept or not, is moved by a step.
FieldNudged(f, text, value, d, Commit(_, _)) ==
  Commit(FieldCommitted(f, text, value, Commit), d + IF text \in {NoConfig, NoNumber} THEN value ELSE text)

------------------------------------------------------------------------------
(* The bridge.                                                              *)

VehicleRoom == Len(vehicleCalls) < MaxVehicleCalls

\* `blind' is a history: a write of the form made from a cache that was filled when
\* the host could not read, or while a write of the dialog or another such write was
\* under way.
VehicleCall(op, who, vehicle, block) ==
  [op |-> op, who |-> who, vehicle |-> vehicle, shifter |-> block, blind |-> FALSE]
GetCall(who, session) == VehicleCall("get", who, NoConfig, session)
SetCall(who, vehicle, block) == VehicleCall("set", who, vehicle, block)

FormWrite(who, vehicle, block, poor, calls) ==
  [SetCall(who, vehicle, block) EXCEPT
     !.blind = \/ poor
               \/ \E i \in DOMAIN calls : calls[i].op = "set" /\ (calls[i].who = "dialog" \/ calls[i].blind)]

Queued(call) == vehicleCalls' = Append(vehicleCalls, call)

\* The fields of the dialog: without a mapping, one is looked for among the sensors.
Filled(v) == IF v.mapped THEN {v} ELSE {v, [v EXCEPT !.mapped = TRUE]}

\* What a caller of getVehicleConfig does with the answer: the page fills its
\* form, the dialog its fields, and a save sends the whole record back.
Told(call, answer, poor, rest) ==
  CASE call.who = "page" ->
         /\ shifter' = ShifterLoaded(shifter, answer.shifter)
         /\ hasty' = (hasty \/ poor \/ answer.shifter = NoConfig)
         /\ vehicleCalls' = rest /\ UNCHANGED modal
    [] call.who = "dialog" ->
         /\ \E v \in Filled(answer.vehicle) : modal' = [modal EXCEPT !.vehicle = v]
         /\ vehicleCalls' = rest /\ UNCHANGED <<shifter, hasty>>
    [] call.who \in {"save", "gone"} ->
         /\ vehicleCalls' = Append(rest, FormWrite(call.who, answer.vehicle, call.shifter, poor, rest))
         /\ UNCHANGED <<shifter, modal, hasty>>
    [] OTHER -> vehicleCalls' = rest /\ UNCHANGED <<shifter, modal, hasty>>


\* setVehicleConfig: a payload without shifter block keeps the cached one.
Merged(cache, call) ==
  [vehicle |-> call.vehicle,
   shifter |-> IF call.shifter # NoConfig THEN call.shifter
               ELSE IF cache # NoConfig THEN cache.shifter ELSE NoConfig]

Answering(op) == vehicleCalls # <<>> /\ Head(vehicleCalls).op = op

\* A host that cannot read its configuration answers with the defaults, and they
\* are cached like any other answer.
Defaults == [vehicle |-> DefaultVehicle, shifter |-> ZeroShifter]
HostReads == {config, Defaults}

\* A host leaves the block that a payload does not have.
HostWrites(call) ==
  [vehicle |-> call.vehicle,
   shifter |-> IF call.shifter = NoConfig THEN config.shifter ELSE call.shifter]

GetAnswered ==
  /\ Answering("get")
  /\ \E answer \in HostReads :
       /\ cached' = answer
       /\ defaulted' = (answer # config)
       /\ Told(Head(vehicleCalls), answer, answer # config, Tail(vehicleCalls))
  /\ UNCHANGED config

\* The call is thrown: the page takes zeros, the dialog the defaults, with what it
\* finds among the sensors; a save is given up.
GetFailed ==
  /\ Answering("get")
  /\ LET call == Head(vehicleCalls)
     IN  IF call.who \in {"save", "gone"}
           THEN vehicleCalls' = Tail(vehicleCalls) /\ UNCHANGED <<shifter, modal, hasty>>
           ELSE Told(call, Defaults, TRUE, Tail(vehicleCalls))
  /\ UNCHANGED <<config, cached, defaulted>>

\* A form that is no longer the one that was written, or not the page that wrote it,
\* is taken at its word.
SetAnswered ==
  /\ Answering("set")
  /\ LET call == Head(vehicleCalls)
     IN  /\ config' = HostWrites(call)
         /\ cached' = Merged(cached, call)
         /\ defaulted' = (defaulted /\ call.shifter = NoConfig)
         /\ shifter' = IF call.who = "save" THEN PersistedNow(shifter) ELSE shifter
         /\ hasty' = (hasty \/ (call.who \in {"save", "gone"} /\ shifter.session # call.shifter))
         /\ modal' = IF call.who = "dialog" THEN [modal EXCEPT !.open = FALSE] ELSE modal
  /\ vehicleCalls' = Tail(vehicleCalls)

\* Refused or thrown; the dialog closes all the same.
SetFailed ==
  /\ Answering("set")
  /\ modal' = IF Head(vehicleCalls).who = "dialog" THEN [modal EXCEPT !.open = FALSE] ELSE modal
  /\ vehicleCalls' = Tail(vehicleCalls)
  /\ UNCHANGED <<config, cached, defaulted, shifter, hasty>>

------------------------------------------------------------------------------
(* The page.                                                                *)

MountConfigPage ==
  /\ ~shifter.on
  /\ IF cached # NoConfig
       THEN /\ shifter' = ShifterLoaded([OffPage EXCEPT !.on = TRUE], cached.shifter)
            /\ hasty' = (defaulted \/ cached.shifter = NoConfig
                          \/ \E i \in DOMAIN vehicleCalls : vehicleCalls[i].who = "gone")
            /\ UNCHANGED vehicleCalls
       ELSE /\ VehicleRoom
            /\ shifter' = [OffPage EXCEPT !.on = TRUE]
            /\ hasty' = \E i \in DOMAIN vehicleCalls : vehicleCalls[i].who = "gone"
            /\ Queued(GetCall("page", NoConfig))
  /\ UNCHANGED <<config, cached, defaulted, modal>>

\* Past the gate or not: a save of the page goes on, and nobody hears of it.
LeaveConfigPage ==
  /\ shifter.on
  /\ shifter' = OffPage
  /\ vehicleCalls' = [i \in DOMAIN vehicleCalls |->
       [vehicleCalls[i] EXCEPT !.who = IF @ = "page" THEN "nobody" ELSE IF @ = "save" THEN "gone" ELSE @]]
  /\ UNCHANGED <<config, cached, defaulted, modal, hasty>>

\* The live dashboard reads the configuration for what it computes.
ReadByDashboard ==
  /\ ~shifter.on /\ cached = NoConfig /\ VehicleRoom
  /\ Queued(GetCall("nobody", NoConfig))
  /\ UNCHANGED <<config, cached, defaulted, shifter, modal, hasty>>

FormBecomes(f) ==
  /\ shifter' = Fields(shifter, f)
  /\ UNCHANGED <<config, cached, defaulted, vehicleCalls, modal, hasty>>

ToggleShiftLight ==
  /\ shifter.on /\ ~modal.open
  /\ FormBecomes([shifter EXCEPT !.light = ~@])

Editing == shifter.light /\ shifter.session # NoConfig /\ ~modal.open
EditingFloor == Editing /\ shifter.session.point > 0

TypePoint ==
  /\ Editing
  /\ \E v \in Typed \cup {NoNumber} : FormBecomes([shifter EXCEPT !.pointDraft = v, !.pointText = v])

TypeFloor ==
  /\ EditingFloor
  /\ \E v \in Typed \cup {NoNumber} : FormBecomes([shifter EXCEPT !.floorDraft = v, !.floorText = v])

\* Enter, or leaving the field, typed in or not.
CommitPoint ==
  /\ Editing
  /\ FormBecomes([FieldCommitted(shifter, shifter.pointText, shifter.session.point, PointCommitted)
                     EXCEPT !.pointText = NoConfig])

CommitFloor ==
  /\ EditingFloor
  /\ FormBecomes([FieldCommitted(shifter, shifter.floorText, shifter.session.floor, FloorCommitted)
                     EXCEPT !.floorText = NoConfig])

NudgePoint ==
  /\ Editing
  /\ \E d \in {-Step, Step} :
       FormBecomes([FieldNudged(shifter, shifter.pointText, shifter.session.point, d, PointCommitted)
                      EXCEPT !.pointText = NoConfig])

NudgeFloor ==
  /\ EditingFloor
  /\ \E d \in {-Step, Step} :
       FormBecomes([FieldNudged(shifter, shifter.floorText, shifter.session.floor, d, FloorCommitted)
                      EXCEPT !.floorText = NoConfig])

Suggested ==
  shifter.session # NoConfig /\ shifter.pending /\ ~shifter.dismissed /\ SuggestionVisible(shifter.session)

AcceptSuggestion ==
  /\ Editing /\ Suggested
  /\ FormBecomes([NoticesCleared(shifter) EXCEPT !.session.floor = shifter.session.point - DefaultDip,
                                                 !.dip = DefaultDip, !.pending = FALSE])

DismissSuggestion ==
  /\ Editing /\ Suggested
  /\ FormBecomes([shifter EXCEPT !.pending = FALSE, !.dismissed = TRUE])

SuggestAgain ==
  /\ Editing /\ shifter.dismissed /\ shifter.session.floor <= 0
  /\ FormBecomes([shifter EXCEPT !.pending = TRUE, !.dismissed = FALSE])

ClearFloor ==
  /\ Editing /\ shifter.inactive
  /\ FormBecomes([NoticesCleared(shifter) EXCEPT !.session.floor = 0, !.pending = TRUE,
                                                 !.dismissed = FALSE])

\* saveShifter up to its call, from its button or from the question of the shell;
\* the button stays enabled while the form is dirty, a save under way or not.
SaveShifter ==
  /\ shifter.on /\ ShifterDirty(shifter) /\ VehicleRoom
  /\ shifter' = Fields(shifter, ReadyToSave(shifter))
  /\ IF cached # NoConfig
       THEN Queued(FormWrite("save", cached.vehicle, shifter'.session, defaulted, vehicleCalls))
       ELSE Queued(GetCall("save", shifter'.session))
  /\ UNCHANGED <<config, cached, defaulted, modal, hasty>>

\* discardShifter, from the question of the shell.
DiscardShifter ==
  /\ shifter.on /\ ShifterDirty(shifter) /\ VehicleRoom
  /\ cached' = NoConfig /\ defaulted' = FALSE
  /\ shifter' = [OffPage EXCEPT !.on = TRUE, !.light = shifter.light, !.base = shifter.base,
                                !.inactive = shifter.inactive]
  /\ Queued(GetCall("page", NoConfig))
  /\ UNCHANGED <<config, modal, hasty>>

------------------------------------------------------------------------------
(* The dialog of the vehicle.                                               *)

\* openVehicleConfig of the shell reads the sensors first.
OpenVehicleModal ==
  /\ shifter.on /\ ~modal.open /\ VehicleRoom
  /\ Queued(VehicleCall("sensors", "shell", NoConfig, NoConfig))
  /\ UNCHANGED <<config, cached, defaulted, shifter, modal, hasty>>

\* Answered or thrown: the dialog is mounted, unless one is, and loads.
VehicleModalOpens ==
  /\ Answering("sensors")
  /\ IF modal.open THEN vehicleCalls' = Tail(vehicleCalls) /\ UNCHANGED modal
     ELSE IF cached # NoConfig
       THEN /\ \E v \in Filled(cached.vehicle) : modal' = [open |-> TRUE, vehicle |-> v]
            /\ vehicleCalls' = Tail(vehicleCalls)
       ELSE /\ modal' = [open |-> TRUE, vehicle |-> DefaultVehicle]
            /\ vehicleCalls' = Append(Tail(vehicleCalls), GetCall("dialog", NoConfig))
  /\ UNCHANGED <<config, cached, defaulted, shifter, hasty>>

EditVehicle ==
  /\ modal.open
  /\ \E v \in Vehicles \ {modal.vehicle} : modal' = [modal EXCEPT !.vehicle = v]
  /\ UNCHANGED <<config, cached, defaulted, vehicleCalls, shifter, hasty>>

\* handleSave: without the shifter block, loaded or not.
SaveVehicle ==
  /\ modal.open /\ VehicleRoom
  /\ Queued(SetCall("dialog", modal.vehicle, NoConfig))
  /\ UNCHANGED <<config, cached, defaulted, shifter, modal, hasty>>

\* Cancelled; what it was still loading fills nothing.
CloseVehicleModal ==
  /\ modal.open
  /\ modal' = [modal EXCEPT !.open = FALSE]
  /\ vehicleCalls' = [i \in DOMAIN vehicleCalls |->
       IF vehicleCalls[i].op = "get" /\ vehicleCalls[i].who = "dialog"
         THEN [vehicleCalls[i] EXCEPT !.who = "nobody"] ELSE vehicleCalls[i]]
  /\ UNCHANGED <<config, cached, defaulted, shifter, hasty>>

VehicleUser ==
  \/ MountConfigPage \/ LeaveConfigPage \/ ReadByDashboard \/ ToggleShiftLight
  \/ TypePoint \/ TypeFloor \/ CommitPoint \/ CommitFloor \/ NudgePoint \/ NudgeFloor
  \/ AcceptSuggestion \/ DismissSuggestion \/ SuggestAgain \/ ClearFloor
  \/ SaveShifter \/ DiscardShifter
  \/ OpenVehicleModal \/ EditVehicle \/ SaveVehicle \/ CloseVehicleModal

VehicleMoves == GetAnswered \/ GetFailed \/ SetAnswered \/ SetFailed \/ VehicleModalOpens

VehicleSpec == VehicleInit /\ [][VehicleUser \/ VehicleMoves]_vehicleVars

------------------------------------------------------------------------------
(* Properties.                                                              *)

Blocks == [point : Int, floor : Int]

VehicleTypeOK ==
  /\ config.vehicle \in Vehicles /\ config.shifter \in Blocks
  /\ cached = NoConfig \/ (cached.vehicle \in Vehicles /\ cached.shifter \in Blocks \cup {NoConfig})
  /\ shifter.session \in Blocks \cup {NoConfig} /\ shifter.base \in Blocks
  /\ modal.vehicle \in Vehicles
  /\ Len(vehicleCalls) <= MaxVehicleCalls

\* Whatever was typed, refused, accepted and clamped before, what the form has
\* written is a setting that can work: the floor is unset, or at least the least
\* floor and below the shift point.
SavedSound ==
  \/ config.shifter \in Legacy
  \/ config.shifter.floor = 0
  \/ config.shifter.point <= 0
  \/ FloorMin <= config.shifter.floor /\ config.shifter.floor < config.shifter.point

\* The cache answers what the host would: whoever reads it sees the vehicle and
\* the shifter the host has, or no shifter block at all, unless it was filled when
\* the host could not read.
CacheIsHost ==
  cached # NoConfig /\ ~defaulted =>
    /\ cached.vehicle = config.vehicle
    /\ cached.shifter \in {config.shifter, NoConfig}

\* With no call under way, a form without the mark of unsaved changes shows what
\* the host has, so that leaving it loses nothing: unless it was edited while a
\* save was under way, or was filled without an answer of the host.
CleanMeansSaved ==
  (shifter.session # NoConfig /\ vehicleCalls = <<>> /\ ~ShifterDirty(shifter) /\ ~hasty)
     => shifter.session = config.shifter

\* What the dialog has saved is not taken back by a save of the form, which sends the
\* vehicle as it was cached: not unless the form was saved while the dialog's write was
\* under way, or the defaults of a host that could not read are or were sent with it.
FormCarriesVehicle ==
  (Answering("set") /\ Head(vehicleCalls).who \in {"save", "gone"} /\ ~Head(vehicleCalls).blind)
     => Head(vehicleCalls).vehicle = config.vehicle


\* "the modal and the shifter-section Save cannot clobber each other regardless of save
\* ordering" (VehicleConfigBridgeMethods.cs:87).
NoClobber ==
  (Answering("set") /\ Head(vehicleCalls).who \in {"save", "gone"})
     => Head(vehicleCalls).vehicle = config.vehicle
================================================================================
