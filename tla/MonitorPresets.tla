---------------------------- MODULE MonitorPresets -----------------------------
(***************************************************************************)
(* The sensor presets of the monitor page: the store                       *)
(* (lib/monitor/PresetStore.svelte.ts), the sensor picker that loads and   *)
(* quick-saves them (PresetSensorPicker.svelte), the editor                *)
(* (PresetEditorModal.svelte), and the host that keeps them                *)
(* (Services/Bridge/MonitoringPresetBridgeMethods.cs).                     *)
(*                                                                         *)
(* The bridge executes its calls one at a time; an answer is taken         *)
(* together with the execution.                                            *)
(***************************************************************************)
EXTENDS Naturals, Sequences, FiniteSets

CONSTANTS PresetIds,        \* bound: presets ever created
          PresetNames, PresetLinks,
          MaxPresetCalls,   \* bound: calls in the queue
          NoPreset, NoName

VARIABLES presetsHere,      \* #presets
          presetsRead,      \* #initialized: "no", "read" or "failed"
          presetsThere,     \* the presets of the host
          usedIds,          \* ids the host gave out
          presetCalls,      \* the queue of the bridge
          editor,           \* the editor
          sensorPicker      \* the picker, with the selection of the monitor page

presetVars == <<presetsHere, presetsRead, presetsThere, usedIds, presetCalls, editor, sensorPicker>>

Preset == [name : PresetNames, links : (SUBSET PresetLinks) \ {{}}]

NoForm == [view |-> "list", target |-> NoPreset, name |-> NoName, links |-> {}]

EditorClosed == [form |-> NoForm, open |-> FALSE, busy |-> FALSE, asks |-> NoPreset, deleting |-> FALSE]
PickerAtRest == [mounted |-> FALSE, chosen |-> {}, active |-> NoPreset, offered |-> NoPreset,
                 quick |-> FALSE, name |-> NoName, busy |-> FALSE]

PresetsInit ==
  /\ presetsHere = [i \in PresetIds |-> NoPreset]
  /\ presetsRead = "no"
  /\ \E first \in [PresetIds -> Preset \cup {NoPreset}] :
       /\ \A i, j \in PresetIds : i # j /\ first[i] # NoPreset /\ first[j] # NoPreset => first[i].name # first[j].name
       /\ presetsThere = first
       /\ usedIds = {i \in PresetIds : first[i] # NoPreset}
       /\ Cardinality(usedIds) <= 1
  /\ presetCalls = <<>>
  /\ editor = EditorClosed
  /\ sensorPicker = PickerAtRest

Stored(list) == {i \in PresetIds : list[i] # NoPreset}

AskPresets(call) == Len(presetCalls) < MaxPresetCalls /\ presetCalls' = Append(presetCalls, call)

PresetCall(op, by, id, name, links) == [op |-> op, by |-> by, id |-> id, name |-> name, links |-> links]

\* The picker mounts: the presets are read once.
MountPicker ==
  /\ ~sensorPicker.mounted
  /\ sensorPicker' = [sensorPicker EXCEPT !.mounted = TRUE]
  /\ IF presetsRead = "no" THEN AskPresets(PresetCall("read", "picker", NoPreset, NoName, {}))
     ELSE UNCHANGED presetCalls
  /\ UNCHANGED <<presetsHere, presetsRead, presetsThere, usedIds, editor>>

\* Leaving the page closes the dialogs; the calls under way go on.
LeavePicker ==
  /\ sensorPicker.mounted
  /\ sensorPicker' = [PickerAtRest EXCEPT !.chosen = sensorPicker.chosen, !.active = sensorPicker.active]
  /\ editor' = EditorClosed
  /\ UNCHANGED <<presetsHere, presetsRead, presetsThere, usedIds, presetCalls>>

\* The effect of the picker: with a selection no preset is the active one.
Chosen(links, active) ==
  [sensorPicker EXCEPT !.chosen = links, !.active = IF links = {} THEN active ELSE NoPreset]

TogglePresetSensor ==
  /\ sensorPicker.mounted /\ ~editor.open
  /\ \E link \in PresetLinks :
       sensorPicker' = Chosen((sensorPicker.chosen \cup {link}) \ (sensorPicker.chosen \cap {link}), sensorPicker.active)
  /\ UNCHANGED <<presetsHere, presetsRead, presetsThere, usedIds, presetCalls, editor>>

\* A preset is picked: with a selection the picker asks before it replaces it.
PickPreset ==
  /\ sensorPicker.mounted /\ ~editor.open
  /\ \E i \in Stored(presetsHere) :
       sensorPicker' = IF sensorPicker.chosen # {} THEN [sensorPicker EXCEPT !.offered = presetsHere[i]]
                 ELSE [Chosen(presetsHere[i].links, i) EXCEPT !.offered = NoPreset]
  /\ UNCHANGED <<presetsHere, presetsRead, presetsThere, usedIds, presetCalls, editor>>

\* The answer to the question; the preset may have changed since.
AnswerOffer ==
  /\ sensorPicker.mounted /\ ~editor.open /\ sensorPicker.offered # NoPreset
  /\ \/ sensorPicker' = [Chosen(sensorPicker.offered.links, sensorPicker.active) EXCEPT !.offered = NoPreset]
     \/ sensorPicker' = [sensorPicker EXCEPT !.offered = NoPreset]
  /\ UNCHANGED <<presetsHere, presetsRead, presetsThere, usedIds, presetCalls, editor>>

\* The quick save: opened, cancelled, or saved under a name.
ToggleQuick ==
  /\ sensorPicker.mounted /\ ~editor.open /\ ~sensorPicker.busy
  /\ sensorPicker.quick \/ sensorPicker.chosen # {}
  /\ sensorPicker' = [sensorPicker EXCEPT !.quick = ~@, !.name = NoName]
  /\ UNCHANGED <<presetsHere, presetsRead, presetsThere, usedIds, presetCalls, editor>>

\* The button is off while a save is under way, the Enter key is not.
QuickSave ==
  /\ sensorPicker.mounted /\ sensorPicker.quick /\ sensorPicker.chosen # {}
  /\ \E name \in IF sensorPicker.busy THEN {sensorPicker.name} ELSE PresetNames :
       /\ sensorPicker' = [sensorPicker EXCEPT !.busy = TRUE, !.name = name]
       /\ AskPresets(PresetCall("create", "picker", NoPreset, name, sensorPicker.chosen))
  /\ UNCHANGED <<presetsHere, presetsRead, presetsThere, usedIds, editor>>

OpenEditor ==
  /\ sensorPicker.mounted /\ ~editor.open
  /\ editor' = [editor EXCEPT !.open = TRUE]
  /\ UNCHANGED <<presetsHere, presetsRead, presetsThere, usedIds, presetCalls, sensorPicker>>

\* A form is opened for a new preset or a stored one.
OpenForm ==
  /\ editor.open /\ editor.form.view = "list"
  /\ \/ editor' = [editor EXCEPT !.form = [NoForm EXCEPT !.view = "create"]]
     \/ \E i \in Stored(presetsHere) :
          editor' = [editor EXCEPT !.form = [view |-> "edit", target |-> i, name |-> presetsHere[i].name,
                                             links |-> presetsHere[i].links]]
  /\ UNCHANGED <<presetsHere, presetsRead, presetsThere, usedIds, presetCalls, sensorPicker>>

\* The form is typed into; a save under way does not keep it from that.
FillForm ==
  /\ editor.open /\ editor.form.view # "list"
  /\ \E name \in PresetNames, links \in SUBSET PresetLinks :
       editor' = [editor EXCEPT !.form.name = name, !.form.links = links]
  /\ UNCHANGED <<presetsHere, presetsRead, presetsThere, usedIds, presetCalls, sensorPicker>>

\* The backdrop and the X, which no save turns off: from a form to the list,
\* from the list out.
BackOut ==
  /\ editor.open
  /\ editor' = IF editor.form.view # "list" THEN [editor EXCEPT !.form = NoForm] ELSE [editor EXCEPT !.open = FALSE]
  /\ UNCHANGED <<presetsHere, presetsRead, presetsThere, usedIds, presetCalls, sensorPicker>>

\* saveForm
SaveForm ==
  /\ editor.open /\ editor.form.view # "list" /\ ~editor.busy
  /\ editor.form.name # NoName /\ editor.form.links # {}
  /\ editor' = [editor EXCEPT !.busy = TRUE]
  /\ AskPresets(PresetCall(IF editor.form.view = "edit" THEN "update" ELSE "create", "editor",
                           editor.form.target, editor.form.name, editor.form.links))
  /\ UNCHANGED <<presetsHere, presetsRead, presetsThere, usedIds, sensorPicker>>

\* Delete asks in the row, and is confirmed there.
AskDelete ==
  /\ editor.open /\ editor.form.view = "list" /\ ~editor.deleting
  /\ \E i \in Stored(presetsHere) : editor' = [editor EXCEPT !.asks = IF editor.asks = i THEN NoPreset ELSE i]
  /\ UNCHANGED <<presetsHere, presetsRead, presetsThere, usedIds, presetCalls, sensorPicker>>

ConfirmPresetDelete ==
  /\ editor.open /\ editor.form.view = "list" /\ ~editor.deleting
  /\ editor.asks \in Stored(presetsHere)
  /\ editor' = [editor EXCEPT !.deleting = TRUE]
  /\ AskPresets(PresetCall("delete", "editor", editor.asks, NoName, {}))
  /\ UNCHANGED <<presetsHere, presetsRead, presetsThere, usedIds, sensorPicker>>

\* The rules of the host.
Accepts(call) ==
  /\ call.op \in {"update", "delete"} => call.id \in Stored(presetsThere)
  /\ call.op \in {"create", "update"} =>
       \A i \in Stored(presetsThere) : i # call.id => presetsThere[i].name # call.name

\* An answer of success reaches the list of the store and then its caller.
PresetDone(call, id) ==
  LET preset == [name |-> call.name, links |-> call.links]
      changed == IF call.op = "delete" THEN NoPreset ELSE preset
  IN /\ presetsThere' = [presetsThere EXCEPT ![id] = changed]
     /\ presetsHere' = IF call.op = "update" /\ presetsHere[id] = NoPreset THEN presetsHere
                       ELSE [presetsHere EXCEPT ![id] = changed]
     /\ usedIds' = usedIds \cup {id}
     /\ CASE call.by = "picker" ->
               /\ sensorPicker' = [Chosen(sensorPicker.chosen, id) EXCEPT !.quick = FALSE, !.name = NoName, !.busy = FALSE]
               /\ UNCHANGED editor
          [] call.by = "editor" /\ call.op # "delete" ->
               /\ editor' = [editor EXCEPT !.busy = FALSE, !.form = NoForm]
               /\ UNCHANGED sensorPicker
          [] OTHER ->
               /\ editor' = [editor EXCEPT !.deleting = FALSE, !.asks = NoPreset]
               /\ sensorPicker' = [sensorPicker EXCEPT !.active = IF @ = id THEN NoPreset ELSE @]

\* A mutation: an update the host refused shows in the list.
PresetRefusedShown(call) ==
  /\ sensorPicker' = IF call.by = "picker" THEN [sensorPicker EXCEPT !.busy = FALSE] ELSE sensorPicker
  /\ editor' = IF call.by = "editor" THEN [editor EXCEPT !.busy = FALSE, !.deleting = FALSE] ELSE editor
  /\ presetsHere' = IF call.op = "update" THEN [presetsHere EXCEPT ![call.id] = [name |-> call.name, links |-> call.links]]
                    ELSE presetsHere
  /\ UNCHANGED <<presetsThere, usedIds>>

\* A refusal or a failure leaves both lists alone and the form open.
PresetRefused(call) ==
  /\ sensorPicker' = IF call.by = "picker" THEN [sensorPicker EXCEPT !.busy = FALSE] ELSE sensorPicker
  /\ editor' = CASE call.by = "editor" /\ call.op = "delete" -> [editor EXCEPT !.deleting = FALSE]
                 [] call.by = "editor" /\ call.op # "delete" -> [editor EXCEPT !.busy = FALSE]
                 [] OTHER -> editor
  /\ UNCHANGED <<presetsHere, presetsThere, usedIds>>

\* init takes the list of the host, or goes on without.
PresetsAreRead ==
  /\ \/ presetsHere' = presetsThere /\ presetsRead' = IF presetsRead = "no" THEN "read" ELSE presetsRead
     \/ presetsHere' = presetsHere /\ presetsRead' = "failed"
  /\ UNCHANGED <<presetsThere, usedIds, editor, sensorPicker>>

PresetAnswered ==
  /\ presetCalls # <<>>
  /\ presetCalls' = Tail(presetCalls)
  /\ LET call == Head(presetCalls)
     IN \/ call.op = "read" /\ PresetsAreRead
        \/ call.op # "read" /\ PresetRefused(call) /\ UNCHANGED presetsRead
        \/ /\ call.op # "read" /\ Accepts(call)
           /\ \E id \in IF call.op = "create" THEN PresetIds \ usedIds ELSE {call.id} : PresetDone(call, id)
           /\ UNCHANGED presetsRead

PresetUser ==
  \/ MountPicker \/ LeavePicker \/ TogglePresetSensor \/ PickPreset \/ AnswerOffer \/ ToggleQuick \/ QuickSave
  \/ OpenEditor \/ OpenForm \/ FillForm \/ BackOut \/ SaveForm \/ AskDelete \/ ConfirmPresetDelete

PresetMoves == PresetAnswered
PresetNext == PresetUser \/ PresetMoves
PresetSpec == PresetsInit /\ [][PresetNext]_presetVars

------------------------------------------------------------------------------

PresetTypeOK ==
  /\ presetsHere \in [PresetIds -> Preset \cup {NoPreset}]
  /\ presetsThere \in [PresetIds -> Preset \cup {NoPreset}]
  /\ presetsRead \in {"no", "read", "failed"}
  /\ editor.form.view \in {"list", "edit", "create"} /\ editor.asks \in PresetIds \cup {NoPreset}
  /\ sensorPicker.chosen \subseteq PresetLinks

\* Once the presets were read the list is the host's: answers of the editor, of
\* the quick save and of a first read that was late come in any order, may be
\* refused, and find another form open than the one they were sent from.
ListIsHosts == presetsRead = "read" => presetsHere = presetsThere

\* Two presets never share a name, which is what the list is sorted and shown by.
NamesApart ==
  \A i, j \in Stored(presetsThere) : i # j => presetsThere[i].name # presetsThere[j].name

PresetsAgree == ListIsHosts /\ NamesApart

==============================================================================
