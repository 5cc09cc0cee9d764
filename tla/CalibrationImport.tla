-------------------------- MODULE CalibrationImport ----------------------------
(***************************************************************************)
(* The import of a calibration file (lib/MecalImportPreview.svelte and the *)
(* calibration part of pages/AppSettingsPage.svelte): the file is picked,  *)
(* the host reads the ECU's tables beside those of the file, the user      *)
(* chooses tables and drivers and how each table is merged, and the choice *)
(* is written in two calls, first the tables, then the drivers             *)
(* (Services/Bridge/MecalBridgeMethods.cs).  The bridge executes one call  *)
(* at a time, in order; the preview can be closed at any time and its      *)
(* state stays.                                                            *)
(*                                                                         *)
(* The contents of a table are known by where they come from, a file or    *)
(* the ECU itself, and whether they went once too often through the        *)
(* conversion from a display unit, which changes them where the unit of    *)
(* the table is a converted one.                                           *)
(***************************************************************************)
EXTENDS Naturals, Sequences, FiniteSets

CONSTANTS MecalFiles,    \* the files that can be picked
          NoMecal,       \* no file
          FileTables,    \* the tables in every file
          EcuTables,     \* the tables of the calibration in use
          ScaledTables,  \* those whose unit is converted for display
          FileDrivers,   \* the drivers in every file
          EcuDrivers     \* the drivers of the calibration in use

ASSUME CalibrationConstants ==
  /\ NoMecal \notin MecalFiles
  /\ ScaledTables \subseteq EcuTables /\ EcuTables \subseteq FileTables
  /\ EcuDrivers \subseteq FileDrivers

VARIABLES preview,       \* the dialog
          mecalCalls,    \* the calls of the dialog, in their order
          ecuTables,     \* what the tables of the ECU hold
          enabled,       \* the tables the ECU has switched on
          ecuDrivers,    \* where the configuration of each driver comes from
          wished,        \* the tables the last apply sent (a history variable)
          wishedDrivers  \* and the drivers (a history variable)

ecuVars == <<ecuTables, enabled, ecuDrivers>>
importVars == <<preview, mecalCalls, ecuVars, wished, wishedDrivers>>

Origin(from) == [from |-> from, twice |-> FALSE]
MecalContents == [from : MecalFiles \cup {"ecu"}, twice : BOOLEAN]

Outcomes == {"none", "complete", "partly", "failed"}

PreviewTypes ==
  [open : BOOLEAN, picking : BOOLEAN, content : MecalFiles \cup {NoMecal},
   loading : BOOLEAN, error : BOOLEAN, shown : MecalFiles \cup {NoMecal},
   known : SUBSET EcuTables, current : [EcuTables -> MecalContents], tables : SUBSET FileTables, drivers : SUBSET FileDrivers,
   kept : SUBSET FileTables, applying : BOOLEAN, outcome : Outcomes, timers : Nat]

ImportInit ==
  /\ preview = [open |-> FALSE, picking |-> FALSE, content |-> NoMecal,
                loading |-> TRUE, error |-> FALSE, shown |-> NoMecal,
                known |-> {}, current |-> [t \in EcuTables |-> Origin("ecu")],
                tables |-> {}, drivers |-> {}, kept |-> {},
                applying |-> FALSE, outcome |-> "none", timers |-> 0]
  /\ mecalCalls = <<>>
  /\ ecuTables = [t \in EcuTables |-> Origin("ecu")]
  /\ enabled \in SUBSET EcuTables
  /\ ecuDrivers = [d \in EcuDrivers |-> "ecu"]
  /\ wishedDrivers = {}
  /\ wished = [data |-> <<>>, file |-> NoMecal, before |-> ecuTables, on |-> enabled, unread |-> {}]

PreviewCall(f) == [op |-> "preview", file |-> f]

------------------------------------------------------------------------------
(* The user. *)

ImportPressed ==
  /\ ~preview.open /\ ~preview.picking
  /\ preview' = [preview EXCEPT !.picking = TRUE]
  /\ mecalCalls' = Append(mecalCalls, [op |-> "pick"])
  /\ UNCHANGED <<ecuVars, wished, wishedDrivers>>

\* Back or Close: what is under way goes on.
CloseImport ==
  /\ preview.open
  /\ preview' = [preview EXCEPT !.open = FALSE, !.content = NoMecal]
  /\ UNCHANGED <<mecalCalls, ecuVars, wished, wishedDrivers>>

ListsShown == preview.open /\ ~preview.loading /\ ~preview.error /\ preview.outcome = "none"

Toggled(s, x) == IF x \in s THEN s \ {x} ELSE s \cup {x}

\* The lists answer while an apply is under way too.
ToggleItem ==
  /\ ListsShown
  /\ \/ \E t \in FileTables : preview' = [preview EXCEPT !.tables = Toggled(@, t)]
     \/ \E d \in FileDrivers : preview' = [preview EXCEPT !.drivers = Toggled(@, d)]
  /\ UNCHANGED <<mecalCalls, ecuVars, wished, wishedDrivers>>

\* The blend of a table, all of the file's or all of the ECU's; its controls show
\* where the ECU's data is known.
BlendTable ==
  /\ ListsShown
  /\ \E t \in preview.known : preview' = [preview EXCEPT !.kept = Toggled(@, t)]
  /\ UNCHANGED <<mecalCalls, ecuVars, wished, wishedDrivers>>

\* The outcome of an apply: anything written makes it a success, as does nothing
\* to write, and a success closes the dialog a little later.
Finished(p, written, refused) ==
  LET outcome == IF refused > 0 THEN (IF written = 0 THEN "failed" ELSE "partly") ELSE "complete"
  IN [p EXCEPT !.applying = FALSE, !.outcome = outcome, !.timers = IF outcome = "failed" THEN @ ELSE @ + 1]

\* Behind the tables come the drivers, chosen and read from the file of now.
ThenDrivers(calls, p, written, refused) ==
  /\ wishedDrivers' = p.drivers
  /\ IF p.drivers = {}
     THEN preview' = Finished(p, written, refused) /\ mecalCalls' = calls
     ELSE /\ preview' = p
          /\ mecalCalls' = Append(calls, [op |-> "drivers", file |-> p.content, drivers |-> p.drivers,
                                          written |-> written, refused |-> refused])

\* What is sent for a table: the file's data, or the ECU's as the preview read it.
DataToWrite ==
  [t \in preview.tables \cap preview.known |->
     IF t \in preview.kept THEN preview.current[t] ELSE Origin(preview.shown)]

\* Apply: a table whose ECU data is unknown is passed over.
PressApply ==
  /\ ListsShown /\ ~preview.applying
  /\ preview.tables \cup preview.drivers # {}
  /\ wished' = [data |-> DataToWrite, file |-> preview.shown,
                before |-> ecuTables, on |-> enabled, unread |-> preview.tables \ preview.known]
  /\ LET p == [preview EXCEPT !.applying = TRUE]
     IN IF DOMAIN DataToWrite = {} THEN ThenDrivers(mecalCalls, p, 0, 0)
        ELSE /\ preview' = p /\ UNCHANGED wishedDrivers
             /\ mecalCalls' = Append(mecalCalls, [op |-> "batch", data |-> DataToWrite])
  /\ UNCHANGED ecuVars

TryAgain ==
  /\ preview.open /\ preview.outcome = "failed"
  /\ preview' = [preview EXCEPT !.outcome = "none"]
  /\ UNCHANGED <<mecalCalls, ecuVars, wished, wishedDrivers>>

------------------------------------------------------------------------------
(* The calls. *)

\* A file was picked and the dialog opens and reads it; or none was.
MecalPicked ==
  \/ \E f \in MecalFiles :
       /\ preview' = [preview EXCEPT !.picking = FALSE, !.open = TRUE, !.content = f,
                                     !.loading = TRUE, !.error = FALSE, !.outcome = "none"]
       /\ mecalCalls' = Append(Tail(mecalCalls), PreviewCall(f))
  \/ preview' = [preview EXCEPT !.picking = FALSE] /\ mecalCalls' = Tail(mecalCalls)

\* The preview of a file: what the ECU knows is chosen.  Tables the ECU did not
\* answer for have no data of their own, like those it does not have.
MecalPreviewed(f) ==
  /\ \/ \E known \in SUBSET EcuTables :
          preview' = [preview EXCEPT !.loading = FALSE, !.shown = f, !.known = known, !.current = ecuTables, !.kept = {},
                                     !.tables = EcuTables, !.drivers = EcuDrivers]
     \/ preview' = [preview EXCEPT !.loading = FALSE, !.error = TRUE]
  /\ mecalCalls' = Tail(mecalCalls)

\* The batch converts what it is given from display units.
ToRaw(t, contents) == IF t \in ScaledTables THEN [contents EXCEPT !.twice = TRUE] ELSE contents

\* A mutation: the tables the ECU refused are not counted.
BatchWrittenUncounted(call) ==
  \E set \in SUBSET DOMAIN call.data : \E ok \in SUBSET set :
    /\ ecuTables' = [t \in EcuTables |-> IF t \in set THEN ToRaw(t, call.data[t]) ELSE ecuTables[t]]
    /\ enabled' = enabled \cup set
    /\ ThenDrivers(Tail(mecalCalls), preview, Cardinality(ok), 0)

\* The tables of a batch: each is set, switched on whatever it was, and stored; one
\* that is refused may have been set.
BatchWritten(call) ==
  \E set \in SUBSET DOMAIN call.data : \E ok \in SUBSET set :
    /\ ecuTables' = [t \in EcuTables |-> IF t \in set THEN ToRaw(t, call.data[t]) ELSE ecuTables[t]]
    /\ enabled' = enabled \cup set
    /\ ThenDrivers(Tail(mecalCalls), preview, Cardinality(ok), Cardinality(DOMAIN call.data \ ok))

\* The drivers: those of the file the calibration in use has.  A closed dialog has
\* no file any more and its call is refused.
DriversImported(call) ==
  /\ call.file # NoMecal
  /\ \E set \in SUBSET (call.drivers \cap EcuDrivers) : \E ok \in SUBSET set :
       /\ ecuDrivers' = [d \in EcuDrivers |-> IF d \in set THEN call.file ELSE ecuDrivers[d]]
       /\ preview' = Finished(preview, call.written + Cardinality(ok),
                              call.refused + Cardinality(call.drivers \ ok))

\* The next call answers.
MecalAnswers ==
  /\ mecalCalls # <<>>
  /\ LET call == Head(mecalCalls)
     IN \/ call.op = "pick" /\ MecalPicked /\ UNCHANGED <<ecuVars, wishedDrivers>>
        \/ call.op = "preview" /\ MecalPreviewed(call.file)
           /\ UNCHANGED <<ecuVars, wishedDrivers>>
        \/ call.op = "batch" /\ BatchWritten(call) /\ UNCHANGED ecuDrivers
        \/ call.op = "drivers" /\ DriversImported(call) /\ mecalCalls' = Tail(mecalCalls)
           /\ UNCHANGED <<ecuTables, enabled, wishedDrivers>>
        \* refused as a whole: the tables or the drivers count as failed
        \/ call.op = "batch" /\ ThenDrivers(Tail(mecalCalls), preview, 0, Cardinality(DOMAIN call.data))
           /\ UNCHANGED ecuVars
        \/ call.op = "drivers" /\ mecalCalls' = Tail(mecalCalls)
           /\ preview' = Finished(preview, call.written, call.refused + Cardinality(preview.drivers))
           /\ UNCHANGED <<ecuVars, wishedDrivers>>
        \* the call is thrown: the apply ends
        \/ call.op \in {"batch", "drivers"} /\ mecalCalls' = Tail(mecalCalls)
           /\ preview' = [preview EXCEPT !.applying = FALSE, !.outcome = "failed"]
           /\ UNCHANGED <<ecuVars, wishedDrivers>>
  /\ UNCHANGED wished

\* The timer of a success closes the dialog that is open then.
ImportTimer ==
  /\ preview.timers > 0
  /\ preview' = [preview EXCEPT !.timers = @ - 1, !.open = FALSE]
  /\ UNCHANGED <<mecalCalls, ecuVars, wished, wishedDrivers>>

ImportUser == ImportPressed \/ CloseImport \/ ToggleItem \/ BlendTable \/ PressApply \/ TryAgain
ImportMoves == MecalAnswers \/ ImportTimer

ImportNext == ImportUser \/ ImportMoves
ImportSpec == ImportInit /\ [][ImportNext]_importVars

------------------------------------------------------------------------------

ImportTypeOK ==
  /\ preview \in PreviewTypes
  /\ ecuTables \in [EcuTables -> MecalContents] /\ enabled \subseteq EcuTables
  /\ ecuDrivers \in [EcuDrivers -> MecalFiles \cup {"ecu"}]
  /\ \A i \in 1..Len(mecalCalls) : mecalCalls[i].op \in {"pick", "preview", "batch", "drivers"}

\* When an apply says it is complete, every chosen table the preview had read holds
\* what was chosen for it, up to the conversion, no other table changed, and the
\* drivers are those of the file that was shown, whatever was picked, closed or
\* opened meanwhile.  It does not say that every chosen table was written
\* (SelectedAreWritten), nor that a written one is as enabled as before
\* (EnabledIsKept).  (All of the drivers deselected while they are sent, a refusal
\* counts none of them as failed.)
ImportSound ==
  /\ preview.outcome = "complete" =>
       \A t \in EcuTables :
         IF t \in DOMAIN wished.data THEN t \notin ScaledTables => ecuTables[t] = wished.data[t]
         ELSE ecuTables[t] = wished.before[t] /\ (t \in enabled <=> t \in wished.on)
  /\ preview.outcome = "complete" /\ preview.drivers # {} =>
       \A d \in wishedDrivers : d \in EcuDrivers /\ ecuDrivers[d] = wished.file

\* "Keep current" and "Full import" (MecalImportPreview.svelte, line 509): a table
\* of a complete apply holds the ECU's values or the file's.
MergedAsShown ==
  preview.outcome = "complete" => \A t \in DOMAIN wished.data : ecuTables[t] = wished.data[t]

\* "Table not found on ECU - will be written as new." (line 537): a complete apply
\* passed over no chosen table.
SelectedAreWritten ==
  preview.outcome = "complete" => wished.unread = {}

\* A merge is of a table's values: a complete apply leaves the tables on or off.
EnabledIsKept ==
  preview.outcome = "complete" => enabled = wished.on

==============================================================================
