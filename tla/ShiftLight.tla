------------------------------ MODULE ShiftLight -------------------------------
(***************************************************************************)
(* The shift light: the state machine of lib/shift/shiftEvaluator.ts, the  *)
(* tick of the dashboard page that drives it and writes the countdown      *)
(* (entity -3005) and the shift state (-3006), the recomputation of the    *)
(* derived values, which writes the countdown too (pages/DashboardPage,    *)
(* lib/derived/compute.ts).                                                *)
(*                                                                         *)
(* Time passes in ticks of the machine.  Speeds of the engine are steps of *)
(* a scale, the shift point and the downshift floor are marks on it.       *)
(***************************************************************************)
EXTENDS Integers

CONSTANTS Rpms, Points, Floors,  \* the scale, and the marks a dashboard may have; 0 is no mark
          Hold,                  \* HOLD_MS in ticks
          NoValue                \* null

VARIABLES rpm,        \* the value of the RPM datalink, or null
          frozen,      \* no frame for longer than STALE_MS
          vehicle,     \* the marks of the active dashboard, as the configuration has them
          payload,     \* shiftPayload of the mounted page, or null
          onBoard,     \* a dashboard page is mounted
          machine,     \* the evaluator: at, the last speed, and the age of its holds
          signal,      \* the live values of the two entities
          away,        \* ticks the page was away before the next tick
          recompute,   \* the derived timer runs
          seen,        \* the inputs of the last recomputation
          cause        \* ticks since the shift point was reached, since the floor was crossed (history)

shiftVars == <<rpm, frozen, vehicle, payload, onBoard, machine, signal, away, recompute, seen, cause>>

ASSUME ShiftAssumption == Hold \in Nat \ {0} /\ Rpms \subseteq Nat /\ Points \subseteq Nat /\ Floors \subseteq Nat

Marks == [point : Points, floor : Floors]

Idle == [at |-> "base", last |-> NoValue, held |-> NoValue]
Inert == [state |-> NoValue, countdown |-> NoValue]

LongAgo == Hold + 1
Ages == 0..LongAgo
Later(age) == IF age + 1 + away < LongAgo THEN age + 1 + away ELSE LongAgo
Holds(age) == age + 1 + away < Hold

ShiftInit ==
  /\ rpm = NoValue /\ frozen = TRUE
  /\ vehicle \in Marks
  /\ payload = NoValue /\ onBoard = FALSE
  /\ machine = Idle
  /\ signal = Inert
  /\ away = 0
  /\ recompute = FALSE
  /\ seen = NoValue
  /\ cause = [reached |-> LongAgo, crossed |-> LongAgo]

\* computeRpmToShift
RpmToShift(r, point) ==
  IF r = NoValue \/ point = 0 THEN NoValue ELSE IF r < point THEN point - r ELSE 0

\* The last speed was at or above the floor and this one is below.
Crosses(r) ==
  /\ payload.floor > 0 /\ machine.last # NoValue
  /\ machine.last >= payload.floor /\ r < payload.floor

\* The machine at rest: at the shift point it holds from this tick on.
Based(r) ==
  IF r >= payload.point THEN [at |-> "shift", last |-> r, held |-> 0]
  ELSE [at |-> "base", last |-> r, held |-> NoValue]

\* A hold that ran out leaves the shift point behind without a new hold.
Released(r) ==
  [at |-> IF r >= payload.point THEN "shift" ELSE "base", last |-> r, held |-> NoValue]

\* A mutation: the hold begins anew on every tick it holds.
StepRearms(r) ==
  LET age == machine.held
  IN CASE Crosses(r) -> [at |-> "down", last |-> r, held |-> 0]
       [] ~Crosses(r) /\ machine.at = "shift" /\ age # NoValue /\ Holds(age)
            -> [machine EXCEPT !.last = r, !.held = 0]
       [] OTHER -> Based(r)

\* step: crossing the floor downwards shows for the hold or until the speed
\* is above the floor again; reaching the shift point shows for the hold, also
\* when the speed dips.
Step(r) ==
  LET age == machine.held
  IN CASE Crosses(r) -> [at |-> "down", last |-> r, held |-> 0]
       [] ~Crosses(r) /\ machine.at = "down" ->
            IF r <= payload.floor /\ Holds(age)
            THEN [machine EXCEPT !.last = r, !.held = age + 1 + away]
            ELSE Based(r)
       [] ~Crosses(r) /\ machine.at = "shift" /\ age # NoValue ->
            IF Holds(age) THEN [machine EXCEPT !.last = r, !.held = age + 1 + away] ELSE Released(r)
       [] OTHER -> Based(r)

StateOf(m) == CASE m.at = "down" -> -1 [] m.at = "shift" -> 1 [] OTHER -> 0

Unfed == frozen \/ payload = NoValue \/ payload.point = 0 \/ rpm = NoValue

\* The tick of the mounted page: without input both entities are null, in one tick.
ShiftTick ==
  /\ onBoard
  /\ IF payload = NoValue \/ Unfed
     THEN /\ machine' = Idle /\ signal' = Inert
          /\ cause' = [reached |-> LongAgo, crossed |-> LongAgo]
     ELSE /\ machine' = Step(rpm)
          /\ signal' = [state |-> StateOf(machine'), countdown |-> RpmToShift(rpm, payload.point)]
          /\ cause' = [reached |-> IF rpm >= payload.point THEN 0 ELSE Later(cause.reached),
                       crossed |-> CASE Crosses(rpm) -> 0
                                    [] rpm > payload.floor -> LongAgo
                                    [] OTHER -> Later(cause.crossed)]
  /\ away' = 0
  /\ UNCHANGED <<rpm, frozen, vehicle, payload, onBoard, recompute, seen>>

\* A frame: on the page it starts the derived timer.
ShiftFrame(r) ==
  /\ rpm' = r /\ frozen' = FALSE
  /\ recompute' = (recompute \/ onBoard)
  /\ UNCHANGED <<away, vehicle, payload, onBoard, machine, signal, seen, cause>>

FramesStop ==
  /\ ~frozen /\ frozen' = TRUE
  /\ UNCHANGED <<away, rpm, vehicle, payload, onBoard, machine, signal, recompute, seen, cause>>

\* A position of the GPS starts the derived timer too, with the frames gone.
GpsMoves ==
  /\ onBoard /\ recompute' = TRUE /\ seen' = NoValue
  /\ UNCHANGED <<away, rpm, frozen, vehicle, payload, onBoard, machine, signal, cause>>

\* The derived timer: with inputs that changed it writes the countdown, from
\* the last speed there was and the marks of the configuration.
Recomputes ==
  /\ recompute /\ recompute' = FALSE
  /\ LET inputs == [rpm |-> rpm, marks |-> vehicle]
     IN IF seen = inputs THEN UNCHANGED <<signal, seen>>
        ELSE /\ seen' = inputs
             /\ signal' = [signal EXCEPT !.countdown = RpmToShift(rpm, vehicle.point)]
  /\ UNCHANGED <<away, rpm, frozen, vehicle, payload, onBoard, machine, cause>>

\* The page mounts with no marks and loads them.
MountShift ==
  /\ ~onBoard /\ onBoard' = TRUE /\ payload' = NoValue /\ seen' = NoValue
  /\ away' \in {away, Hold}
  /\ UNCHANGED <<rpm, frozen, vehicle, machine, signal, recompute, cause>>

PayloadLoads ==
  /\ onBoard /\ payload = NoValue
  /\ payload' \in {vehicle, NoValue}
  /\ UNCHANGED <<away, rpm, frozen, vehicle, onBoard, machine, signal, recompute, seen, cause>>

\* Leaving stops the tick; the signals and the machine stay as they are.
LeaveShift ==
  /\ onBoard /\ onBoard' = FALSE /\ payload' = NoValue
  /\ UNCHANGED <<away, rpm, frozen, vehicle, machine, signal, recompute, seen, cause>>

\* The shift marks are edited on another page.
EditMarks ==
  /\ ~onBoard /\ vehicle' \in Marks \ {vehicle}
  /\ UNCHANGED <<away, rpm, frozen, payload, onBoard, machine, signal, recompute, seen, cause>>

\* Another dashboard: its page mounts, the machine is reset and the signals cleared.
SwitchMarks ==
  /\ vehicle' \in Marks
  /\ payload' = NoValue /\ onBoard' = TRUE /\ seen' = NoValue
  /\ machine' = Idle /\ signal' = Inert
  /\ cause' = [reached |-> LongAgo, crossed |-> LongAgo]
  /\ UNCHANGED <<away, rpm, frozen, recompute>>

\* The link is lost or a calibration loaded: the machine forgets.
ShiftReset ==
  /\ machine # Idle /\ machine' = Idle
  /\ cause' = [reached |-> LongAgo, crossed |-> LongAgo]
  /\ UNCHANGED <<away, rpm, frozen, vehicle, payload, onBoard, signal, recompute, seen>>

ShiftUser == MountShift \/ LeaveShift \/ EditMarks \/ SwitchMarks
ShiftMoves ==
  \/ ShiftTick \/ FramesStop \/ GpsMoves \/ Recomputes \/ PayloadLoads \/ ShiftReset
  \/ \E r \in Rpms \cup {NoValue} : ShiftFrame(r)

ShiftNext == ShiftUser \/ ShiftMoves
ShiftSpec == ShiftInit /\ [][ShiftNext]_shiftVars

------------------------------------------------------------------------------

ShiftTypeOK ==
  /\ rpm \in Rpms \cup {NoValue} /\ frozen \in BOOLEAN
  /\ vehicle \in Marks /\ payload \in Marks \cup {NoValue} /\ onBoard \in BOOLEAN
  /\ machine \in [at : {"base", "shift", "down"}, last : Rpms \cup {NoValue}, held : 0..Hold \cup {NoValue}]
  /\ signal.state \in {-1, 0, 1, NoValue}
  /\ away \in {0, Hold} /\ recompute \in BOOLEAN /\ cause \in [reached : Ages, crossed : Ages]

\* The machine asks to shift up only within the hold of a speed at the shift
\* point, and down only within the hold of a crossing of the floor, however the
\* speed dips, the frames stop and the pages change.
ShiftHasCause ==
  /\ machine.at = "shift" => cause.reached < Hold
  /\ machine.at = "down" => cause.crossed < Hold

\* DashboardPage.svelte, line 263: the two entities go inert together.
InertTogether == (signal.state = NoValue) <=> (signal.countdown = NoValue)

==============================================================================
