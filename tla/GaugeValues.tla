----------------------------- MODULE GaugeValues -------------------------------
(***************************************************************************)
(* The values of the gauges of a dashboard (pages/DashboardPage.svelte):   *)
(* every value passes a spike gate and a smoothing, on each frame for all  *)
(* gauges in their order and between the frames for one (a position, the   *)
(* odometer, a derived value); a change of the configuration builds the    *)
(* states anew.                                                            *)
(*                                                                         *)
(* Values are steps of a scale.  The gate lets a value move Gate steps     *)
(* from the one before.  The smoothing goes a part of the way that depends *)
(* on the time since the last value that passed the pipeline, whichever    *)
(* gauge that was: here one step towards the value after some time, and    *)
(* none within an instant (where the code moves by less than a thousandth *)
(* of the way).                                                            *)
(***************************************************************************)
EXTENDS Integers, Sequences, FiniteSets, SequencesExt

CONSTANTS GaugeSensors,
          TopValue,         \* the scale is 0..TopValue
          Gate,             \* steps the spike gate lets pass
          HistogramSize,    \* HIST_BUFFER_SIZE
          Calm,             \* frames a value rests before a gauge should show it
          NoReading         \* null

VARIABLES reading,          \* the live values
          gaugeOrder,       \* the gauges of the dashboard, in the order of the pipeline
          gaugeSettings,    \* smoothing and spike gate of each
          gaugeValue,       \* what each shows
          smoothed,         \* _smoothedValues
          lastRaw,          \* _prevRawValues
          pipelineClock,    \* _lastFrameTime: never, before this instant, or in it
          histogram,        \* gaugeValueHistory
          range,            \* lowest and highest reading since the states were built (history)
          rest              \* frames since each reading changed (history)

gaugeVars == <<reading, gaugeOrder, gaugeSettings, gaugeValue, smoothed, lastRaw,
               pipelineClock, histogram, range, rest>>

GaugeScale == 0..TopValue

GaugeSetting == [smooth : BOOLEAN, gate : BOOLEAN]

\* A reading that is missing counts as 0.
Known(r) == IF r = NoReading THEN 0 ELSE r

Nearer(from, to) == CASE from < to -> from + 1 [] from > to -> from - 1 [] OTHER -> from

Lower(a, b) == IF a < b THEN a ELSE b
Higher(a, b) == IF a > b THEN a ELSE b

\* A mutation: the gate adds to a jump what it should cut off.
GatedAway(p, s, raw) ==
  IF ~gaugeSettings[s].gate THEN raw
  ELSE IF raw > p.lastRaw[s] + Gate THEN raw + Gate
  ELSE IF raw < p.lastRaw[s] - Gate THEN p.lastRaw[s] - Gate
  ELSE raw

\* The spike gate: a jump is cut off at Gate steps from the value before.
Gated(p, s, raw) ==
  IF ~gaugeSettings[s].gate THEN raw
  ELSE IF raw > p.lastRaw[s] + Gate THEN p.lastRaw[s] + Gate
  ELSE IF raw < p.lastRaw[s] - Gate THEN p.lastRaw[s] - Gate
  ELSE raw

\* The smoothing; a gated gauge without one has a fixed factor instead of the clock.
Smoothed(p, s, v) ==
  CASE gaugeSettings[s].smooth ->
         IF p.clock = "now" THEN p.smoothed[s] ELSE Nearer(p.smoothed[s], v)
    [] ~gaugeSettings[s].smooth /\ gaugeSettings[s].gate -> Nearer(p.smoothed[s], v)
    [] OTHER -> v

\* applyPipeline of one gauge, with the state of the pipeline before it.
Piped(p, s) ==
  LET raw == Known(p.reading[s])
      v == Gated(p, s, raw)
      w == Smoothed(p, s, v)
  IN [value |-> [p.value EXCEPT ![s] = w],
      smoothed |-> [p.smoothed EXCEPT ![s] = IF gaugeSettings[s].smooth \/ gaugeSettings[s].gate THEN w ELSE @],
      lastRaw |-> [p.lastRaw EXCEPT ![s] = v],
      reading |-> p.reading,
      clock |-> "now"]

Pipeline(readings) ==
  [value |-> gaugeValue, smoothed |-> smoothed, lastRaw |-> lastRaw, reading |-> readings, clock |-> pipelineClock]

\* The time of the next event is another instant.
TakePipeline(p) ==
  /\ reading' = p.reading
  /\ gaugeValue' = p.value /\ smoothed' = p.smoothed /\ lastRaw' = p.lastRaw
  /\ pipelineClock' = IF p.clock = "never" THEN "never" ELSE "before"

Recorded(list, v) == Append(IF Len(list) < HistogramSize THEN list ELSE Tail(list), v)

OnBoardGauges == ToSet(gaugeOrder)

Built(order, readings) ==
  /\ gaugeOrder' = order
  /\ gaugeValue' = [s \in GaugeSensors |-> Known(readings[s])]
  /\ smoothed' = [s \in GaugeSensors |-> Known(readings[s])]
  /\ lastRaw' = [s \in GaugeSensors |-> Known(readings[s])]
  /\ pipelineClock' = "never"
  /\ histogram' = [s \in GaugeSensors |-> <<Known(readings[s])>>]
  /\ range' = [s \in GaugeSensors |-> [low |-> Known(readings[s]), high |-> Known(readings[s])]]

GaugesInit ==
  /\ reading = [s \in GaugeSensors |-> NoReading]
  /\ gaugeOrder = <<>>
  /\ gaugeSettings \in [GaugeSensors -> GaugeSetting]
  /\ gaugeValue = [s \in GaugeSensors |-> 0] /\ smoothed = gaugeValue /\ lastRaw = gaugeValue
  /\ pipelineClock = "never"
  /\ histogram = [s \in GaugeSensors |-> <<0>>]
  /\ range = [s \in GaugeSensors |-> [low |-> 0, high |-> 0]]
  /\ rest = [s \in GaugeSensors |-> 0]

\* rebuildGaugeStates: other gauges or other settings; all states start from the readings.
Rebuild ==
  /\ \E order \in SetToAllKPermutations(GaugeSensors) : order # <<>> /\ Built(order, reading)
  /\ gaugeSettings' \in [GaugeSensors -> GaugeSetting]
  /\ rest' = [s \in GaugeSensors |-> 0]
  /\ UNCHANGED reading

Widened(readings) ==
  [s \in GaugeSensors |-> [low |-> Lower(range[s].low, Known(readings[s])),
                           high |-> Higher(range[s].high, Known(readings[s]))]]

\* A frame: the readings change, and all gauges pass the pipeline within an instant.
GaugeFrame(readings) ==
  /\ gaugeOrder # <<>>
  /\ TakePipeline(FoldLeft(Piped, Pipeline(readings), gaugeOrder))
  /\ histogram' = [s \in GaugeSensors |->
                     IF s \in OnBoardGauges THEN Recorded(histogram[s], gaugeValue'[s]) ELSE histogram[s]]
  /\ range' = Widened(readings)
  /\ rest' = [s \in GaugeSensors |->
                IF Known(readings[s]) # Known(reading[s]) THEN 0 ELSE Lower(rest[s] + 1, Calm)]
  /\ UNCHANGED <<gaugeOrder, gaugeSettings>>

\* updateGaugeValue: one value between the frames, at an instant of its own.
GaugeUpdate(s, v) ==
  LET readings == [reading EXCEPT ![s] = v]
  IN /\ v # reading[s]
     /\ TakePipeline(IF s \in OnBoardGauges THEN Piped(Pipeline(readings), s) ELSE Pipeline(readings))
     /\ range' = Widened(readings)
     /\ rest' = [rest EXCEPT ![s] = IF Known(v) = Known(reading[s]) THEN @ ELSE 0]
     /\ UNCHANGED <<gaugeOrder, gaugeSettings, histogram>>

GaugeUser == Rebuild
GaugeMoves ==
  \/ \E readings \in [GaugeSensors -> GaugeScale \cup {NoReading}] : GaugeFrame(readings)
  \/ \E s \in GaugeSensors, v \in GaugeScale \cup {NoReading} : GaugeUpdate(s, v)

GaugeNext == GaugeUser \/ GaugeMoves
GaugeSpec == GaugesInit /\ [][GaugeNext]_gaugeVars

------------------------------------------------------------------------------

GaugesTypeOK ==
  /\ reading \in [GaugeSensors -> GaugeScale \cup {NoReading}]
  /\ OnBoardGauges \subseteq GaugeSensors
  /\ gaugeSettings \in [GaugeSensors -> GaugeSetting]
  /\ pipelineClock \in {"never", "before"}
  /\ \A s \in GaugeSensors : Len(histogram[s]) \in 1..HistogramSize

\* Neither the gate nor the smoothing, which keep a state across frames, single
\* updates and missing readings, shows a value outside of what the sensor read
\* since the states were built.
NoOvershoot ==
  \A s \in OnBoardGauges : gaugeValue[s] \in range[s].low..range[s].high

\* DashboardPage.svelte, line 401: the smoothing does not depend on the frame
\* rate, so a gauge whose reading rests for long enough shows it.
EveryGaugeFollows ==
  \A s \in OnBoardGauges : rest[s] = Calm => gaugeValue[s] = Known(reading[s])

==============================================================================
