---------------------------- MODULE SessionRecorder ----------------------------
(***************************************************************************)
(* The session recorder (lib/monitor/SessionRecorder.ts) with the three    *)
(* that drive it: the monitor page, which samples the live values on each  *)
(* animation frame, the control of a companion, which records the frames   *)
(* of the mirror feed, and the shell, which finalizes a recording when     *)
(* the ECU goes and opens a segment when it is back.  Each control shows   *)
(* a copy of the recorder's state that it refreshes only by itself.        *)
(*                                                                         *)
(* A row is the number of the feed frame it came from, Gap for a frame     *)
(* that never came, or Sample for a live value.                            *)
(***************************************************************************)
EXTENDS Integers, Sequences, FiniteSets, FiniteSetsExt

CONSTANTS RecSensors,
          MaxFeedSeq,     \* bound: numbers of the mirror feed
          MaxRows,        \* MAX_DURATION_MS / 16.7
          MaxRecordings   \* bound: recordings saved

VARIABLES recorder,
          recControls,    \* what the monitor page and the companion control show
          animation,      \* ticks scheduled by requestAnimationFrame
          kept,           \* recordings handed to SessionStore.save
          recMirror       \* the companion: in mirror mode, and its session

recVars == <<recorder, recControls, animation, kept, recMirror>>

Gap == -1
Sample == 0

States == {"idle", "recording", "stopped"}
Away == "away"     \* the control is not on the screen

NoRows == [s \in {} |-> <<>>]

IdleRecorder == [state |-> "idle", companion |-> FALSE, all |-> FALSE, last |-> 0, rows |-> NoRows,
         notice |-> FALSE, segment |-> 0]

RecInit ==
  /\ recorder = IdleRecorder
  /\ recControls = [monitor |-> Away, companion |-> Away]
  /\ animation = 0
  /\ kept = 0
  /\ recMirror = "off"

------------------------------------------------------------------------------
(* The recorder.                                                            *)

Recording == recorder.state = "recording"

Empty(sensors) == [s \in sensors |-> <<>>]

\* One row for a sensor that has a value, the oldest one dropped at the cap.
SampledRow(rows, live) ==
  [s \in DOMAIN rows |->
     IF s \notin live THEN rows[s]
     ELSE LET longer == Append(rows[s], Sample)
          IN  IF Len(longer) > MaxRows THEN Tail(longer) ELSE longer]

\* start takes a first sample at once and resets the count of segments,
\* startCompanion waits for the feed and leaves the count.
Started(sensors, live) ==
  [IdleRecorder EXCEPT !.state = "recording", !.rows = SampledRow(Empty(sensors), live)]

StartedCompanion(sensors, segment) ==
  [IdleRecorder EXCEPT !.state = "recording", !.companion = TRUE, !.all = (sensors = {}),
               !.rows = Empty(sensors), !.segment = segment]

\* finalize.
Finalized(r) ==
  IF r.state = "recording" THEN [r EXCEPT !.state = "stopped", !.notice = TRUE] ELSE r

Segment(r, live) ==
  LET sensors == DOMAIN r.rows
      fresh == IF r.companion
               THEN StartedCompanion(IF r.all THEN {} ELSE sensors, r.segment)
               ELSE Started(sensors, live)
  IN  [fresh EXCEPT !.segment = r.segment + 1]

Times(n, row) == [i \in 1..n |-> row]

\* A mutation: a frame that never came leaves no row.
FedWithoutGaps(r, seq, sensors) ==
  LET known == DOMAIN r.rows
      heard == IF r.all THEN sensors ELSE sensors \cap known
  IN  [r EXCEPT !.last = seq,
                !.rows = [s \in known \cup heard |->
                            (IF s \in known THEN r.rows[s] ELSE <<>>)
                              \o (IF s \in heard THEN <<seq>> ELSE <<>>)]]

\* pushFeedFrame: the frames that never came leave a row each on every sensor
\* known by now, then the frame adds its values.
Fed(r, seq, sensors) ==
  LET known == DOMAIN r.rows
      heard == IF r.all THEN sensors ELSE sensors \cap known
      missing == IF r.last = 0 THEN 0 ELSE seq - r.last - 1
  IN  [r EXCEPT !.last = seq,
                !.rows = [s \in known \cup heard |->
                            (IF s \in known THEN r.rows[s] \o Times(missing, Gap) ELSE <<>>)
                              \o (IF s \in heard THEN <<seq>> ELSE <<>>)]]

------------------------------------------------------------------------------
(* Steps.                                                                   *)

\* A tick records the live values and schedules the next one.
AnimationTick ==
  /\ animation > 0
  /\ \E live \in SUBSET RecSensors :
       recorder' = IF Recording
                   THEN [recorder EXCEPT !.rows = SampledRow(@, live)] ELSE recorder
  /\ animation' = IF Recording THEN animation ELSE animation - 1
  /\ UNCHANGED <<recControls, kept, recMirror>>

\* The monitor page comes and goes; a companion has no monitor.
MonitorMounts ==
  /\ recMirror = "off" /\ recControls.monitor = Away
  /\ recControls' = [recControls EXCEPT !.monitor = recorder.state]
  /\ UNCHANGED <<recorder, animation, kept, recMirror>>

MonitorLeaves ==
  /\ recControls.monitor # Away
  /\ recControls' = [recControls EXCEPT !.monitor = Away]
  /\ UNCHANGED <<recorder, animation, kept, recMirror>>

\* handleRecord while the recorder records: the recording is saved (the store
\* may refuse it: local storage is full), the recorder reset, the page left.
PressStop ==
  /\ recControls.monitor # Away /\ Recording
  /\ kept < MaxRecordings
  /\ \E stored \in BOOLEAN :
       IF stored
       THEN /\ kept' = kept + 1
            /\ recorder' = IdleRecorder
            /\ animation' = IF animation > 0 THEN animation - 1 ELSE 0
            /\ recControls' = [recControls EXCEPT !.monitor = Away]
       ELSE UNCHANGED <<recorder, recControls, animation, kept>>
  /\ UNCHANGED recMirror

\* handleRecord otherwise, whatever the button says.
PressRecord ==
  /\ recControls.monitor # Away /\ ~Recording
  /\ \E sensors, live \in SUBSET RecSensors : recorder' = Started(sensors, live)
  /\ animation' = animation + 1
  /\ recControls' = [recControls EXCEPT !.monitor = "recording"]
  /\ UNCHANGED <<kept, recMirror>>

\* A mutation: the tick of the segment before keeps running.
CancelledNot(n, r) == n

\* The recorder is finalized: the tick that was scheduled is cancelled.
Ticking(r) == r.state = "recording" /\ ~r.companion

Cancelled(n, r) == IF Ticking(r) /\ n > 0 THEN n - 1 ELSE n

EcuGoes ==
  /\ recorder' = Finalized(recorder)
  /\ animation' = Cancelled(animation, recorder)
  /\ UNCHANGED <<recControls, kept, recMirror>>

\* A recording is under way when the ECU is back.
EcuIsBack ==
  /\ Recording
  /\ recorder.segment < MaxRecordings
  /\ \E live \in SUBSET RecSensors : recorder' = Segment(recorder, live)
  /\ animation' = Cancelled(animation, recorder) + (IF recorder.companion THEN 0 ELSE 1)
  /\ UNCHANGED <<recControls, kept, recMirror>>

\* The mirror mode brings the companion's control, with the recorder's state.
EnterMirror ==
  /\ recMirror = "off" /\ ~Recording
  /\ recMirror' = "searching"
  /\ recControls' = [monitor |-> Away, companion |-> recorder.state]
  /\ UNCHANGED <<recorder, animation, kept>>

SessionConnects ==
  /\ recMirror = "searching"
  /\ recMirror' = "connected"
  /\ UNCHANGED <<recorder, recControls, animation, kept>>

\* The effect of the control: the recording of a session that ends is
\* finalized, and the control shows it.
SessionEnds ==
  /\ recMirror = "connected"
  /\ recMirror' = "searching"
  /\ recorder' = Finalized(recorder)
  /\ animation' = Cancelled(animation, recorder)
  /\ recControls' = IF Recording THEN [recControls EXCEPT !.companion = "stopped"] ELSE recControls
  /\ UNCHANGED kept

\* onDestroy of the control.
ExitMirror ==
  /\ recMirror # "off"
  /\ recMirror' = "off"
  /\ recorder' = Finalized(recorder)
  /\ animation' = Cancelled(animation, recorder)
  /\ recControls' = [recControls EXCEPT !.companion = Away]
  /\ UNCHANGED kept

\* toggle: the control is shown while the session is connected.
CompanionToggles ==
  /\ recMirror = "connected"
  /\ recorder' = IF Recording THEN [recorder EXCEPT !.state = "stopped"]
                 ELSE StartedCompanion({}, recorder.segment)
  /\ animation' = Cancelled(animation, recorder)
  /\ recControls' = [recControls EXCEPT !.companion = recorder'.state]
  /\ UNCHANGED <<kept, recMirror>>

\* A frame of the feed; the feed may lose, repeat and reorder its frames.
FeedFrame ==
  /\ recMirror # "off" /\ Recording /\ recorder.companion
  /\ \E seq \in 1..MaxFeedSeq, sensors \in SUBSET RecSensors \ {{}} :
       /\ recorder.last = 0 \/ seq > recorder.last
       /\ recorder' = Fed(recorder, seq, sensors)
  /\ UNCHANGED <<recControls, animation, kept, recMirror>>

RecUser == MonitorMounts \/ MonitorLeaves \/ PressStop \/ PressRecord \/ EnterMirror \/ ExitMirror
           \/ CompanionToggles

RecNext == AnimationTick \/ EcuGoes \/ EcuIsBack \/ SessionConnects \/ SessionEnds \/ FeedFrame
           \/ RecUser

------------------------------------------------------------------------------
(* Properties.                                                              *)

\* The shape of the variables.
RecTypeOK ==
  /\ recorder.state \in States
  /\ DOMAIN recorder.rows \subseteq RecSensors
  /\ recorder.last \in 0..MaxFeedSeq
  /\ recControls \in [{"monitor", "companion"} -> States \cup {Away}]
  /\ recMirror \in {"off", "searching", "connected"}

\* One tick is scheduled while live values are recorded and none otherwise: a
\* segment must not start a second one beside that of the segment before, or
\* every value is recorded twice from there on.
OneTicker == animation = IF Ticking(recorder) THEN 1 ELSE 0

Numbers(rows) == {rows[i] : i \in DOMAIN rows} \ {Gap, Sample}

\* Every frame of the feed that was recorded.
Arrived == UNION {Numbers(recorder.rows[s]) : s \in DOMAIN recorder.rows}

\* "dropped segments stay visible in exports": from a value of a sensor to its
\* next value, or to the newest frame when no later one brought the sensor,
\* there are as many gaps as frames that never came between them: also a sensor
\* that falls silent keeps the gaps.  The frames before its first value leave it
\* nothing, and so does a frame that came without it (RowsAligned).
GapsVisible ==
  recorder.companion =>
    \A s \in DOMAIN recorder.rows :
      LET rows == Append(recorder.rows[s], recorder.last + 1)
      IN  \A i, k \in DOMAIN rows :
            LET between == i + 1 .. k - 1
            IN  /\ i < k /\ rows[i] # Gap /\ rows[k] # Gap
                /\ \A j \in between : rows[j] = Gap
                => /\ rows[i] < rows[k]
                   /\ Cardinality(between) =
                        Cardinality((rows[i] + 1 .. rows[k] - 1) \ Arrived)

\* A row of an export is one moment, "rows must contain exactly one value per
\* sensor": the values that stand in the same row came in the same frame.  The
\* code breaks it: a sensor that joins the feed late, or that one frame leaves
\* out, has its later values in the rows of earlier frames.
RowsAligned ==
  recorder.companion =>
    \A s, q \in DOMAIN recorder.rows :
      \A i \in DOMAIN recorder.rows[s] \cap DOMAIN recorder.rows[q] :
        LET one == recorder.rows[s][i]
            other == recorder.rows[q][i]
        IN  one # Gap /\ other # Gap => one = other

\* The samples of one sensor never outgrow the 30 minutes of a recording.
RowsBounded ==
  ~recorder.companion => \A s \in DOMAIN recorder.rows : Len(recorder.rows[s]) <= MaxRows

RecorderSound == OneTicker /\ GapsVisible /\ RowsBounded

Samples(r) == UNION {{s} \X DOMAIN r.rows[s] : s \in DOMAIN r.rows}

\* "an ECU disconnect while recording finalizes the session file with a
\* completion notice": what a finalized recording holds stays until it is saved.
FinalizedIsKept ==
  [][recorder.notice /\ Samples(recorder) # {} => recorder'.rows = recorder.rows]_recVars
================================================================================
