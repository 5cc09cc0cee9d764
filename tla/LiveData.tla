------------------------------- MODULE LiveData --------------------------------
(***************************************************************************)
(* The store of the live values (lib/stores/LiveDataStore.svelte.ts):      *)
(* frames of the host are applied once per animation frame, the last of    *)
(* those that came in between; a watchdog looks every second whether they  *)
(* stopped and asks the host to report again, no more often than the       *)
(* cooldown allows.                                                        *)
(*                                                                         *)
(* Time passes in seconds, the period of the watchdog.  Events of the host *)
(* carry the names of the C# states, which begin with a capital and are    *)
(* none of the names the store compares with: the state is "connected"     *)
(* from the answer of enableReporting to the next event.                   *)
(***************************************************************************)
EXTENDS Naturals, Sequences

CONSTANTS FrameValues,      \* values a frame may carry
          StaleAfter,       \* STALE_MS in seconds, rounded down
          Cooldown,         \* RECONNECT_REENABLE_COOLDOWN_MS in seconds
          MaxSamples,       \* MAX_OP_HISTORY
          NoFrame

VARIABLES live,             \* the fields of the store
          frameWaiting,     \* #lastFrameValues with its animation frame, or NoFrame
          samples,          \* operatingPointHistory
          enabling,         \* callers of enableReporting that wait: "app", "watchdog"
          hostReports,      \* the host sends frames
          unheard           \* asks of the watchdog since the last frame (a history variable)

liveVars == <<live, frameWaiting, samples, enabling, hostReports, unheard>>

ASSUME LiveAssumption == StaleAfter \in Nat /\ Cooldown \in Nat /\ MaxSamples \in Nat \ {0}

\* Ages are counted up to where every comparison has come out.
OldAge == StaleAfter + Cooldown + 1
Older(age) == IF age < OldAge THEN age + 1 ELSE age

LiveInit ==
  /\ live = [started |-> FALSE, state |-> "disconnected", value |-> NoFrame, age |-> OldAge,
             active |-> FALSE, askAge |-> 0, sampleAge |-> 1, mirror |-> FALSE]
  /\ frameWaiting = NoFrame
  /\ samples = <<>>
  /\ enabling = {}
  /\ hostReports = FALSE
  /\ unheard = 0

StartLive ==
  /\ ~live.started
  /\ live' = [live EXCEPT !.started = TRUE]
  /\ UNCHANGED <<frameWaiting, samples, enabling, hostReports, unheard>>

\* stop: the animation frame is cancelled with what it would have applied.
StopLive ==
  /\ live.started
  /\ live' = [live EXCEPT !.started = FALSE, !.active = FALSE]
  /\ frameWaiting' = NoFrame
  /\ UNCHANGED <<samples, enabling, hostReports, unheard>>

\* _onLiveData
FrameArrives(v) ==
  /\ live.started /\ hostReports
  /\ frameWaiting' = v
  /\ UNCHANGED <<live, samples, enabling, hostReports, unheard>>

\* A sample a second, the oldest dropped.
Sampled(v) ==
  IF live.sampleAge = 0 THEN samples
  ELSE Append(IF Len(samples) < MaxSamples THEN samples ELSE Tail(samples), v)

\* _applyFrame
ApplyFrame ==
  /\ frameWaiting # NoFrame
  /\ live' = [live EXCEPT !.value = frameWaiting, !.age = 0, !.active = TRUE, !.sampleAge = 0]
  /\ samples' = Sampled(frameWaiting)
  /\ frameWaiting' = NoFrame
  /\ unheard' = 0
  /\ UNCHANGED <<enabling, hostReports>>

\* _onConnectionStateChanged
LinkEvent ==
  /\ live.started
  /\ live' = [live EXCEPT !.state = "event", !.active = @ /\ live.state # "connected"]
  /\ hostReports' \in {FALSE, hostReports}
  /\ UNCHANGED <<frameWaiting, samples, enabling, unheard>>

\* enableReporting, called by the application when it has connected.
AppEnables ==
  /\ "app" \notin enabling
  /\ enabling' = enabling \cup {"app"}
  /\ UNCHANGED <<live, frameWaiting, samples, hostReports, unheard>>

\* A call to enable reporting answers or fails.
Enabled(who) ==
  /\ who \in enabling
  /\ enabling' = enabling \ {who}
  /\ \/ /\ live' = [live EXCEPT !.askAge = 0, !.state = IF who = "app" THEN "connected" ELSE @]
        /\ hostReports' \in {TRUE, hostReports}
     \/ UNCHANGED <<live, hostReports>>
  /\ UNCHANGED <<frameWaiting, samples, unheard>>

\* A mutation: what was asked once is asked again every second.
WatchdogKeepsAsking(aged) ==
  IF /\ aged.started /\ aged.state = "connected" /\ aged.value # NoFrame
     /\ aged.age > StaleAfter /\ ~aged.mirror
     /\ "watchdog" \notin enabling /\ aged.askAge >= Cooldown
  THEN /\ live' = aged
       /\ enabling' = enabling \cup {"watchdog"}
       /\ unheard' = IF unheard < 2 THEN unheard + 1 ELSE unheard
  ELSE live' = aged /\ UNCHANGED <<enabling, unheard>>

\* The watchdog: the first time it finds the frames stale it asks, unless the
\* cooldown or a call under way forbids it; then it waits for a frame.
Watchdog(aged) ==
  IF /\ aged.started /\ aged.state = "connected" /\ aged.value # NoFrame
     /\ aged.age > StaleAfter /\ ~aged.mirror /\ aged.active
  THEN /\ live' = [aged EXCEPT !.active = FALSE]
       /\ IF "watchdog" \notin enabling /\ aged.askAge >= Cooldown
          THEN enabling' = enabling \cup {"watchdog"} /\ unheard' = unheard + 1
          ELSE UNCHANGED <<enabling, unheard>>
  ELSE live' = aged /\ UNCHANGED <<enabling, unheard>>

LiveSecond ==
  /\ Watchdog([live EXCEPT !.age = Older(@), !.askAge = Older(@), !.sampleAge = 1])
  /\ UNCHANGED <<frameWaiting, samples, hostReports>>

\* The ECU goes silent.
HostFallsSilent ==
  /\ hostReports /\ hostReports' = FALSE
  /\ UNCHANGED <<live, frameWaiting, samples, enabling, unheard>>

\* Companion mode: the values come from the mirror, and nothing is asked for.
ToggleMirror ==
  /\ live' = [live EXCEPT !.mirror = ~@]
  /\ UNCHANGED <<frameWaiting, samples, enabling, hostReports, unheard>>

LiveUser == StartLive \/ StopLive \/ AppEnables \/ ToggleMirror \/ LinkEvent \/ HostFallsSilent
LiveMoves ==
  \/ ApplyFrame \/ LiveSecond
  \/ \E who \in {"app", "watchdog"} : Enabled(who)
  \/ \E v \in FrameValues : FrameArrives(v)

LiveNext == LiveUser \/ LiveMoves
LiveSpec == LiveInit /\ [][LiveNext]_liveVars

------------------------------------------------------------------------------

LiveTypeOK ==
  /\ live \in [started : BOOLEAN, state : {"disconnected", "connected", "event"},
               value : FrameValues \cup {NoFrame}, age : 0..OldAge, active : BOOLEAN,
               askAge : 0..OldAge, sampleAge : 0..1, mirror : BOOLEAN]
  /\ frameWaiting \in FrameValues \cup {NoFrame}
  /\ Len(samples) <= MaxSamples
  /\ enabling \subseteq {"app", "watchdog"} /\ hostReports \in BOOLEAN

\* However long the frames stay away and whatever connects, answers and fails
\* meanwhile, the watchdog asks the host once: it is no storm on a slow link.
AskedOnce == unheard <= 1

\* A stopped store applies nothing: the frame that was due went with it.
StoppedIsQuiet == ~live.started => frameWaiting = NoFrame /\ ~live.active

LiveSound == AskedOnce /\ StoppedIsQuiet

\* LiveDataStore.svelte.ts, line 161: the watchdog retries if frames stop arriving.
SilenceIsAsked ==
  live.started /\ live.state = "connected" /\ live.value # NoFrame /\ ~live.mirror /\ live.age = OldAge
    => unheard > 0 \/ enabling # {}

==============================================================================
