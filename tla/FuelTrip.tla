------------------------------- MODULE FuelTrip --------------------------------
(***************************************************************************)
(* The trip behind the average fuel efficiency: the store that owns the    *)
(* totals (lib/derived/fuelTripStore.svelte.ts), the dashboard page that   *)
(* feeds it a tick per frame (pages/DashboardPage.svelte), the reset of    *)
(* the vehicle dialog, and the host, which keeps one trip per dashboard    *)
(* and reads and writes the trip of the one that is active when the call   *)
(* arrives (Services/Bridge/FuelTripBridgeMethods.cs).                     *)
(*                                                                         *)
(* A trip is counted in ticks of a moving car: distance and fuel grow      *)
(* together.  The bridge executes its calls one at a time, in order; an    *)
(* answer is taken together with the execution.  The ten seconds between   *)
(* two saves are a choice of each tick (late).                             *)
(***************************************************************************)
EXTENDS Naturals, Sequences

CONSTANTS TripDashboards,
          MaxTrip,        \* bound: ticks of a trip
          MaxTripCalls,   \* bound: calls in the queue
          NoDashboard

VARIABLES trip,           \* the store: totals, loaded, dirty, saving
          tripShown,      \* the dashboard of the mounted page
          tripActive,     \* the dashboard that is active on the host
          tripDisk,       \* the trips of the host
          tripCalls,      \* the queue of the bridge
          driven,         \* ticks since the last reset of each trip (a history variable)
          midWrite,       \* a tick fell in a write and no later write took it (a history variable)
          tripOf,         \* the dashboard whose trip the totals are (a history variable)
          parted,         \* trips the code has lost track of: see TripParts (a history variable)
          refused         \* trips whose last write the host refused (a history variable)

tripVars == <<trip, tripShown, tripActive, tripDisk, tripCalls, driven, midWrite, tripOf, parted, refused>>

Trip == 0..MaxTrip

TripInit ==
  /\ trip = [totals |-> 0, loaded |-> FALSE, dirty |-> FALSE, saving |-> FALSE]
  /\ tripShown = NoDashboard
  /\ tripActive \in TripDashboards
  /\ tripDisk \in [TripDashboards -> 0..1]
  /\ tripCalls = <<>>
  /\ driven = tripDisk
  /\ midWrite = FALSE
  /\ tripOf = NoDashboard
  /\ parted = {} /\ refused = {}

\* A call, and for a write the trip that its amount is of.
TripCall(op, amount) == [op |-> op, amount |-> amount, of |-> NoDashboard]

\* The moment a trip parts from what was driven, for want of a guard in the code:
\* a tick is added to the trip of another dashboard, a write ends in that of
\* another dashboard, a read fails or falls on ticks that are not saved, a reset falls
\* on a read under way or on ticks of another trip that are not saved.
TripParts(trips) == parted' = parted \cup (trips \ {NoDashboard})

Waits(op) == \E i \in 1..Len(tripCalls) : tripCalls[i].op = op

MayCallTrip == Len(tripCalls) < MaxTripCalls

\* A write takes every tick so far.
Taken(t) == t.dirty /\ ~t.saving

\* A mutation: the totals of a tick during a write are taken for saved.
PersistForgets(t, of, calls, after) ==
  /\ trip' = [t EXCEPT !.dirty = FALSE, !.saving = @ \/ t.dirty]
  /\ tripCalls' = calls \o (IF Taken(t) THEN <<[TripCall("set", t.totals) EXCEPT !.of = of]>> ELSE <<>>) \o after

\* persist: one write at a time; what it writes is what the totals are now.
Persist(t, of, calls, after) ==
  IF Taken(t)
  THEN /\ trip' = [t EXCEPT !.dirty = FALSE, !.saving = TRUE]
       /\ tripCalls' = calls \o <<[TripCall("set", t.totals) EXCEPT !.of = of]>> \o after
  ELSE /\ trip' = t
       /\ tripCalls' = calls \o after

\* The page of a dashboard mounts: it loads the trip.
MountTrip ==
  /\ tripShown = NoDashboard /\ MayCallTrip
  /\ tripShown' = tripActive
  /\ tripCalls' = Append(tripCalls, TripCall("get", 0))
  /\ UNCHANGED <<trip, tripActive, tripDisk, driven, midWrite, tripOf, parted, refused>>

\* A frame of a moving car, after the baseline was loaded.
TripTick(late) ==
  /\ tripShown # NoDashboard /\ trip.loaded
  /\ trip.totals < MaxTrip /\ driven[tripShown] < MaxTrip
  /\ late => MayCallTrip
  /\ driven' = [driven EXCEPT ![tripShown] = @ + 1]
  /\ LET t == [trip EXCEPT !.totals = @ + 1, !.dirty = TRUE]
     IN /\ IF late THEN Persist(t, tripOf, tripCalls, <<>>) ELSE trip' = t /\ tripCalls' = tripCalls
        /\ midWrite' = ((midWrite \/ trip.saving) /\ ~(late /\ Taken(t)))
  /\ TripParts(IF tripOf = tripShown THEN {} ELSE {tripOf, tripShown})
  /\ UNCHANGED <<tripShown, tripActive, tripDisk, tripOf, refused>>

\* The page is left: what is dirty is written, unless a write is under way.
LeaveTrip ==
  /\ tripShown # NoDashboard /\ MayCallTrip
  /\ tripShown' = NoDashboard
  /\ Persist(trip, tripOf, tripCalls, <<>>)
  /\ midWrite' = (midWrite /\ ~Taken(trip))
  /\ UNCHANGED <<tripActive, tripDisk, driven, tripOf, parted, refused>>

\* Reset of the vehicle dialog.  A trip that is still being loaded comes back.
ResetTrip ==
  /\ MayCallTrip
  /\ Persist([trip EXCEPT !.totals = 0, !.loaded = TRUE, !.dirty = TRUE], tripActive, tripCalls, <<>>)
  /\ driven' = [driven EXCEPT ![tripActive] = 0]
  /\ midWrite' = FALSE
  /\ tripOf' = tripActive
  /\ parted' = (parted \ {tripActive})
                \cup (IF Waits("get") THEN {tripActive} ELSE {})
                \cup (IF trip.dirty THEN {tripOf} \ {NoDashboard, tripActive} ELSE {})
  /\ UNCHANGED <<tripShown, tripActive, tripDisk, refused>>

\* Another dashboard is chosen: the host learns it first.
SwitchTrip ==
  /\ tripShown # NoDashboard /\ MayCallTrip /\ ~Waits("activate")
  /\ TripDashboards # {tripShown}
  /\ tripCalls' = Append(tripCalls, TripCall("activate", 0))
  /\ UNCHANGED <<trip, tripShown, tripActive, tripDisk, driven, midWrite, tripOf, parted, refused>>

\* The answer of GetFuelTrip: read, refused (taken for an empty trip) or thrown.
\* Ticks that are not saved yet are overwritten.
TripRead(rest) ==
  /\ \E how \in {"ok", "refused", "thrown"} :
       /\ trip' = [trip EXCEPT !.loaded = TRUE, !.dirty = FALSE,
                               !.totals = CASE how = "ok" -> tripDisk[tripActive]
                                            [] how = "refused" -> 0
                                            [] how = "thrown" -> @]
       /\ TripParts((IF how = "ok" THEN refused \cap {tripActive} ELSE {tripActive})
                  \cup (IF trip.dirty \/ trip.saving THEN {tripOf} ELSE {}))
  /\ tripOf' = tripActive
  /\ tripCalls' = rest
  /\ UNCHANGED <<tripShown, tripActive, tripDisk, driven, midWrite, refused>>

\* The answer of SetFuelTrip: written to the trip of the dashboard that is active
\* by now, refused, which is not looked at, or thrown.
TripWritten(rest, call) ==
  /\ \/ /\ tripDisk' = [tripDisk EXCEPT ![tripActive] = call.amount]
        /\ trip' = [trip EXCEPT !.saving = FALSE]
        /\ refused' = refused \ {tripActive}
        /\ TripParts(IF call.of = tripActive THEN {} ELSE {call.of, tripActive})
     \/ /\ trip' = [trip EXCEPT !.saving = FALSE]
        /\ refused' = refused \cup {call.of}
        /\ UNCHANGED <<tripDisk, parted>>
     \/ /\ trip' = [trip EXCEPT !.saving = FALSE, !.dirty = TRUE]
        /\ TripParts(IF call.of = tripOf THEN {} ELSE {call.of})
        /\ UNCHANGED <<tripDisk, refused>>
  /\ tripCalls' = rest
  /\ UNCHANGED <<tripShown, tripActive, driven, midWrite, tripOf>>

\* The answer of SetActiveDashboard: the page of the old dashboard is destroyed,
\* which flushes, and the page of the new one loads, also when the host refused.
\* A page that was left meanwhile has nothing to flush or load.
TripSwitched(rest) ==
  /\ \E d \in TripDashboards \ {tripShown} :
       \/ /\ tripShown # NoDashboard
          /\ tripShown' = d
          /\ tripActive' \in {tripActive, d}
          /\ Persist(trip, tripOf, rest, <<TripCall("get", 0)>>)
          /\ midWrite' = (midWrite /\ ~Taken(trip))
       \/ /\ tripShown = NoDashboard
          /\ tripActive' = d
          /\ trip' = trip /\ tripCalls' = rest
          /\ UNCHANGED <<tripShown, midWrite>>
  /\ UNCHANGED <<tripDisk, driven, tripOf, parted, refused>>

TripAnswered ==
  /\ tripCalls # <<>>
  /\ LET call == Head(tripCalls) rest == Tail(tripCalls)
     IN \/ call.op = "get" /\ TripRead(rest)
        \/ call.op = "set" /\ TripWritten(rest, call)
        \/ call.op = "activate" /\ TripSwitched(rest)

TripUser == MountTrip \/ LeaveTrip \/ ResetTrip \/ SwitchTrip
TripMoves == TripAnswered \/ \E late \in BOOLEAN : TripTick(late)

TripNext == TripUser \/ TripMoves
TripSpec == TripInit /\ [][TripNext]_tripVars

------------------------------------------------------------------------------

TripTypeOK ==
  /\ trip \in [totals : Trip, loaded : BOOLEAN, dirty : BOOLEAN, saving : BOOLEAN]
  /\ tripShown \in TripDashboards \cup {NoDashboard} /\ tripActive \in TripDashboards
  /\ tripDisk \in [TripDashboards -> Trip] /\ driven \in [TripDashboards -> Trip] /\ midWrite \in BOOLEAN
  /\ \A i \in 1..Len(tripCalls) : tripCalls[i].op \in {"get", "set", "activate"}
  /\ tripOf \in TripDashboards \cup {NoDashboard}
  /\ parted \subseteq TripDashboards /\ refused \subseteq TripDashboards

WritesOf(d) == \E i \in 1..Len(tripCalls) : tripCalls[i].op = "set" /\ tripCalls[i].of = d

\* Until a trip parts from what was driven (TripParts names how), its totals are the
\* ticks since its last reset, and they are on the disk when they are not dirty,
\* not being written and the last write was not refused: no order of ticks,
\* saves, failed saves, resets, leaves, switches and loads drops a tick or counts
\* it twice, and a reset or a later write brings the trip back.
TripKept ==
  \A d \in TripDashboards \ parted :
    /\ tripOf = d /\ ~Waits("get") => trip.totals = driven[d]
    /\ ~(tripOf = d /\ trip.dirty) /\ ~WritesOf(d) /\ d \notin refused => tripDisk[d] = driven[d]

\* "Ticks that land mid-write stay dirty and are written by the next save instead
\* of being silently dropped" (fuelTripStore.svelte.ts:88).  The code breaks it: a
\* load that is answered during the write clears them.
MidWriteStaysDirty == midWrite => trip.dirty

\* "Until this resolves, ticks are ignored so a slow read cannot be credited to a
\* zeroed trip" (fuelTripStore.svelte.ts:33).  The code breaks it: loaded stays set
\* from the first read on, so a later one does not hold the ticks back.
TicksAwaitTheRead == [][Waits("get") => driven' = driven \/ \E d \in TripDashboards : driven'[d] < driven[d]]_tripVars

\* "Zero the trip and persist immediately" (fuelTripStore.svelte.ts:69).  The code
\* breaks it: a reset during a write queues none.
ResetPersists == [][ResetTrip => Len(tripCalls') > Len(tripCalls)]_tripVars

\* "Reads the active dashboard's persisted trip totals" (FuelTripBridgeMethods.cs:20):
\* every dashboard has a trip of its own.  The code breaks it: what a switch
\* flushes is written to the dashboard switched to.
WritesStayAtHome == [][\A d \in TripDashboards : tripDisk'[d] # tripDisk[d] => Head(tripCalls).of = d]_tripVars

==============================================================================
