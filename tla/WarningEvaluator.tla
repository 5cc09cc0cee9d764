-------------------------- MODULE WarningEvaluator --------------------------
(***************************************************************************)
(* The warning evaluator of the front end (lib/stores/warningEvaluator.ts):*)
(* every frame of live data is compared with the points of each data link, *)
(* a crossing must last for the dwell delay before its level becomes       *)
(* active, and a write of the settings suspends a transition under way     *)
(* until the settings are read again.                                      *)
(*                                                                         *)
(* The evaluator is synchronous; its hazards are the orders in which the   *)
(* frames, the writes, the delay changes, the application's pauses and the *)
(* resets of the shell reach it.                                           *)
(***************************************************************************)
EXTENDS Integers, Sequences, FiniteSets, Functions, FiniteSetsExt

CONSTANTS Datalinks,     \* identifiers of the data links
          Configs,       \* the settings a data link may have
          Values,        \* the values a frame may carry
          Delays,        \* the dwell delays a user may choose
          Kinds,         \* why a write suspends: "edit", "disable" or "re-enable"
          StartDelay,    \* the delay before any settings are read (500 ms)
          MaxTime,       \* bound of the clock
          None

ASSUME ConstantsAssumption ==
  /\ Delays \subseteq Nat
  /\ StartDelay \in Delays
  /\ \A s \in Configs : s.levels \in Seq(STRING)
  /\ Kinds \subseteq {"edit", "disable", "re-enable"}
  /\ MaxTime \in Nat
  /\ None \notin Values \union Nat \union Kinds

\* The map of the settings is finite, and no level of theirs is null.
ASSUME LinksAssumption ==
  /\ IsFiniteSet(Datalinks)
  /\ \A s \in Configs : None \notin Range(s.levels)

VARIABLES now,       \* the clock of the page
          settings,  \* settings[d]: the settings read last, None for an unknown link
          link,      \* link[d]: the state of d: active level, pending transition, re-arm time
          lastValue, \* the value of d in the last frame
          delay,     \* the dwell delay
          pausedAt,  \* when the application went to the background, or None
          batch,     \* batch[d]: the events of the last call about d, in their order
          left       \* left[d]: when d last left a level, since its state was
                     \* created (a history variable)

vars == <<now, settings, link, lastValue, delay, pausedAt, batch, left>>

NoState == [active |-> None, pending |-> None, reArmAt |-> None]

------------------------------------------------------------------------------
(* Levels and points.  The levels of a setting are listed by rank.          *)

LevelsOf(s) == Range(s.levels)

\* rankByLevelId: the position of a level, 0 for no level and an unknown one.
Rank(s, level) ==
  IF level \in LevelsOf(s) THEN CHOOSE i \in DOMAIN s.levels : s.levels[i] = level
  ELSE 0

Beyond(p, value) ==
  IF p.direction = "max" THEN value > p.value ELSE value < p.value

Crossed(s, value) ==
  {p \in s.points : s.enabled /\ p.enabled /\ p.level \in LevelsOf(s) /\ Beyond(p, value)}

Highest(s, value) ==
  LET ranks == {Rank(s, p.level) : p \in Crossed(s, value)}
  IN  IF ranks = {} THEN None ELSE s.levels[Max(ranks)]

\* R20: of the crossed points of a level, the one furthest in its direction;
\* points of direction max win over points of direction min.
FurthestPoint(points) ==
  LET of(dir) == {p.value : p \in {q \in points : q.direction = dir}}
  IN  IF of("max") # {} THEN [threshold |-> Max(of("max")), type |-> "max"]
      ELSE IF of("min") # {} THEN [threshold |-> Min(of("min")), type |-> "min"]
      ELSE [threshold |-> 0, type |-> "max"]

Suspended(st) == st.pending # None /\ st.pending.suspendKind # None

Created(level, t, dl) ==
  [crossingTime |-> t, deadline |-> t + dl, target |-> level, delayAtCrossing |-> dl,
   remaining |-> None, suspendKind |-> None]

------------------------------------------------------------------------------
(* A step of one data link returns its new state and the events it emits.   *)

Drop(d, from, to) == [type |-> "drop", link |-> d, from |-> from, level |-> to]

Activation(d, s, level, value, eligible, recompute) ==
  [type |-> "activation", link |-> d, level |-> level, eligible |-> eligible,
   recompute |-> recompute, value |-> value,
   point |-> FurthestPoint({p \in Crossed(s, value) : p.level = level})]

\* A mutation: only the way out of the warnings is announced.
DropToUnannounced(d, st, to, t, reArms) ==
  IF st.active = to THEN [st |-> st, ev |-> <<>>]
  ELSE [st |-> [st EXCEPT !.active = to, !.reArmAt = IF reArms THEN t ELSE @],
        ev |-> IF st.active = None \/ to # None THEN <<>> ELSE <<Drop(d, st.active, to)>>]

DropTo(d, st, to, t, reArms) ==
  IF st.active = to THEN [st |-> st, ev |-> <<>>]
  ELSE [st |-> [st EXCEPT !.active = to, !.reArmAt = IF reArms THEN t ELSE @],
        ev |-> IF st.active = None THEN <<>> ELSE <<Drop(d, st.active, to)>>]

\* A frame without a value: the transition is given up, unless a write has
\* suspended it, and the level is left.
Absent(d, st, t) ==
  LET given == IF st.pending # None /\ ~Suspended(st)
                 THEN [st EXCEPT !.pending = None, !.reArmAt = t] ELSE st
  IN  DropTo(d, given, None, t, TRUE)

\* The pending transition follows the highest crossed level (R14): a higher
\* level joins the timer, a lower one starts it again.
Retarget(s, st, high, t, dl) ==
  LET p == st.pending
      rank == Rank(s, high)
  IN  CASE p # None /\ high = None -> [st EXCEPT !.pending = None, !.reArmAt = t]
        [] p # None /\ high # None /\ rank > Rank(s, p.target) ->
             [st EXCEPT !.pending.target = high]
        [] p # None /\ high # None /\ rank < Rank(s, p.target) ->
             IF rank <= Rank(s, st.active) THEN [st EXCEPT !.pending = None]
             ELSE [st EXCEPT !.pending.target = high, !.pending.deadline = t + dl,
                             !.pending.crossingTime = t]
        [] p = None /\ high # None /\ (st.active = None \/ rank > Rank(s, st.active)) ->
             [st EXCEPT !.pending = Created(high, t, dl)]
        [] OTHER -> st

\* A mutation: re-armed as soon as the level was left.
EligibleAtOnce(st) ==
  \/ st.reArmAt = None
  \/ st.pending.crossingTime >= st.reArmAt

Eligible(st) ==
  \/ st.reArmAt = None
  \/ st.pending.crossingTime >= st.reArmAt + st.pending.delayAtCrossing

Fire(d, s, st, value, high, t) ==
  IF st.pending = None \/ t < st.pending.deadline THEN [st |-> st, ev |-> <<>>]
  ELSE [st |-> [st EXCEPT !.active = high, !.pending = None],
        ev |-> <<Activation(d, s, high, value, Eligible(st), FALSE)>>]

Observe(d, s, st, value, t, dl) ==
  LET high == Highest(s, value)
      dropped == IF st.active # None /\ (high = None \/ Rank(s, high) < Rank(s, st.active))
                   THEN DropTo(d, st, high, t, TRUE) ELSE [st |-> st, ev |-> <<>>]
      fired == Fire(d, s, Retarget(s, dropped.st, high, t, dl), value, high, t)
  IN  IF Suspended(st) THEN dropped
      ELSE [st |-> fired.st, ev |-> dropped.ev \o fired.ev]

\* The write-driven path: the level follows the last value at once, silently.
Recompute(d, s, st, value, t) ==
  LET high == IF value = None THEN None ELSE Highest(s, value)
      cleared == [st EXCEPT !.pending = None]
  IN  IF \/ st.active # None /\ st.active \notin LevelsOf(s)
         \/ value = None
         \/ Rank(s, high) < Rank(s, st.active)
        THEN DropTo(d, cleared, high, t, TRUE)
      ELSE IF high # None /\ Rank(s, high) > Rank(s, st.active)
        THEN [st |-> [cleared EXCEPT !.active = high],
              ev |-> <<Activation(d, s, high, value, FALSE, TRUE)>>]
      ELSE [st |-> cleared, ev |-> <<>>]

------------------------------------------------------------------------------
(* The events of a call, data link by data link, and the history.           *)

Deliver(result) ==
  /\ link' = [d \in Datalinks |-> result[d].st]
  /\ batch' = [d \in Datalinks |-> result[d].ev]

Activations(events) == {i \in DOMAIN events : events[i].type = "activation"}
Drops(events) == {i \in DOMAIN events : events[i].type = "drop"}
EligibleIn(events) == {i \in Activations(events) : events[i].eligible}

\* What is forgotten starts anew, and so does its history.
Remember(forgotten) ==
  left' = [d \in Datalinks |-> IF d \in forgotten THEN None
                               ELSE IF Drops(batch'[d]) # {} THEN now ELSE left[d]]

Known == {d \in Datalinks : settings[d] # None}

NoEvents == [d \in Datalinks |-> <<>>]
Quiet == batch' = NoEvents /\ UNCHANGED left

------------------------------------------------------------------------------
(* The operations.                                                          *)

Init ==
  /\ now = 0
  /\ settings = [d \in Datalinks |-> None]
  /\ link = [d \in Datalinks |-> NoState]
  /\ lastValue = [d \in Datalinks |-> None]
  /\ delay = StartDelay
  /\ pausedAt = None
  /\ batch = NoEvents
  /\ left = [d \in Datalinks |-> None]

Tick ==
  /\ now < MaxTime
  /\ now' = now + 1
  /\ Quiet
  /\ UNCHANGED <<settings, link, lastValue, delay, pausedAt>>

\* step: a frame of live data; a link the frame does not carry reads None.
Step(values) ==
  /\ lastValue' = [d \in Datalinks |-> IF d \in Known THEN values[d] ELSE lastValue[d]]
  /\ Deliver([d \in Datalinks |->
       IF d \notin Known THEN [st |-> link[d], ev |-> <<>>]
       ELSE IF values[d] = None THEN Absent(d, link[d], now)
       ELSE Observe(d, settings[d], link[d], values[d], now, delay)])
  /\ Remember({})
  /\ UNCHANGED <<now, settings, delay, pausedAt>>

\* refresh: the settings are replaced; what no write has suspended is
\* recomputed, a link that has gone is dropped and forgotten.
Refresh(payload, newDelay) ==
  LET reread(d) ==
        CASE payload[d] = None -> [st |-> NoState, ev |-> DropTo(d, link[d], None, now, FALSE).ev]
          [] payload[d] # None /\ settings[d] = None -> [st |-> NoState, ev |-> <<>>]
          [] OTHER -> IF Suspended(link[d]) \/ payload[d] = settings[d]
                        THEN [st |-> link[d], ev |-> <<>>]
                        ELSE Recompute(d, payload[d], link[d], lastValue[d], now)
  IN  /\ settings' = payload
      /\ delay' = newDelay
      /\ Deliver([d \in Datalinks |-> reread(d)])
      /\ Remember({d \in Datalinks : payload[d] = None})
      /\ UNCHANGED <<now, lastValue, pausedAt>>

\* A mutation: the new delay is counted from the crossing as a difference.
PushDelayDifference(newDelay) ==
  LET pushed(st) ==
        IF st.pending = None \/ Suspended(st) THEN st
        ELSE [st EXCEPT !.pending.deadline = now + Max({0, newDelay - delay})]
  IN  /\ delay' = newDelay
      /\ link' = [d \in Datalinks |-> pushed(link[d])]
      /\ Quiet
      /\ UNCHANGED <<now, settings, lastValue, pausedAt>>

\* pushDelay: the time a transition has waited counts against the new delay.
PushDelay(newDelay) ==
  LET waited(p) == now - p.crossingTime
      pushed(st) ==
        IF st.pending = None \/ Suspended(st) THEN st
        ELSE [st EXCEPT !.pending.deadline = now + Max({0, newDelay - waited(st.pending)})]
  IN  /\ delay' = newDelay
      /\ link' = [d \in Datalinks |-> pushed(link[d])]
      /\ Quiet
      /\ UNCHANGED <<now, settings, lastValue, pausedAt>>

\* invalidatePending: a write is about to change the settings of d.
InvalidatePending(d, kind) ==
  /\ d \in Known
  /\ link[d].pending # None
  /\ link' = [link EXCEPT ![d].pending =
       IF @.suspendKind = None
         THEN [@ EXCEPT !.suspendKind = kind, !.remaining = link[d].pending.deadline - now]
       ELSE IF kind = "re-enable" THEN [@ EXCEPT !.suspendKind = kind] ELSE @]
  /\ Quiet
  /\ UNCHANGED <<now, settings, lastValue, delay, pausedAt>>

\* With no level left the transition is given up, else it goes on for the time
\* that remained.
Resumed(st, high) ==
  IF high = None THEN [st EXCEPT !.pending = None, !.reArmAt = now]
  ELSE [st EXCEPT !.pending = [@ EXCEPT !.deadline = now + st.pending.remaining, !.target = high,
                                        !.remaining = None, !.suspendKind = None]]

\* resolveAfterWrite: the transition goes on, starts again or is given up.
ResolveAfterWrite(d, outcome) ==
  LET st == link[d]
      high == IF lastValue[d] = None THEN None ELSE Highest(settings[d], lastValue[d])
      resolved ==
        CASE outcome = "cancel" -> [st EXCEPT !.pending = None]
          [] outcome = "restart" ->
               [st EXCEPT !.pending = IF high = None THEN None ELSE Created(high, now, delay)]
          [] outcome = "resume" -> Resumed(st, high)
  IN  /\ d \in Known
      /\ Suspended(st)
      /\ link' = [link EXCEPT ![d] = resolved]
      /\ Quiet
      /\ UNCHANGED <<now, settings, lastValue, delay, pausedAt>>

\* reset: the connection was lost or a calibration was loaded.
Reset ==
  /\ Deliver([d \in Datalinks |->
       [st |-> NoState, ev |-> DropTo(d, link[d], None, now, FALSE).ev]])
  /\ Remember(Datalinks)
  /\ UNCHANGED <<now, settings, lastValue, delay, pausedAt>>

\* setPaused: the time in the background does not count.
SetPaused(paused) ==
  LET shift == now - pausedAt
      shifted(st) == IF st.pending = None \/ Suspended(st) THEN st
                     ELSE [st EXCEPT !.pending.deadline = @ + shift]
  IN  /\ (pausedAt = None) = paused
      /\ pausedAt' = IF paused THEN now ELSE None
      /\ link' = IF paused THEN link ELSE [d \in Datalinks |-> shifted(link[d])]
      /\ Quiet
      /\ UNCHANGED <<now, settings, lastValue, delay>>

Next ==
  \/ Tick
  \/ \E values \in [Datalinks -> Values \union {None}] : Step(values)
  \/ \E payload \in [Datalinks -> Configs \union {None}], dl \in Delays : Refresh(payload, dl)
  \/ \E dl \in Delays : PushDelay(dl)
  \/ \E d \in Datalinks, kind \in Kinds : InvalidatePending(d, kind)
  \/ \E d \in Datalinks, outcome \in {"resume", "restart", "cancel"} :
       ResolveAfterWrite(d, outcome)
  \/ Reset
  \/ \E paused \in BOOLEAN : SetPaused(paused)

Spec == Init /\ [][Next]_vars

------------------------------------------------------------------------------
(* Properties.                                                              *)

AnyLevel == UNION {LevelsOf(s) : s \in Configs}

Pendings ==
  [crossingTime : Nat, deadline : Int, target : AnyLevel, delayAtCrossing : Delays,
   remaining : Int \union {None}, suspendKind : Kinds \union {None}]

LinkStates ==
  [active : AnyLevel \union {None}, pending : Pendings \union {None}, reArmAt : Nat \union {None}]

TypeOK ==
  /\ now \in Nat
  /\ settings \in [Datalinks -> Configs \union {None}]
  /\ lastValue \in [Datalinks -> Values \union {None}]
  /\ delay \in Delays
  /\ pausedAt \in Nat \union {None}
  /\ link \in [Datalinks -> LinkStates]
  /\ left \in [Datalinks -> Nat \union {None}]

\* The listeners' promise: the events announce every change of the active
\* levels and nothing else, so a listener that replays them has the map.
Source == INSTANCE WarningSource WITH
            active <- [d \in Datalinks |-> link[d].active],
            batch <- FoldFunctionOnSet(LAMBDA events, acc : events \o acc, <<>>, batch, Datalinks),
            Levels <- AnyLevel
ImplementsSource == Source!Spec

\* A transition that waits for a write to be read back is frozen: whatever
\* frames, refreshes, delay changes and pauses come, the level of its data
\* link is not raised and nothing is announced for it (KTD2 b).
FrozenWhileSuspended ==
  [][\A d \in Datalinks :
       Suspended(link[d]) => Activations(batch'[d]) = {}]_vars

MinDelay == Min(Delays)

\* Dwell: a level that a frame makes active has been waited for as long as the
\* shortest delay, counted from the crossing, over joins, reverts, suspensions,
\* delay changes and pauses.
DwellRespected ==
  [][\A d \in Datalinks : \A i \in Activations(batch'[d]) :
       ~batch'[d][i].recompute =>
         IF link[d].pending = None THEN MinDelay = 0
         ELSE now >= link[d].pending.crossingTime + MinDelay]_vars

\* A level that flickers is not announced at every crossing: once any level
\* of a data link was left, the next one is announced at the earliest after
\* the delay of its re-arming and the dwell that follows it (R14).
AnnouncementsSpaced ==
  [][\A d \in Datalinks :
       EligibleIn(batch'[d]) # {} => left[d] = None \/ now >= left[d] + 2 * MinDelay]_vars

\* No raise before its dwell and no announcement before its re-arming, whatever
\* frames, writes, pauses and changes of the delay came in between.
NeverTooEarly == DwellRespected /\ AnnouncementsSpaced
==============================================================================
