---------------------------- MODULE WarningToasts ----------------------------
(***************************************************************************)
(* The warning toasts (lib/warningToasts.ts, lib/toasts.svelte.ts): a      *)
(* listener of the evaluator that shows at most MaxStack toasts, gives     *)
(* way to escalations, and keeps the toasts evicted before the first run   *)
(* of the connection is complete in a queue that is replayed afterwards.   *)
(*                                                                         *)
(* Time is abstracted: a tick finds any set of the running deadlines past  *)
(* (none while the application is in the background), and finds the replay *)
(* gap past or not.                                                        *)
(***************************************************************************)
EXTENDS WarningSource, FiniteSets

CONSTANTS MaxStack,     \* maxStack: toasts shown at a time
          MaxToasts     \* bound: toasts held, and toasts in the queue

\* "No level" is no level, and the stack has room for a toast.
ASSUME ToastAssumption ==
  /\ None \notin Levels
  /\ IsFiniteSet(Datalinks)
  /\ MaxStack \in Nat \ {0}

VARIABLES toasts,       \* the toasts, oldest first
          queue,        \* pendingQueue: id, data link and level
          shadow,       \* activeLevelIdByDataId: the levels the toasts know of
          firstRunDone, \* firstRunDone
          background,   \* pausedAt is set
          doubled       \* the data links that a replay has given a second toast on
                        \* the screen since the last reset (a history variable)

toastVars == <<toasts, queue, shadow, firstRunDone, background, doubled>>

ToastInit ==
  /\ toasts = <<>>
  /\ queue = <<>>
  /\ shadow = [d \in Datalinks |-> None]
  /\ firstRunDone = FALSE
  /\ background = FALSE
  /\ doubled = {}

\* filter: the toasts of a list that are in a set, in their order.  A recursive
\* function instead of SelectSeq, so that it can be reasoned about.
KeptTo(ts, S) ==
  LET K[n \in 0..Len(ts)] ==
        IF n = 0 THEN <<>>
        ELSE IF ts[n] \in S THEN Append(K[n - 1], ts[n]) ELSE K[n - 1]
  IN  K

Kept(ts, S) == KeptTo(ts, S)[Len(ts)]

Displayed(ts) == Kept(ts, {t \in ToSet(ts) : t.displayed})
Without(ts, id) == Kept(ts, {t \in ToSet(ts) : t.id # id})
ToastIds(ts) == {ts[i].id : i \in DOMAIN ts}

\* An id no toast and no queue item has; the code counts, which names the same.
FreshId(s) ==
  CHOOSE id \in 1..(Len(s.toasts) + Len(s.queue) + 1) :
    id \notin ToastIds(s.toasts) \union ToastIds(s.queue)

Toast(id, e, class, shows) ==
  [id |-> id, link |-> e.link, level |-> e.level, class |-> class,
   displayed |-> shows, queued |-> FALSE]

\* addVisibleToast and the hidden announcement of pushArrival.
Added(s, e, class, shows) ==
  [s EXCEPT !.toasts = Append(@, Toast(FreshId(s), e, class, shows))]

\* A toast that gives way: queued before the first run is complete, gone after.
MovedToPending(s, t) ==
  [s EXCEPT !.toasts = [i \in DOMAIN @ |->
               IF @[i].id = t.id THEN [@[i] EXCEPT !.displayed = FALSE, !.queued = TRUE] ELSE @[i]],
            !.queue = Append(@, [id |-> t.id, link |-> t.link, level |-> t.level])]

Evicted(s, t, forGood) ==
  IF forGood THEN [s EXCEPT !.toasts = Without(@, t.id)] ELSE MovedToPending(s, t)

\* pushArrival: with the stack full, the oldest toast that is no escalation
\* gives way.  An escalation that finds only escalations is announced without
\* being shown, unless the panel is open; any other arrival takes the oldest.
PushArrival(s, e, class, panelOpen) ==
  LET stack == Displayed(s.toasts)
      plain == Kept(stack, {t \in ToSet(stack) : t.class # "escalation"})
  IN  IF Len(stack) < MaxStack THEN Added(s, e, class, TRUE)
      ELSE IF plain # <<>> THEN Added(Evicted(s, Head(plain), firstRunDone), e, class, TRUE)
      ELSE IF class = "escalation"
        THEN IF panelOpen THEN s ELSE Added(s, e, class, FALSE)
      ELSE Added(Evicted(s, Head(stack), TRUE), e, class, TRUE)

\* The toasts shown for a data link take the level it now has.
Relabelled(ts, d, level) ==
  [i \in DOMAIN ts |-> IF ts[i].displayed /\ ts[i].link = d
                         THEN [ts[i] EXCEPT !.level = level] ELSE ts[i]]

ToastState == [toasts |-> toasts, queue |-> queue]

OnToastActivation(e, panelOpen) ==
  LET class == IF shadow[e.link] # None /\ shadow[e.link] # e.level
                 THEN "escalation" ELSE "activation"
      mine == Kept(toasts, {t \in ToSet(toasts) : t.displayed /\ t.link = e.link})
      cleared == IF mine = <<>> THEN ToastState
                 ELSE [ToastState EXCEPT !.toasts = Without(@, Head(mine).id)]
  IN  IF e.recompute \/ ~e.eligible
        THEN [ToastState EXCEPT !.toasts = Relabelled(@, e.link, e.level)]
      ELSE PushArrival(cleared, e, class, panelOpen)

OnToastDrop(e) ==
  [ToastState EXCEPT !.toasts =
     IF e.level = None THEN Kept(@, {t \in ToSet(@) : ~(t.displayed /\ t.link = e.link)})
     ELSE Relabelled(@, e.link, e.level)]

ToastsBecome(s) == toasts' = s.toasts /\ queue' = s.queue

\* Only an arrival looks whether the panel is open.
ToastsReact(e) ==
  /\ shadow' = [shadow EXCEPT ![e.link] = e.level]
  /\ \E panelOpen \in BOOLEAN :
       /\ panelOpen => e.type = "activation" /\ e.eligible
       /\ ToastsBecome(IF e.type = "activation" THEN OnToastActivation(e, panelOpen)
                       ELSE OnToastDrop(e))
  /\ Len(toasts') <= MaxToasts
  /\ Len(queue') <= MaxToasts
  /\ UNCHANGED <<firstRunDone, background, doubled>>

------------------------------------------------------------------------------

\* A mutation: the level is not looked at again before the replay.
SurfacedUnchecked(s, gapPassed) ==
  LET item == Head(s.queue)
      rest == [s EXCEPT !.queue = Tail(@)]
  IN  IF \/ ~firstRunDone \/ s.queue = <<>> \/ ~gapPassed
         \/ Len(Displayed(s.toasts)) >= MaxStack
        THEN s
      ELSE IF item.id \notin ToastIds(s.toasts) THEN rest
      ELSE [rest EXCEPT !.toasts = [i \in DOMAIN @ |->
              IF @[i].id = item.id THEN [@[i] EXCEPT !.displayed = TRUE, !.queued = FALSE]
              ELSE @[i]]]

\* surfaceQueued: at most one toast of the queue is dealt with; one whose data
\* link has left the level is thrown away.
Surfaced(s, gapPassed) ==
  LET item == Head(s.queue)
      rest == [s EXCEPT !.queue = Tail(@)]
  IN  IF \/ ~firstRunDone \/ s.queue = <<>> \/ ~gapPassed
         \/ Len(Displayed(s.toasts)) >= MaxStack
        THEN s
      ELSE IF item.id \notin ToastIds(s.toasts) THEN rest
      ELSE IF active[item.link] # item.level
        THEN [rest EXCEPT !.toasts = Without(@, item.id)]
      ELSE [rest EXCEPT !.toasts = [i \in DOMAIN @ |->
              IF @[i].id = item.id THEN [@[i] EXCEPT !.displayed = TRUE, !.queued = FALSE]
              ELSE @[i]]]

Doubled(ts) ==
  {ts[i].link : i \in {x \in DOMAIN ts : ts[x].displayed /\
                        \E y \in DOMAIN ts : y # x /\ ts[y].displayed /\ ts[y].link = ts[x].link}}

\* tick: the toasts whose deadline has passed go, shown or hidden, but not the
\* queued ones; then the queue.
ToastTick ==
  \E past \in SUBSET {t \in ToSet(toasts) : ~t.queued}, gapPassed \in BOOLEAN :
    /\ background => past = {}
    /\ LET ticked == Surfaced([ToastState EXCEPT !.toasts = Kept(@, ToSet(@) \ past)], gapPassed)
       IN  /\ ticked # ToastState
           /\ ToastsBecome(ticked)
           /\ doubled' = doubled \cup Doubled(ticked.toasts)
    /\ UNCHANGED <<shadow, firstRunDone, background>>

\* setBackgrounded; on the way back revalidate removes what is out of date.
Background ==
  /\ ~background
  /\ background' = TRUE
  /\ UNCHANGED <<toasts, queue, shadow, firstRunDone, doubled>>

Foreground ==
  /\ background
  /\ background' = FALSE
  /\ toasts' = Kept(toasts, {t \in ToSet(toasts) : ~t.displayed \/ active[t.link] = t.level})
  /\ UNCHANGED <<queue, shadow, firstRunDone, doubled>>

\* handleTap and dismiss: a toast that is shown goes.
TapToast ==
  \E t \in ToSet(toasts) :
    /\ t.displayed
    /\ toasts' = Without(toasts, t.id)
    /\ UNCHANGED <<queue, shadow, firstRunDone, background, doubled>>

FirstRunCompleted ==
  /\ ~firstRunDone
  /\ firstRunDone' = TRUE
  /\ UNCHANGED <<toasts, queue, shadow, background, doubled>>

\* reset.
ToastReset ==
  /\ toasts' = <<>>
  /\ queue' = <<>>
  /\ shadow' = [d \in Datalinks |-> None]
  /\ firstRunDone' = FALSE
  /\ background' = FALSE
  /\ doubled' = {}

ToastOperation == ToastTick \/ Background \/ Foreground \/ TapToast \/ FirstRunCompleted

ToastsSeeEvent ==
  \E e \in Possible : Publish(<<e>>) /\ ToastsReact(e)

\* The connection was lost or a calibration was loaded: the evaluator is reset,
\* which drops every active level, and then the toasts.
ToastsSeeReset == Publish(DropsOfAll) /\ ToastReset

ToastsNext ==
  \/ ToastsSeeEvent
  \/ ToastsSeeReset
  \/ ToastOperation /\ UNCHANGED sourceVars

ToastsSpec == Init /\ ToastInit /\ [][ToastsNext]_<<sourceVars, toastVars>>

------------------------------------------------------------------------------
(* Properties.                                                              *)

ToastTypeOK ==
  /\ \A i \in DOMAIN toasts :
       /\ toasts[i].link \in Datalinks
       /\ toasts[i].class \in {"activation", "escalation"}
       /\ toasts[i].displayed \in BOOLEAN
       /\ toasts[i].queued => ~toasts[i].displayed
  /\ firstRunDone \in BOOLEAN
  /\ background \in BOOLEAN

\* A toast on the screen names the level its data link has: drops, silent
\* activations, evictions, replays and the way back from the background keep
\* the toasts in agreement with the gauges and the panel, until a replay puts a
\* second toast of the data link beside the first: an escalation then takes the
\* older one away and leaves the other one as it is.
ShownToastIsTrue ==
  \A i \in DOMAIN toasts :
    toasts[i].displayed /\ toasts[i].link \notin doubled => toasts[i].level = active[toasts[i].link]

\* "The fresh toast becomes the single on-screen representation"
\* (lib/__tests__/warningToasts.test.ts:75): a data link has one toast on the screen.
SingleRepresentation == Doubled(toasts) = {}

\* Only a replay can give a data link a second toast.
DoubledByReplay == Doubled(toasts) \subseteq doubled

\* The stack is bounded, replays included.
StackBounded == Len(Displayed(toasts)) <= MaxStack

\* A queued toast is in the queue and the queue has it once: an eviction that
\* loses its place would leave a toast that neither shows nor expires.
QueuedIsQueued ==
  \A i \in DOMAIN toasts : toasts[i].queued =>
    Cardinality({j \in DOMAIN queue : queue[j].id = toasts[i].id}) = 1

\* Arrivals, evictions, replays, silent activations, drops and the way back from
\* the background, in any order, keep the toasts true, bounded and accounted for.
ToastsAgree == ShownToastIsTrue /\ DoubledByReplay /\ StackBounded /\ QueuedIsQueued
==============================================================================
