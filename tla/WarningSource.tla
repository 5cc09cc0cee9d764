---------------------------- MODULE WarningSource ----------------------------
(***************************************************************************)
(* What the warning evaluator promises to its listeners (the warning       *)
(* store, the warning toasts and the pulse counter): a map from data link  *)
(* to active level, of which every change is announced.  The listeners     *)
(* keep copies of that map and never read it again, so the promise is that *)
(* replaying the announced events gives the map itself.                    *)
(*                                                                         *)
(* An event is a drop or an activation of one data link.  The events of    *)
(* one call of the evaluator reach the listeners together, in order.       *)
(***************************************************************************)
EXTENDS Sequences, Naturals, SequencesExt

CONSTANTS Datalinks,  \* the data links that may carry a warning
          Levels,     \* the levels a data link may have
          None        \* no level (null in the code)

VARIABLES active,     \* active[d]: the level of d that is active, or None
          batch       \* the events delivered by the last call

sourceVars == <<active, batch>>

Drop(d, from, to) == [type |-> "drop", link |-> d, from |-> from, level |-> to]

Activation(d, level, eligible, recompute, value) ==
  [type |-> "activation", link |-> d, level |-> level, eligible |-> eligible,
   recompute |-> recompute, value |-> value]

\* The map after the first n events of a batch: a function, so that it can be
\* used from a module with proofs.
ReplayTo(map, events) ==
  LET R[n \in 0..Len(events)] ==
        IF n = 0 THEN map
        ELSE [R[n - 1] EXCEPT ![events[n].link] = events[n].level]
  IN  R

Replay(map, events) == ReplayTo(map, events)[Len(events)]

\* A drop names the level it leaves and goes to another one; an activation
\* names a level.
ChainsFrom(map, events) ==
  \A i \in 1..Len(events) :
    LET before == ReplayTo(map, events)[i - 1][events[i].link]
    IN  IF events[i].type = "drop"
          THEN /\ events[i].from = before
               /\ before # None
               /\ events[i].level # before
          ELSE events[i].level # None

\* The single events that may follow: a drop goes to another level, and an
\* activation by a recompute is never eligible for a toast.
Possible ==
  {e \in {Drop(d, active[d], level) : d \in {x \in Datalinks : active[x] # None},
                                     level \in Levels \union {None}} : e.level # e.from}
  \union
  {e \in {Activation(d, level, eligible, recompute, 0) :
            d \in Datalinks, level \in Levels, eligible \in BOOLEAN, recompute \in BOOLEAN} :
     ~(e.eligible /\ e.recompute)}

Init ==
  /\ active = [d \in Datalinks |-> None]
  /\ batch = <<>>

Publish(events) ==
  /\ ChainsFrom(active, events)
  /\ batch' = events
  /\ active' = Replay(active, events)

\* reset: every active level is dropped.
DropsOfAll ==
  LET links == SetToSeq({d \in Datalinks : active[d] # None})
  IN  [i \in DOMAIN links |-> Drop(links[i], active[links[i]], None)]

Next == Publish(batch')

Spec == Init /\ [][Next]_sourceVars
==============================================================================
