------------------------------ MODULE BridgeFifo ------------------------------
(* What the pages rely on when they await the bridge: their calls are       *)
(* answered one at a time, in the order in which they were made, and once   *)
(* the bridge is dead every call is refused.  The modules of the pages keep *)
(* such a queue of their own.                                               *)
EXTENDS Naturals

VARIABLES asked,     \* calls made so far; a call is its number
          open,      \* the calls without an answer
          refused,   \* the calls that were answered with an error
          alive      \* the bridge

fifoVars == <<asked, open, refused, alive>>

Init ==
  /\ asked = 0
  /\ open = {}
  /\ refused = {}
  /\ alive = TRUE

Ask ==
  /\ asked' = asked + 1
  /\ open' = open \cup {asked + 1}
  /\ UNCHANGED <<refused, alive>>

Oldest(i) == i \in open /\ \A j \in open : i <= j

\* The host has an answer for the oldest call.
Answer(i) ==
  /\ alive
  /\ Oldest(i)
  /\ open' = open \ {i}
  /\ UNCHANGED <<asked, refused, alive>>

\* An error of it, or the death of the bridge.
Refuse(i) ==
  /\ Oldest(i)
  /\ open' = open \ {i}
  /\ refused' = refused \cup {i}
  /\ alive' \in {alive, FALSE}
  /\ UNCHANGED asked

Next == Ask \/ \E i \in open : Answer(i) \/ Refuse(i)

Spec == Init /\ [][Next]_fifoVars
===============================================================================
