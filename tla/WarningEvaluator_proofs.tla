----------------------- MODULE WarningEvaluator_proofs -----------------------
(***************************************************************************)
(* The types, FrozenWhileSuspended and NeverTooEarly hold for any data     *)
(* links, settings, values and delays.  Each operation hands the state of  *)
(* a data link to a chain of operators; a lemma for each of them says that *)
(* the state it returns is sound and which events it may emit.  Sound adds *)
(* to the types what the two properties rest on: a running transition ends *)
(* no earlier than the shortest delay after its crossing, of a suspended   *)
(* one enough remains, and the re-arming time of a link is not before it   *)
(* last left a level.                                                      *)
(*                                                                         *)
(* The second half shows that the evaluator implements WarningSource.  A   *)
(* lemma for each operator says that the events it returns lead from the   *)
(* level before it to the level after it; the fold that joins the events   *)
(* of the data links, and the replay of them, are recursive functions,     *)
(* whose values are found by induction on the size of their argument.      *)
(***************************************************************************)
EXTENDS WarningEvaluator, FiniteSetTheorems, SequenceTheorems, WellFoundedInduction, TLAPS

(* The state of a data link that last left a level at lt, at the time t.    *)
Sound(st, lt, t) ==
  /\ st \in LinkStates
  /\ st.pending # None =>
       /\ st.pending.crossingTime <= t
       /\ IF st.pending.suspendKind = None
          THEN st.pending.deadline >= st.pending.crossingTime + MinDelay
          ELSE /\ st.pending.remaining \in Int
               /\ t + st.pending.remaining >= st.pending.crossingTime + MinDelay
  /\ lt # None =>
       /\ lt \in Nat /\ lt <= t
       /\ st.reArmAt # None /\ st.reArmAt \in Nat /\ lt <= st.reArmAt

(* What a call may make of such a state, and which events it may emit.      *)
SoundResult(r, st, lt, t) ==
  /\ Sound(r.st, IF Drops(r.ev) # {} THEN t ELSE lt, t)
  /\ \A i \in Activations(r.ev) :
       /\ ~Suspended(st)
       /\ ~r.ev[i].recompute =>
            IF st.pending = None THEN MinDelay = 0 ELSE t >= st.pending.crossingTime + MinDelay
  /\ EligibleIn(r.ev) # {} => lt = None \/ t >= lt + 2 * MinDelay

AtMostADrop(events) == events = <<>> \/ \E x : x.type = "drop" /\ events = <<x>>
AtMostAnActivation(events) == events = <<>> \/ \E y : y.type = "activation" /\ events = <<y>>

IInv ==
  /\ TypeOK
  /\ pausedAt # None => pausedAt <= now
  /\ \A d \in Datalinks :
       /\ Sound(link[d], left[d], now)
       /\ settings[d] = None => link[d] = NoState /\ left[d] = None

(* What a step may announce.                                                *)
Announced(d) ==
  /\ \A i \in Activations(batch'[d]) :
       /\ ~Suspended(link[d])
       /\ ~batch'[d][i].recompute =>
            IF link[d].pending = None THEN MinDelay = 0
            ELSE now >= link[d].pending.crossingTime + MinDelay
  /\ EligibleIn(batch'[d]) # {} => left[d] = None \/ now >= left[d] + 2 * MinDelay

StepSound == IInv' /\ \A d \in Datalinks : Announced(d)

------------------------------------------------------------------------------
USE ConstantsAssumption DEF ConstantsAssumption

(* A set of naturals below a bound has a least element.                     *)
LEMMA LeastExists ==
  ASSUME NEW n \in Nat, NEW H \in SUBSET (0..n), H # {}
  PROVE  \E i \in H : \A j \in H : i <= j
<1> DEFINE T == {0..i : i \in H}
<1>1. IsFiniteSet(0..n)
  BY FS_Interval
<1>2. T \subseteq FiniteSubsetsOf(0..n) /\ T # {}
  <2>1. \A i \in H : 0..i \subseteq 0..n
    OBVIOUS
  <2>2. FiniteSubsetsOf(0..n) = SUBSET (0..n)
    BY <1>1, FS_FiniteSubsetsOfFinite
  <2>3. PICK h \in H : TRUE
    OBVIOUS
  <2>4. (0..h) \in T
    OBVIOUS
  <2>5. T \subseteq SUBSET (0..n)
    BY <2>1
  <2> QED BY <2>2, <2>4, <2>5
<1>3. \E x \in T : \A y \in T : ~(<<y, x>> \in StrictSubsetOrdering(0..n))
  <2> HIDE DEF T
  <2> QED BY <1>2, FS_StrictSubsetOrderingWellFounded, WFMin
<1>4. PICK i \in H : \A j \in H : ~(<<0..j, 0..i>> \in StrictSubsetOrdering(0..n))
  BY <1>3
<1>5. ASSUME NEW j \in H, j < i PROVE FALSE
  <2>1. (0..j) \subseteq (0..i) /\ i \in 0..i /\ i \notin 0..j
    BY <1>5
  <2>2. (0..j) \in SUBSET (0..n) /\ (0..i) \in SUBSET (0..n)
    OBVIOUS
  <2>3. <<0..j, 0..i>> \in StrictSubsetOrdering(0..n)
    <3> DEFINE a == 0..j  b == 0..i  N == 0..n
    <3>1. a \in SUBSET N /\ b \in SUBSET N /\ a \subseteq b /\ a # b
      BY <2>1, <2>2
    <3> HIDE DEF a, b, N
    <3>2. <<a, b>> \in StrictSubsetOrdering(N)
      BY <3>1 DEF StrictSubsetOrdering
    <3> QED BY <3>2 DEF a, b, N
  <2> QED BY <1>4, <2>3
<1> QED BY <1>5

(* So there is a shortest delay, and a highest of the ranks of a setting.   *)
LEMMA ShortestDelay ==
  /\ MinDelay \in Delays /\ MinDelay \in Nat
  /\ \A dl \in Delays : dl \in Nat /\ MinDelay <= dl
<1> DEFINE H == {dl \in Delays : dl <= StartDelay}
<1>1. H \in SUBSET (0..StartDelay) /\ StartDelay \in H /\ StartDelay \in Nat
  <2>1. StartDelay \in Nat /\ StartDelay <= StartDelay
    OBVIOUS
  <2>2. \A dl \in H : dl \in 0..StartDelay
    BY <2>1
  <2> QED BY <2>1, <2>2
<1>2. \E i \in H : \A j \in H : i <= j
  <2> HIDE DEF H
  <2> QED BY <1>1, LeastExists
<1>3. \E i \in Delays : \A j \in Delays : i <= j
  BY <1>2
<1> QED BY <1>3 DEF MinDelay, Min

LEMMA HighestRank ==
  ASSUME NEW n \in Nat, NEW S \in SUBSET (1..n), S # {}
  PROVE  Max(S) \in S
<1> DEFINE H == {n - i : i \in S}
<1>1. H \in SUBSET (0..n) /\ H # {}
  <2>1. \A i \in S : n - i \in 0..n
    OBVIOUS
  <2> QED BY <2>1
<1>2. \E i \in H : \A j \in H : i <= j
  <2> HIDE DEF H
  <2> QED BY <1>1, LeastExists
<1>3. \E m \in S : \A j \in S : n - m <= n - j
  <2>1. PICK h \in H : \A j \in H : h <= j
    BY <1>2
  <2>2. PICK m \in S : h = n - m
    OBVIOUS
  <2>3. \A j \in S : n - j \in H
    OBVIOUS
  <2> HIDE DEF H
  <2> QED BY <2>1, <2>2, <2>3
<1>4. PICK m \in S : \A j \in S : n - m <= n - j
  BY <1>3
<1>5. \A j \in S : m >= j
  BY <1>4
<1> QED BY <1>5 DEF Max

(* rankByLevelId: a number.                                                 *)
LEMMA RankIsNat ==
  ASSUME NEW s \in Configs, NEW level
  PROVE  Rank(s, level) \in Nat
<1>1. s.levels \in Seq(STRING) /\ DOMAIN s.levels = 1..Len(s.levels) /\ Len(s.levels) \in Nat
  BY LenProperties
<1>2. level \in LevelsOf(s) => \E i \in DOMAIN s.levels : s.levels[i] = level
  BY DEF LevelsOf, Range
<1> QED BY <1>1, <1>2 DEF Rank

(* highestCrossed: a level of the settings, or none.                        *)
LEMMA HighestLevel ==
  ASSUME NEW s \in Configs, NEW value
  PROVE  Highest(s, value) \in AnyLevel \union {None}
<1> DEFINE ranks == {Rank(s, p.level) : p \in Crossed(s, value)}
<1>1. s.levels \in Seq(STRING) /\ DOMAIN s.levels = 1..Len(s.levels) /\ Len(s.levels) \in Nat
  BY LenProperties
<1>2. \A p \in Crossed(s, value) : Rank(s, p.level) \in 1..Len(s.levels)
  <2> SUFFICES ASSUME NEW p \in Crossed(s, value) PROVE Rank(s, p.level) \in 1..Len(s.levels)
    OBVIOUS
  <2>1. p.level \in LevelsOf(s)
    BY DEF Crossed
  <2>2. \E i \in DOMAIN s.levels : s.levels[i] = p.level
    BY <2>1 DEF LevelsOf, Range
  <2> QED BY <1>1, <2>1, <2>2 DEF Rank
<1>3. CASE ranks = {}
  BY <1>3 DEF Highest
<1>4. CASE ranks # {}
  <2>1. ranks \in SUBSET (1..Len(s.levels))
    BY <1>2
  <2>2. Max(ranks) \in 1..Len(s.levels)
    <3> HIDE DEF ranks
    <3> QED BY <1>1, <1>4, <2>1, HighestRank
  <2>3. Highest(s, value) = s.levels[Max(ranks)]
    BY <1>4 DEF Highest
  <2>4. s.levels[Max(ranks)] \in LevelsOf(s)
    <3> HIDE DEF ranks
    <3> QED BY <1>1, <2>2 DEF LevelsOf, Range
  <2> QED BY <2>3, <2>4 DEF AnyLevel
<1> QED BY <1>3, <1>4

------------------------------------------------------------------------------
(* The operators one by one: each keeps the state sound and emits only what *)
(* SoundResult allows.                                                      *)
HIDE DEF MinDelay, Rank, Highest, AnyLevel, FurthestPoint

(* The larger of two numbers.                                               *)
LEMMA LargerOfTwo ==
  ASSUME NEW a \in Int, NEW b \in Int
  PROVE  Max({a, b}) \in Int /\ Max({a, b}) >= a /\ Max({a, b}) >= b
<1>1. \E x \in {a, b} : \A y \in {a, b} : x >= y
  OBVIOUS
<1> QED BY <1>1 DEF Max

(* Which events of a call are activations, and which are drops.             *)
LEMMA NoEvent == Drops(<<>>) = {} /\ Activations(<<>>) = {}
<1>1. DOMAIN <<>> = {}
  OBVIOUS
<1> QED BY <1>1 DEF Drops, Activations

LEMMA OneDrop ==
  ASSUME NEW x, x.type = "drop"
  PROVE  Drops(<<x>>) = {1} /\ Activations(<<x>>) = {}
<1>1. DOMAIN <<x>> = {1} /\ <<x>>[1] = x
  OBVIOUS
<1> QED BY <1>1 DEF Drops, Activations

LEMMA OneActivation ==
  ASSUME NEW y, y.type = "activation"
  PROVE  Drops(<<y>>) = {} /\ Activations(<<y>>) = {1} /\ <<y>>[1] = y
<1>1. DOMAIN <<y>> = {1} /\ <<y>>[1] = y
  OBVIOUS
<1> QED BY <1>1 DEF Drops, Activations

LEMMA JoinedEvents ==
  ASSUME NEW S, NEW a \in Seq(S), NEW b \in Seq(S)
  PROVE  /\ Drops(a \o b) # {} => Drops(a) # {} \/ Drops(b) # {}
         /\ Drops(a) # {} => Drops(a \o b) # {}
         /\ Activations(a \o b) # {} => Activations(a) # {} \/ Activations(b) # {}
         /\ EligibleIn(a \o b) # {} => EligibleIn(a) # {} \/ EligibleIn(b) # {}
<1> DEFINE ab == a \o b  m == Len(a)  n == Len(b)
<1>1. /\ DOMAIN a = 1..m /\ DOMAIN b = 1..n /\ DOMAIN ab = 1..(m + n) /\ m \in Nat /\ n \in Nat
  BY ConcatProperties, LenProperties
<1>2. \A i \in 1..(m + n) : ab[i] = IF i <= m THEN a[i] ELSE b[i - m]
  BY ConcatProperties
<1> HIDE DEF ab, m, n
<1>3. \A i \in DOMAIN ab : (i \in DOMAIN a /\ ab[i] = a[i]) \/ (i - m \in DOMAIN b /\ ab[i] = b[i - m])
  BY <1>1, <1>2
<1>4. \A i \in DOMAIN a : i \in DOMAIN ab /\ ab[i] = a[i]
  BY <1>1, <1>2
<1>5. Drops(ab) # {} => Drops(a) # {} \/ Drops(b) # {}
  BY <1>3 DEF Drops
<1>6. Drops(a) # {} => Drops(ab) # {}
  BY <1>4 DEF Drops
<1>7. Activations(ab) # {} => Activations(a) # {} \/ Activations(b) # {}
  BY <1>3 DEF Activations
<1>8. EligibleIn(ab) # {} => EligibleIn(a) # {} \/ EligibleIn(b) # {}
  BY <1>3 DEF EligibleIn, Activations
<1> QED BY <1>5, <1>6, <1>7, <1>8 DEF ab

(* A call that changes nothing.                                             *)
LEMMA KeptSound ==
  ASSUME NEW st, NEW lt, NEW t, Sound(st, lt, t)
  PROVE  SoundResult([st |-> st, ev |-> <<>>], st, lt, t)
  BY DEF SoundResult, Drops, Activations, EligibleIn

(* dropTo: the level is left at t, and the state is re-armed from t on.     *)
LEMMA DropSound ==
  ASSUME NEW d, NEW st, NEW lt, NEW t \in Nat, Sound(st, lt, t),
         NEW to \in AnyLevel \union {None}
  PROVE  /\ SoundResult(DropTo(d, st, to, t, TRUE), st, lt, t)
         /\ DropTo(d, st, to, t, TRUE).st.pending = st.pending
         /\ AtMostADrop(DropTo(d, st, to, t, TRUE).ev)
<1> DEFINE r == DropTo(d, st, to, t, TRUE)
<1>1. CASE st.active = to
  BY <1>1, KeptSound DEF DropTo, AtMostADrop
<1>2. CASE st.active # to
  <2> DEFINE new == [active |-> to, pending |-> st.pending, reArmAt |-> t]
  <2>1. r.st = new
    BY <1>2 DEF DropTo, Sound, LinkStates
  <2>2. new \in LinkStates
    BY DEF Sound, LinkStates
  <2>3. \A l \in {lt, t} : Sound(new, l, t)
    <3> SUFFICES ASSUME NEW l \in {lt, t} PROVE Sound(new, l, t)
      OBVIOUS
    <3>1. new.pending = st.pending /\ new.reArmAt = t /\ t # None
      OBVIOUS
    <3>2. l # None => l \in Nat /\ l <= t
      BY DEF Sound
    <3> HIDE DEF new
    <3> QED BY <2>2, <3>1, <3>2 DEF Sound
  <2>4. AtMostADrop(r.ev)
    <3>1. Drop(d, st.active, to).type = "drop"
      BY DEF Drop
    <3>2. r.ev = <<>> \/ r.ev = <<Drop(d, st.active, to)>>
      BY <1>2 DEF DropTo
    <3> HIDE DEF r
    <3> QED BY <3>1, <3>2 DEF AtMostADrop
  <2>5. Activations(r.ev) = {}
    <3> HIDE DEF r
    <3> QED BY <2>4, NoEvent, OneDrop DEF AtMostADrop
  <2>6. SoundResult(r, st, lt, t)
    <3> HIDE DEF r, new
    <3> QED BY <2>1, <2>3, <2>5 DEF SoundResult, EligibleIn
  <2>7. r.st.pending = st.pending
    <3> HIDE DEF r
    <3> QED BY <2>1
  <2> HIDE DEF r
  <2> QED BY <2>4, <2>6, <2>7 DEF r
<1> QED BY <1>1, <1>2

(* A frame without a value.                                                 *)
LEMMA AbsentSound ==
  ASSUME NEW d, NEW st, NEW lt, NEW t \in Nat, Sound(st, lt, t)
  PROVE  SoundResult(Absent(d, st, t), st, lt, t) /\ Activations(Absent(d, st, t).ev) = {}
<1> DEFINE given == IF st.pending # None /\ ~Suspended(st)
                      THEN [st EXCEPT !.pending = None, !.reArmAt = t] ELSE st
           r == DropTo(d, given, None, t, TRUE)
<1>1. Sound(given, lt, t)
  <2>1. CASE st.pending # None /\ ~Suspended(st)
    <3> DEFINE new == [active |-> st.active, pending |-> None, reArmAt |-> t]
    <3>1. given = new
      BY <2>1 DEF Sound, LinkStates
    <3>2. Sound(new, lt, t)
      BY DEF Sound, LinkStates
    <3> QED BY <3>1, <3>2
  <2>2. CASE ~(st.pending # None /\ ~Suspended(st))
    BY <2>2
  <2> QED BY <2>1, <2>2
<1> HIDE DEF given
<1>2. SoundResult(r, given, lt, t) /\ AtMostADrop(r.ev)
  <2>1. None \in AnyLevel \union {None}
    OBVIOUS
  <2> QED BY <1>1, <2>1, DropSound
<1>3. Activations(r.ev) = {}
  <2> HIDE DEF r
  <2> QED BY <1>2, NoEvent, OneDrop DEF AtMostADrop
<1>4. SoundResult(r, st, lt, t)
  <2> HIDE DEF r
  <2> QED BY <1>2, <1>3 DEF SoundResult
<1>5. Absent(d, st, t) = r
  BY DEF Absent, given
<1> HIDE DEF r
<1> QED BY <1>3, <1>4, <1>5

(* Created: a new transition, whose delay is not below the shortest.        *)
LEMMA CreatedSound ==
  ASSUME NEW level \in AnyLevel, NEW t \in Nat, NEW dl \in Delays
  PROVE  /\ Created(level, t, dl) \in Pendings
         /\ Created(level, t, dl).crossingTime = t
         /\ Created(level, t, dl).suspendKind = None
         /\ Created(level, t, dl).deadline >= t + MinDelay
<1>1. dl \in Nat /\ MinDelay \in Nat /\ MinDelay <= dl
  BY ShortestDelay
<1>2. t + dl \in Int
  BY <1>1
<1> QED BY <1>1, <1>2 DEF Created, Pendings

(* A pending transition that replaces another one, with the re-arming time  *)
(* kept, or moved to the present.                                           *)
LEMMA PendingReplaced ==
  ASSUME NEW st, NEW lt, NEW t \in Nat, Sound(st, lt, t),
         NEW p \in Pendings \union {None}, NEW r \in {st.reArmAt, t},
         p # None => /\ p.crossingTime <= t
                     /\ p.suspendKind = None
                     /\ p.deadline >= p.crossingTime + MinDelay
  PROVE  Sound([active |-> st.active, pending |-> p, reArmAt |-> r], lt, t)
<1> DEFINE new == [active |-> st.active, pending |-> p, reArmAt |-> r]
<1>1. new \in LinkStates
  BY DEF Sound, LinkStates
<1>2. new.pending = p /\ new.reArmAt = r
  OBVIOUS
<1>3. lt # None => lt \in Nat /\ lt <= t /\ r # None /\ r \in Nat /\ lt <= r
  BY DEF Sound
<1> HIDE DEF new
<1>4. Sound(new, lt, t)
  BY <1>1, <1>2, <1>3 DEF Sound
<1> QED BY <1>4 DEF new

(* The pending transition follows the highest level that is crossed.        *)
LEMMA RetargetSound ==
  ASSUME NEW s \in Configs, NEW st, NEW lt, NEW t \in Nat, NEW dl \in Delays,
         Sound(st, lt, t), ~Suspended(st), NEW high \in AnyLevel \union {None}
  PROVE  LET new == Retarget(s, st, high, t, dl)
         IN  /\ Sound(new, lt, t) /\ ~Suspended(new)
             /\ new.pending # None =>
                  \/ new.pending.crossingTime = t /\ new.pending.deadline >= t + MinDelay
                  \/ st.pending # None /\ new.pending.crossingTime = st.pending.crossingTime
<1> DEFINE new == Retarget(s, st, high, t, dl)
           p == st.pending
           rank == Rank(s, high)
           with(q, r) == [active |-> st.active, pending |-> q, reArmAt |-> r]
           Goal == /\ Sound(new, lt, t) /\ ~Suspended(new)
                   /\ new.pending # None =>
                        \/ new.pending.crossingTime = t /\ new.pending.deadline >= t + MinDelay
                        \/ st.pending # None /\ new.pending.crossingTime = st.pending.crossingTime
<1>1. st \in LinkStates /\ st = with(st.pending, st.reArmAt)
  BY DEF Sound, LinkStates
<1>2. p # None => /\ p \in Pendings /\ p.suspendKind = None /\ p.crossingTime <= t
                  /\ p.deadline >= p.crossingTime + MinDelay
  BY <1>1 DEF Suspended, Sound, LinkStates
<1>3. t + dl \in Int /\ t + dl >= t + MinDelay
  BY ShortestDelay
<1>4. CASE p # None /\ high = None
  <2>1. new = with(None, t)
    BY <1>1, <1>4 DEF Retarget
  <2>2. Sound(with(None, t), lt, t)
    BY PendingReplaced
  <2> QED BY <2>1, <2>2 DEF Suspended
<1>5. CASE p # None /\ high # None /\ rank > Rank(s, p.target)
  <2> DEFINE q == [crossingTime |-> p.crossingTime, deadline |-> p.deadline, target |-> high,
                   delayAtCrossing |-> p.delayAtCrossing, remaining |-> p.remaining,
                   suspendKind |-> p.suspendKind]
  <2>1. new = with(q, st.reArmAt)
    <3>1. new = [st EXCEPT !.pending.target = high]
      <4>1. rank \in Nat /\ Rank(s, p.target) \in Nat
        BY RankIsNat
      <4>2. ~(rank < Rank(s, p.target))
        <5> HIDE DEF p, rank
        <5> QED BY <1>5, <4>1
      <4> QED BY <1>5, <4>2 DEF Retarget
    <3>2. p \in Pendings
      BY <1>2, <1>5
    <3>3. [p EXCEPT !.target = high] = q
      BY <3>2 DEF Pendings
    <3>4. st = with(p, st.reArmAt)
      BY <1>1
    <3> HIDE DEF q, new
    <3> QED BY <3>1, <3>3, <3>4
  <2>2. q \in Pendings /\ q.suspendKind = None /\ q.crossingTime = p.crossingTime
        /\ q.deadline = p.deadline
    BY <1>2, <1>5 DEF Pendings
  <2> HIDE DEF q
  <2>3. Sound(with(q, st.reArmAt), lt, t)
    BY <1>2, <1>5, <2>2, PendingReplaced
  <2> QED BY <1>5, <2>1, <2>2, <2>3 DEF Suspended
<1>6. CASE p # None /\ high # None /\ rank < Rank(s, p.target) /\ ~(rank > Rank(s, p.target))
  <2>1. CASE rank <= Rank(s, st.active)
    <3>1. new = with(None, st.reArmAt)
      BY <1>1, <1>6, <2>1 DEF Retarget
    <3>2. Sound(with(None, st.reArmAt), lt, t)
      BY PendingReplaced
    <3> QED BY <3>1, <3>2 DEF Suspended
  <2>2. CASE ~(rank <= Rank(s, st.active))
    <3> DEFINE q == [crossingTime |-> t, deadline |-> t + dl, target |-> high,
                     delayAtCrossing |-> p.delayAtCrossing, remaining |-> p.remaining,
                     suspendKind |-> p.suspendKind]
    <3>1. new = with(q, st.reArmAt)
      BY <1>1, <1>2, <1>6, <2>2 DEF Retarget, Pendings
    <3>2. q \in Pendings /\ q.suspendKind = None /\ q.crossingTime = t /\ q.deadline = t + dl
      BY <1>2, <1>3, <1>6 DEF Pendings
    <3> HIDE DEF q
    <3>3. q.crossingTime <= t /\ q.deadline >= q.crossingTime + MinDelay
      BY <1>3, <3>2
    <3>4. Sound(with(q, st.reArmAt), lt, t)
      BY <3>2, <3>3, PendingReplaced
    <3> QED BY <1>3, <3>1, <3>2, <3>4 DEF Suspended
  <2> QED BY <2>1, <2>2
<1>7. CASE p = None /\ high # None /\ (st.active = None \/ rank > Rank(s, st.active))
  <2> DEFINE q == Created(high, t, dl)
  <2>1. new = with(q, st.reArmAt)
    BY <1>1, <1>7 DEF Retarget
  <2>2. q \in Pendings /\ q.suspendKind = None /\ q.crossingTime = t /\ q.deadline >= t + MinDelay
    BY <1>7, CreatedSound
  <2> HIDE DEF q
  <2>3. q.crossingTime <= t /\ q.deadline >= q.crossingTime + MinDelay
    BY <2>2
  <2>4. Sound(with(q, st.reArmAt), lt, t)
    BY <2>2, <2>3, PendingReplaced
  <2> QED BY <2>1, <2>2, <2>4 DEF Suspended
<1>8. CASE new = st
  BY <1>8
<1>9. new = st \/ (p # None /\ high = None)
      \/ (p # None /\ high # None /\ rank > Rank(s, p.target))
      \/ (p # None /\ high # None /\ rank < Rank(s, p.target) /\ ~(rank > Rank(s, p.target)))
      \/ (p = None /\ high # None /\ (st.active = None \/ rank > Rank(s, st.active)))
  BY DEF Retarget
<1> QED BY <1>4, <1>5, <1>6, <1>7, <1>8, <1>9

(* A transition fires when its deadline has passed, hence after its dwell;  *)
(* it is announced only when its re-arming and its own delay lie behind it. *)
LEMMA FireSound ==
  ASSUME NEW d, NEW s, NEW value, NEW st, NEW lt, NEW t \in Nat, Sound(st, lt, t),
         ~Suspended(st), NEW high \in AnyLevel \union {None}
  PROVE  LET r == Fire(d, s, st, value, high, t)
         IN  /\ Sound(r.st, lt, t)
             /\ AtMostAnActivation(r.ev)
             /\ r.ev # <<>> => st.pending # None /\ t >= st.pending.deadline
             /\ EligibleIn(r.ev) # {} => lt = None \/ t >= lt + 2 * MinDelay
<1> DEFINE r == Fire(d, s, st, value, high, t)
           event == Activation(d, s, high, value, Eligible(st), FALSE)
           fires == st.pending # None /\ t >= st.pending.deadline
<1>1. CASE ~fires
  <2>1. r = [st |-> st, ev |-> <<>>]
    <3>1. st.pending # None => st.pending \in Pendings
      BY DEF Sound, LinkStates
    <3>2. st.pending # None => st.pending.deadline \in Int
      BY <3>1 DEF Pendings
    <3> QED BY <1>1, <3>2 DEF Fire
  <2>2. EligibleIn(<<>>) = {}
    BY NoEvent DEF EligibleIn
  <2> HIDE DEF r
  <2>3. r.st = st /\ r.ev = <<>>
    BY <2>1
  <2> QED BY <2>2, <2>3 DEF AtMostAnActivation, r
<1>2. CASE fires
  <2> DEFINE new == [active |-> high, pending |-> None, reArmAt |-> st.reArmAt]
  <2>1. st.pending \in Pendings
    BY <1>2 DEF Sound, LinkStates
  <2>2. st.pending.deadline \in Int /\ st.pending.crossingTime \in Nat
        /\ st.pending.delayAtCrossing \in Nat /\ MinDelay <= st.pending.delayAtCrossing
        /\ MinDelay \in Nat
    BY <2>1, ShortestDelay DEF Pendings
  <2>3. ~(t < st.pending.deadline) /\ st.pending.crossingTime + MinDelay <= t
    BY <1>2, <2>2 DEF Sound, Suspended
  <2>4. r = [st |-> [st EXCEPT !.active = high, !.pending = None], ev |-> <<event>>]
    BY <1>2, <2>3 DEF Fire
  <2>5. [st EXCEPT !.active = high, !.pending = None] = new
    <3> DEFINE q == [active |-> high, pending |-> st.pending, reArmAt |-> st.reArmAt]
    <3>1. st \in LinkStates
      BY DEF Sound
    <3>2. [st EXCEPT !.active = high] = q
      BY <3>1 DEF LinkStates
    <3>3. [[st EXCEPT !.active = high] EXCEPT !.pending = None]
            = [st EXCEPT !.active = high, !.pending = None]
      OBVIOUS
    <3>4. [q EXCEPT !.pending = None] = new
      OBVIOUS
    <3> QED BY <3>2, <3>3, <3>4
  <2>6. Sound(new, lt, t)
    BY DEF Sound, LinkStates
  <2>7. event.type = "activation" /\ event.eligible = Eligible(st)
    BY DEF Activation
  <2> HIDE DEF event
  <2>8. AtMostAnActivation(<<event>>)
    BY <2>7 DEF AtMostAnActivation
  <2>9. ASSUME EligibleIn(<<event>>) # {}, lt # None
        PROVE  t >= lt + 2 * MinDelay
    <3>1. Eligible(st)
      BY <2>7, <2>9, OneActivation DEF EligibleIn
    <3>2. lt \in Nat /\ st.reArmAt # None /\ st.reArmAt \in Nat /\ lt <= st.reArmAt
      BY <2>9 DEF Sound
    <3>3. st.pending.crossingTime >= st.reArmAt + st.pending.delayAtCrossing
      BY <3>1, <3>2 DEF Eligible
    <3>4. \A c, x, y, m \in Nat :
            c >= x + y /\ m <= y /\ lt <= x /\ c + m <= t => t >= lt + 2 * m
      BY <3>2
    <3> QED BY <2>2, <2>3, <3>2, <3>3, <3>4
  <2> HIDE DEF r, new
  <2>10. r.st = new /\ r.ev = <<event>>
    BY <2>4, <2>5
  <2> QED BY <1>2, <2>6, <2>8, <2>9, <2>10 DEF r
<1> QED BY <1>1, <1>2

(* A frame with a value: the level falls at once, and rises after its dwell.*)
LEMMA ObserveSound ==
  ASSUME NEW d, NEW s \in Configs, NEW value, NEW st, NEW lt, NEW t \in Nat,
         NEW dl \in Delays, Sound(st, lt, t)
  PROVE  SoundResult(Observe(d, s, st, value, t, dl), st, lt, t)
<1> DEFINE high == Highest(s, value)
           dropped == IF st.active # None /\ (high = None \/ Rank(s, high) < Rank(s, st.active))
                        THEN DropTo(d, st, high, t, TRUE) ELSE [st |-> st, ev |-> <<>>]
           to == Retarget(s, dropped.st, high, t, dl)
           fired == Fire(d, s, to, value, high, t)
           both == [st |-> fired.st, ev |-> dropped.ev \o fired.ev]
           l == IF Drops(dropped.ev) # {} THEN t ELSE lt
<1>1. high \in AnyLevel \union {None}
  BY HighestLevel
<1>2. /\ SoundResult(dropped, st, lt, t) /\ AtMostADrop(dropped.ev)
      /\ dropped.st.pending = st.pending
  <2> HIDE DEF high
  <2>1. CASE st.active # None /\ (high = None \/ Rank(s, high) < Rank(s, st.active))
    <3>1. dropped = DropTo(d, st, high, t, TRUE)
      BY <2>1
    <3>2. /\ SoundResult(DropTo(d, st, high, t, TRUE), st, lt, t)
          /\ DropTo(d, st, high, t, TRUE).st.pending = st.pending
          /\ AtMostADrop(DropTo(d, st, high, t, TRUE).ev)
      BY <1>1, DropSound
    <3> HIDE DEF dropped
    <3> QED BY <3>1, <3>2
  <2>2. CASE ~(st.active # None /\ (high = None \/ Rank(s, high) < Rank(s, st.active)))
    <3>1. dropped = [st |-> st, ev |-> <<>>]
      BY <2>2
    <3>2. AtMostADrop(<<>>)
      BY DEF AtMostADrop
    <3>3. SoundResult([st |-> st, ev |-> <<>>], st, lt, t)
      BY KeptSound
    <3> HIDE DEF dropped
    <3>4. dropped.st = st /\ dropped.ev = <<>>
      BY <3>1
    <3> QED BY <3>1, <3>2, <3>3, <3>4
  <2> QED BY <2>1, <2>2
<1>3. CASE Suspended(st)
  BY <1>2, <1>3 DEF Observe
<1>4. CASE ~Suspended(st)
  <2>1. Observe(d, s, st, value, t, dl) = both
    BY <1>4 DEF Observe
  <2> HIDE DEF high, dropped
  <2>2. Sound(dropped.st, l, t) /\ ~Suspended(dropped.st) /\ Activations(dropped.ev) = {}
    <3>1. Activations(dropped.ev) = {}
      BY <1>2, NoEvent, OneDrop DEF AtMostADrop
    <3> QED BY <1>2, <1>4, <3>1 DEF SoundResult, Suspended
  <2> HIDE DEF l
  <2>3. /\ Sound(to, l, t) /\ ~Suspended(to)
        /\ to.pending # None =>
             \/ to.pending.crossingTime = t /\ to.pending.deadline >= t + MinDelay
             \/ st.pending # None /\ to.pending.crossingTime = st.pending.crossingTime
    BY <1>1, <1>2, <2>2, RetargetSound
  <2> HIDE DEF to
  <2>4. /\ Sound(fired.st, l, t)
        /\ AtMostAnActivation(fired.ev)
        /\ fired.ev # <<>> => to.pending # None /\ t >= to.pending.deadline
        /\ EligibleIn(fired.ev) # {} => l = None \/ t >= l + 2 * MinDelay
    BY <1>1, <2>3, FireSound
  <2> HIDE DEF fired
  <2>5. fired.ev # <<>> =>
          IF st.pending = None THEN MinDelay = 0 ELSE t >= st.pending.crossingTime + MinDelay
    <3> SUFFICES ASSUME fired.ev # <<>>
                 PROVE  IF st.pending = None THEN MinDelay = 0
                        ELSE t >= st.pending.crossingTime + MinDelay
      OBVIOUS
    <3>1. to.pending \in Pendings /\ to.pending.deadline \in Int /\ t >= to.pending.deadline
          /\ to.pending.crossingTime \in Nat
          /\ to.pending.deadline >= to.pending.crossingTime + MinDelay
      BY <2>3, <2>4 DEF Sound, LinkStates, Pendings, Suspended
    <3>2. MinDelay \in Nat
      BY ShortestDelay
    <3>3. st.pending # None => st.pending.crossingTime \in Nat /\ st.pending.crossingTime <= t
      BY DEF Sound, LinkStates, Pendings
    <3>4. CASE to.pending.crossingTime = t /\ to.pending.deadline >= t + MinDelay
      <4>1. MinDelay = 0
        BY <3>1, <3>2, <3>4
      <4> QED BY <3>3, <4>1
    <3>5. CASE st.pending # None /\ to.pending.crossingTime = st.pending.crossingTime
      BY <3>1, <3>2, <3>5
    <3> QED BY <2>3, <2>4, <3>4, <3>5
  <2> DEFINE Joined == /\ (Drops(both.ev) # {}) <=> (Drops(dropped.ev) # {})
                       /\ EligibleIn(both.ev) # {} => EligibleIn(fired.ev) # {}
                       /\ Activations(both.ev) # {} => fired.ev # <<>>
  <2>6. Joined
    <3> DEFINE S == {dropped.ev[1], fired.ev[1]}
    <3>1. dropped.ev \in Seq(S)
      <4>1. ASSUME NEW x, dropped.ev = <<x>> PROVE dropped.ev \in Seq(S)
        <5>1. x \in S
          BY <4>1
        <5> HIDE DEF S
        <5> QED BY <4>1, <5>1
      <4>2. <<>> \in Seq(S)
        OBVIOUS
      <4> HIDE DEF S
      <4> QED BY <1>2, <4>1, <4>2 DEF AtMostADrop
    <3>2. fired.ev \in Seq(S)
      <4>1. ASSUME NEW y, fired.ev = <<y>> PROVE fired.ev \in Seq(S)
        <5>1. y \in S
          BY <4>1
        <5> HIDE DEF S
        <5> QED BY <4>1, <5>1
      <4>2. <<>> \in Seq(S)
        OBVIOUS
      <4> HIDE DEF S
      <4> QED BY <2>4, <4>1, <4>2 DEF AtMostAnActivation
    <3>3. Drops(fired.ev) = {}
      BY <2>4, NoEvent, OneActivation DEF AtMostAnActivation
    <3>4. EligibleIn(dropped.ev) = {}
      BY <2>2 DEF EligibleIn
    <3>5. fired.ev = <<>> => Activations(fired.ev) = {}
      BY NoEvent
    <3>6. both.ev = dropped.ev \o fired.ev
      OBVIOUS
    <3> HIDE DEF both, S
    <3>7. /\ Drops(both.ev) # {} => Drops(dropped.ev) # {} \/ Drops(fired.ev) # {}
          /\ Drops(dropped.ev) # {} => Drops(both.ev) # {}
          /\ Activations(both.ev) # {} =>
               Activations(dropped.ev) # {} \/ Activations(fired.ev) # {}
          /\ EligibleIn(both.ev) # {} => EligibleIn(dropped.ev) # {} \/ EligibleIn(fired.ev) # {}
      <4> DEFINE e == dropped.ev  f == fired.ev
      <4> HIDE DEF e, f
      <4>1. e \in Seq(S) /\ f \in Seq(S) /\ both.ev = e \o f
        BY <3>1, <3>2, <3>6 DEF e, f
      <4>2. /\ Drops(e \o f) # {} => Drops(e) # {} \/ Drops(f) # {}
            /\ Drops(e) # {} => Drops(e \o f) # {}
            /\ Activations(e \o f) # {} => Activations(e) # {} \/ Activations(f) # {}
            /\ EligibleIn(e \o f) # {} => EligibleIn(e) # {} \/ EligibleIn(f) # {}
        BY <4>1, JoinedEvents
      <4> QED BY <4>1, <4>2 DEF e, f
    <3> QED BY <2>2, <3>3, <3>4, <3>5, <3>7
  <2>7. EligibleIn(both.ev) # {} => lt = None \/ t >= lt + 2 * MinDelay
    <3> SUFFICES ASSUME EligibleIn(both.ev) # {}, lt # None PROVE t >= lt + 2 * MinDelay
      OBVIOUS
    <3>1. l = None \/ t >= l + 2 * MinDelay
      BY <2>4, <2>6
    <3>2. lt \in Nat /\ lt <= t /\ MinDelay \in Nat
      BY ShortestDelay DEF Sound
    <3>3. l = t \/ l = lt
      BY DEF l
    <3>4. t # None
      OBVIOUS
    <3> QED BY <3>1, <3>2, <3>3, <3>4
  <2>8. Sound(both.st, IF Drops(both.ev) # {} THEN t ELSE lt, t)
    BY <2>4, <2>6 DEF l
  <2> HIDE DEF both
  <2>9. SoundResult(both, st, lt, t)
    BY <1>4, <2>5, <2>6, <2>7, <2>8 DEF SoundResult
  <2> QED BY <2>1, <2>9
<1> QED BY <1>3, <1>4

(* recompute: the write-driven path, which no transition survives.          *)
LEMMA RecomputeSound ==
  ASSUME NEW d, NEW s \in Configs, NEW value, NEW st, NEW lt, NEW t \in Nat,
         Sound(st, lt, t), ~Suspended(st)
  PROVE  SoundResult(Recompute(d, s, st, value, t), st, lt, t)
<1> DEFINE r == Recompute(d, s, st, value, t)
           high == IF value = None THEN None ELSE Highest(s, value)
           cleared == [st EXCEPT !.pending = None]
           event == Activation(d, s, high, value, FALSE, TRUE)
           new(a) == [active |-> a, pending |-> None, reArmAt |-> st.reArmAt]
<1>1. high \in AnyLevel \union {None}
  BY HighestLevel
<1>2. st \in LinkStates
  BY DEF Sound
<1>3. cleared = new(st.active)
  BY <1>2 DEF LinkStates
<1>4. \A a \in AnyLevel \union {None} : Sound(new(a), lt, t)
  BY <1>2 DEF Sound, LinkStates
<1>5. Sound(cleared, lt, t) /\ ~Suspended(cleared)
  <2>1. st.active \in AnyLevel \union {None}
    BY <1>2 DEF LinkStates
  <2>2. ~Suspended(new(st.active))
    BY DEF Suspended
  <2> QED BY <1>3, <1>4, <2>1, <2>2
<1>6. [cleared EXCEPT !.active = high] = new(high)
  <2> HIDE DEF cleared, high
  <2> QED BY <1>3
<1>7. event.type = "activation" /\ event.recompute = TRUE /\ event.eligible = FALSE
  BY DEF Activation
<1> DEFINE dropping == DropTo(d, cleared, high, t, TRUE)
           raising == [st |-> new(high), ev |-> <<event>>]
           keeping == [st |-> cleared, ev |-> <<>>]
<1>8. r = dropping \/ r = raising \/ r = keeping
  <2>1. r = dropping \/ r = [st |-> [cleared EXCEPT !.active = high], ev |-> <<event>>]
        \/ r = keeping
    BY DEF Recompute
  <2> HIDE DEF r, cleared, high, event, new
  <2> QED BY <1>6, <2>1
<1> HIDE DEF high, cleared, event
<1>9. SoundResult(dropping, st, lt, t)
  <2>1. SoundResult(dropping, cleared, lt, t) /\ AtMostADrop(dropping.ev)
    BY <1>1, <1>5, DropSound
  <2>2. Activations(dropping.ev) = {}
    <3> HIDE DEF dropping
    <3> QED BY <2>1, NoEvent, OneDrop DEF AtMostADrop
  <2> HIDE DEF dropping
  <2> QED BY <2>1, <2>2 DEF SoundResult
<1>10. SoundResult(raising, st, lt, t)
  <2>1. Sound(new(high), lt, t)
    BY <1>1, <1>4
  <2>2. /\ Drops(<<event>>) = {} /\ Activations(<<event>>) = {1} /\ <<event>>[1] = event
        /\ EligibleIn(<<event>>) = {}
    BY <1>7, OneActivation DEF EligibleIn
  <2>3. raising.st = new(high) /\ raising.ev = <<event>>
    OBVIOUS
  <2> HIDE DEF raising, new
  <2> QED BY <1>7, <2>1, <2>2, <2>3 DEF SoundResult
<1>11. SoundResult(keeping, st, lt, t)
  <2>1. keeping.st = cleared /\ keeping.ev = <<>>
    OBVIOUS
  <2> HIDE DEF keeping
  <2> QED BY <1>5, <2>1, NoEvent DEF SoundResult, EligibleIn
<1> HIDE DEF r, dropping, raising, keeping
<1>12. SoundResult(r, st, lt, t)
  BY <1>8, <1>9, <1>10, <1>11
<1> QED BY <1>12 DEF r

------------------------------------------------------------------------------
(* The operations.                                                          *)

(* The invariant after a step, part by part.                                *)
LEMMA InvAfter ==
  ASSUME TypeOK', pausedAt' # None => pausedAt' <= now',
         \A d \in Datalinks : Sound(link'[d], left'[d], now'),
         \A d \in Datalinks : settings'[d] = None => link'[d] = NoState /\ left'[d] = None
  PROVE  IInv'
<1>1. MinDelay' = MinDelay
  BY DEF MinDelay
<1>2. \A d \in Datalinks : Sound(link[d], left[d], now)'
  BY <1>1 DEF Sound, LinkStates, Pendings, AnyLevel
<1>3. NoState' = NoState
  BY DEF NoState
<1> QED BY <1>2, <1>3 DEF IInv

(* Nothing is emitted by a quiet step.                                      *)
LEMMA QuietAnnounces ==
  ASSUME batch' = NoEvents
  PROVE  \A d \in Datalinks : Announced(d)
  BY NoEvent DEF NoEvents, Announced, EligibleIn

(* The types of a state of a data link.                                     *)
LEMMA NoStateSound ==
  ASSUME NEW t \in Nat
  PROVE  Sound(NoState, None, t)
  BY DEF Sound, NoState, LinkStates

(* A call whose results are sound leaves a sound state.                     *)
LEMMA Delivered ==
  ASSUME IInv, NEW result, NEW forgotten \in SUBSET Datalinks,
         Deliver(result), Remember(forgotten), now' = now,
         \A d \in Datalinks \ forgotten : SoundResult(result[d], link[d], left[d], now),
         \A d \in forgotten : result[d].st = NoState /\ Activations(result[d].ev) = {}
  PROVE  /\ link' \in [Datalinks -> LinkStates]
         /\ left' \in [Datalinks -> Nat \union {None}]
         /\ \A d \in Datalinks : Sound(link'[d], left'[d], now') /\ Announced(d)
         /\ \A d \in forgotten : link'[d] = NoState /\ left'[d] = None
<1>1. now \in Nat /\ left \in [Datalinks -> Nat \union {None}]
  BY DEF IInv, TypeOK
<1>2. ASSUME NEW d \in Datalinks
      PROVE  /\ link'[d] = result[d].st /\ batch'[d] = result[d].ev
             /\ left'[d] = IF d \in forgotten THEN None
                           ELSE IF Drops(result[d].ev) # {} THEN now ELSE left[d]
  BY DEF Deliver, Remember
<1>3. ASSUME NEW d \in Datalinks
      PROVE  Sound(link'[d], left'[d], now')
  <2>1. CASE d \in forgotten
    BY <1>1, <1>2, <2>1, NoStateSound
  <2>2. CASE d \notin forgotten
    BY <1>2, <2>2 DEF SoundResult
  <2> QED BY <2>1, <2>2
<1>4. ASSUME NEW d \in Datalinks
      PROVE  Announced(d)
  <2>1. batch'[d] = result[d].ev
    BY <1>2
  <2>2. CASE d \in forgotten
    BY <2>1, <2>2 DEF Announced, EligibleIn
  <2>3. CASE d \notin forgotten
    BY <2>1, <2>3 DEF SoundResult, Announced
  <2> QED BY <2>2, <2>3
<1>5. link' \in [Datalinks -> LinkStates]
  <2>1. \A d \in Datalinks : link'[d] \in LinkStates
    BY <1>3 DEF Sound
  <2>2. link' = [d \in Datalinks |-> link'[d]]
    BY DEF Deliver
  <2> QED BY <2>1, <2>2
<1>6. left' \in [Datalinks -> Nat \union {None}]
  <2>1. \A d \in Datalinks : left'[d] \in Nat \union {None}
    BY <1>1, <1>2
  <2>2. left' = [d \in Datalinks |-> left'[d]]
    BY DEF Remember
  <2> QED BY <2>1, <2>2
<1> QED BY <1>2, <1>3, <1>4, <1>5, <1>6

(* The invariant holds at the start.                                        *)
LEMMA InitInv == Init => IInv
<1> SUFFICES ASSUME Init PROVE IInv
  OBVIOUS
<1>1. NoState \in LinkStates /\ Sound(NoState, None, 0)
  BY NoStateSound DEF Sound
<1>2. TypeOK
  BY <1>1 DEF Init, TypeOK
<1> QED BY <1>1, <1>2 DEF Init, IInv

(* Time passes: what was in the past stays there.                           *)
LEMMA TickSound ==
  ASSUME IInv, Tick
  PROVE  StepSound
<1>1. now \in Nat /\ now' = now + 1 /\ now' \in Nat /\ MinDelay \in Nat
  BY ShortestDelay DEF IInv, TypeOK, Tick
<1>2. ASSUME NEW st, NEW lt, Sound(st, lt, now)
      PROVE  Sound(st, lt, now')
  <2>1. st.pending # None => st.pending \in Pendings
    BY <1>2 DEF Sound, LinkStates
  <2>2. st.pending # None => st.pending.crossingTime \in Nat
    BY <2>1 DEF Pendings
  <2> QED BY <1>1, <1>2, <2>2 DEF Sound
<1>3. \A d \in Datalinks : Sound(link'[d], left'[d], now')
  BY <1>2 DEF IInv, Tick, Quiet
<1>4. TypeOK'
  BY <1>1 DEF IInv, TypeOK, Tick, Quiet, LinkStates, Pendings, AnyLevel
<1>5. pausedAt' # None => pausedAt' <= now'
  BY <1>1 DEF IInv, TypeOK, Tick
<1>6. \A d \in Datalinks : settings'[d] = None => link'[d] = NoState /\ left'[d] = None
  BY DEF IInv, Tick, Quiet
<1>7. \A d \in Datalinks : Announced(d)
  BY QuietAnnounces DEF Tick, Quiet
<1> QED BY <1>3, <1>4, <1>5, <1>6, <1>7, InvAfter DEF StepSound

(* A step whose calls are sound, and whose other variables are.             *)
LEMMA CallsSound ==
  ASSUME IInv, NEW result, NEW forgotten \in SUBSET Datalinks,
         Deliver(result), Remember(forgotten), UNCHANGED <<now, pausedAt>>,
         \A d \in Datalinks \ forgotten : SoundResult(result[d], link[d], left[d], now),
         \A d \in forgotten : result[d].st = NoState /\ Activations(result[d].ev) = {},
         settings' \in [Datalinks -> Configs \union {None}],
         lastValue' \in [Datalinks -> Values \union {None}], delay' \in Delays,
         \A d \in Datalinks : settings'[d] = None =>
           \/ d \in forgotten
           \/ settings[d] = None /\ result[d] = [st |-> link[d], ev |-> <<>>]
  PROVE  StepSound
<1>1. /\ link' \in [Datalinks -> LinkStates]
      /\ left' \in [Datalinks -> Nat \union {None}]
      /\ \A d \in Datalinks : Sound(link'[d], left'[d], now') /\ Announced(d)
      /\ \A d \in forgotten : link'[d] = NoState /\ left'[d] = None
  <2>1. now' = now
    OBVIOUS
  <2> QED BY <2>1, Delivered
<1>2. TypeOK'
  <2>1. now' \in Nat /\ pausedAt' \in Nat \union {None}
    BY DEF IInv, TypeOK
  <2>2. LinkStates' = LinkStates
    BY DEF LinkStates, Pendings, AnyLevel
  <2> QED BY <1>1, <2>1, <2>2 DEF TypeOK
<1>3. pausedAt' # None => pausedAt' <= now'
  BY DEF IInv
<1>4. ASSUME NEW d \in Datalinks, settings'[d] = None
      PROVE  link'[d] = NoState /\ left'[d] = None
  <2>1. CASE d \in forgotten
    BY <1>1, <2>1
  <2>2. CASE d \notin forgotten
    <3>1. settings[d] = None /\ result[d] = [st |-> link[d], ev |-> <<>>]
      BY <1>4, <2>2
    <3>2. link[d] = NoState /\ left[d] = None
      BY <3>1 DEF IInv
    <3>3. link'[d] = NoState /\ batch'[d] = <<>>
      BY <3>1, <3>2 DEF Deliver
    <3>4. left'[d] = left[d]
      BY <2>2, <3>3, NoEvent DEF Remember
    <3> QED BY <3>2, <3>3, <3>4
  <2> QED BY <2>1, <2>2
<1> QED BY <1>1, <1>2, <1>3, <1>4, InvAfter DEF StepSound

(* step.                                                                    *)
LEMMA StepKeeps ==
  ASSUME IInv, NEW values \in [Datalinks -> Values \union {None}], Step(values)
  PROVE  StepSound
<1> DEFINE result == [d \in Datalinks |->
             IF d \notin Known THEN [st |-> link[d], ev |-> <<>>]
             ELSE IF values[d] = None THEN Absent(d, link[d], now)
             ELSE Observe(d, settings[d], link[d], values[d], now, delay)]
<1>1. TypeOK /\ now \in Nat /\ delay \in Delays
  BY DEF IInv, TypeOK
<1>2. ASSUME NEW d \in Datalinks
      PROVE  SoundResult(result[d], link[d], left[d], now)
  <2>1. Sound(link[d], left[d], now)
    BY DEF IInv
  <2>2. CASE d \notin Known
    BY <2>1, <2>2, KeptSound
  <2>3. CASE d \in Known /\ values[d] = None
    BY <1>1, <2>1, <2>3, AbsentSound
  <2>4. CASE d \in Known /\ values[d] # None
    <3>1. settings[d] \in Configs
      BY <1>1, <2>4 DEF Known, TypeOK
    <3>2. SoundResult(Observe(d, settings[d], link[d], values[d], now, delay),
                      link[d], left[d], now)
      BY <1>1, <2>1, <3>1, ObserveSound
    <3> QED BY <2>4, <3>2
  <2> QED BY <2>2, <2>3, <2>4
<1>3. ASSUME NEW d \in Datalinks, settings'[d] = None
      PROVE  settings[d] = None /\ result[d] = [st |-> link[d], ev |-> <<>>]
  BY <1>3 DEF Step, Known
<1>4. Deliver(result) /\ Remember({}) /\ UNCHANGED <<now, pausedAt>>
  BY DEF Step
<1>5. /\ settings' \in [Datalinks -> Configs \union {None}]
      /\ lastValue' \in [Datalinks -> Values \union {None}] /\ delay' \in Delays
  BY <1>1 DEF TypeOK, Step
<1> HIDE DEF result
<1> QED BY <1>2, <1>3, <1>4, <1>5, CallsSound

(* A state given up: the way out of the level, and nothing else.            *)
LEMMA GivenUpSound ==
  ASSUME NEW d, NEW st, NEW lt, NEW t \in Nat
  PROVE  /\ Activations(DropTo(d, st, None, t, FALSE).ev) = {}
         /\ EligibleIn(DropTo(d, st, None, t, FALSE).ev) = {}
<1> DEFINE events == DropTo(d, st, None, t, FALSE).ev
<1>1. AtMostADrop(events)
  <2>1. Drop(d, st.active, None).type = "drop"
    BY DEF Drop
  <2>2. events = <<>> \/ events = <<Drop(d, st.active, None)>>
    BY DEF DropTo
  <2> HIDE DEF events
  <2> QED BY <2>1, <2>2 DEF AtMostADrop
<1> HIDE DEF events
<1>2. Activations(events) = {}
  BY <1>1, NoEvent, OneDrop DEF AtMostADrop
<1>3. EligibleIn(events) = {}
  BY <1>2 DEF EligibleIn
<1> QED BY <1>2, <1>3 DEF events

(* refresh.                                                                 *)
LEMMA RefreshKeeps ==
  ASSUME IInv, NEW payload \in [Datalinks -> Configs \union {None}], NEW dl \in Delays,
         Refresh(payload, dl)
  PROVE  StepSound
<1> DEFINE reread(d) ==
             CASE payload[d] = None ->
                    [st |-> NoState, ev |-> DropTo(d, link[d], None, now, FALSE).ev]
               [] payload[d] # None /\ settings[d] = None -> [st |-> NoState, ev |-> <<>>]
               [] OTHER -> IF Suspended(link[d]) \/ payload[d] = settings[d]
                             THEN [st |-> link[d], ev |-> <<>>]
                             ELSE Recompute(d, payload[d], link[d], lastValue[d], now)
           result == [d \in Datalinks |-> reread(d)]
           forgotten == {d \in Datalinks : payload[d] = None}
<1>1. TypeOK /\ now \in Nat
  BY DEF IInv, TypeOK
<1>2. ASSUME NEW d \in Datalinks \ forgotten
      PROVE  SoundResult(result[d], link[d], left[d], now)
  <2>1. Sound(link[d], left[d], now) /\ payload[d] # None /\ payload[d] \in Configs
    BY DEF IInv
  <2>2. CASE settings[d] = None
    <3>1. link[d] = NoState /\ result[d] = [st |-> link[d], ev |-> <<>>]
      BY <2>1, <2>2 DEF IInv
    <3> QED BY <2>1, <3>1, KeptSound
  <2>3. CASE settings[d] # None /\ (Suspended(link[d]) \/ payload[d] = settings[d])
    <3>1. result[d] = [st |-> link[d], ev |-> <<>>]
      BY <2>1, <2>3
    <3> QED BY <2>1, <3>1, KeptSound
  <2>4. CASE settings[d] # None /\ ~(Suspended(link[d]) \/ payload[d] = settings[d])
    <3>1. result[d] = Recompute(d, payload[d], link[d], lastValue[d], now)
      BY <2>1, <2>4
    <3>2. SoundResult(Recompute(d, payload[d], link[d], lastValue[d], now),
                      link[d], left[d], now)
      BY <1>1, <2>1, <2>4, RecomputeSound
    <3> QED BY <3>1, <3>2
  <2> QED BY <2>2, <2>3, <2>4
<1>3. ASSUME NEW d \in forgotten
      PROVE  result[d].st = NoState /\ Activations(result[d].ev) = {}
  <2>1. result[d] = [st |-> NoState, ev |-> DropTo(d, link[d], None, now, FALSE).ev]
    OBVIOUS
  <2>2. Activations(DropTo(d, link[d], None, now, FALSE).ev) = {}
    BY <1>1, GivenUpSound
  <2> DEFINE events == DropTo(d, link[d], None, now, FALSE).ev
  <2>3. result[d].st = NoState /\ result[d].ev = events
    <3> HIDE DEF result, events
    <3>1. result[d] = [st |-> NoState, ev |-> events]
      BY <2>1 DEF events
    <3> QED BY <3>1
  <2> HIDE DEF result, events
  <2>4. Activations(events) = {}
    BY <2>2 DEF events
  <2> QED BY <2>3, <2>4
<1>4. Deliver(result) /\ Remember(forgotten) /\ UNCHANGED <<now, pausedAt>>
  BY DEF Refresh
<1>5. /\ settings' \in [Datalinks -> Configs \union {None}]
      /\ lastValue' \in [Datalinks -> Values \union {None}] /\ delay' \in Delays
  BY <1>1 DEF TypeOK, Refresh
<1>6. \A d \in Datalinks : settings'[d] = None => d \in forgotten
  BY DEF Refresh
<1>7. forgotten \in SUBSET Datalinks
  OBVIOUS
<1> HIDE DEF result, forgotten
<1> QED BY <1>2, <1>3, <1>4, <1>5, <1>6, <1>7, CallsSound

(* reset.                                                                   *)
LEMMA ResetKeeps ==
  ASSUME IInv, Reset
  PROVE  StepSound
<1> DEFINE result == [d \in Datalinks |->
             [st |-> NoState, ev |-> DropTo(d, link[d], None, now, FALSE).ev]]
<1>1. TypeOK /\ now \in Nat
  BY DEF IInv, TypeOK
<1>2. \A d \in Datalinks : result[d].st = NoState /\ Activations(result[d].ev) = {}
  BY <1>1, GivenUpSound
<1>3. Deliver(result) /\ Remember(Datalinks) /\ UNCHANGED <<now, pausedAt>>
  BY DEF Reset
<1>4. /\ settings' \in [Datalinks -> Configs \union {None}]
      /\ lastValue' \in [Datalinks -> Values \union {None}] /\ delay' \in Delays
  BY <1>1 DEF TypeOK, Reset
<1> HIDE DEF result
<1> QED BY <1>2, <1>3, <1>4, CallsSound

------------------------------------------------------------------------------
(* The steps that announce nothing and change pending transitions only.     *)

LEMMA QuietSound ==
  ASSUME IInv, Quiet, UNCHANGED <<now, settings, lastValue>>, delay' \in Delays,
         pausedAt' \in {pausedAt, now, None},
         DOMAIN link' = Datalinks, link' = [d \in Datalinks |-> link'[d]],
         \A d \in Datalinks : Sound(link'[d], left[d], now),
         \A d \in Datalinks : link[d].pending = None => link'[d] = link[d]
  PROVE  StepSound
<1>1. TypeOK /\ now \in Nat /\ left' = left /\ now' = now
  BY DEF IInv, TypeOK, Quiet
<1>2. link' \in [Datalinks -> LinkStates]
  <2>1. \A d \in Datalinks : link'[d] \in LinkStates
    BY DEF Sound
  <2> QED BY <2>1
<1>3. TypeOK'
  <2>1. LinkStates' = LinkStates
    BY DEF LinkStates, Pendings, AnyLevel
  <2> QED BY <1>1, <1>2, <2>1 DEF TypeOK
<1>4. pausedAt' # None => pausedAt' <= now'
  BY <1>1 DEF IInv
<1>5. \A d \in Datalinks : Sound(link'[d], left'[d], now')
  BY <1>1
<1>6. \A d \in Datalinks : settings'[d] = None => link'[d] = NoState /\ left'[d] = None
  BY <1>1 DEF IInv, NoState
<1>7. \A d \in Datalinks : Announced(d)
  BY QuietAnnounces DEF Quiet
<1> QED BY <1>3, <1>4, <1>5, <1>6, <1>7, InvAfter DEF StepSound

(* A pending transition of a sound state.                                   *)
LEMMA PendingOf ==
  ASSUME NEW st, NEW lt, NEW t \in Nat, Sound(st, lt, t), st.pending # None
  PROVE  /\ st.pending \in Pendings
         /\ st.pending.crossingTime \in Nat /\ st.pending.crossingTime <= t
         /\ st.pending.deadline \in Int
         /\ st.pending.suspendKind \in Kinds \union {None}
         /\ ~Suspended(st) => st.pending.deadline >= st.pending.crossingTime + MinDelay
         /\ Suspended(st) => /\ st.pending.remaining \in Int
                             /\ t + st.pending.remaining >= st.pending.crossingTime + MinDelay
<1>1. st.pending \in Pendings
  BY DEF Sound, LinkStates
<1>2. /\ st.pending.crossingTime \in Nat /\ st.pending.deadline \in Int
      /\ st.pending.suspendKind \in Kinds \union {None}
  BY <1>1 DEF Pendings
<1> QED BY <1>1, <1>2 DEF Sound, Suspended

(* A later deadline of a transition that is not suspended.                  *)
LEMMA LaterDeadline ==
  ASSUME NEW st, NEW lt, NEW t \in Nat, Sound(st, lt, t), st.pending # None, ~Suspended(st),
         NEW x \in Int, x >= st.pending.crossingTime + MinDelay
  PROVE  Sound([st EXCEPT !.pending.deadline = x], lt, t)
<1> DEFINE p == st.pending
           q == [crossingTime |-> p.crossingTime, deadline |-> x, target |-> p.target,
                 delayAtCrossing |-> p.delayAtCrossing, remaining |-> p.remaining,
                 suspendKind |-> p.suspendKind]
           new == [active |-> st.active, pending |-> q, reArmAt |-> st.reArmAt]
<1>1. st \in LinkStates
  BY DEF Sound
<1>2. p \in Pendings /\ p.crossingTime <= t /\ p.suspendKind = None
  BY PendingOf DEF Suspended
<1>3. [p EXCEPT !.deadline = x] = q
  BY <1>2 DEF Pendings
<1>4. [st EXCEPT !.pending = q] = new
  BY <1>1 DEF LinkStates
<1>5. [st EXCEPT !.pending.deadline = x] = [st EXCEPT !.pending = [p EXCEPT !.deadline = x]]
  BY <1>1 DEF LinkStates
<1>6. q \in Pendings /\ q.crossingTime = p.crossingTime /\ q.suspendKind = None /\ q.deadline = x
  BY <1>2 DEF Pendings
<1> HIDE DEF q
<1>7. Sound(new, lt, t)
  BY <1>2, <1>6, PendingReplaced
<1> QED BY <1>3, <1>4, <1>5, <1>7

(* pushDelay: the new delay counts from the crossing.                       *)
LEMMA PushDelayKeeps ==
  ASSUME IInv, NEW dl \in Delays, PushDelay(dl)
  PROVE  StepSound
<1> DEFINE later(st) == now + Max({0, dl - (now - st.pending.crossingTime)})
           pushed(st) == IF st.pending = None \/ Suspended(st) THEN st
                         ELSE [st EXCEPT !.pending.deadline = later(st)]
<1>1. now \in Nat /\ dl \in Nat /\ MinDelay \in Nat /\ MinDelay <= dl
  BY ShortestDelay DEF IInv, TypeOK
<1>2. ASSUME NEW d \in Datalinks
      PROVE  Sound(pushed(link[d]), left[d], now)
  <2>1. Sound(link[d], left[d], now)
    BY DEF IInv
  <2>2. CASE link[d].pending # None /\ ~Suspended(link[d])
    <3> DEFINE c == link[d].pending.crossingTime
    <3>1. c \in Nat /\ c <= now
      BY <1>1, <2>1, <2>2, PendingOf
    <3> HIDE DEF c
    <3>2. dl - (now - c) \in Int
      BY <1>1, <3>1
    <3>3. /\ Max({0, dl - (now - c)}) \in Int
          /\ Max({0, dl - (now - c)}) >= dl - (now - c)
      <4> DEFINE rest == dl - (now - c)
      <4> HIDE DEF rest
      <4>1. rest \in Int
        BY <3>2 DEF rest
      <4>2. Max({0, rest}) \in Int /\ Max({0, rest}) >= rest
        <5>1. 0 \in Int
          OBVIOUS
        <5> QED BY <4>1, <5>1, LargerOfTwo, Zenon
      <4> QED BY <4>2 DEF rest
    <3>4. /\ now + Max({0, dl - (now - c)}) \in Int
          /\ now + Max({0, dl - (now - c)}) >= c + MinDelay
      <4> DEFINE m == Max({0, dl - (now - c)})
      <4> HIDE DEF m
      <4>1. m \in Int /\ m >= dl - (now - c)
        BY <3>3 DEF m
      <4>2. now + m \in Int /\ now + m >= c + MinDelay
        BY <1>1, <3>1, <4>1
      <4> QED BY <4>2 DEF m
    <3>5. later(link[d]) \in Int /\ later(link[d]) >= link[d].pending.crossingTime + MinDelay
      BY <3>4 DEF c
    <3> HIDE DEF later
    <3>6. Sound([link[d] EXCEPT !.pending.deadline = later(link[d])], left[d], now)
      BY <1>1, <2>1, <2>2, <3>5, LaterDeadline
    <3> QED BY <2>2, <3>6
  <2>3. CASE ~(link[d].pending # None /\ ~Suspended(link[d]))
    BY <2>1, <2>3
  <2> QED BY <2>2, <2>3
<1>3. /\ link' = [d \in Datalinks |-> pushed(link[d])]
      /\ Quiet /\ delay' = dl
      /\ UNCHANGED <<now, settings, lastValue, pausedAt>>
  BY DEF PushDelay
<1>4. \A d \in Datalinks : link[d].pending = None => link'[d] = link[d]
  BY <1>3
<1> HIDE DEF pushed
<1> QED BY <1>2, <1>3, <1>4, QuietSound

(* setPaused: the time in the background is added to what waits.            *)
LEMMA SetPausedKeeps ==
  ASSUME IInv, NEW paused \in BOOLEAN, SetPaused(paused)
  PROVE  StepSound
<1>1. /\ now \in Nat /\ link \in [Datalinks -> LinkStates] /\ MinDelay \in Nat
      /\ \A d \in Datalinks : Sound(link[d], left[d], now)
      /\ delay' \in Delays
  BY ShortestDelay DEF IInv, TypeOK, SetPaused
<1>2. CASE paused
  <2>1. link' = link /\ pausedAt' = now /\ Quiet /\ UNCHANGED <<now, settings, lastValue>>
    BY <1>2 DEF SetPaused
  <2> QED BY <1>1, <2>1, QuietSound
<1>3. CASE ~paused
  <2> DEFINE shift == now - pausedAt
             later(st) == st.pending.deadline + shift
             shifted(st) == IF st.pending = None \/ Suspended(st) THEN st
                            ELSE [st EXCEPT !.pending.deadline = later(st)]
  <2>1. shift \in Nat
    BY <1>1, <1>3 DEF SetPaused, IInv, TypeOK
  <2>2. /\ link' = [d \in Datalinks |-> shifted(link[d])]
        /\ Quiet /\ pausedAt' = None
        /\ UNCHANGED <<now, settings, lastValue>>
    BY <1>3 DEF SetPaused
  <2> HIDE DEF shift
  <2>3. ASSUME NEW d \in Datalinks
        PROVE  Sound(shifted(link[d]), left[d], now)
    <3>1. CASE link[d].pending # None /\ ~Suspended(link[d])
      <4>1. /\ link[d].pending.deadline \in Int /\ link[d].pending.crossingTime \in Nat
            /\ link[d].pending.deadline >= link[d].pending.crossingTime + MinDelay
        BY <1>1, <3>1, PendingOf
      <4>2. later(link[d]) \in Int /\ later(link[d]) >= link[d].pending.crossingTime + MinDelay
        BY <1>1, <2>1, <4>1
      <4> HIDE DEF later
      <4>3. Sound([link[d] EXCEPT !.pending.deadline = later(link[d])], left[d], now)
        BY <1>1, <3>1, <4>2, LaterDeadline
      <4> QED BY <3>1, <4>3
    <3>2. CASE ~(link[d].pending # None /\ ~Suspended(link[d]))
      BY <1>1, <3>2
    <3> QED BY <3>1, <3>2
  <2>4. \A d \in Datalinks : link[d].pending = None => link'[d] = link[d]
    BY <2>2
  <2> HIDE DEF shifted
  <2> QED BY <1>1, <2>2, <2>3, <2>4, QuietSound
<1> QED BY <1>2, <1>3

(* A state with another pending transition, or with none.                   *)
LEMMA WithPending ==
  ASSUME NEW st \in LinkStates, NEW p
  PROVE  [st EXCEPT !.pending = p] = [active |-> st.active, pending |-> p, reArmAt |-> st.reArmAt]
  BY DEF LinkStates

(* invalidatePending: what is left of the delay is kept while the write is  *)
(* under way.                                                               *)
LEMMA InvalidatePendingKeeps ==
  ASSUME IInv, NEW d \in Datalinks, NEW kind \in Kinds, InvalidatePending(d, kind)
  PROVE  StepSound
<1> DEFINE st == link[d]
           p == st.pending
           with(k, r) == [crossingTime |-> p.crossingTime, deadline |-> p.deadline,
                          target |-> p.target, delayAtCrossing |-> p.delayAtCrossing,
                          remaining |-> r, suspendKind |-> k]
           q == IF p.suspendKind = None
                  THEN [[p EXCEPT !.suspendKind = kind] EXCEPT !.remaining = p.deadline - now]
                ELSE IF kind = "re-enable" THEN [p EXCEPT !.suspendKind = kind] ELSE p
           new == [active |-> st.active, pending |-> q, reArmAt |-> st.reArmAt]
<1>1. /\ now \in Nat /\ link \in [Datalinks -> LinkStates] /\ st \in LinkStates
      /\ Sound(st, left[d], now) /\ p # None /\ delay' \in Delays
  BY DEF IInv, TypeOK, InvalidatePending
<1>2. /\ p \in Pendings /\ p.crossingTime \in Nat /\ p.crossingTime <= now /\ p.deadline \in Int
      /\ ~Suspended(st) => p.deadline >= p.crossingTime + MinDelay
      /\ Suspended(st) => /\ p.remaining \in Int
                          /\ now + p.remaining >= p.crossingTime + MinDelay
  BY <1>1, PendingOf
<1>3. /\ q \in Pendings /\ q.crossingTime = p.crossingTime
      /\ IF q.suspendKind = None THEN q.deadline >= q.crossingTime + MinDelay
         ELSE /\ q.remaining \in Int
              /\ now + q.remaining >= q.crossingTime + MinDelay
  <2>1. CASE p.suspendKind = None
    <3>1. q = with(kind, p.deadline - now)
      <4>1. [p EXCEPT !.suspendKind = kind] = with(kind, p.remaining)
        BY <1>2 DEF Pendings
      <4>2. [with(kind, p.remaining) EXCEPT !.remaining = p.deadline - now]
              = with(kind, p.deadline - now)
        OBVIOUS
      <4> QED BY <2>1, <4>1, <4>2
    <3>2. p.deadline - now \in Int /\ now + (p.deadline - now) = p.deadline
      BY <1>1, <1>2
    <3>3. with(kind, p.deadline - now) \in Pendings
      BY <1>2, <3>2 DEF Pendings
    <3>4. p.deadline >= p.crossingTime + MinDelay
      BY <1>1, <1>2, <2>1 DEF Suspended
    <3> HIDE DEF q
    <3> QED BY <3>1, <3>2, <3>3, <3>4
  <2>2. CASE p.suspendKind # None /\ kind = "re-enable"
    <3>1. q = with(kind, p.remaining)
      BY <1>2, <2>2 DEF Pendings
    <3>2. with(kind, p.remaining) \in Pendings
      BY <1>2 DEF Pendings
    <3>3. Suspended(st)
      BY <1>1, <2>2 DEF Suspended
    <3>4. p.deadline \in Int /\ p.crossingTime \in Nat
      BY <1>2
    <3>5. kind # None => /\ p.remaining \in Int
                         /\ now + p.remaining >= p.crossingTime + MinDelay
      BY <1>2, <3>3
    <3>6. kind # None
      BY <2>2, ConstantsAssumption
    <3> HIDE DEF q
    <3> QED BY <3>1, <3>2, <3>5, <3>6
  <2>3. CASE p.suspendKind # None /\ kind # "re-enable"
    <3>1. q = p
      BY <2>3
    <3>2. Suspended(st)
      BY <1>1, <2>3 DEF Suspended
    <3> HIDE DEF q
    <3> QED BY <1>2, <2>3, <3>1, <3>2
  <2> QED BY <2>1, <2>2, <2>3
<1>4. Sound(new, left[d], now)
  <2>1. new.active = st.active /\ new.pending = q /\ new.reArmAt = st.reArmAt
    OBVIOUS
  <2>2. new \in LinkStates
    <3> HIDE DEF q
    <3> QED BY <1>1, <1>3 DEF LinkStates
  <2> HIDE DEF new, q
  <2> QED BY <1>1, <1>2, <1>3, <2>1, <2>2 DEF Sound
<1>5. link' = [link EXCEPT ![d] = new]
  <2>1. link' = [link EXCEPT ![d] = [st EXCEPT !.pending = q]]
    BY <1>1 DEF InvalidatePending
  <2> HIDE DEF q
  <2> QED BY <1>1, <2>1, WithPending
<1> HIDE DEF new
<1>6. link' = [e \in Datalinks |-> link'[e]] /\ \A e \in Datalinks : link'[e] = IF e = d THEN new ELSE link[e]
  BY <1>1, <1>5
<1>7. \A e \in Datalinks : Sound(link'[e], left[e], now)
  BY <1>4, <1>6 DEF IInv
<1>8. \A e \in Datalinks : link[e].pending = None => link'[e] = link[e]
  BY <1>1, <1>6
<1>9. Quiet /\ UNCHANGED <<now, settings, lastValue, pausedAt>>
  BY DEF InvalidatePending
<1> QED BY <1>1, <1>6, <1>7, <1>8, <1>9, QuietSound

(* resolveAfterWrite: what was left of the delay is waited for, or a new    *)
(* delay begins.                                                            *)
LEMMA ResolveAfterWriteKeeps ==
  ASSUME IInv, NEW d \in Datalinks, NEW outcome \in {"resume", "restart", "cancel"},
         ResolveAfterWrite(d, outcome)
  PROVE  StepSound
<1> DEFINE st == link[d]
           p == st.pending
           high == IF lastValue[d] = None THEN None ELSE Highest(settings[d], lastValue[d])
           with(q, r) == [active |-> st.active, pending |-> q, reArmAt |-> r]
           resolved ==
             CASE outcome = "cancel" -> [st EXCEPT !.pending = None]
               [] outcome = "restart" ->
                    [st EXCEPT !.pending = IF high = None THEN None ELSE Created(high, now, delay)]
               [] outcome = "resume" -> Resumed(st, high)
<1>1. /\ now \in Nat /\ link \in [Datalinks -> LinkStates] /\ st \in LinkStates
      /\ Sound(st, left[d], now) /\ delay \in Delays /\ Suspended(st) /\ p # None
  BY DEF IInv, TypeOK, ResolveAfterWrite, Suspended
<1>2. high \in AnyLevel \union {None}
  <2>1. settings[d] \in Configs
    BY DEF IInv, TypeOK, ResolveAfterWrite, Known
  <2> QED BY <2>1, HighestLevel
<1> HIDE DEF high
<1>3. /\ p \in Pendings /\ p.crossingTime \in Nat /\ p.crossingTime <= now
      /\ p.remaining \in Int /\ now + p.remaining >= p.crossingTime + MinDelay
  BY <1>1, PendingOf
<1>4. \A r \in {st.reArmAt, now} : Sound(with(None, r), left[d], now)
  BY <1>1, PendingReplaced
<1>5. Sound(resolved, left[d], now)
  <2>1. CASE outcome = "cancel"
    <3>1. resolved = with(None, st.reArmAt)
      BY <1>1, <2>1, WithPending
    <3> QED BY <1>4, <3>1
  <2>2. CASE outcome = "restart" /\ high = None
    <3>1. resolved = with(None, st.reArmAt)
      BY <1>1, <2>2, WithPending
    <3> QED BY <1>4, <3>1
  <2>3. CASE outcome = "restart" /\ high # None
    <3> DEFINE q == Created(high, now, delay)
    <3>1. resolved = with(q, st.reArmAt)
      BY <1>1, <2>3, WithPending
    <3>2. q \in Pendings /\ q.crossingTime = now /\ q.suspendKind = None
          /\ q.deadline >= now + MinDelay
      BY <1>1, <1>2, <2>3, CreatedSound
    <3> HIDE DEF q
    <3>3. q.crossingTime <= now /\ q.deadline >= q.crossingTime + MinDelay
      BY <1>1, <3>2
    <3>4. Sound(with(q, st.reArmAt), left[d], now)
      BY <1>1, <3>2, <3>3, PendingReplaced
    <3> QED BY <3>1, <3>4
  <2>4. CASE outcome = "resume" /\ high = None
    <3>1. resolved = [st EXCEPT !.pending = None, !.reArmAt = now]
      BY <2>4 DEF Resumed
    <3>2. [st EXCEPT !.pending = None] = with(None, st.reArmAt)
      BY <1>1, WithPending
    <3>3. [[st EXCEPT !.pending = None] EXCEPT !.reArmAt = now] = resolved
      BY <3>1
    <3>4. [with(None, st.reArmAt) EXCEPT !.reArmAt = now] = with(None, now)
      OBVIOUS
    <3>5. resolved = with(None, now)
      BY <3>2, <3>3, <3>4
    <3> QED BY <1>4, <3>5
  <2>5. CASE outcome = "resume" /\ high # None
    <3> DEFINE q == [crossingTime |-> p.crossingTime, deadline |-> now + p.remaining,
                     target |-> high, delayAtCrossing |-> p.delayAtCrossing,
                     remaining |-> None, suspendKind |-> None]
    <3>1. resolved = [st EXCEPT !.pending =
                        [@ EXCEPT !.deadline = now + st.pending.remaining, !.target = high,
                                  !.remaining = None, !.suspendKind = None]]
      BY <2>5 DEF Resumed
    <3>2. [p EXCEPT !.deadline = now + p.remaining, !.target = high,
                    !.remaining = None, !.suspendKind = None] = q
      <4> DEFINE x == now + p.remaining
                 as(de, ta, re, su) ==
                   [crossingTime |-> p.crossingTime, deadline |-> de, target |-> ta,
                    delayAtCrossing |-> p.delayAtCrossing, remaining |-> re,
                    suspendKind |-> su]
      <4>1. [p EXCEPT !.deadline = x] = as(x, p.target, p.remaining, p.suspendKind)
        BY <1>3 DEF Pendings
      <4>2. [[[[p EXCEPT !.deadline = x] EXCEPT !.target = high] EXCEPT !.remaining = None]
               EXCEPT !.suspendKind = None]
              = [p EXCEPT !.deadline = x, !.target = high,
                          !.remaining = None, !.suspendKind = None]
        OBVIOUS
      <4>3. [as(x, p.target, p.remaining, p.suspendKind) EXCEPT !.target = high]
              = as(x, high, p.remaining, p.suspendKind)
        OBVIOUS
      <4>4. [as(x, high, p.remaining, p.suspendKind) EXCEPT !.remaining = None]
              = as(x, high, None, p.suspendKind)
        OBVIOUS
      <4>5. [as(x, high, None, p.suspendKind) EXCEPT !.suspendKind = None] = q
        OBVIOUS
      <4> QED BY <4>1, <4>2, <4>3, <4>4, <4>5
    <3>3. resolved = with(q, st.reArmAt)
      BY <1>1, <3>1, <3>2, WithPending
    <3>4. q \in Pendings
      BY <1>1, <1>2, <1>3, <2>5 DEF Pendings
    <3>5. q.crossingTime <= now /\ q.suspendKind = None
          /\ q.deadline >= q.crossingTime + MinDelay
      BY <1>3
    <3> HIDE DEF q
    <3>6. Sound(with(q, st.reArmAt), left[d], now)
      BY <1>1, <3>4, <3>5, PendingReplaced
    <3> QED BY <3>3, <3>6
  <2> QED BY <2>1, <2>2, <2>3, <2>4, <2>5
<1>6. link' = [link EXCEPT ![d] = resolved]
  BY DEF ResolveAfterWrite, high
<1> HIDE DEF resolved
<1>7. /\ link' = [e \in Datalinks |-> link'[e]]
      /\ \A e \in Datalinks : link'[e] = IF e = d THEN resolved ELSE link[e]
  BY <1>1, <1>6
<1>8. \A e \in Datalinks : Sound(link'[e], left[e], now)
  BY <1>5, <1>7 DEF IInv
<1>9. \A e \in Datalinks : link[e].pending = None => link'[e] = link[e]
  BY <1>1, <1>7
<1>10. Quiet /\ UNCHANGED <<now, settings, lastValue, delay, pausedAt>>
  BY DEF ResolveAfterWrite
<1> QED BY <1>1, <1>7, <1>8, <1>9, <1>10, QuietSound

------------------------------------------------------------------------------
(* The theorems.                                                            *)

LEMMA NextSound ==
  ASSUME IInv, Next
  PROVE  StepSound
<1>1. CASE Tick
  BY <1>1, TickSound
<1>2. CASE \E values \in [Datalinks -> Values \union {None}] : Step(values)
  BY <1>2, StepKeeps
<1>3. CASE \E payload \in [Datalinks -> Configs \union {None}], dl \in Delays : Refresh(payload, dl)
  BY <1>3, RefreshKeeps
<1>4. CASE \E dl \in Delays : PushDelay(dl)
  BY <1>4, PushDelayKeeps
<1>5. CASE \E d \in Datalinks, kind \in Kinds : InvalidatePending(d, kind)
  BY <1>5, InvalidatePendingKeeps
<1>6. CASE \E d \in Datalinks, outcome \in {"resume", "restart", "cancel"} :
             ResolveAfterWrite(d, outcome)
  BY <1>6, ResolveAfterWriteKeeps
<1>7. CASE Reset
  BY <1>7, ResetKeeps
<1>8. CASE \E paused \in BOOLEAN : SetPaused(paused)
  BY <1>8, SetPausedKeeps
<1> QED BY <1>1, <1>2, <1>3, <1>4, <1>5, <1>6, <1>7, <1>8 DEF Next

LEMMA StutterKeeps == IInv /\ UNCHANGED vars => IInv'
<1> SUFFICES ASSUME IInv, UNCHANGED vars PROVE IInv'
  OBVIOUS
<1>1. TypeOK'
  BY DEF IInv, TypeOK, vars, LinkStates, Pendings, AnyLevel
<1>2. pausedAt' # None => pausedAt' <= now'
  BY DEF IInv, vars
<1>3. /\ \A d \in Datalinks : Sound(link'[d], left'[d], now')
      /\ \A d \in Datalinks : settings'[d] = None => link'[d] = NoState /\ left'[d] = None
  BY DEF IInv, vars
<1> QED BY <1>1, <1>2, <1>3, InvAfter

LEMMA InvariantHolds == Spec => []IInv
<1>1. IInv /\ [Next]_vars => IInv'
  BY NextSound, StutterKeeps DEF StepSound
<1> QED BY InitInv, <1>1, PTL DEF Spec

(* The state of every data link is well-formed for every frame, write and   *)
(* pause (WarningEvaluator's maps).                                         *)
THEOREM TypeCorrect == Spec => []TypeOK
<1>1. IInv => TypeOK
  BY DEF IInv
<1> QED BY <1>1, InvariantHolds, PTL

(* While a write has a transition suspended, no frame and no refresh raises *)
(* the level of its data link (KTD2 b).                                     *)
THEOREM FrozenAlways == Spec => FrozenWhileSuspended
<1>1. IInv /\ [Next]_vars =>
        [\A d \in Datalinks : Suspended(link[d]) => Activations(batch'[d]) = {}]_vars
  <2> SUFFICES ASSUME IInv, Next, NEW d \in Datalinks, Suspended(link[d])
               PROVE  Activations(batch'[d]) = {}
    BY DEF vars
  <2>1. Announced(d)
    BY NextSound DEF StepSound
  <2> QED BY <2>1 DEF Announced
<1> QED BY <1>1, InvariantHolds, PTL DEF Spec, FrozenWhileSuspended

(* No level is raised before the shortest delay since its crossing, and no  *)
(* warning announced again before its re-arming and its dwell (R14).        *)
THEOREM NeverTooEarlyAlways == Spec => NeverTooEarly
<1>1. IInv /\ [Next]_vars =>
        [\A d \in Datalinks : \A i \in Activations(batch'[d]) :
           ~batch'[d][i].recompute =>
             IF link[d].pending = None THEN MinDelay = 0
             ELSE now >= link[d].pending.crossingTime + MinDelay]_vars
  <2> SUFFICES ASSUME IInv, Next, NEW d \in Datalinks, NEW i \in Activations(batch'[d]),
                      ~batch'[d][i].recompute
               PROVE  IF link[d].pending = None THEN MinDelay = 0
                      ELSE now >= link[d].pending.crossingTime + MinDelay
    BY DEF vars
  <2>1. Announced(d)
    BY NextSound DEF StepSound
  <2> QED BY <2>1 DEF Announced
<1>2. IInv /\ [Next]_vars =>
        [\A d \in Datalinks :
           EligibleIn(batch'[d]) # {} => left[d] = None \/ now >= left[d] + 2 * MinDelay]_vars
  <2> SUFFICES ASSUME IInv, Next, NEW d \in Datalinks, EligibleIn(batch'[d]) # {}
               PROVE  left[d] = None \/ now >= left[d] + 2 * MinDelay
    BY DEF vars
  <2>1. Announced(d)
    BY NextSound DEF StepSound
  <2> QED BY <2>1 DEF Announced
<1>3. Spec => DwellRespected
  BY <1>1, InvariantHolds, PTL DEF Spec, DwellRespected
<1>4. Spec => AnnouncementsSpaced
  BY <1>2, InvariantHolds, PTL DEF Spec, AnnouncementsSpaced
<1> QED BY <1>3, <1>4 DEF NeverTooEarly

------------------------------------------------------------------------------
(* The events the listeners are handed.  The code pushes them data link by  *)
(* data link to one array, which the model folds from batch.  A fold is a   *)
(* recursive function on the sets of data links; that there is such a       *)
(* function, and what holds of its value, is shown by induction on the size *)
(* of the set.                                                              *)

USE LinksAssumption DEF LinksAssumption

Joined(b) == FoldFunctionOnSet(LAMBDA events, acc : events \o acc, <<>>, b, Datalinks)

First(s) == CHOOSE d \in s : TRUE

\* One unfolding of the fold, and the fold.
Unfolded(b, f) ==
  [s \in SUBSET Datalinks |-> IF s = {} THEN <<>> ELSE b[First(s)] \o f[s \ {First(s)}]]
Joining(b) == CHOOSE f : f = Unfolded(b, f)

(* The fold is the value of that function for all data links.               *)
LEMMA JoinedByFold ==
  ASSUME NEW b
  PROVE  Joined(b) = Joining(b)[Datalinks]
  BY DEF Joined, Joining, Unfolded, First, FoldFunctionOnSet, MapThenFoldSet

(* A set of data links is finite, and without its first one it is smaller.  *)
LEMMA FirstOut ==
  ASSUME NEW s \in SUBSET Datalinks, s # {}
  PROVE  /\ First(s) \in s /\ s \ {First(s)} \in SUBSET Datalinks
         /\ Cardinality(s) \in Nat /\ Cardinality(s \ {First(s)}) = Cardinality(s) - 1
<1>1. First(s) \in s
  BY DEF First
<1>2. IsFiniteSet(s)
  BY FS_Subset
<1> QED BY <1>1, <1>2, FS_CardinalityType, FS_RemoveElement

\* f is the fold on every set of at most n data links.
FoldsUpTo(b, f, n) ==
  \A s \in SUBSET Datalinks : Cardinality(s) <= n => f[s] = Unfolded(b, f)[s]

(* Unfolding once more reaches sets larger by one.                          *)
LEMMA FoldGrows ==
  ASSUME NEW b, NEW f, NEW n \in Nat, FoldsUpTo(b, f, n)
  PROVE  FoldsUpTo(b, Unfolded(b, f), n + 1)
<1> DEFINE g == Unfolded(b, f)
<1> SUFFICES ASSUME NEW s \in SUBSET Datalinks, Cardinality(s) <= n + 1
             PROVE  g[s] = Unfolded(b, g)[s]
  BY DEF FoldsUpTo
<1>1. CASE s = {}
  BY <1>1 DEF Unfolded
<1>2. CASE s # {}
  <2> DEFINE t == s \ {First(s)}
  <2>1. t \in SUBSET Datalinks /\ Cardinality(t) <= n
    <3>1. t \in SUBSET Datalinks /\ Cardinality(s) \in Nat /\ Cardinality(t) = Cardinality(s) - 1
      BY <1>2, FirstOut
    <3> HIDE DEF t
    <3> QED BY <3>1
  <2>2. f[t] = g[t]
    BY <2>1 DEF FoldsUpTo
  <2>3. g[s] = b[First(s)] \o f[t]
    BY <1>2 DEF Unfolded
  <2>4. Unfolded(b, g)[s] = b[First(s)] \o g[t]
    <3> HIDE DEF g
    <3> QED BY <1>2 DEF Unfolded
  <2> HIDE DEF g, t
  <2> QED BY <2>2, <2>3, <2>4
<1> QED BY <1>1, <1>2

(* There is such a function ...                                             *)
LEMMA FoldExists ==
  ASSUME NEW b
  PROVE  \E f : f = Unfolded(b, f)
<1> DEFINE N == Cardinality(Datalinks)
           H == {n \in 0..N : ~\E f : FoldsUpTo(b, f, n)}
<1>1. N \in Nat
  BY FS_CardinalityType
<1>2. \E f : FoldsUpTo(b, f, 0)
  <2> DEFINE f == [s \in SUBSET Datalinks |-> <<>>]
  <2>1. ASSUME NEW s \in SUBSET Datalinks, Cardinality(s) <= 0
        PROVE  f[s] = Unfolded(b, f)[s]
    <3>1. s = {}
      <4>1. ASSUME s # {} PROVE FALSE
        <5>1. Cardinality(s \ {First(s)}) = -1 \/ Cardinality(s) \notin 0..0
          BY <2>1, <4>1, FirstOut
        <5>2. IsFiniteSet(s \ {First(s)}) /\ IsFiniteSet(s)
          BY FS_Subset, FS_RemoveElement
        <5> QED BY <2>1, <5>1, <5>2, FS_CardinalityType
      <4> QED BY <4>1
    <3> QED BY <3>1 DEF Unfolded
  <2> HIDE DEF f
  <2> QED BY <2>1 DEF FoldsUpTo
<1>3. H = {}
  <2> SUFFICES ASSUME H # {} PROVE FALSE
    OBVIOUS
  <2>1. H \in SUBSET (0..N)
    OBVIOUS
  <2>2. PICK n \in H : \A j \in H : n <= j
    <3> HIDE DEF H, N
    <3> QED BY <1>1, <2>1, LeastExists
  <2>3. n # 0 /\ n \in 0..N
    BY <1>2
  <2>4. n - 1 \in 0..N /\ n - 1 \notin H
    BY <1>1, <2>2, <2>3
  <2>5. PICK f : FoldsUpTo(b, f, n - 1)
    BY <2>4
  <2>6. FoldsUpTo(b, Unfolded(b, f), n)
    <3>1. n - 1 \in Nat /\ (n - 1) + 1 = n
      BY <2>4, <1>1, <2>3
    <3>2. FoldsUpTo(b, Unfolded(b, f), (n - 1) + 1)
      BY <2>5, <3>1, FoldGrows
    <3> QED BY <3>1, <3>2
  <2> QED BY <2>6
<1>4. PICK f : FoldsUpTo(b, f, N)
  BY <1>1, <1>3
<1> DEFINE g == Unfolded(b, f)
<1>5. \A s \in SUBSET Datalinks : f[s] = g[s]
  <2>1. \A s \in SUBSET Datalinks : Cardinality(s) <= N
    BY FS_Subset
  <2> QED BY <1>4, <2>1 DEF FoldsUpTo
<1>6. g = Unfolded(b, g)
  <2>1. ASSUME NEW s \in SUBSET Datalinks, s # {}
        PROVE  s \ {First(s)} \in SUBSET Datalinks
    OBVIOUS
  <2> QED BY <1>5, <2>1 DEF Unfolded
<1> HIDE DEF g
<1> QED BY <1>6

(* ... and its values are these.                                            *)
LEMMA JoiningOf ==
  ASSUME NEW b
  PROVE  /\ Joining(b)[{}] = <<>>
         /\ \A s \in SUBSET Datalinks : s # {} =>
              Joining(b)[s] = b[First(s)] \o Joining(b)[s \ {First(s)}]
<1>1. Joining(b) = Unfolded(b, Joining(b))
  BY FoldExists DEF Joining
<1> DEFINE f == Joining(b)
<1>2. f = Unfolded(b, f)
  BY <1>1
<1> HIDE DEF f
<1>3. /\ f[{}] = <<>>
      /\ \A s \in SUBSET Datalinks : s # {} => f[s] = b[First(s)] \o f[s \ {First(s)}]
  BY <1>2 DEF Unfolded
<1> QED BY <1>3 DEF f

(* What holds of no data links, and of some if of all but the first, holds  *)
(* of every set of data links.                                              *)
LEMMA BySize ==
  ASSUME NEW G, {} \in G,
         \A s \in SUBSET Datalinks : s # {} /\ s \ {First(s)} \in G => s \in G
  PROVE  SUBSET Datalinks \subseteq G
<1> DEFINE T == (SUBSET Datalinks) \ G
<1> SUFFICES ASSUME T # {} PROVE FALSE
  OBVIOUS
<1>1. T \subseteq FiniteSubsetsOf(Datalinks)
  BY FS_FiniteSubsetsOfFinite
<1>2. \E x \in T : \A y \in T : ~(<<y, x>> \in StrictSubsetOrdering(Datalinks))
  <2> HIDE DEF T
  <2> QED BY <1>1, FS_StrictSubsetOrderingWellFounded, WFMin
<1>3. PICK s \in T : \A y \in T : ~(<<y, s>> \in StrictSubsetOrdering(Datalinks))
  BY <1>2
<1>4. s # {} /\ s \in SUBSET Datalinks
  OBVIOUS
<1> DEFINE t == s \ {First(s)}
<1>5. t \in SUBSET Datalinks /\ t \subseteq s /\ t # s
  <2>1. First(s) \in s
    BY <1>4, FirstOut
  <2> QED BY <1>4, <2>1
<1>6. <<t, s>> \in StrictSubsetOrdering(Datalinks)
  <2> HIDE DEF t
  <2> QED BY <1>4, <1>5 DEF StrictSubsetOrdering
<1>7. t \in G
  <2> HIDE DEF t
  <2> QED BY <1>3, <1>5, <1>6
<1> QED BY <1>4, <1>7

------------------------------------------------------------------------------
(* Replaying events.  Leads says what replaying a sequence makes of a map,  *)
(* by the maps between its events.                                          *)

Maps == [Datalinks -> AnyLevel \union {None}]

\* An event that a listener with this map may be handed.
Fits(x, map) ==
  /\ x.link \in Datalinks
  /\ x.level \in AnyLevel \union {None}
  /\ IF x.type = "drop"
     THEN x.from = map[x.link] /\ map[x.link] # None /\ x.level # map[x.link]
     ELSE x.level # None

\* The maps between the events of the sequence.
Between(R, map, events) ==
  /\ R = [i \in 0..Len(events) |-> R[i]]
  /\ R[0] = map
  /\ \A i \in 1..Len(events) :
       /\ Fits(events[i], R[i - 1])
       /\ R[i] = [R[i - 1] EXCEPT ![events[i].link] = events[i].level]

Leads(map, events, to) ==
  /\ map \in Maps
  /\ Len(events) \in Nat /\ events = [i \in 1..Len(events) |-> events[i]]
  /\ \E R : Between(R, map, events) /\ R[Len(events)] = to

(* No event leads nowhere, one event to the map it changes.                 *)
LEMMA NoneLeads ==
  ASSUME NEW map \in Maps
  PROVE  Leads(map, <<>>, map)
<1> DEFINE R == [i \in 0..0 |-> map]
<1>1. Len(<<>>) = 0 /\ <<>> = [i \in 1..0 |-> <<>>[i]]
  OBVIOUS
<1>2. R = [i \in 0..0 |-> R[i]] /\ R[0] = map
  OBVIOUS
<1>3. Between(R, map, <<>>)
  BY <1>1, <1>2 DEF Between
<1> HIDE DEF R
<1> QED BY <1>1, <1>2, <1>3 DEF Leads

(* One event leads to the map it changes.                                   *)
LEMMA OneLeads ==
  ASSUME NEW map \in Maps, NEW x, Fits(x, map)
  PROVE  Leads(map, <<x>>, [map EXCEPT ![x.link] = x.level])
<1> DEFINE to == [map EXCEPT ![x.link] = x.level]
           R == [i \in 0..1 |-> IF i = 0 THEN map ELSE to]
           e == <<x>>
<1>1. Len(e) = 1 /\ e[1] = x /\ e = [i \in 1..1 |-> e[i]]
  OBVIOUS
<1>2. R = [i \in 0..1 |-> R[i]] /\ R[0] = map /\ R[1] = to
  OBVIOUS
<1> HIDE DEF R, e
<1>3. Between(R, map, e)
  <2>1. \A i \in 1..1 : i = 1 /\ i - 1 = 0
    OBVIOUS
  <2> QED BY <1>1, <1>2, <2>1 DEF Between
<1>4. Leads(map, e, to)
  <2> HIDE DEF to
  <2> QED BY <1>1, <1>2, <1>3 DEF Leads
<1> QED BY <1>4 DEF e

(* The maps between the events are maps.                                    *)
LEMMA BetweenMaps ==
  ASSUME NEW R, NEW map \in Maps, NEW events, Len(events) \in Nat, Between(R, map, events)
  PROVE  \A i \in 0..Len(events) : R[i] \in Maps
<1> DEFINE n == Len(events)
           H == {i \in 0..n : R[i] \notin Maps}
<1> SUFFICES ASSUME H # {} PROVE FALSE
  OBVIOUS
<1>1. H \in SUBSET (0..n)
  OBVIOUS
<1>2. PICK i \in H : \A j \in H : i <= j
  <2> HIDE DEF H, n
  <2> QED BY <1>1, LeastExists DEF n
<1>3. i # 0 /\ i \in 1..n
  BY DEF Between
<1>4. i - 1 \in 0..n /\ i - 1 \notin H
  BY <1>2, <1>3
<1>5. R[i - 1] \in Maps
  BY <1>4
<1>6. R[i] = [R[i - 1] EXCEPT ![events[i].link] = events[i].level] /\ Fits(events[i], R[i - 1])
  BY <1>3 DEF Between
<1>7. R[i] \in Maps
  BY <1>5, <1>6 DEF Maps, Fits
<1> QED BY <1>7

(* What a sequence leads to is a map.                                       *)
LEMMA LeadsToMap ==
  ASSUME NEW map, NEW events, NEW to, Leads(map, events, to)
  PROVE  to \in Maps
<1>1. PICK R : Between(R, map, events) /\ R[Len(events)] = to
  BY DEF Leads
<1>2. Len(events) \in 0..Len(events) /\ map \in Maps /\ Len(events) \in Nat
  BY DEF Leads
<1> QED BY <1>1, <1>2, BetweenMaps

(* One sequence after another.                                              *)
LEMMA LeadsOn ==
  ASSUME NEW map, NEW a, NEW mid, NEW b, NEW to, Leads(map, a, mid), Leads(mid, b, to)
  PROVE  Leads(map, a \o b, to)
<1> DEFINE m == Len(a)  n == Len(b)  ab == a \o b
<1>1. m \in Nat /\ n \in Nat /\ map \in Maps /\ mid \in Maps
  BY DEF Leads
<1>2. /\ Len(ab) = m + n /\ ab = [i \in 1..(m + n) |-> ab[i]]
      /\ \A i \in 1..(m + n) : ab[i] = IF i <= m THEN a[i] ELSE b[i - m]
  <2> DEFINE S == {a[i] : i \in 1..m} \union {b[i] : i \in 1..n}
  <2>1. a \in Seq(S) /\ b \in Seq(S)
    <3>1. a = [i \in 1..m |-> a[i]] /\ b = [i \in 1..n |-> b[i]]
      BY DEF Leads
    <3>2. \A i \in 1..m : a[i] \in S
      OBVIOUS
    <3>3. \A i \in 1..n : b[i] \in S
      OBVIOUS
    <3> HIDE DEF S
    <3> QED BY <1>1, <3>1, <3>2, <3>3, IsASeq
  <2> HIDE DEF S
  <2>2. /\ ab \in Seq(S) /\ Len(ab) = m + n
        /\ \A i \in 1..(m + n) : ab[i] = IF i <= m THEN a[i] ELSE b[i - m]
    BY <2>1, ConcatProperties
  <2>3. ab = [i \in 1..(m + n) |-> ab[i]]
    <3> HIDE DEF ab
    <3> QED BY <2>2, LenProperties
  <2> QED BY <2>2, <2>3
<1>3. PICK A : Between(A, map, a) /\ A[m] = mid
  BY DEF Leads
<1>4. PICK B : Between(B, mid, b) /\ B[n] = to
  BY DEF Leads
<1> DEFINE R == [i \in 0..(m + n) |-> IF i <= m THEN A[i] ELSE B[i - m]]
<1> HIDE DEF m, n, ab
<1>5. B[0] = mid /\ A[0] = map
  BY <1>3, <1>4 DEF Between
<1>6. /\ \A i \in 0..m : R[i] = A[i]
      /\ \A i \in m..(m + n) : R[i] = B[i - m]
  <2>1. \A i \in 0..m : R[i] = A[i]
    BY <1>1
  <2>2. ASSUME NEW i \in m..(m + n) PROVE R[i] = B[i - m]
    <3>1. i \in 0..(m + n)
      BY <1>1
    <3>2. CASE i = m
      <4>1. m \in 0..m /\ m - m = 0
        BY <1>1
      <4>2. R[m] = mid
        BY <1>3, <2>1, <4>1
      <4> QED BY <1>5, <3>2, <4>1, <4>2
    <3>3. CASE i # m
      <4>1. ~(i <= m)
        BY <1>1, <3>3
      <4> QED BY <3>1, <4>1
    <3> QED BY <3>2, <3>3
  <2> QED BY <2>1, <2>2
<1>7. R[0] = map /\ R[m + n] = to
  <2>1. 0 \in 0..m /\ m + n \in m..(m + n) /\ (m + n) - m = n
    BY <1>1
  <2>2. R[0] = A[0]
    BY <1>6, <2>1
  <2>3. R[m + n] = B[(m + n) - m]
    BY <1>6, <2>1
  <2> QED BY <1>4, <1>5, <2>1, <2>2, <2>3
<1>8. R = [i \in 0..(m + n) |-> R[i]]
  OBVIOUS
<1> HIDE DEF R
<1>9. ASSUME NEW i \in 1..(m + n)
      PROVE  /\ Fits(ab[i], R[i - 1])
             /\ R[i] = [R[i - 1] EXCEPT ![ab[i].link] = ab[i].level]
  <2>1. CASE i <= m
    <3>1. i \in 1..m /\ ab[i] = a[i] /\ R[i] = A[i] /\ R[i - 1] = A[i - 1]
      BY <1>1, <1>2, <1>6, <2>1
    <3>2. Fits(a[i], A[i - 1]) /\ A[i] = [A[i - 1] EXCEPT ![a[i].link] = a[i].level]
      BY <1>3, <3>1 DEF Between, m
    <3> QED BY <3>1, <3>2
  <2>2. CASE ~(i <= m)
    <3> DEFINE j == i - m
    <3>1. j \in 1..n /\ ab[i] = b[j] /\ R[i] = B[j] /\ R[i - 1] = B[j - 1]
      <4>1. j \in 1..n /\ i \in m..(m + n) /\ i - 1 \in m..(m + n) /\ (i - 1) - m = j - 1
        BY <1>1, <2>2
      <4>2. ab[i] = b[j]
        BY <1>2, <2>2
      <4>3. R[i] = B[j]
        BY <1>6, <4>1
      <4>4. R[i - 1] = B[(i - 1) - m]
        BY <1>6, <4>1
      <4> HIDE DEF j
      <4> QED BY <4>1, <4>2, <4>3, <4>4
    <3> HIDE DEF j
    <3>2. Fits(b[j], B[j - 1]) /\ B[j] = [B[j - 1] EXCEPT ![b[j].link] = b[j].level]
      BY <1>4, <3>1 DEF Between, n
    <3> QED BY <3>1, <3>2
  <2> QED BY <2>1, <2>2
<1>10. Between(R, map, ab)
  BY <1>2, <1>7, <1>8, <1>9 DEF Between
<1>11. Leads(map, ab, to)
  <2>1. Len(ab) \in Nat /\ ab = [i \in 1..Len(ab) |-> ab[i]]
    BY <1>1, <1>2
  <2>2. Between(R, map, ab) /\ R[Len(ab)] = to
    BY <1>2, <1>7, <1>10
  <2> QED BY <1>1, <2>1, <2>2 DEF Leads
<1> QED BY <1>11 DEF ab

\* One step of the replay.
Replayed(map, events, R) ==
  [n \in 0..Len(events) |->
     IF n = 0 THEN map ELSE [R[n - 1] EXCEPT ![events[n].link] = events[n].level]]

(* The maps between the events are those the listeners' promise speaks of.  *)
LEMMA ReplayOf ==
  ASSUME NEW map, NEW events, NEW to, Leads(map, events, to)
  PROVE  Source!ChainsFrom(map, events) /\ Source!Replay(map, events) = to
<1> DEFINE n == Len(events)
           K == Source!ReplayTo(map, events)
<1>1. n \in Nat
  BY DEF Leads
<1>2. PICK R : Between(R, map, events) /\ R[n] = to
  BY DEF Leads
<1>3. R = Replayed(map, events, R)
  <2>1. ASSUME NEW i \in 0..n
        PROVE  R[i] = IF i = 0 THEN map ELSE [R[i - 1] EXCEPT ![events[i].link] = events[i].level]
    <3>1. CASE i = 0
      BY <1>2, <3>1 DEF Between
    <3>2. CASE i # 0
      <4>1. i \in 1..n
        BY <1>1, <3>2
      <4> QED BY <1>2, <3>2, <4>1 DEF Between
    <3> QED BY <3>1, <3>2
  <2>2. R = [i \in 0..n |-> R[i]]
    BY <1>2 DEF Between
  <2> QED BY <2>1, <2>2 DEF Replayed
<1>4. K = CHOOSE f : f = Replayed(map, events, f)
  BY DEF Source!ReplayTo, Replayed
<1>5. K = Replayed(map, events, K)
  <2> HIDE DEF K
  <2> QED BY <1>3, <1>4
<1> HIDE DEF K
<1>6. \A i \in 0..n : K[i] = R[i]
  <2> DEFINE H == {i \in 0..n : K[i] # R[i]}
  <2> SUFFICES ASSUME H # {} PROVE FALSE
    OBVIOUS
  <2>1. H \in SUBSET (0..n)
    OBVIOUS
  <2>2. PICK i \in H : \A j \in H : i <= j
    <3> HIDE DEF H, n
    <3> QED BY <1>1, <2>1, LeastExists
  <2>3. K[0] = R[0]
    <3>1. K[0] = map
      BY <1>1, <1>5 DEF Replayed
    <3>2. R[0] = map
      BY <1>2 DEF Between
    <3> QED BY <3>1, <3>2
  <2>4. i \in 1..n
    BY <1>1, <2>3
  <2>5. i - 1 \in 0..n /\ i - 1 \notin H
    BY <1>1, <2>2, <2>4
  <2>6. K[i - 1] = R[i - 1]
    BY <2>5
  <2>7. K[i] = [K[i - 1] EXCEPT ![events[i].link] = events[i].level]
    <3>1. i \in 0..n /\ i # 0
      BY <2>4
    <3>2. Replayed(map, events, K)[i] = [K[i - 1] EXCEPT ![events[i].link] = events[i].level]
      BY <3>1 DEF Replayed
    <3> QED BY <1>5, <3>2
  <2>8. R[i] = [R[i - 1] EXCEPT ![events[i].link] = events[i].level]
    BY <1>2, <2>4 DEF Between
  <2> QED BY <2>6, <2>7, <2>8
<1>7. Source!Replay(map, events) = to
  <2>1. K[n] = to
    BY <1>1, <1>2, <1>6
  <2> QED BY <2>1 DEF Source!Replay, K
<1>8. ASSUME NEW i \in 1..n
      PROVE  IF events[i].type = "drop"
             THEN /\ events[i].from = K[i - 1][events[i].link]
                  /\ K[i - 1][events[i].link] # None
                  /\ events[i].level # K[i - 1][events[i].link]
             ELSE events[i].level # None
  <2>1. i - 1 \in 0..n
    BY <1>1
  <2>2. Fits(events[i], K[i - 1])
    BY <1>2, <1>6, <2>1 DEF Between
  <2> QED BY <2>2 DEF Fits
<1>9. Source!ChainsFrom(map, events)
  BY <1>8 DEF Source!ChainsFrom, K
<1> QED BY <1>7, <1>9

------------------------------------------------------------------------------
(* The events of one data link: replayed on a map that has its level, they  *)
(* lead to the map with its new level.                                      *)

LinkLeads(d, from, events, to) ==
  \A map \in Maps : map[d] = from => Leads(map, events, [map EXCEPT ![d] = to])

(* A result whose events announce what becomes of the level.                *)
Tells(d, st, r) ==
  /\ st.active \in AnyLevel \union {None} /\ r.st.active \in AnyLevel \union {None}
  /\ LinkLeads(d, st.active, r.ev, r.st.active)

(* A data link of which nothing is told keeps its level.                    *)
LEMMA SilentTells ==
  ASSUME NEW d \in Datalinks, NEW from
  PROVE  LinkLeads(d, from, <<>>, from)
<1> SUFFICES ASSUME NEW map \in Maps, map[d] = from
             PROVE  Leads(map, <<>>, [map EXCEPT ![d] = from])
  BY DEF LinkLeads
<1>1. [map EXCEPT ![d] = from] = map
  BY DEF Maps
<1> QED BY <1>1, NoneLeads

(* A drop leads to the level it goes to.                                    *)
LEMMA DropLeads ==
  ASSUME NEW d \in Datalinks, NEW from \in AnyLevel, from # None,
         NEW to \in AnyLevel \union {None}, to # from
  PROVE  LinkLeads(d, from, <<Drop(d, from, to)>>, to)
<1> SUFFICES ASSUME NEW map \in Maps, map[d] = from
             PROVE  Leads(map, <<Drop(d, from, to)>>, [map EXCEPT ![d] = to])
  BY DEF LinkLeads
<1> DEFINE x == Drop(d, from, to)
<1>1. x.type = "drop" /\ x.link = d /\ x.from = from /\ x.level = to
  BY DEF Drop
<1> HIDE DEF x
<1>2. Fits(x, map)
  BY <1>1 DEF Fits
<1>3. Leads(map, <<x>>, [map EXCEPT ![x.link] = x.level])
  BY <1>2, OneLeads
<1> QED BY <1>1, <1>3 DEF x

(* An activation leads to its level from any other.                         *)
LEMMA ActivationLeads ==
  ASSUME NEW d \in Datalinks, NEW from, NEW s, NEW to \in AnyLevel, to # None, NEW value,
         NEW eligible, NEW recompute
  PROVE  LinkLeads(d, from, <<Activation(d, s, to, value, eligible, recompute)>>, to)
<1> DEFINE x == Activation(d, s, to, value, eligible, recompute)
<1> SUFFICES ASSUME NEW map \in Maps, map[d] = from
             PROVE  Leads(map, <<x>>, [map EXCEPT ![d] = to])
  BY DEF LinkLeads
<1>1. x.type = "activation" /\ x.link = d /\ x.level = to
  BY DEF Activation
<1> HIDE DEF x
<1>2. Fits(x, map)
  BY <1>1 DEF Fits
<1>3. Leads(map, <<x>>, [map EXCEPT ![x.link] = x.level])
  BY <1>2, OneLeads
<1> QED BY <1>1, <1>3

(* The events of a data link one after another.                             *)
LEMMA LinkLeadsOn ==
  ASSUME NEW d \in Datalinks, NEW from, NEW a, NEW mid \in AnyLevel \union {None}, NEW b, NEW to,
         LinkLeads(d, from, a, mid), LinkLeads(d, mid, b, to)
  PROVE  LinkLeads(d, from, a \o b, to)
<1> SUFFICES ASSUME NEW map \in Maps, map[d] = from
             PROVE  Leads(map, a \o b, [map EXCEPT ![d] = to])
  BY DEF LinkLeads
<1> DEFINE next == [map EXCEPT ![d] = mid]
<1>1. next \in Maps /\ next[d] = mid
  BY DEF Maps
<1>2. [next EXCEPT ![d] = to] = [map EXCEPT ![d] = to]
  BY DEF Maps
<1>3. Leads(map, a, next)
  BY DEF LinkLeads
<1> HIDE DEF next
<1>4. Leads(next, b, [next EXCEPT ![d] = to])
  BY <1>1 DEF LinkLeads
<1> QED BY <1>2, <1>3, <1>4, LeadsOn

(* dropTo: a level left without a drop is none, and stays none.             *)
LEMMA DropToTells ==
  ASSUME NEW d \in Datalinks, NEW st \in LinkStates, NEW to \in AnyLevel \union {None}, NEW t,
         NEW reArms \in BOOLEAN, st.active # None \/ to = None
  PROVE  /\ Tells(d, st, DropTo(d, st, to, t, reArms))
         /\ DropTo(d, st, to, t, reArms).st.active = to
<1> DEFINE r == DropTo(d, st, to, t, reArms)
<1>1. st.active \in AnyLevel \union {None}
  BY DEF LinkStates
<1>2. CASE st.active = to
  <2>1. r.st = st /\ r.ev = <<>>
    BY <1>2 DEF DropTo
  <2> HIDE DEF r
  <2> QED BY <1>1, <1>2, <2>1, SilentTells DEF Tells, r
<1>3. CASE st.active # to
  <2>1. st.active # None /\ st.active \in AnyLevel
    BY <1>1, <1>3
  <2>2. r.ev = <<Drop(d, st.active, to)>>
    BY <1>3, <2>1 DEF DropTo
  <2>3. r.st.active = to
    BY <1>3 DEF DropTo, LinkStates
  <2>4. LinkLeads(d, st.active, <<Drop(d, st.active, to)>>, to)
    BY <1>3, <2>1, DropLeads
  <2> HIDE DEF r
  <2> QED BY <1>1, <2>2, <2>3, <2>4 DEF Tells, r
<1> QED BY <1>2, <1>3

(* step, for a frame without a value.                                       *)
LEMMA AbsentTells ==
  ASSUME NEW d \in Datalinks, NEW st, NEW lt, NEW t \in Nat, Sound(st, lt, t)
  PROVE  Tells(d, st, Absent(d, st, t))
<1> DEFINE given == IF st.pending # None /\ ~Suspended(st)
                      THEN [st EXCEPT !.pending = None, !.reArmAt = t] ELSE st
<1>1. given \in LinkStates /\ given.active = st.active
  BY DEF Sound, LinkStates
<1>2. Absent(d, st, t) = DropTo(d, given, None, t, TRUE)
  BY DEF Absent
<1> HIDE DEF given
<1>3. Tells(d, given, DropTo(d, given, None, t, TRUE))
  BY <1>1, DropToTells
<1> QED BY <1>1, <1>2, <1>3 DEF Tells

(* The rank of no level is below that of any level a setting has.           *)
LEMMA RankedIsLevel ==
  ASSUME NEW s \in Configs, NEW level, NEW high, Rank(s, high) < Rank(s, level)
  PROVE  level # None
<1>1. Rank(s, high) \in Nat /\ Rank(s, level) \in Nat
  BY RankIsNat
<1>2. Rank(s, level) # 0
  BY <1>1
<1>3. level \in LevelsOf(s)
  BY <1>2 DEF Rank
<1> QED BY <1>3 DEF LevelsOf

(* No level is null.                                                        *)
LEMMA LevelIsNotNone == None \notin AnyLevel
  BY DEF AnyLevel, LevelsOf

(* A transition has a level to go to.                                       *)
LEMMA RetargetKeepsLevel ==
  ASSUME NEW s \in Configs, NEW st \in LinkStates, NEW high, NEW t, NEW dl
  PROVE  /\ Retarget(s, st, high, t, dl).active = st.active
         /\ high = None => Retarget(s, st, high, t, dl).pending = None
<1> DEFINE new == Retarget(s, st, high, t, dl)
           p == st.pending
           rank == Rank(s, high)
<1>1. "active" \in DOMAIN st /\ "pending" \in DOMAIN st
  BY DEF LinkStates
<1>2. CASE high = None
  <2>1. CASE p # None
    BY <1>1, <1>2, <2>1 DEF Retarget
  <2>2. CASE p = None
    BY <1>1, <1>2, <2>2 DEF Retarget
  <2> QED BY <2>1, <2>2
<1>3. CASE high # None
  <2>1. CASE p # None /\ rank > Rank(s, p.target)
    <3>1. new = [st EXCEPT !.pending.target = high]
      <4>1. rank \in Nat /\ Rank(s, p.target) \in Nat
        BY RankIsNat
      <4>2. ~(rank < Rank(s, p.target))
        BY <2>1, <4>1
      <4> QED BY <1>3, <2>1, <4>2 DEF Retarget
    <3> QED BY <1>1, <1>3, <3>1
  <2>2. CASE p # None /\ ~(rank > Rank(s, p.target)) /\ rank < Rank(s, p.target)
    <3>1. \/ new = [st EXCEPT !.pending = None]
          \/ new = [st EXCEPT !.pending.target = high, !.pending.deadline = t + dl,
                              !.pending.crossingTime = t]
      BY <1>3, <2>2 DEF Retarget
    <3> QED BY <1>1, <1>3, <3>1
  <2>3. CASE p # None /\ ~(rank > Rank(s, p.target)) /\ ~(rank < Rank(s, p.target))
    <3>1. new = st
      BY <1>3, <2>3 DEF Retarget
    <3> QED BY <1>3, <3>1
  <2>4. CASE p = None
    <3>1. new = st \/ new = [st EXCEPT !.pending = Created(high, t, dl)]
      BY <1>3, <2>4 DEF Retarget
    <3> QED BY <1>1, <1>3, <3>1
  <2> QED BY <2>1, <2>2, <2>3, <2>4
<1> QED BY <1>2, <1>3

(* fireActivation.                                                          *)
LEMMA FireTells ==
  ASSUME NEW d \in Datalinks, NEW s, NEW st \in LinkStates, NEW value,
         NEW high \in AnyLevel \union {None}, NEW t, high = None => st.pending = None
  PROVE  Tells(d, st, Fire(d, s, st, value, high, t))
<1> DEFINE r == Fire(d, s, st, value, high, t)
           event == Activation(d, s, high, value, Eligible(st), FALSE)
<1>1. st.active \in AnyLevel \union {None}
  BY DEF LinkStates
<1>2. CASE st.pending = None \/ t < st.pending.deadline
  <2>1. r.st = st /\ r.ev = <<>>
    BY <1>2 DEF Fire
  <2> HIDE DEF r
  <2> QED BY <1>1, <2>1, SilentTells DEF Tells, r
<1>3. CASE ~(st.pending = None \/ t < st.pending.deadline)
  <2>1. high # None /\ high \in AnyLevel
    BY <1>3
  <2>2. r.ev = <<event>>
    BY <1>3 DEF Fire
  <2>3. r.st.active = high
    <3>1. r.st = [st EXCEPT !.active = high, !.pending = None]
      BY <1>3 DEF Fire
    <3> HIDE DEF r
    <3> QED BY <3>1 DEF LinkStates
  <2>4. LinkLeads(d, st.active, <<event>>, high)
    BY <2>1, ActivationLeads
  <2> HIDE DEF r, event
  <2> QED BY <1>1, <2>2, <2>3, <2>4 DEF Tells, r
<1> QED BY <1>2, <1>3

(* step, for a frame with a value.                                          *)
LEMMA ObserveTells ==
  ASSUME NEW d \in Datalinks, NEW s \in Configs, NEW value, NEW st, NEW lt, NEW t \in Nat,
         NEW dl \in Delays, Sound(st, lt, t)
  PROVE  Tells(d, st, Observe(d, s, st, value, t, dl))
<1> DEFINE high == Highest(s, value)
           falls == st.active # None /\ (high = None \/ Rank(s, high) < Rank(s, st.active))
           dropped == IF falls THEN DropTo(d, st, high, t, TRUE) ELSE [st |-> st, ev |-> <<>>]
           to == Retarget(s, dropped.st, high, t, dl)
           fired == Fire(d, s, to, value, high, t)
           both == [st |-> fired.st, ev |-> dropped.ev \o fired.ev]
<1>1. high \in AnyLevel \union {None} /\ st \in LinkStates
  BY HighestLevel DEF Sound
<1>2. Observe(d, s, st, value, t, dl) = IF Suspended(st) THEN dropped ELSE both
  BY DEF Observe
<1> HIDE DEF high
<1>3. /\ Tells(d, st, dropped) /\ dropped.st.pending = st.pending
      /\ \E l : Sound(dropped.st, l, t)
  <2>1. CASE falls
    <3>1. dropped = DropTo(d, st, high, t, TRUE)
      BY <2>1
    <3>2. Tells(d, st, DropTo(d, st, high, t, TRUE))
      BY <1>1, <2>1, DropToTells
    <3>3. /\ SoundResult(DropTo(d, st, high, t, TRUE), st, lt, t)
          /\ DropTo(d, st, high, t, TRUE).st.pending = st.pending
          /\ AtMostADrop(DropTo(d, st, high, t, TRUE).ev)
      BY <1>1, DropSound
    <3> HIDE DEF dropped
    <3> QED BY <3>1, <3>2, <3>3 DEF SoundResult
  <2>2. CASE ~falls
    <3>1. dropped.st = st /\ dropped.ev = <<>>
      BY <2>2
    <3> HIDE DEF dropped
    <3>2. LinkLeads(d, st.active, <<>>, st.active) /\ st.active \in AnyLevel \union {None}
      BY <1>1, SilentTells DEF LinkStates
    <3> QED BY <3>1, <3>2 DEF Tells
  <2> QED BY <2>1, <2>2
<1> HIDE DEF dropped, falls
<1>4. ASSUME ~Suspended(st) PROVE Tells(d, st, both)
  <2>1. PICK l : Sound(dropped.st, l, t)
    BY <1>3
  <2>2. ~Suspended(dropped.st) /\ dropped.st \in LinkStates
    BY <1>3, <1>4, <2>1 DEF Suspended, Sound
  <2>3. to \in LinkStates
    BY <1>1, <2>1, <2>2, RetargetSound DEF Sound
  <2>4. to.active = dropped.st.active /\ (high = None => to.pending = None)
    BY <2>2, RetargetKeepsLevel
  <2> HIDE DEF to
  <2>5. Tells(d, to, fired)
    BY <1>1, <2>3, <2>4, FireTells
  <2> HIDE DEF fired
  <2>6. both.st = fired.st /\ both.ev = dropped.ev \o fired.ev
    OBVIOUS
  <2> HIDE DEF both
  <2>7. LinkLeads(d, st.active, dropped.ev \o fired.ev, fired.st.active)
    BY <1>3, <2>4, <2>5, LinkLeadsOn DEF Tells
  <2> QED BY <1>3, <2>5, <2>6, <2>7 DEF Tells
<1> HIDE DEF both
<1> QED BY <1>2, <1>3, <1>4

(* recomputeImmediate: a level is left, or a higher one taken, silently.    *)
LEMMA RecomputeTells ==
  ASSUME NEW d \in Datalinks, NEW s \in Configs, NEW value, NEW st \in LinkStates, NEW t
  PROVE  Tells(d, st, Recompute(d, s, st, value, t))
<1> DEFINE high == IF value = None THEN None ELSE Highest(s, value)
           cleared == [st EXCEPT !.pending = None]
           r == Recompute(d, s, st, value, t)
           event == Activation(d, s, high, value, FALSE, TRUE)
           falls == \/ st.active # None /\ st.active \notin LevelsOf(s)
                    \/ value = None
                    \/ Rank(s, high) < Rank(s, st.active)
           rises == high # None /\ Rank(s, high) > Rank(s, st.active)
<1>1. /\ high \in AnyLevel \union {None}
      /\ value = None => high = None
      /\ cleared \in LinkStates /\ cleared.active = st.active
      /\ [cleared EXCEPT !.active = high].active = high
  BY HighestLevel DEF LinkStates
<1>2. r = IF falls THEN DropTo(d, cleared, high, t, TRUE)
          ELSE IF rises THEN [st |-> [cleared EXCEPT !.active = high], ev |-> <<event>>]
          ELSE [st |-> cleared, ev |-> <<>>]
  BY DEF Recompute
<1>3. st.active \in AnyLevel \union {None}
  BY DEF LinkStates
<1> DEFINE raised == [cleared EXCEPT !.active = high]
<1>4. falls => st.active # None \/ high = None
  BY <1>1, RankedIsLevel
<1>5. raised.active = high
  BY <1>1
<1> HIDE DEF high, cleared, r, event, falls, raised
<1>6. CASE falls
  <2>1. Tells(d, cleared, DropTo(d, cleared, high, t, TRUE))
    BY <1>1, <1>4, <1>6, DropToTells
  <2> QED BY <1>1, <1>2, <1>6, <2>1 DEF Tells, r
<1>7. CASE ~falls /\ rises
  <2>1. high \in AnyLevel /\ high # None
    BY <1>1, <1>7
  <2>2. LinkLeads(d, st.active, <<event>>, high)
    BY <2>1, ActivationLeads DEF event
  <2>3. r = [st |-> raised, ev |-> <<event>>]
    BY <1>2, <1>7 DEF raised
  <2>4. r.st = raised /\ r.ev = <<event>>
    BY <2>3
  <2>5. Tells(d, st, r)
    BY <1>1, <1>3, <1>5, <2>2, <2>4 DEF Tells
  <2> QED BY <2>5 DEF r
<1>8. CASE ~falls /\ ~rises
  <2>1. r = [st |-> cleared, ev |-> <<>>]
    BY <1>2, <1>8
  <2>2. r.st = cleared /\ r.ev = <<>>
    BY <2>1
  <2>3. Tells(d, st, r)
    BY <1>1, <1>3, <2>2, SilentTells DEF Tells
  <2> QED BY <2>3 DEF r
<1> QED BY <1>6, <1>7, <1>8

------------------------------------------------------------------------------
(* The steps: each announces what becomes of every level.                   *)

LinksTell ==
  /\ \A d \in Datalinks : LinkLeads(d, link[d].active, batch'[d], link'[d].active)
  /\ \A d \in Datalinks : /\ link[d].active \in AnyLevel \union {None}
                          /\ link'[d].active \in AnyLevel \union {None}

(* Results that tell each of their data link tell of them all.              *)
LEMMA DeliveredTells ==
  ASSUME NEW result, Deliver(result), \A d \in Datalinks : Tells(d, link[d], result[d])
  PROVE  LinksTell
<1>1. \A d \in Datalinks : link'[d] = result[d].st /\ batch'[d] = result[d].ev
  BY DEF Deliver
<1> QED BY <1>1 DEF LinksTell, Tells

(* A call without events keeps every level.                                 *)
LEMMA QuietTells ==
  ASSUME IInv, Quiet, \A d \in Datalinks : link'[d].active = link[d].active
  PROVE  LinksTell
<1>1. \A d \in Datalinks : link[d].active \in AnyLevel \union {None}
  BY DEF IInv, TypeOK, LinkStates
<1>2. \A d \in Datalinks : batch'[d] = <<>>
  BY DEF Quiet, NoEvents
<1> QED BY <1>1, <1>2, SilentTells DEF LinksTell

(* A state left as it was.                                                  *)
LEMMA KeptTells ==
  ASSUME NEW d \in Datalinks, NEW st \in LinkStates, NEW r, r.st = st, r.ev = <<>>
  PROVE  Tells(d, st, r)
  BY SilentTells DEF Tells, LinkStates

(* step.                                                                    *)
LEMMA StepTells ==
  ASSUME IInv, NEW values \in [Datalinks -> Values \union {None}], Step(values)
  PROVE  LinksTell
<1> DEFINE result == [d \in Datalinks |->
             IF d \notin Known THEN [st |-> link[d], ev |-> <<>>]
             ELSE IF values[d] = None THEN Absent(d, link[d], now)
             ELSE Observe(d, settings[d], link[d], values[d], now, delay)]
<1>1. TypeOK /\ now \in Nat /\ delay \in Delays
  BY DEF IInv, TypeOK
<1>2. ASSUME NEW d \in Datalinks
      PROVE  Tells(d, link[d], result[d])
  <2>1. Sound(link[d], left[d], now) /\ link[d] \in LinkStates
    BY DEF IInv, Sound
  <2>2. CASE d \notin Known
    <3>1. result[d].st = link[d] /\ result[d].ev = <<>>
      BY <2>2
    <3> HIDE DEF result
    <3> QED BY <2>1, <3>1, KeptTells
  <2>3. CASE d \in Known /\ values[d] = None
    <3>1. result[d] = Absent(d, link[d], now)
      BY <2>3
    <3> HIDE DEF result
    <3> QED BY <1>1, <2>1, <3>1, AbsentTells
  <2>4. CASE d \in Known /\ values[d] # None
    <3>1. settings[d] \in Configs
      BY <1>1, <2>4 DEF Known, TypeOK
    <3>2. result[d] = Observe(d, settings[d], link[d], values[d], now, delay)
      BY <2>4
    <3>3. Tells(d, link[d], Observe(d, settings[d], link[d], values[d], now, delay))
      BY <1>1, <2>1, <3>1, ObserveTells
    <3> HIDE DEF result
    <3> QED BY <3>2, <3>3
  <2> QED BY <2>2, <2>3, <2>4
<1>3. Deliver(result)
  BY DEF Step
<1> HIDE DEF result
<1> QED BY <1>2, <1>3, DeliveredTells

(* A state given up.                                                        *)
LEMMA GivenUpTells ==
  ASSUME NEW d \in Datalinks, NEW st \in LinkStates, NEW t, NEW r, r.st = NoState,
         r.ev = DropTo(d, st, None, t, FALSE).ev
  PROVE  Tells(d, st, r)
<1>1. NoState.active = None /\ st.active \in AnyLevel \union {None}
  BY DEF NoState, LinkStates
<1>2. CASE st.active = None
  <2>1. r.ev = <<>>
    BY <1>2 DEF DropTo
  <2> QED BY <1>1, <1>2, <2>1, SilentTells DEF Tells
<1>3. CASE st.active # None
  <2>1. r.ev = <<Drop(d, st.active, None)>>
    BY <1>3 DEF DropTo
  <2>2. LinkLeads(d, st.active, <<Drop(d, st.active, None)>>, None)
    BY <1>1, <1>3, DropLeads
  <2> QED BY <1>1, <2>1, <2>2 DEF Tells
<1> QED BY <1>2, <1>3

(* refresh.                                                                 *)
LEMMA RefreshTells ==
  ASSUME IInv, NEW payload \in [Datalinks -> Configs \union {None}], NEW dl \in Delays,
         Refresh(payload, dl)
  PROVE  LinksTell
<1> DEFINE reread(d) ==
             CASE payload[d] = None ->
                    [st |-> NoState, ev |-> DropTo(d, link[d], None, now, FALSE).ev]
               [] payload[d] # None /\ settings[d] = None -> [st |-> NoState, ev |-> <<>>]
               [] OTHER -> IF Suspended(link[d]) \/ payload[d] = settings[d]
                             THEN [st |-> link[d], ev |-> <<>>]
                             ELSE Recompute(d, payload[d], link[d], lastValue[d], now)
           result == [d \in Datalinks |-> reread(d)]
<1>1. TypeOK /\ now \in Nat
  BY DEF IInv, TypeOK
<1>2. ASSUME NEW d \in Datalinks
      PROVE  Tells(d, link[d], result[d])
  <2>1. link[d] \in LinkStates
    BY DEF IInv, Sound
  <2>2. CASE payload[d] = None
    <3>1. result[d].st = NoState /\ result[d].ev = DropTo(d, link[d], None, now, FALSE).ev
      BY <2>2
    <3> HIDE DEF result
    <3> QED BY <2>1, <3>1, GivenUpTells
  <2>3. CASE payload[d] # None /\ settings[d] = None
    <3>1. link[d] = NoState
      BY <2>3 DEF IInv
    <3>2. result[d] = [st |-> NoState, ev |-> <<>>]
      BY <2>3
    <3> HIDE DEF result
    <3>3. result[d].st = link[d] /\ result[d].ev = <<>>
      BY <3>1, <3>2
    <3> QED BY <2>1, <3>3, KeptTells
  <2>4. CASE /\ payload[d] # None /\ settings[d] # None
             /\ Suspended(link[d]) \/ payload[d] = settings[d]
    <3>1. result[d] = [st |-> link[d], ev |-> <<>>]
      BY <2>4
    <3> HIDE DEF result
    <3>2. result[d].st = link[d] /\ result[d].ev = <<>>
      BY <3>1
    <3> QED BY <2>1, <3>2, KeptTells
  <2>5. CASE /\ payload[d] # None /\ settings[d] # None
             /\ ~(Suspended(link[d]) \/ payload[d] = settings[d])
    <3>1. result[d] = Recompute(d, payload[d], link[d], lastValue[d], now)
      BY <2>5
    <3>2. payload[d] \in Configs
      BY <2>5
    <3>3. Tells(d, link[d], Recompute(d, payload[d], link[d], lastValue[d], now))
      BY <2>1, <3>2, RecomputeTells
    <3> HIDE DEF result
    <3> QED BY <3>1, <3>3
  <2> QED BY <2>2, <2>3, <2>4, <2>5
<1>3. Deliver(result)
  BY DEF Refresh
<1> HIDE DEF result
<1> QED BY <1>2, <1>3, DeliveredTells

(* reset.                                                                   *)
LEMMA ResetTells ==
  ASSUME IInv, Reset
  PROVE  LinksTell
<1> DEFINE result == [d \in Datalinks |->
             [st |-> NoState, ev |-> DropTo(d, link[d], None, now, FALSE).ev]]
<1>1. \A d \in Datalinks : link[d] \in LinkStates
  BY DEF IInv, TypeOK
<1>2. \A d \in Datalinks :
        result[d].st = NoState /\ result[d].ev = DropTo(d, link[d], None, now, FALSE).ev
  OBVIOUS
<1>3. Deliver(result)
  BY DEF Reset
<1> HIDE DEF result
<1>4. \A d \in Datalinks : Tells(d, link[d], result[d])
  BY <1>1, <1>2, GivenUpTells
<1> QED BY <1>3, <1>4, DeliveredTells

(* What changes no more than pending transitions announces nothing.         *)
LEMMA OthersTell ==
  ASSUME IInv,
         \/ Tick
         \/ \E dl \in Delays : PushDelay(dl)
         \/ \E d \in Datalinks, kind \in Kinds : InvalidatePending(d, kind)
         \/ \E d \in Datalinks, outcome \in {"resume", "restart", "cancel"} :
              ResolveAfterWrite(d, outcome)
         \/ \E paused \in BOOLEAN : SetPaused(paused)
  PROVE  LinksTell
<1>1. link \in [Datalinks -> LinkStates]
  BY DEF IInv, TypeOK
<1>2. \A d \in Datalinks : "active" \in DOMAIN link[d]
  BY <1>1 DEF LinkStates
<1>3. CASE Tick
  BY <1>3, QuietTells DEF Tick
<1>4. ASSUME NEW dl \in Delays, PushDelay(dl) PROVE LinksTell
  <2>1. \A d \in Datalinks : link'[d].active = link[d].active
    BY <1>2, <1>4 DEF PushDelay
  <2> QED BY <1>4, <2>1, QuietTells DEF PushDelay
<1>5. ASSUME NEW e \in Datalinks, NEW kind \in Kinds, InvalidatePending(e, kind) PROVE LinksTell
  <2>1. \A d \in Datalinks : link'[d].active = link[d].active
    BY <1>1, <1>2, <1>5 DEF InvalidatePending
  <2> QED BY <1>5, <2>1, QuietTells DEF InvalidatePending
<1>6. ASSUME NEW e \in Datalinks, NEW outcome \in {"resume", "restart", "cancel"},
             ResolveAfterWrite(e, outcome)
      PROVE  LinksTell
  <2>1. \A high : Resumed(link[e], high).active = link[e].active
    BY <1>2 DEF Resumed
  <2>2. \A d \in Datalinks : link'[d].active = link[d].active
    BY <1>1, <1>2, <1>6, <2>1 DEF ResolveAfterWrite
  <2> QED BY <1>6, <2>2, QuietTells DEF ResolveAfterWrite
<1>7. ASSUME NEW paused \in BOOLEAN, SetPaused(paused) PROVE LinksTell
  <2>1. \A d \in Datalinks : link'[d].active = link[d].active
    BY <1>2, <1>7 DEF SetPaused
  <2> QED BY <1>7, <2>1, QuietTells DEF SetPaused
<1> QED BY <1>3, <1>4, <1>5, <1>6, <1>7

(* Every step announces what becomes of the levels.                         *)
LEMMA NextTells ==
  ASSUME IInv, Next
  PROVE  LinksTell
  BY StepTells, RefreshTells, ResetTells, OthersTell DEF Next

------------------------------------------------------------------------------
(* All data links together: the events of a call, joined in any order of    *)
(* the data links, lead from the map before it to the map after it.         *)

LEMMA JoinedLeads ==
  ASSUME NEW b, NEW before \in Maps, NEW after \in Maps,
         \A d \in Datalinks : LinkLeads(d, before[d], b[d], after[d])
  PROVE  Leads(before, Joined(b), after)
<1> DEFINE mixed(map, s) == [d \in Datalinks |-> IF d \in s THEN after[d] ELSE map[d]]
           leads(s) == \A map \in Maps : (\A d \in s : map[d] = before[d]) =>
                         Leads(map, Joining(b)[s], mixed(map, s))
           G == {s \in SUBSET Datalinks : leads(s)}
<1>1. \A map \in Maps : mixed(map, {}) = map
  BY DEF Maps
<1>2. leads({})
  <2>1. \A map \in Maps : Leads(map, <<>>, map)
    BY NoneLeads
  <2>2. Joining(b)[{}] = <<>>
    BY JoiningOf
  <2> HIDE DEF mixed
  <2> QED BY <1>1, <2>1, <2>2
<1>3. ASSUME NEW s \in SUBSET Datalinks, s # {}, leads(s \ {First(s)})
      PROVE  leads(s)
  <2> SUFFICES ASSUME NEW map \in Maps, \A d \in s : map[d] = before[d]
               PROVE  Leads(map, Joining(b)[s], mixed(map, s))
    OBVIOUS
  <2> DEFINE x == First(s)
             t == s \ {x}
             next == [map EXCEPT ![x] = after[x]]
  <2>1. x \in s /\ x \in Datalinks
    BY <1>3, FirstOut
  <2>2. Joining(b)[s] = b[x] \o Joining(b)[t]
    BY <1>3, JoiningOf
  <2>3. Leads(map, b[x], next)
    <3>1. LinkLeads(x, before[x], b[x], after[x]) /\ map[x] = before[x]
      BY <2>1
    <3> QED BY <3>1 DEF LinkLeads
  <2> HIDE DEF x
  <2>4. next \in Maps /\ \A d \in t : next[d] = before[d]
    BY <2>1 DEF Maps
  <2>5. mixed(next, t) = mixed(map, s)
    <3>1. \A d \in Datalinks : (IF d \in t THEN after[d] ELSE next[d])
                               = IF d \in s THEN after[d] ELSE map[d]
      BY <2>1 DEF Maps
    <3> HIDE DEF t, next
    <3> QED BY <3>1
  <2>6. leads(t)
    BY <1>3 DEF x
  <2> HIDE DEF t, next, mixed
  <2>7. Leads(next, Joining(b)[t], mixed(next, t))
    BY <2>4, <2>6
  <2>8. Leads(map, b[x] \o Joining(b)[t], mixed(next, t))
    BY <2>3, <2>7, LeadsOn
  <2> QED BY <2>2, <2>5, <2>8
<1>4. leads(Datalinks)
  <2> HIDE DEF leads
  <2>1. {} \in G
    BY <1>2
  <2>2. \A s \in SUBSET Datalinks : s # {} /\ s \ {First(s)} \in G => s \in G
    BY <1>3
  <2>3. Datalinks \in G
    <3> HIDE DEF G
    <3> QED BY <2>1, <2>2, BySize
  <2> QED BY <2>3
<1>5. Leads(before, Joining(b)[Datalinks], mixed(before, Datalinks))
  BY <1>4
<1>6. mixed(before, Datalinks) = after
  BY DEF Maps
<1> HIDE DEF mixed
<1> QED BY <1>5, <1>6, JoinedByFold

(* Where no data link has an event there is none.                           *)
LEMMA NothingJoined == Joined(NoEvents) = <<>>
<1> DEFINE b == NoEvents
           G == {s \in SUBSET Datalinks : Joining(b)[s] = <<>>}
<1>1. {} \in G
  BY JoiningOf
<1>2. ASSUME NEW s \in SUBSET Datalinks, s # {}, s \ {First(s)} \in G PROVE s \in G
  <2>1. First(s) \in Datalinks
    BY <1>2, FirstOut
  <2>2. b[First(s)] = <<>>
    BY <2>1 DEF NoEvents
  <2>3. Joining(b)[s] = b[First(s)] \o Joining(b)[s \ {First(s)}]
    BY <1>2, JoiningOf
  <2>4. Joining(b)[s \ {First(s)}] = <<>>
    BY <1>2
  <2>5. <<>> \o <<>> = <<>>
    OBVIOUS
  <2>6. Joining(b)[s] = <<>>
    BY <2>2, <2>3, <2>4, <2>5
  <2> QED BY <2>6
<1>3. Datalinks \in G
  <2> HIDE DEF G
  <2> QED BY <1>1, <1>2, BySize
<1>4. Joining(b)[Datalinks] = <<>>
  BY <1>3
<1> HIDE DEF b
<1>5. Joined(b) = <<>>
  BY <1>4, JoinedByFold
<1> QED BY <1>5 DEF b

------------------------------------------------------------------------------
(* The evaluator implements WarningSource.                                  *)

ActiveLevels == [d \in Datalinks |-> link[d].active]

(* At the start the map is empty and nothing was announced.                 *)
LEMMA SourceInit == Init => Source!Init
<1> SUFFICES ASSUME Init PROVE Source!Init
  OBVIOUS
<1>1. Joined(batch) = <<>>
  BY NothingJoined DEF Init
<1>2. ActiveLevels = [d \in Datalinks |-> None]
  BY DEF Init, NoState, ActiveLevels
<1> QED BY <1>1, <1>2 DEF Source!Init, Joined, ActiveLevels

(* A step is a publication of WarningSource.                                *)
LEMMA SourceStep ==
  ASSUME IInv, Next
  PROVE  Source!Next
<1> DEFINE before == ActiveLevels
           after == [d \in Datalinks |-> link'[d].active]
           b == batch'
<1>1. LinksTell
  BY NextTells
<1>2. before \in Maps /\ after \in Maps
  BY <1>1 DEF LinksTell, Maps, ActiveLevels
<1>3. \A d \in Datalinks : LinkLeads(d, before[d], b[d], after[d])
  BY <1>1 DEF LinksTell, ActiveLevels
<1>4. ActiveLevels' = after
  BY DEF ActiveLevels
<1> HIDE DEF before, after, b
<1>5. Leads(before, Joined(b), after)
  BY <1>2, <1>3, JoinedLeads
<1>6. Source!ChainsFrom(before, Joined(b)) /\ Source!Replay(before, Joined(b)) = after
  BY <1>5, ReplayOf
<1> DEFINE events == Joined(b)
<1> HIDE DEF events
<1>7. Source!ChainsFrom(before, events) /\ Source!Replay(before, events) = after
  BY <1>6 DEF events
<1>8. Joined(batch)' = events
  BY DEF events, b
<1>9. /\ Source!ChainsFrom(ActiveLevels, Joined(batch)')
      /\ ActiveLevels' = Source!Replay(ActiveLevels, Joined(batch)')
  BY <1>4, <1>7, <1>8 DEF before
<1> QED BY <1>9 DEF Source!Next, Source!Publish, Joined, ActiveLevels

(* What changes nothing of the evaluator changes nothing of its promise.    *)
LEMMA SourceStutter ==
  ASSUME UNCHANGED vars
  PROVE  UNCHANGED Source!sourceVars
<1>1. UNCHANGED <<ActiveLevels, Joined(batch)>>
  BY DEF vars, ActiveLevels
<1> QED BY <1>1 DEF Source!sourceVars, ActiveLevels, Joined

(* Every step of the evaluator announces what it changes: replaying the     *)
(* events of a call, in the order of the array they are pushed to, turns    *)
(* the map of active levels before the call into the map after it, no drop  *)
(* names another level than the one that was active, and no activation none.*)
THEOREM SourceImplemented == Spec => ImplementsSource
<1>1. Init => Source!Init
  BY SourceInit
<1>2. IInv /\ [Next]_vars => [Source!Next]_(Source!sourceVars)
  BY SourceStep, SourceStutter
<1> QED BY <1>1, <1>2, InvariantHolds, PTL DEF Spec, ImplementsSource, Source!Spec
==============================================================================
