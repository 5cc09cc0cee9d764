------------------------- MODULE MirrorServer_proofs -------------------------
(***************************************************************************)
(* TypeOK, CapsHold, DecisionsHold and ViewersTracked hold for any number  *)
(* of connections and devices, any caps and any interleaving.  The         *)
(* inductive invariant adds how the dictionary and its free list fit, what *)
(* a socket says of its session, and how far a hello and an approval can   *)
(* be for the session's status: a pending or silent session has no         *)
(* decision and no viewer, and a denied one has no step of its hello or    *)
(* its approval left that could still announce it.                         *)
(***************************************************************************)
EXTENDS MirrorServer, FiniteSetTheorems, SequenceTheorems, WellFoundedInduction, TLAPS

(* The dictionary: a session sits in one slot, and the free list holds free *)
(* slots, each once.                                                        *)
SlotsSound ==
    /\ \A i, j \in DOMAIN slots : slots[i] = slots[j] /\ slots[i] # None => i = j
    /\ \A k \in DOMAIN freed : freed[k] \in DOMAIN slots /\ slots[freed[k]] = None
    /\ \A k, l \in DOMAIN freed : freed[k] = freed[l] => k = l

(* What is in the dictionary has a live socket, and a connection nobody has *)
(* accepted yet has no history.                                             *)
SocketsSound ==
    /\ \A s \in Tracked : sock[s] \in {"open", "closing"}
    /\ \A s \in Sessions : sock[s] = "new" =>
           /\ status[s] = "AwaitingHello"
           /\ hello[s] = "none"
           /\ approving[s] = "none"
           /\ decision[s] = "none"
           /\ s \notin viewers \cup ending \cup autoDeny

(* How far the hello and the approval of a session can be for its status.   *)
StagesAgree ==
    \A s \in Sessions :
        /\ hello[s] \in {"none", "lookup", "known", "unknown"} => status[s] = "AwaitingHello"
        /\ hello[s] = "announce" => status[s] \in {"Approved", "Closed"}
        /\ status[s] = "PendingApproval" => hello[s] = "done"
        /\ status[s] \in {"AwaitingHello", "PendingApproval"} =>
               decision[s] = "none" /\ approving[s] = "none" /\ s \notin viewers
        /\ hello[s] = "announce" => decision[s] = "none" /\ approving[s] = "none"
        /\ approving[s] # "none" => decision[s] = "none"
        /\ decision[s] = "deny" => hello[s] = "done" /\ approving[s] = "none"

(* A session that closed amid its approval is on record as such. *)
RacedRecorded ==
    \A s \in Sessions :
        sock[s] = "closed" /\ (hello[s] \in {"lookup", "known", "announce"} \/ approving[s] # "none")
            => s \in raced

IInv ==
    /\ TypeOK /\ SlotsSound /\ SocketsSound /\ StagesAgree /\ RacedRecorded
    /\ CapsHold /\ DecisionsHold /\ ViewersTracked

USE ClientAssumption, NoneAssumption, CapAssumption

-----------------------------------------------------------------------------
(* The dictionary holds finitely many sessions. *)
LEMMA TrackedFinite ==
    ASSUME slots \in Seq(Sessions \cup {None})
    PROVE  Tracked \subseteq Sessions /\ IsFiniteSet(Tracked)
<1>1. slots \in [1..Len(slots) -> Sessions \cup {None}] /\ Len(slots) \in Nat
  BY LenProperties
<1>2. slots \in Surjection(1..Len(slots), Range(slots))
  BY <1>1 DEF Surjection, Range
<1>3. IsFiniteSet(1..Len(slots))
  BY <1>1, FS_Interval
<1>4. IsFiniteSet(Range(slots))
  BY <1>2, <1>3, FS_Surjection
<1> QED BY <1>1, <1>4, FS_Subset DEF Tracked, Range

(* A set of positions that is not empty has a first one. *)
LEMMA LeastExists ==
    ASSUME NEW n \in Nat, NEW H \in SUBSET (1..n), H # {}
    PROVE  \E i \in H : \A j \in H : i <= j
<1> DEFINE T == {1..i : i \in H}
<1>1. IsFiniteSet(1..n)
  BY FS_Interval
<1>2. T \subseteq FiniteSubsetsOf(1..n) /\ T # {}
  <2>1. \A i \in H : 1..i \subseteq 1..n
    OBVIOUS
  <2>2. FiniteSubsetsOf(1..n) = SUBSET (1..n)
    BY <1>1, FS_FiniteSubsetsOfFinite
  <2>3. PICK h \in H : TRUE
    OBVIOUS
  <2>4. (1..h) \in T
    OBVIOUS
  <2>5. T \subseteq SUBSET (1..n)
    BY <2>1
  <2> QED BY <2>2, <2>4, <2>5
<1>3. \E x \in T : \A y \in T : ~(<<y, x>> \in StrictSubsetOrdering(1..n))
  <2> HIDE DEF T
  <2> QED BY <1>2, FS_StrictSubsetOrderingWellFounded, WFMin
<1>4. PICK i \in H : \A j \in H : ~(<<1..j, 1..i>> \in StrictSubsetOrdering(1..n))
  BY <1>3
<1>5. ASSUME NEW j \in H, j < i PROVE FALSE
  <2>1. (1..j) \subseteq (1..i) /\ i \in 1..i /\ i \notin 1..j
    BY <1>5
  <2>2. (1..j) \in SUBSET (1..n) /\ (1..i) \in SUBSET (1..n)
    OBVIOUS
  <2>3. <<1..j, 1..i>> \in StrictSubsetOrdering(1..n)
    <3> DEFINE a == 1..j  b == 1..i  N == 1..n
    <3>1. a \in SUBSET N /\ b \in SUBSET N /\ a \subseteq b /\ a # b
      BY <2>1, <2>2
    <3> HIDE DEF a, b, N
    <3>2. <<a, b>> \in StrictSubsetOrdering(N)
      BY <3>1 DEF StrictSubsetOrdering
    <3> QED BY <3>2 DEF a, b, N
  <2> QED BY <1>4, <2>3
<1> QED BY <1>5

(* FirstOrDefault returns a session of the dictionary that matches. *)
LEMMA FirstMatches ==
    ASSUME slots \in Seq(Sessions \cup {None}), NEW c, NEW st,
           First(c, st) # None
    PROVE  /\ First(c, st) \in Tracked
           /\ status[First(c, st)] = st
           /\ ClientOf[First(c, st)] = c
<1> DEFINE hits == {i \in DOMAIN slots : slots[i] # None
                     /\ ClientOf[slots[i]] = c /\ status[slots[i]] = st}
<1>1. hits # {} /\ First(c, st) = slots[CHOOSE i \in hits : \A j \in hits : i <= j]
  BY DEF First
<1>2. DOMAIN slots = 1..Len(slots) /\ Len(slots) \in Nat
  BY LenProperties
<1>3. hits \in SUBSET (1..Len(slots))
  BY <1>2
<1>4. \E i \in hits : \A j \in hits : i <= j
  <2> HIDE DEF hits
  <2> QED BY <1>1, <1>2, <1>3, LeastExists
<1> QED BY <1>1, <1>4 DEF Tracked, Range

(* Where a session of the dictionary matches, FirstOrDefault finds one. *)
LEMMA PendingFound ==
    ASSUME slots \in Seq(Sessions \cup {None}), NEW st, NEW s \in With(st)
    PROVE  /\ First(ClientOf[s], st) \in Tracked
           /\ status[First(ClientOf[s], st)] = st
<1>1. PICK i \in DOMAIN slots : slots[i] = s
  BY DEF With, Tracked, Range
<1>2. s \in Sessions /\ status[s] = st
  BY TrackedFinite DEF With
<1> DEFINE hits == {j \in DOMAIN slots : slots[j] # None
                     /\ ClientOf[slots[j]] = ClientOf[s] /\ status[slots[j]] = st}
<1>3. hits \in SUBSET (1..Len(slots)) /\ i \in hits /\ Len(slots) \in Nat
  BY <1>1, <1>2, LenProperties
<1>4. \E j \in hits : \A k \in hits : j <= k
  <2> HIDE DEF hits
  <2> QED BY <1>3, LeastExists
<1> DEFINE f == CHOOSE j \in hits : \A k \in hits : j <= k
<1>5. f \in hits
  <2> HIDE DEF hits
  <2> QED BY <1>4
<1>6. First(ClientOf[s], st) = slots[f]
  BY <1>3 DEF First
<1> QED BY <1>5, <1>6 DEF Tracked, Range

(* Add puts a session the dictionary does not hold into one slot. *)
LEMMA TrackAdds ==
    ASSUME TypeOK, SlotsSound, NEW s \in Sessions, s \notin Tracked, Track(s)
    PROVE  /\ slots' \in Seq(Sessions \cup {None}) /\ freed' \in Seq(Nat)
           /\ SlotsSound'
           /\ Tracked' = Tracked \cup {s}
<1>1. slots \in Seq(Sessions \cup {None}) /\ freed \in Seq(Nat)
  BY DEF TypeOK
<1>2. DOMAIN slots = 1..Len(slots) /\ Len(slots) \in Nat
  BY <1>1, LenProperties
<1>3. s # None /\ \A i \in DOMAIN slots : slots[i] # s
  BY DEF Tracked, Range
<1>4. CASE freed = <<>>
  <2>1. slots' = Append(slots, s) /\ freed' = <<>>
    BY <1>4 DEF Track
  <2>2. /\ slots' \in Seq(Sessions \cup {None})
        /\ DOMAIN slots' = 1..(Len(slots) + 1)
        /\ \A i \in 1..Len(slots) : slots'[i] = slots[i]
        /\ slots'[Len(slots) + 1] = s
    BY <1>1, <2>1, AppendProperties, LenProperties
  <2>3. SlotsSound'
    BY <1>2, <1>3, <2>1, <2>2 DEF SlotsSound
  <2>4. Tracked' = Tracked \cup {s}
    BY <1>2, <1>3, <2>2 DEF Tracked, Range
  <2> QED BY <1>1, <1>4, <2>1, <2>2, <2>3, <2>4
<1>5. CASE freed # <<>>
  <2>1. slots' = [slots EXCEPT ![Head(freed)] = s] /\ freed' = Tail(freed)
    BY <1>5 DEF Track
  <2>2. /\ Len(freed) \in Nat \ {0} /\ DOMAIN freed = 1..Len(freed)
        /\ Head(freed) = freed[1]
        /\ freed' \in Seq(Nat) /\ DOMAIN freed' = 1..(Len(freed) - 1)
        /\ \A k \in 1..(Len(freed) - 1) : freed'[k] = freed[k + 1]
    BY <1>1, <1>5, <2>1, HeadTailProperties, LenProperties, EmptySeq
  <2>3. Head(freed) \in DOMAIN slots /\ slots[Head(freed)] = None
    BY <2>2, SMTT(20) DEF SlotsSound
  <2>4. /\ slots' \in Seq(Sessions \cup {None})
        /\ DOMAIN slots' = DOMAIN slots
        /\ \A i \in DOMAIN slots : slots'[i] = IF i = Head(freed) THEN s ELSE slots[i]
    BY <1>1, <1>2, <2>1, <2>3, ExceptSeq
  <2>5. SlotsSound'
    <3>1. \A i, j \in DOMAIN slots' : slots'[i] = slots'[j] /\ slots'[i] # None => i = j
      BY <1>3, <2>4 DEF SlotsSound
    <3>2. ASSUME NEW k \in DOMAIN freed', NEW l \in DOMAIN freed', freed'[k] = freed'[l]
          PROVE  k = l
      <4>1. /\ k \in Nat /\ l \in Nat /\ k + 1 \in DOMAIN freed /\ l + 1 \in DOMAIN freed
            /\ freed[k + 1] = freed[l + 1]
        BY <2>2, <3>2, SMTT(20)
      <4>2. k + 1 = l + 1
        BY <4>1 DEF SlotsSound
      <4> QED BY <4>1, <4>2
    <3>3. ASSUME NEW k \in DOMAIN freed'
          PROVE  freed'[k] \in DOMAIN slots' /\ slots'[freed'[k]] = None
      <4>1. k + 1 \in DOMAIN freed /\ 1 \in DOMAIN freed /\ k + 1 # 1 /\ freed'[k] = freed[k + 1]
        BY <2>2
      <4>2. freed[k + 1] # Head(freed) /\ freed[k + 1] \in DOMAIN slots /\ slots[freed[k + 1]] = None
        BY <4>1, <2>2 DEF SlotsSound
      <4> QED BY <4>1, <4>2, <2>4
    <3> QED BY <3>1, <3>2, <3>3 DEF SlotsSound
  <2>6. Tracked' = Tracked \cup {s}
    BY <1>3, <2>3, <2>4 DEF Tracked, Range
  <2> QED BY <2>2, <2>4, <2>5, <2>6
<1> QED BY <1>4, <1>5

(* Remove takes the session out of its slot, and frees the slot. *)
LEMMA UntrackRemoves ==
    ASSUME TypeOK, SlotsSound, NEW s \in Sessions, Untrack(s)
    PROVE  /\ slots' \in Seq(Sessions \cup {None}) /\ freed' \in Seq(Nat)
           /\ SlotsSound'
           /\ Tracked' = Tracked \ {s}
<1>1. slots \in Seq(Sessions \cup {None}) /\ freed \in Seq(Nat)
  BY DEF TypeOK
<1>2. CASE s \notin Tracked
  BY <1>1, <1>2 DEF Untrack, SlotsSound, Tracked
<1>3. CASE s \in Tracked
  <2> DEFINE i == CHOOSE j \in DOMAIN slots : slots[j] = s
  <2>1. i \in DOMAIN slots /\ slots[i] = s /\ s # None
    BY <1>3 DEF Tracked, Range
  <2>2. slots' = [slots EXCEPT ![i] = None] /\ freed' = <<i>> \o freed
    BY <1>3 DEF Untrack
  <2>3. DOMAIN slots = 1..Len(slots) /\ DOMAIN freed = 1..Len(freed) /\ Len(freed) \in Nat
        /\ Len(slots) \in Nat
    BY <1>1, LenProperties
  <2> HIDE DEF i
  <2>4. /\ slots' \in Seq(Sessions \cup {None})
        /\ DOMAIN slots' = DOMAIN slots
        /\ \A j \in DOMAIN slots : slots'[j] = IF j = i THEN None ELSE slots[j]
    BY <1>1, <2>1, <2>2, <2>3, ExceptSeq
  <2>5. /\ freed' \in Seq(Nat)
        /\ DOMAIN freed' = 1..(Len(freed) + 1)
        /\ freed'[1] = i
        /\ \A k \in 2..(Len(freed) + 1) : freed'[k] = freed[k - 1]
    <3>1. <<i>> \in Seq(Nat) /\ Len(<<i>>) = 1 /\ <<i>>[1] = i
      BY <2>1, <2>3
    <3> QED BY <1>1, <2>2, <2>3, <3>1, ConcatProperties, LenProperties
  <2>6. SlotsSound'
    <3>1. \A j, k \in DOMAIN slots' : slots'[j] = slots'[k] /\ slots'[j] # None => j = k
      BY <2>4 DEF SlotsSound
    <3>2. ASSUME NEW k \in DOMAIN freed'
          PROVE  freed'[k] \in DOMAIN slots' /\ slots'[freed'[k]] = None
      <4>1. CASE k = 1 BY <4>1, <2>1, <2>4, <2>5
      <4>2. CASE k # 1
        <5>1. k - 1 \in DOMAIN freed /\ freed'[k] = freed[k - 1]
          BY <4>2, <2>3, <2>5
        <5> QED BY <5>1, <2>4 DEF SlotsSound
      <4> QED BY <4>1, <4>2
    <3>3. ASSUME NEW k \in DOMAIN freed', NEW l \in DOMAIN freed', freed'[k] = freed'[l], k # l
          PROVE  FALSE
      <4>1. \A m \in DOMAIN freed : freed[m] # i
        BY <2>1 DEF SlotsSound
      <4>2. \A m \in DOMAIN freed' : m # 1 => m - 1 \in DOMAIN freed /\ freed'[m] = freed[m - 1]
        BY <2>3, <2>5
      <4>3. k # 1 /\ l # 1
        BY <3>3, <4>1, <4>2, <2>5
      <4>4. k - 1 = l - 1
        BY <3>3, <4>2, <4>3 DEF SlotsSound
      <4> QED BY <3>3, <4>4, <2>3, <2>5
    <3> QED BY <3>1, <3>2, <3>3 DEF SlotsSound
  <2>7. Tracked' = Tracked \ {s}
    BY <2>1, <2>4 DEF Tracked, Range, SlotsSound
  <2> QED BY <2>4, <2>5, <2>6, <2>7
<1> QED BY <1>2, <1>3

-----------------------------------------------------------------------------
(* The initial state has an empty dictionary and no history. *)
LEMMA InitIInv == Init => IInv
<1> SUFFICES ASSUME Init PROVE IInv
  OBVIOUS
<1>1. Tracked = {}
  BY DEF Init, Tracked, Range
<1>2. TypeOK
  <2>1. <<>> \in Seq(Sessions \cup {None}) /\ <<>> \in Seq(Nat)
    BY EmptySeq
  <2> QED BY <2>1 DEF Init, TypeOK, Statuses
<1>3. SlotsSound
  BY DEF Init, SlotsSound
<1>4. CapsHold
  <2>1. \A st : With(st) = {}
    BY <1>1 DEF With
  <2> QED BY <2>1, FS_EmptySet DEF CapsHold
<1>5. SocketsSound /\ StagesAgree /\ RacedRecorded
  BY <1>1 DEF Init, SocketsSound, StagesAgree, RacedRecorded
<1>6. DecisionsHold /\ ViewersTracked
  BY DEF Init, DecisionsHold, OneDecision, DeniedNeverStreams, ViewersTracked,
         OpenIsTracked, NoGhostViewer
<1> QED BY <1>2, <1>3, <1>4, <1>5, <1>6 DEF IInv

(* The dictionary changes when a connection is accepted, when a silent one  *)
(* expires, when a session closes and when the server stops.                *)
LEMMA SlotsStep ==
    TypeOK /\ SlotsSound /\ SocketsSound /\ [Next]_vars =>
        /\ slots' \in Seq(Sessions \cup {None})
        /\ freed' \in Seq(Nat)
        /\ SlotsSound'
<1> SUFFICES ASSUME TypeOK, SlotsSound, SocketsSound, [Next]_vars
             PROVE  /\ slots' \in Seq(Sessions \cup {None})
                    /\ freed' \in Seq(Nat)
                    /\ SlotsSound'
  OBVIOUS
<1> DEFINE Goal == slots' \in Seq(Sessions \cup {None}) /\ freed' \in Seq(Nat) /\ SlotsSound'
<1>1. ASSUME UNCHANGED <<slots, freed>> PROVE Goal
  BY <1>1 DEF TypeOK, SlotsSound
<1>2. CASE User
  <2>1. CASE Stop
    BY <2>1 DEF Stop, SlotsSound
  <2>2. ASSUME NEW c \in Clients, Approve(c) \/ Deny(c) \/ RevokeStored(c) \/ RevokeSession(c)
        PROVE Goal
    BY <2>2, <1>1 DEF Approve, Deny, RevokeStored, RevokeSession
  <2>3. CASE ResetStored \/ DisconnectAll \/ NotifyConfigUpdate
    BY <2>3, <1>1 DEF ResetStored, DisconnectAll, NotifyConfigUpdate
  <2> QED BY <1>2, <2>1, <2>2, <2>3 DEF User
<1>3. ASSUME NEW s \in Sessions, Viewer(s) PROVE Goal
  <2>1. CASE ClientConnects(s)
    <3>1. s \notin Tracked
      BY <2>1 DEF ClientConnects, SocketsSound
    <3> QED BY <2>1, <3>1, <1>1, TrackAdds DEF ClientConnects
  <2>2. CASE SessionCloses(s)
    BY <2>2, UntrackRemoves DEF SessionCloses
  <2>3. CASE HelloRefused(s) \/ \E withToken \in BOOLEAN : Hello(s, withToken)
    BY <2>3, <1>1 DEF HelloRefused, Hello
  <2> QED BY <1>3, <2>1, <2>2, <2>3 DEF Viewer
<1>4. ASSUME NEW s \in Sessions, ServerTask(s) PROVE Goal
  BY <1>4, <1>1 DEF ServerTask, HelloTask, ApproveTask, FindByToken, AdmitKnown, AnnounceKnown,
         RefuseUnknown, QueueUnknown, ApproveStores, ApproveAnnounces, AutoDenyRuns, EndingCloses
<1>5. ASSUME NEW s \in Sessions, PreHelloExpires(s) PROVE Goal
  BY <1>5, UntrackRemoves DEF PreHelloExpires
<1>6. CASE UNCHANGED vars
  BY <1>6, <1>1 DEF vars
<1> QED BY <1>2, <1>3, <1>4, <1>5, <1>6 DEF Next

(* Every step keeps each variable in its type. *)
LEMMA TypeStep == TypeOK /\ SlotsSound /\ SocketsSound /\ [Next]_vars => TypeOK'
<1> SUFFICES ASSUME TypeOK, SlotsSound, SocketsSound, [Next]_vars PROVE TypeOK'
  OBVIOUS
<1>0. slots' \in Seq(Sessions \cup {None}) /\ freed' \in Seq(Nat)
  BY SlotsStep
<1> DEFINE Rest ==
    /\ status \in [Sessions -> Statuses]
    /\ sock \in [Sessions -> {"new", "open", "closing", "closed"}]
    /\ hello \in [Sessions -> {"none", "lookup", "known", "announce", "unknown", "done"}]
    /\ approving \in [Sessions -> {"none", "adding", "added"}]
    /\ decision \in [Sessions -> {"none", "approve", "deny", "twice"}]
    /\ ending \subseteq Sessions
    /\ autoDeny \subseteq Sessions
    /\ store \subseteq Clients
    /\ viewers \subseteq Sessions
    /\ revoking \subseteq Clients
    /\ resetting \in BOOLEAN
    /\ running \in BOOLEAN
    /\ raced \subseteq Sessions
<1>1. Rest
  BY DEF TypeOK
<1>2. Rest' => TypeOK'
  BY <1>0 DEF TypeOK
<1> USE <1>1 DEF Statuses, Close, Decide, sessionVars, bridgeVars
<1>3. CASE User
  <2>1. ASSUME NEW c \in Clients, Approve(c) PROVE Rest'
    <3>1. First(c, "PendingApproval") \in Sessions
      BY <2>1, TrackedFinite, FirstMatches DEF Approve, TypeOK
    <3> QED BY <2>1, <3>1 DEF Approve
  <2>2. ASSUME NEW c \in Clients, Deny(c) PROVE Rest'
    <3>1. First(c, "PendingApproval") \in Sessions
      BY <2>2, TrackedFinite, FirstMatches DEF Deny, TypeOK
    <3> QED BY <2>2, <3>1 DEF Deny, DenySession
  <2>3. ASSUME NEW c \in Clients, RevokeStored(c) PROVE Rest'
    BY <2>3 DEF RevokeStored
  <2>4. ASSUME NEW c \in Clients, RevokeSession(c) PROVE Rest'
    <3>1. First(c, "Approved") # None => First(c, "Approved") \in Sessions
      BY TrackedFinite, FirstMatches DEF TypeOK
    <3> QED BY <2>4, <3>1 DEF RevokeSession
  <2>5. ASSUME ResetStored PROVE Rest' BY <2>5 DEF ResetStored
  <2>6. ASSUME DisconnectAll PROVE Rest' BY <2>6 DEF DisconnectAll, CloseAllTracked
  <2>7. ASSUME NotifyConfigUpdate PROVE Rest'
    BY <2>7, TrackedFinite DEF NotifyConfigUpdate, With, TypeOK
  <2>8. ASSUME Stop PROVE Rest' BY <2>8 DEF Stop, CloseAllTracked
  <2> QED BY <1>3, <2>1, <2>2, <2>3, <2>4, <2>5, <2>6, <2>7, <2>8, <1>2 DEF User
<1>4. ASSUME NEW s \in Sessions, Viewer(s) PROVE Rest'
  <2>1. CASE ClientConnects(s) BY <2>1 DEF ClientConnects
  <2>2. CASE SessionCloses(s) BY <2>2 DEF SessionCloses
  <2>3. CASE HelloRefused(s) BY <2>3 DEF HelloRefused
  <2>4. ASSUME NEW withToken \in BOOLEAN, Hello(s, withToken) PROVE Rest'
    BY <2>4 DEF Hello
  <2> QED BY <1>4, <2>1, <2>2, <2>3, <2>4 DEF Viewer
<1>5. ASSUME NEW s \in Sessions, HelloTask(s) PROVE Rest'
  <2>1. CASE FindByToken(s) BY <2>1 DEF FindByToken
  <2>2. CASE AdmitKnown(s) BY <2>2 DEF AdmitKnown
  <2>3. CASE AnnounceKnown(s) BY <2>3 DEF AnnounceKnown
  <2>4. CASE RefuseUnknown(s) BY <2>4 DEF RefuseUnknown
  <2>5. CASE QueueUnknown(s) BY <2>5 DEF QueueUnknown
  <2> QED BY <1>5, <2>1, <2>2, <2>3, <2>4, <2>5 DEF HelloTask
<1>6. ASSUME NEW s \in Sessions, ApproveTask(s) PROVE Rest'
  BY <1>6 DEF ApproveTask, ApproveStores, ApproveAnnounces
<1>7. ASSUME NEW s \in Sessions, AutoDenyRuns(s) PROVE Rest'
  <2>1. s \in With("PendingApproval") => First(ClientOf[s], "PendingApproval") \in Sessions
    BY PendingFound, TrackedFinite DEF TypeOK
  <2> QED BY <1>7, <2>1 DEF AutoDenyRuns, DenySession
<1>8. ASSUME NEW s \in Sessions, EndingCloses(s) \/ PreHelloExpires(s) PROVE Rest'
  BY <1>8 DEF EndingCloses, PreHelloExpires
<1>9. ASSUME UNCHANGED vars PROVE Rest'
  BY <1>9 DEF vars
<1> QED BY <1>2, <1>3, <1>4, <1>5, <1>6, <1>7, <1>8, <1>9 DEF Next, ServerTask

(* Every step keeps what a session's status, socket, hello, approval and    *)
(* decision have to do with one another, with the dictionary and with the   *)
(* viewers.                                                                 *)
LEMMA SessionStep ==
    IInv /\ [Next]_vars =>
        SocketsSound' /\ StagesAgree' /\ RacedRecorded' /\ DecisionsHold' /\ ViewersTracked'
<1> DEFINE Goal == SocketsSound /\ StagesAgree /\ RacedRecorded /\ DecisionsHold /\ ViewersTracked
<1> SUFFICES ASSUME IInv, [Next]_vars PROVE Goal'
  OBVIOUS
<1>0. TypeOK /\ SlotsSound /\ Goal /\ slots \in Seq(Sessions \cup {None})
  BY DEF IInv, TypeOK
<1>1. Tracked \subseteq Sessions
  BY <1>0, TrackedFinite
<1>2. slots' = slots => Tracked' = Tracked
  BY DEF Tracked
<1> USE DEF SocketsSound, StagesAgree, RacedRecorded, DecisionsHold, OneDecision,
            DeniedNeverStreams, ViewersTracked, OpenIsTracked, NoGhostViewer, TypeOK,
            Statuses, Close, Decide, sessionVars, bridgeVars
<1>3. ASSUME NEW s \in Sessions, Viewer(s) PROVE Goal'
  <2>1. CASE ClientConnects(s)
    <3>1. s \notin Tracked
      BY <1>0, <2>1 DEF ClientConnects
    <3>2. CASE Cardinality(With("AwaitingHello")) >= PreHelloCap
      BY <1>0, <1>1, <1>2, <2>1, <3>1, <3>2, SMTT(20) DEF ClientConnects
    <3>3. CASE ~(Cardinality(With("AwaitingHello")) >= PreHelloCap)
      <4>1. Tracked' = Tracked \cup {s}
        BY <1>0, <2>1, <3>1, <3>3, TrackAdds DEF ClientConnects
      <4> QED BY <1>0, <1>1, <2>1, <3>1, <3>3, <4>1 DEF ClientConnects
    <3> QED BY <3>2, <3>3
  <2>2. CASE SessionCloses(s)
    <3>1. Tracked' = Tracked \ {s}
      BY <1>0, <2>2, UntrackRemoves DEF SessionCloses
    <3> QED BY <1>0, <1>1, <2>2, <3>1 DEF SessionCloses
  <2>3. CASE HelloRefused(s)
    BY <1>0, <1>1, <1>2, <2>3 DEF HelloRefused
  <2>4. ASSUME NEW withToken \in BOOLEAN, Hello(s, withToken) PROVE Goal'
    BY <1>0, <1>1, <1>2, <2>4 DEF Hello
  <2> QED BY <1>3, <2>1, <2>2, <2>3, <2>4 DEF Viewer
<1>4. ASSUME NEW s \in Sessions, PreHelloExpires(s) PROVE Goal'
  <2>1. Tracked' = Tracked \ {s}
    BY <1>0, <1>4, UntrackRemoves DEF PreHelloExpires
  <2> QED BY <1>0, <1>1, <1>4, <2>1 DEF PreHelloExpires
<1>5. ASSUME NEW s \in Sessions, HelloTask(s) PROVE Goal'
  <2>1. CASE FindByToken(s) BY <1>0, <1>1, <1>2, <2>1 DEF FindByToken
  <2>2. CASE AdmitKnown(s) BY <1>0, <1>1, <1>2, <2>2 DEF AdmitKnown
  <2>3. CASE AnnounceKnown(s) BY <1>0, <1>1, <1>2, <2>3 DEF AnnounceKnown
  <2>4. CASE RefuseUnknown(s) BY <1>0, <1>1, <1>2, <2>4 DEF RefuseUnknown
  <2>5. CASE QueueUnknown(s) BY <1>0, <1>1, <1>2, <2>5 DEF QueueUnknown
  <2> QED BY <1>5, <2>1, <2>2, <2>3, <2>4, <2>5 DEF HelloTask
<1>6. ASSUME NEW s \in Sessions, ApproveTask(s) PROVE Goal'
  <2>1. CASE ApproveStores(s) BY <1>0, <1>1, <1>2, <2>1 DEF ApproveStores
  <2>2. CASE ApproveAnnounces(s) BY <1>0, <1>1, <1>2, <2>2 DEF ApproveAnnounces
  <2> QED BY <1>6, <2>1, <2>2 DEF ApproveTask
<1>7. ASSUME NEW s \in Sessions, DenySession(s), status[s] = "PendingApproval",
             UNCHANGED <<sock, slots, freed, hello, approving, viewers, bridgeVars, raced>>,
             autoDeny' \subseteq autoDeny
      PROVE  Goal'
  BY <1>0, <1>1, <1>2, <1>7 DEF DenySession
<1>8. ASSUME NEW s \in Sessions, AutoDenyRuns(s) PROVE Goal'
  <2>1. CASE s \in With("PendingApproval")
    <3>1. /\ First(ClientOf[s], "PendingApproval") \in Sessions
          /\ status[First(ClientOf[s], "PendingApproval")] = "PendingApproval"
      BY <1>0, <1>1, <2>1, PendingFound
    <3> QED BY <1>7, <1>8, <2>1, <3>1 DEF AutoDenyRuns
  <2>2. CASE s \notin With("PendingApproval")
    BY <1>0, <1>1, <1>2, <1>8, <2>2 DEF AutoDenyRuns
  <2> QED BY <2>1, <2>2
<1>9. ASSUME NEW s \in Sessions, EndingCloses(s) PROVE Goal'
  BY <1>0, <1>1, <1>2, <1>9 DEF EndingCloses
<1>10. CASE User
  <2>1. ASSUME NEW c \in Clients, Approve(c) PROVE Goal'
    <3>1. /\ First(c, "PendingApproval") \in Tracked
          /\ status[First(c, "PendingApproval")] = "PendingApproval"
      BY <1>0, <1>1, <2>1, FirstMatches DEF Approve
    <3> DEFINE s == First(c, "PendingApproval")
    <3>2. /\ s \in Tracked /\ s \in Sessions /\ status[s] = "PendingApproval"
          /\ UNCHANGED <<slots, freed, hello, ending, autoDeny, viewers, raced>>
      BY <1>1, <2>1, <3>1 DEF Approve
    <3>3. CASE Cardinality(With("Approved")) >= ConnectionCap
      <4>1. /\ status' = [status EXCEPT ![s] = "Closed"]
            /\ Decide(s, "deny")
            /\ Close(s)
            /\ UNCHANGED approving
        BY <2>1, <3>3 DEF Approve
      <4> HIDE DEF s
      <4> QED BY <1>0, <1>1, <1>2, <3>2, <4>1
    <3>4. CASE ~(Cardinality(With("Approved")) >= ConnectionCap)
      <4>1. /\ status' = [status EXCEPT ![s] = "Approved"]
            /\ approving' = [approving EXCEPT ![s] = "adding"]
            /\ UNCHANGED <<decision, sock>>
        BY <2>1, <3>4 DEF Approve
      <4> HIDE DEF s
      <4> QED BY <1>0, <1>1, <1>2, <3>2, <4>1
    <3> QED BY <3>3, <3>4
  <2>2. ASSUME NEW c \in Clients, Deny(c) PROVE Goal'
    <3>1. /\ First(c, "PendingApproval") \in Sessions
          /\ status[First(c, "PendingApproval")] = "PendingApproval"
      BY <1>0, <1>1, <2>2, FirstMatches DEF Deny
    <3> QED BY <1>7, <2>2, <3>1 DEF Deny
  <2>3. ASSUME NEW c \in Clients, RevokeStored(c) PROVE Goal'
    BY <1>0, <1>1, <1>2, <2>3 DEF RevokeStored
  <2>4. ASSUME NEW c \in Clients, RevokeSession(c) PROVE Goal'
    <3>1. First(c, "Approved") # None =>
            /\ First(c, "Approved") \in Tracked
            /\ status[First(c, "Approved")] = "Approved"
      BY <1>0, <1>1, FirstMatches
    <3> QED BY <1>0, <1>1, <1>2, <2>4, <3>1 DEF RevokeSession
  <2>5. ASSUME ResetStored PROVE Goal'
    BY <1>0, <1>1, <1>2, <2>5 DEF ResetStored
  <2>6. ASSUME DisconnectAll PROVE Goal'
    BY <1>0, <1>1, <1>2, <2>6 DEF DisconnectAll, CloseAllTracked
  <2>7. ASSUME NotifyConfigUpdate PROVE Goal'
    BY <1>0, <1>1, <1>2, <2>7 DEF NotifyConfigUpdate, With
  <2>8. ASSUME Stop PROVE Goal'
    <3>1. Tracked' = {}
      BY <2>8 DEF Stop, Tracked, Range
    <3> QED BY <1>0, <1>1, <2>8, <3>1 DEF Stop, CloseAllTracked
  <2> QED BY <1>10, <2>1, <2>2, <2>3, <2>4, <2>5, <2>6, <2>7, <2>8 DEF User
<1>11. ASSUME UNCHANGED vars PROVE Goal'
  BY <1>0, <1>1, <1>2, <1>11 DEF vars
<1> QED BY <1>3, <1>4, <1>5, <1>6, <1>8, <1>9, <1>10, <1>11 DEF Next, ServerTask

(* A set that loses members, or gains one below the bound, stays within it. *)
LEMMA StaysWithin ==
    ASSUME NEW A, NEW B, IsFiniteSet(A), NEW n \in Nat, Cardinality(A) <= n,
           \/ B \subseteq A
           \/ Cardinality(A) < n /\ \E x : B \subseteq A \cup {x}
    PROVE  Cardinality(B) <= n
<1>1. Cardinality(A) \in Nat
  BY FS_CardinalityType
<1>2. CASE B \subseteq A
  BY <1>1, <1>2, FS_Subset, FS_CardinalityType
<1>3. CASE Cardinality(A) < n /\ \E x : B \subseteq A \cup {x}
  <2>1. PICK x : B \subseteq A \cup {x}
    BY <1>3
  <2>2. IsFiniteSet(A \cup {x}) /\ Cardinality(A \cup {x}) <= Cardinality(A) + 1
    BY <1>1, FS_AddElement
  <2>3. /\ Cardinality(B) <= Cardinality(A \cup {x})
        /\ Cardinality(B) \in Nat /\ Cardinality(A \cup {x}) \in Nat
    BY <2>1, <2>2, FS_Subset, FS_CardinalityType
  <2> QED BY <1>1, <1>3, <2>2, <2>3
<1> QED BY <1>2, <1>3

(* A class of sessions grows by one session only, in the critical section   *)
(* that has compared its size with the cap.                                 *)
LEMMA CapsStep == IInv /\ [Next]_vars => CapsHold'
<1> SUFFICES ASSUME IInv, [Next]_vars PROVE CapsHold'
  OBVIOUS
<1> DEFINE Class(st) == {q \in Tracked : status[q] = st}
           Grown(st, n) ==
               \/ Class(st)' \subseteq Class(st)
               \/ Cardinality(Class(st)) < n /\ \E x : Class(st)' \subseteq Class(st) \cup {x}
           Goal == /\ Grown("Approved", ConnectionCap)
                   /\ Grown("PendingApproval", PendingCap)
                   /\ Grown("AwaitingHello", PreHelloCap)
<1>0. /\ TypeOK /\ SlotsSound /\ SocketsSound /\ StagesAgree /\ CapsHold
      /\ slots \in Seq(Sessions \cup {None}) /\ status \in [Sessions -> Statuses]
  BY DEF IInv, TypeOK
<1>1. Tracked \subseteq Sessions /\ IsFiniteSet(Tracked)
  BY <1>0, TrackedFinite
<1>2. slots' = slots => Tracked' = Tracked
  BY DEF Tracked
<1>3. \A st : With(st) = Class(st) /\ IsFiniteSet(Class(st)) /\ Cardinality(Class(st)) \in Nat
  BY <1>1, FS_Subset, FS_CardinalityType DEF With
<1>4. ASSUME Tracked' \subseteq Tracked, UNCHANGED status PROVE Goal
  BY <1>1, <1>4
<1>5. ASSUME UNCHANGED <<status, slots>> PROVE Goal
  BY <1>2, <1>4, <1>5
<1>6. ASSUME NEW s \in Sessions, Viewer(s) PROVE Goal
  <2>1. CASE ClientConnects(s)
    <3>1. s \notin Tracked /\ status[s] = "AwaitingHello" /\ UNCHANGED status
      BY <1>0, <2>1 DEF ClientConnects, SocketsSound
    <3>2. CASE Cardinality(With("AwaitingHello")) >= PreHelloCap
      BY <1>5, <2>1, <3>2 DEF ClientConnects
    <3>3. CASE ~(Cardinality(With("AwaitingHello")) >= PreHelloCap)
      <4>1. Tracked' = Tracked \cup {s}
        BY <1>0, <2>1, <3>1, <3>3, TrackAdds DEF ClientConnects
      <4>2. Cardinality(Class("AwaitingHello")) < PreHelloCap
        BY <1>3, <3>3
      <4> QED BY <3>1, <4>1, <4>2
    <3> QED BY <3>2, <3>3
  <2>2. CASE SessionCloses(s)
    <3>1. Tracked' = Tracked \ {s}
      BY <1>0, <2>2, UntrackRemoves DEF SessionCloses
    <3> QED BY <1>4, <2>2, <3>1 DEF SessionCloses
  <2>3. CASE HelloRefused(s) \/ \E withToken \in BOOLEAN : Hello(s, withToken)
    BY <1>5, <2>3 DEF HelloRefused, Hello
  <2> QED BY <1>6, <2>1, <2>2, <2>3 DEF Viewer
<1>7. ASSUME NEW s \in Sessions, PreHelloExpires(s) PROVE Goal
  <2>1. Tracked' = Tracked \ {s}
    BY <1>0, <1>7, UntrackRemoves DEF PreHelloExpires
  <2> QED BY <1>4, <1>7, <2>1 DEF PreHelloExpires
<1>8. ASSUME NEW s \in Sessions, HelloTask(s) PROVE Goal
  <2>1. CASE AdmitKnown(s)
    <3>1. CASE Cardinality(With("Approved")) >= ConnectionCap
      BY <1>5, <2>1, <3>1 DEF AdmitKnown
    <3>2. CASE ~(Cardinality(With("Approved")) >= ConnectionCap)
      <4>1. Tracked' = Tracked /\ status' = [status EXCEPT ![s] = "Approved"]
        BY <1>2, <2>1, <3>2 DEF AdmitKnown
      <4>2. Cardinality(Class("Approved")) < ConnectionCap
        BY <1>3, <3>2
      <4> QED BY <1>0, <1>1, <4>1, <4>2
    <3> QED BY <3>1, <3>2
  <2>2. CASE QueueUnknown(s)
    <3>1. Tracked' = Tracked /\ status' = [status EXCEPT ![s] = "PendingApproval"]
      BY <1>2, <2>2 DEF QueueUnknown
    <3>2. Cardinality(Class("PendingApproval")) < PendingCap
      BY <1>3, <2>2 DEF QueueUnknown
    <3> QED BY <1>0, <1>1, <3>1, <3>2
  <2>3. CASE FindByToken(s) \/ AnnounceKnown(s) \/ RefuseUnknown(s)
    BY <1>5, <2>3 DEF FindByToken, AnnounceKnown, RefuseUnknown
  <2> QED BY <1>8, <2>1, <2>2, <2>3 DEF HelloTask
<1>9. ASSUME NEW s \in Sessions, ApproveTask(s) \/ EndingCloses(s) PROVE Goal
  BY <1>5, <1>9 DEF ApproveTask, ApproveStores, ApproveAnnounces, EndingCloses
<1>10. ASSUME NEW s, slots' = slots, status' = [status EXCEPT ![s] = "Closed"] PROVE Goal
  BY <1>0, <1>1, <1>2, <1>10
<1>11. ASSUME NEW s \in Sessions, AutoDenyRuns(s) PROVE Goal
  BY <1>5, <1>10, <1>11 DEF AutoDenyRuns, DenySession
<1>12. ASSUME User PROVE Goal
  <2>1. ASSUME NEW c \in Clients, Approve(c) PROVE Goal
    <3>1. CASE Cardinality(With("Approved")) >= ConnectionCap
      BY <1>10, <2>1, <3>1 DEF Approve
    <3>2. CASE ~(Cardinality(With("Approved")) >= ConnectionCap)
      <4> DEFINE s == First(c, "PendingApproval")
      <4>1. Tracked' = Tracked /\ status' = [status EXCEPT ![s] = "Approved"]
        BY <1>2, <2>1, <3>2 DEF Approve
      <4>2. Cardinality(Class("Approved")) < ConnectionCap
        BY <1>3, <3>2
      <4> HIDE DEF s
      <4> QED BY <1>0, <1>1, <4>1, <4>2
    <3> QED BY <3>1, <3>2
  <2>2. ASSUME NEW c \in Clients, Deny(c) PROVE Goal
    BY <1>10, <2>2 DEF Deny, DenySession
  <2>3. ASSUME NEW c \in Clients, RevokeSession(c) PROVE Goal
    BY <1>5, <1>10, <2>3 DEF RevokeSession
  <2>4. ASSUME NEW c \in Clients, RevokeStored(c) PROVE Goal
    BY <1>5, <2>4 DEF RevokeStored, sessionVars
  <2>5. ASSUME ResetStored \/ DisconnectAll \/ NotifyConfigUpdate PROVE Goal
    BY <1>5, <2>5 DEF ResetStored, DisconnectAll, NotifyConfigUpdate, sessionVars
  <2>6. ASSUME Stop PROVE Goal
    <3>1. Tracked' = {}
      BY <2>6 DEF Stop, Tracked, Range
    <3> QED BY <1>4, <2>6, <3>1 DEF Stop
  <2> QED BY <1>12, <2>1, <2>2, <2>3, <2>4, <2>5, <2>6 DEF User
<1>13. ASSUME UNCHANGED vars PROVE Goal
  BY <1>5, <1>13 DEF vars, sessionVars
<1>14. Goal
  BY <1>6, <1>7, <1>8, <1>9, <1>11, <1>12, <1>13 DEF Next, ServerTask
<1>15. /\ Cardinality(Class("Approved")) <= ConnectionCap
       /\ Cardinality(Class("PendingApproval")) <= PendingCap
       /\ Cardinality(Class("AwaitingHello")) <= PreHelloCap
  BY <1>0, <1>3 DEF CapsHold
<1>16. /\ Cardinality(Class("Approved")') <= ConnectionCap
       /\ Cardinality(Class("PendingApproval")') <= PendingCap
       /\ Cardinality(Class("AwaitingHello")') <= PreHelloCap
  <2> HIDE DEF Class
  <2> QED BY <1>3, <1>14, <1>15, StaysWithin
<1> QED BY <1>16 DEF CapsHold, With

(* The invariant is inductive. *)
LEMMA InductiveStep == IInv /\ [Next]_vars => IInv'
  BY TypeStep, SlotsStep, SessionStep, CapsStep DEF IInv

(* Hence it holds in every reachable state. *)
LEMMA Inductive == Spec => []IInv
  BY InitIInv, InductiveStep, PTL DEF Spec

-----------------------------------------------------------------------------
(* Every variable of the mirror server keeps its type. *)
THEOREM TypeCorrect == Spec => []TypeOK
<1>1. IInv => TypeOK
  BY DEF IInv
<1> QED BY <1>1, Inductive, PTL

(* CapsHold for any number of connections and devices and any caps: no      *)
(* class of sessions outgrows its cap, since each handler that admits one   *)
(* (accept, token lookup, queueing, approval) compares the class with the   *)
(* cap in the same critical section of MirrorServerService.                 *)
THEOREM CapsAlwaysHold == Spec => []CapsHold
<1>1. IInv => CapsHold
  BY DEF IInv
<1> QED BY <1>1, Inductive, PTL

(* DecisionsHold: the banner, the 60 s task and an approval that waits for  *)
(* the store decide a session once, and a denied session is not streamed to. *)
THEOREM DecisionsAlwaysHold == Spec => []DecisionsHold
<1>1. IInv => DecisionsHold
  BY DEF IInv
<1> QED BY <1>1, Inductive, PTL

(* ViewersTracked: an open socket is counted or about to be closed, and the *)
(* stream keeps no closed session but those that closed amid their approval. *)
THEOREM ViewersAlwaysTracked == Spec => []ViewersTracked
<1>1. IInv => ViewersTracked
  BY DEF IInv
<1> QED BY <1>1, Inductive, PTL
=============================================================================
