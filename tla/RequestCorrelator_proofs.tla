----------------------- MODULE RequestCorrelator_proofs -----------------------
(***************************************************************************)
(* TypeOK, NoOrphan and NoStaleEntry hold for any requests, keys and       *)
(* interleaving.  The inductive invariant adds what the dictionary and the *)
(* receive loop share: an entry sits under its own key and its call is     *)
(* still running, an entry the loop has taken is in the dictionary no      *)
(* more, and a registration that is about to replace an entry has already  *)
(* cancelled it.                                                           *)
(***************************************************************************)
EXTENDS RequestCorrelator, SequenceTheorems, TLAPS

Running == InFlight \cup {"cleanup"}

(* An entry is stored under its own key while its call is running, and its  *)
(* TaskCompletionSource has not received a result.                          *)
EntriesRun ==
    \A k \in Keys : pending[k] # NoReq =>
        /\ Key(pending[k]) = k
        /\ call[pending[k]] \in Running
        /\ tcs[pending[k]] # "result"

(* What the receive loop holds left the dictionary and belongs to a call    *)
(* that has registered.                                                     *)
TakenIsOut ==
    taken # NoReq =>
        /\ reading # NoReq
        /\ call[taken] \notin {"idle", "replacing"}
        /\ \A k \in Keys : pending[k] # taken

(* A replacing registration has cancelled what it saw; before registration  *)
(* nobody can complete a TaskCompletionSource.                              *)
SeenIsClosed ==
    \A r \in Requests :
        /\ call[r] = "replacing" => seen[r] # NoReq /\ tcs[seen[r]] # "open"
        /\ call[r] \in {"idle", "replacing"} => tcs[r] = "open"

IInv ==
    /\ TypeOK
    /\ EntriesRun
    /\ TakenIsOut
    /\ SeenIsClosed
    /\ NoOrphan

-----------------------------------------------------------------------------
USE KeyAssumption, NoReqAssumption, OwnTokenAssumption

(* The initial state, with an empty dictionary, satisfies the invariant. *)
LEMMA InitIInv == Init => IInv
  BY DEF Init, IInv, TypeOK, EntriesRun, TakenIsOut, SeenIsClosed, NoOrphan,
         OptRequest, CallStates, TcsStates, Stages, InFlight, Key

(* Every step keeps each variable in its type. *)
LEMMA TypeStep == TypeOK /\ [Next]_vars => TypeOK'
<1> SUFFICES ASSUME TypeOK, [Next]_vars PROVE TypeOK'
  OBVIOUS
<1> USE DEF TypeOK, OptRequest, CallStates, TcsStates, Stages, InFlight,
            Finished, Key, Cancel, reqVars, dictVars, loopVars, wireVars
<1>1. ASSUME NEW r \in Requests, Caller(r) PROVE TypeOK'
  <2>1. CASE RegisterAdd(r) BY <2>1 DEF RegisterAdd
  <2>2. CASE RegisterCancelExisting(r) BY <2>2 DEF RegisterCancelExisting
  <2>3. CASE RegisterReplace(r) BY <2>3 DEF RegisterReplace
  <2>4. CASE RegisterRetry(r) BY <2>4 DEF RegisterRetry
  <2>5. CASE SendRejected(r) BY <2>5 DEF SendRejected
  <2>6. CASE WriteRequest(r) BY <2>6 DEF WriteRequest
  <2>7. CASE GiveUp(r) BY <2>7 DEF GiveUp
  <2>8. CASE AwaitReturns(r) BY <2>8 DEF AwaitReturns
  <2>9. CASE AwaitCanceled(r) BY <2>9 DEF AwaitCanceled
  <2>10. CASE RemovePending(r) BY <2>10, SMTT(20) DEF RemovePending
  <2> QED BY <1>1, <2>1, <2>2, <2>3, <2>4, <2>5, <2>6, <2>7, <2>8, <2>9, <2>10
          DEF Caller
<1>2. CASE ReceiveLoop
  <2>1. CASE TryRemoveEntry BY <2>1 DEF TryRemoveEntry
  <2>2. CASE CompleteEntry BY <2>2 DEF CompleteEntry, Completable
  <2>3. CASE NoPendingRequest BY <2>3 DEF NoPendingRequest
  <2> QED BY <1>2, <2>1, <2>2, <2>3 DEF ReceiveLoop
<1>3. CASE Dispose
  <2>1. CASE BeginDispose BY <2>1 DEF BeginDispose
  <2>2. ASSUME NEW k \in Keys, CancelAllVisit(k) PROVE TypeOK'
    BY <2>2 DEF CancelAllVisit
  <2>3. CASE CancelAllClear BY <2>3 DEF CancelAllClear
  <2>4. CASE CloseChannel BY <2>4 DEF CloseChannel
  <2>5. CASE EndDispose BY <2>5 DEF EndDispose
  <2> QED BY <1>3, <2>1, <2>2, <2>3, <2>4, <2>5 DEF Dispose
<1>4. CASE Ecu
  <2>1. toEcu # <<>> => Head(toEcu) \in Requests /\ Tail(toEcu) \in Seq(Requests)
    BY HeadTailProperties
  <2>2. \A q \in Requests : Append(fromEcu, q) \in Seq(Requests)
    OBVIOUS
  <2>3. CASE EcuAnswers BY <2>1, <2>2, <2>3 DEF EcuAnswers
  <2>4. CASE FrameLost BY <2>1, <2>4 DEF FrameLost
  <2> QED BY <1>4, <2>3, <2>4 DEF Ecu
<1>5. CASE UNCHANGED vars
  BY <1>5 DEF vars
<1> QED BY <1>1, <1>2, <1>3, <1>4, <1>5 DEF Next

(* Every step keeps the parts the dictionary and the receive loop share. *)
LEMMA SharedStep ==
    IInv /\ [Next]_vars => EntriesRun' /\ TakenIsOut' /\ SeenIsClosed' /\ NoOrphan'
<1> SUFFICES ASSUME IInv, [Next]_vars
             PROVE EntriesRun' /\ TakenIsOut' /\ SeenIsClosed' /\ NoOrphan'
  OBVIOUS
<1> USE DEF IInv, TypeOK, EntriesRun, TakenIsOut, SeenIsClosed, NoOrphan,
            OptRequest, CallStates, TcsStates, Stages, InFlight, Running,
            Finished, Key, reqVars, dictVars, loopVars, wireVars
<1> DEFINE Goal == EntriesRun /\ TakenIsOut /\ SeenIsClosed /\ NoOrphan
<1>1. ASSUME NEW r \in Requests, Caller(r) PROVE Goal'
  <2>1. CASE RegisterAdd(r) BY <2>1 DEF RegisterAdd
  <2>2. CASE RegisterCancelExisting(r) BY <2>2 DEF RegisterCancelExisting, Cancel
  <2>3. CASE RegisterReplace(r) BY <2>3 DEF RegisterReplace
  <2>4. CASE RegisterRetry(r) BY <2>4 DEF RegisterRetry
  <2>5. CASE SendRejected(r) BY <2>5 DEF SendRejected
  <2>6. CASE WriteRequest(r) BY <2>6 DEF WriteRequest
  <2>7. CASE GiveUp(r) BY <2>7 DEF GiveUp
  <2>8. CASE AwaitReturns(r) BY <2>8 DEF AwaitReturns
  <2>9. CASE AwaitCanceled(r) BY <2>9 DEF AwaitCanceled
  <2>10. CASE RemovePending(r)
    <3>1. /\ call[r] = "cleanup" /\ Key(r) \in Keys
          /\ call' = [call EXCEPT ![r] = "failed"]
          /\ pending' = [pending EXCEPT ![Key(r)] = NoReq]
          /\ UNCHANGED <<seen, taken, reading, life>>
      BY <2>10 DEF RemovePending
    <3>2. \/ tcs' = tcs /\ (pending[Key(r)] # NoReq => tcs[pending[Key(r)]] # "open")
          \/ /\ pending[Key(r)] # NoReq
             /\ tcs' = [tcs EXCEPT ![pending[Key(r)]] = "canceled"]
      BY <2>10 DEF RemovePending, Cancel
    <3>3. EntriesRun'
      BY <3>1, <3>2
    <3>4. TakenIsOut'
      BY <3>1, <3>2
    <3>5. SeenIsClosed'
      BY <3>1, <3>2
    <3>6. NoOrphan'
      BY <3>1, <3>2
    <3> QED BY <3>3, <3>4, <3>5, <3>6
  <2> QED BY <1>1, <2>1, <2>2, <2>3, <2>4, <2>5, <2>6, <2>7, <2>8, <2>9, <2>10
          DEF Caller
<1>2. CASE ReceiveLoop
  <2>1. CASE TryRemoveEntry
    <3>1. PICK q \in Requests :
             /\ reading = NoReq
             /\ reading' = q
             /\ taken' = pending[Key(q)]
             /\ pending' = [pending EXCEPT ![Key(q)] = NoReq]
      BY <2>1, HeadTailProperties DEF TryRemoveEntry
    <3>2. UNCHANGED <<call, tcs, seen, life>>
      BY <2>1 DEF TryRemoveEntry
    <3>3. taken = NoReq /\ Key(q) \in Keys
      BY <3>1
    <3> HIDE DEF reqVars, dictVars, loopVars, wireVars
    <3>4. EntriesRun'
      BY <3>1, <3>2, <3>3
    <3>5. TakenIsOut'
      <4> SUFFICES ASSUME taken' # NoReq PROVE TakenIsOut'
        OBVIOUS
      <4>1. taken' \in Requests /\ Key(taken') = Key(q) /\ call[taken'] \in Running
        BY <3>1, <3>3
      <4>2. ASSUME NEW k \in Keys PROVE pending'[k] # taken'
        BY <3>1, <3>3, <4>1
      <4> QED BY <3>1, <3>2, <4>1, <4>2
    <3>6. SeenIsClosed'
      BY <3>1, <3>2, <3>3
    <3>7. NoOrphan'
      BY <3>1, <3>2, <3>3
    <3> QED BY <3>4, <3>5, <3>6, <3>7
  <2>2. CASE CompleteEntry BY <2>2 DEF CompleteEntry, Completable
  <2>3. CASE NoPendingRequest BY <2>3 DEF NoPendingRequest, Completable
  <2> QED BY <1>2, <2>1, <2>2, <2>3 DEF ReceiveLoop
<1>3. CASE Dispose
  <2>1. CASE BeginDispose BY <2>1 DEF BeginDispose
  <2>2. ASSUME NEW k \in Keys, CancelAllVisit(k) PROVE Goal'
    <3>1. /\ UNCHANGED <<call, pending, seen, taken, reading>>
          /\ life' = "cancelling"
          /\ \/ tcs' = tcs
             \/ /\ pending[k] # NoReq /\ tcs[pending[k]] = "open"
                /\ tcs' = [tcs EXCEPT ![pending[k]] = "canceled"]
      BY <2>2 DEF CancelAllVisit, Cancel
    <3>2. EntriesRun'
      BY <3>1
    <3>3. TakenIsOut' /\ NoOrphan'
      BY <3>1
    <3>4. SeenIsClosed'
      <4>1. pending[k] # NoReq => pending[k] \in Requests /\ call[pending[k]] \in Running
        BY <2>2
      <4> QED BY <3>1, <4>1
    <3> QED BY <3>2, <3>3, <3>4
  <2>3. CASE CancelAllClear BY <2>3 DEF CancelAllClear
  <2>4. CASE CloseChannel BY <2>4 DEF CloseChannel
  <2>5. CASE EndDispose BY <2>5 DEF EndDispose
  <2> QED BY <1>3, <2>1, <2>2, <2>3, <2>4, <2>5 DEF Dispose
<1>4. CASE Ecu
  BY <1>4 DEF Ecu, EcuAnswers, FrameLost
<1>5. CASE UNCHANGED vars
  BY <1>5 DEF vars
<1> QED BY <1>1, <1>2, <1>3, <1>4, <1>5 DEF Next

(* The invariant is inductive. *)
LEMMA Inductive == Spec => []IInv
<1>1. IInv /\ [Next]_vars => IInv'
  BY TypeStep, SharedStep DEF IInv
<1> QED BY <1>1, InitIInv, PTL DEF Spec

(* Every variable of the correlator keeps its type, for any set of calls    *)
(* and keys.                                                                *)
THEOREM TypeCorrect == Spec => []TypeOK
<1>1. IInv => TypeOK
  BY DEF IInv
<1> QED BY <1>1, Inductive, PTL

(* No call that awaits a response of an open service is orphaned, for any   *)
(* number of concurrent same-key requests.                                  *)
THEOREM NeverOrphaned == Spec => []NoOrphan
<1>1. IInv => NoOrphan
  BY DEF IInv
<1> QED BY <1>1, Inductive, PTL

(* The dictionary never holds the entry of a finished call. *)
THEOREM NeverStale == Spec => []NoStaleEntry
<1>1. IInv => NoStaleEntry
  BY DEF IInv, EntriesRun, NoStaleEntry, Running, InFlight, Finished
<1> QED BY <1>1, Inductive, PTL

------------------------------------------------------------------------------
(* AnswerIsOwnUnlessAbandoned holds for any requests, keys and             *)
(* interleaving.  The argument: each request is on the wire at most once,  *)
(* so while its reply is on the way it has not been answered with it; and  *)
(* a reply that finds another call under its key finds it there because    *)
(* its own call no longer waits, by NoOrphan.                              *)

Occurs(s, q) == \E i \in 1..Len(s) : s[i] = q
Once(s) == \A i, j \in 1..Len(s) : s[i] = s[j] => i = j

Sent(q) == Occurs(toEcu, q)
Replied(q) == Occurs(fromEcu, q)
InTransit(q) == Sent(q) \/ Replied(q) \/ reading = q
Unwritten == {"idle", "replacing", "registered"}

(* A request or its reply is at one place at most. *)
TransitOnce ==
    /\ Once(toEcu) /\ Once(fromEcu)
    /\ \A q \in Requests :
        /\ ~(Sent(q) /\ Replied(q))
        /\ reading = q => ~Sent(q) /\ ~Replied(q)

(* On the way are requests that were written and not answered with their    *)
(* own reply.                                                               *)
TransitOpen ==
    \A q \in Requests :
        /\ InTransit(q) => call[q] \notin Unwritten /\ answer[q] # q
        /\ call[q] \in Unwritten => answer[q] # q

(* A TaskCompletionSource has a result exactly when there is an answer, and *)
(* a call returns only then.                                                *)
AnswerMatches ==
    \A r \in Requests :
        /\ answer[r] # NoReq <=> tcs[r] = "result"
        /\ call[r] = "returned" => tcs[r] = "result"

(* The entry the receive loop took is under the reply's key; if it is       *)
(* another call's, the reply's own call was abandoned.                      *)
TakenMatches ==
    taken # NoReq =>
        /\ Key(taken) = Key(reading)
        /\ life = "open" /\ taken # reading => Abandoned(reading)

AInv ==
    /\ TransitOnce
    /\ TransitOpen
    /\ AnswerMatches
    /\ TakenMatches
    /\ AnswerIsOwnUnlessAbandoned

-----------------------------------------------------------------------------
USE KeyAssumption, NoReqAssumption, OwnTokenAssumption

(* Appending what does not occur yet keeps a sequence without repetitions. *)
LEMMA AppendOnce ==
    ASSUME NEW s \in Seq(Requests), NEW x \in Requests, Once(s), ~Occurs(s, x)
    PROVE  /\ Once(Append(s, x))
           /\ \A q : Occurs(Append(s, x), q) <=> q = x \/ Occurs(s, q)
<1> DEFINE t == Append(s, x)
<1>1. /\ Len(t) = Len(s) + 1 /\ Len(s) \in Nat
      /\ \A i \in 1..Len(s) : t[i] = s[i]
      /\ t[Len(s) + 1] = x
  BY AppendProperties
<1> HIDE DEF t
<1>2. Once(t)
  BY <1>1 DEF Once, Occurs
<1>3. ASSUME NEW q PROVE Occurs(t, q) <=> q = x \/ Occurs(s, q)
  BY <1>1 DEF Occurs
<1> QED BY <1>2, <1>3 DEF t

(* Taking the head of such a sequence removes its only occurrence. *)
LEMMA TailOnce ==
    ASSUME NEW s \in Seq(Requests), s # <<>>, Once(s)
    PROVE  /\ Head(s) \in Requests /\ Occurs(s, Head(s)) /\ Once(Tail(s))
           /\ \A q : Occurs(Tail(s), q) <=> q # Head(s) /\ Occurs(s, q)
<1> DEFINE t == Tail(s)
<1>1. /\ Head(s) \in Requests /\ Head(s) = s[1] /\ 1 \in 1..Len(s)
      /\ Len(t) = Len(s) - 1 /\ Len(s) \in Nat
      /\ \A i \in 1..Len(t) : t[i] = s[i + 1]
  BY HeadTailProperties, LenProperties, EmptySeq
<1> HIDE DEF t
<1>2. Once(t) /\ Occurs(s, Head(s))
  BY <1>1 DEF Once, Occurs
<1>3. ASSUME NEW q, Occurs(t, q) PROVE q # Head(s) /\ Occurs(s, q)
  <2>1. PICK i \in 1..Len(t) : t[i] = q
    BY <1>3 DEF Occurs
  <2>2. i + 1 \in 1..Len(s) /\ s[i + 1] = q /\ i + 1 # 1
    BY <2>1, <1>1
  <2> QED BY <2>2, <1>1 DEF Once, Occurs
<1>4. ASSUME NEW q, Occurs(s, q), q # Head(s) PROVE Occurs(t, q)
  <2>1. PICK j \in 1..Len(s) : s[j] = q
    BY <1>4 DEF Occurs
  <2>2. j - 1 \in 1..Len(t) /\ t[j - 1] = q
    BY <1>4, <2>1, <1>1
  <2> QED BY <2>2 DEF Occurs
<1> QED BY <1>1, <1>2, <1>3, <1>4 DEF t

(* The empty wire of the initial state satisfies it. *)
LEMMA InitAInv == Init => AInv
  BY DEF Init, AInv, TransitOnce, TransitOpen, AnswerMatches, TakenMatches,
         AnswerIsOwnUnlessAbandoned, Sent, Replied, InTransit, Unwritten,
         Once, Occurs

(* Once abandoned, always abandoned. *)
LEMMA AbandonedStays ==
    ASSUME IInv, AInv, [Next]_vars, NEW q \in Requests, Abandoned(q)
    PROVE  Abandoned(q)'
<1> USE DEF IInv, AInv, TypeOK, AnswerMatches, TakenIsOut, EntriesRun, SeenIsClosed,
            Abandoned, OptRequest, CallStates, InFlight, Running, Finished, Key,
            Cancel, reqVars
<1>1. ASSUME NEW r \in Requests, Caller(r) PROVE Abandoned(q)'
  BY <1>1 DEF Caller, RegisterAdd, RegisterCancelExisting, RegisterReplace,
              RegisterRetry, SendRejected, WriteRequest, GiveUp, AwaitReturns,
              AwaitCanceled, RemovePending
<1>2. CASE ReceiveLoop
  BY <1>2 DEF ReceiveLoop, TryRemoveEntry, CompleteEntry, NoPendingRequest, Completable
<1>3. CASE Dispose
  BY <1>3 DEF Dispose, BeginDispose, CancelAllVisit, CancelAllClear, CloseChannel, EndDispose
<1>4. CASE Ecu
  BY <1>4 DEF Ecu, EcuAnswers, FrameLost
<1>5. CASE UNCHANGED vars
  BY <1>5 DEF vars
<1> QED BY <1>1, <1>2, <1>3, <1>4, <1>5 DEF Next

(* Every step keeps requests and replies at one place at most. *)
LEMMA TransitStep == IInv /\ AInv /\ [Next]_vars => TransitOnce' /\ TransitOpen'
<1> SUFFICES ASSUME IInv, AInv, [Next]_vars PROVE TransitOnce' /\ TransitOpen'
  OBVIOUS
<1>q. toEcu \in Seq(Requests) /\ fromEcu \in Seq(Requests)
  BY DEF IInv, TypeOK
<1>1. ASSUME NEW r \in Requests, WriteRequest(r) PROVE TransitOnce' /\ TransitOpen'
  <2>1. call[r] = "registered" /\ ~InTransit(r)
    BY <1>1 DEF WriteRequest, AInv, TransitOpen, Unwritten
  <2>2. /\ Once(toEcu')
        /\ \A q : Sent(q)' <=> q = r \/ Sent(q)
    BY <1>1, <1>q, <2>1, AppendOnce DEF WriteRequest, InTransit, Sent, AInv, TransitOnce
  <2>3. (\A q : Replied(q)' <=> Replied(q)) /\ UNCHANGED <<fromEcu, reading, answer>>
    BY <1>1 DEF WriteRequest, Replied, reqVars, loopVars
  <2>4. TransitOnce'
    BY <2>1, <2>2, <2>3 DEF AInv, TransitOnce, InTransit
  <2>5. TransitOpen'
    BY <1>1, <2>1, <2>2, <2>3 DEF AInv, TransitOpen, InTransit, Unwritten, WriteRequest, IInv, TypeOK
  <2> QED BY <2>4, <2>5
<1>2. CASE EcuAnswers \/ FrameLost
  <2>1. toEcu # <<>> /\ UNCHANGED <<reading, call, answer>> /\ toEcu' = Tail(toEcu)
    BY <1>2 DEF EcuAnswers, FrameLost, reqVars, loopVars
  <2>2. /\ Head(toEcu) \in Requests /\ Sent(Head(toEcu))
        /\ Once(toEcu')
        /\ \A q : Sent(q)' <=> q # Head(toEcu) /\ Sent(q)
    BY <1>q, <2>1, TailOnce DEF Sent, AInv, TransitOnce
  <2>3. /\ Once(fromEcu')
        /\ \A q : Replied(q)' => q = Head(toEcu) \/ Replied(q)
    <3>1. CASE FrameLost
      BY <3>1 DEF FrameLost, Replied, AInv, TransitOnce
    <3>2. CASE EcuAnswers
      <4>1. ~Replied(Head(toEcu)) /\ fromEcu' = Append(fromEcu, Head(toEcu))
        BY <2>2, <3>2 DEF AInv, TransitOnce, EcuAnswers
      <4> QED BY <1>q, <2>2, <4>1, AppendOnce DEF Replied, AInv, TransitOnce
    <3> QED BY <1>2, <3>1, <3>2
  <2>4. TransitOnce'
    BY <2>1, <2>2, <2>3 DEF AInv, TransitOnce
  <2>5. TransitOpen'
    BY <2>1, <2>2, <2>3 DEF AInv, TransitOpen, InTransit
  <2> QED BY <2>4, <2>5
<1>3. CASE TryRemoveEntry
  <2>1. fromEcu # <<>> /\ UNCHANGED <<toEcu, call, answer>> /\ fromEcu' = Tail(fromEcu)
        /\ reading = NoReq /\ reading' = Head(fromEcu)
    BY <1>3 DEF TryRemoveEntry, reqVars
  <2>2. /\ Head(fromEcu) \in Requests /\ Replied(Head(fromEcu))
        /\ Once(fromEcu')
        /\ \A q : Replied(q)' <=> q # Head(fromEcu) /\ Replied(q)
    BY <1>q, <2>1, TailOnce DEF Replied, AInv, TransitOnce
  <2>3. \A q : Sent(q)' <=> Sent(q)
    BY <2>1 DEF Sent
  <2>4. TransitOnce'
    BY <2>1, <2>2, <2>3 DEF AInv, TransitOnce
  <2>5. TransitOpen'
    BY <2>1, <2>2, <2>3 DEF AInv, TransitOpen, InTransit
  <2> QED BY <2>4, <2>5
<1>4. CASE CloseChannel \/ EndDispose
  <2>1. /\ UNCHANGED <<reading, call, answer>>
        /\ toEcu' = toEcu \/ toEcu' = <<>>
        /\ fromEcu' = fromEcu \/ fromEcu' = <<>>
    BY <1>4 DEF CloseChannel, EndDispose, reqVars, loopVars
  <2>2. \A q : (Sent(q)' => Sent(q)) /\ (Replied(q)' => Replied(q))
    BY <2>1 DEF Sent, Replied, Occurs
  <2>3. Once(toEcu') /\ Once(fromEcu')
    BY <2>1 DEF AInv, TransitOnce, Once
  <2>4. TransitOnce'
    BY <2>1, <2>2, <2>3 DEF AInv, TransitOnce
  <2>5. TransitOpen'
    BY <2>1, <2>2 DEF AInv, TransitOpen, InTransit
  <2> QED BY <2>4, <2>5
<1>5. ASSUME UNCHANGED <<wireVars, reading, answer>>,
             \A q \in Requests : call'[q] \in Unwritten => call[q] \in Unwritten
      PROVE  TransitOnce' /\ TransitOpen'
  <2>1. \A q : (Sent(q)' <=> Sent(q)) /\ (Replied(q)' <=> Replied(q))
    BY <1>5 DEF wireVars, Sent, Replied
  <2> QED BY <1>5, <2>1 DEF AInv, TransitOnce, TransitOpen, InTransit, wireVars
<1>6. CASE CompleteEntry \/ NoPendingRequest
  <2>1. \A q : (Sent(q)' <=> Sent(q)) /\ (Replied(q)' <=> Replied(q))
    BY <1>6 DEF CompleteEntry, NoPendingRequest, wireVars, Sent, Replied
  <2>2. UNCHANGED <<toEcu, fromEcu, call>> /\ reading # NoReq /\ reading' = NoReq
    BY <1>6 DEF CompleteEntry, NoPendingRequest, wireVars, reqVars
  <2>3. \/ answer' = answer
        \/ /\ taken \in Requests
           /\ answer' = [answer EXCEPT ![taken] = reading]
    BY <1>6 DEF CompleteEntry, NoPendingRequest, Completable, reqVars, IInv, TypeOK, OptRequest
  <2>4. TransitOnce'
    BY <2>1, <2>2 DEF AInv, TransitOnce
  <2>5. TransitOpen'
    BY <2>1, <2>2, <2>3 DEF AInv, TransitOnce, TransitOpen, InTransit, IInv, TypeOK
  <2> QED BY <2>4, <2>5
<1>7. ASSUME NEW r \in Requests, Caller(r) PROVE TransitOnce' /\ TransitOpen'
  <2>1. CASE WriteRequest(r) BY <1>1, <2>1
  <2>2. CASE ~WriteRequest(r)
    <3>1. UNCHANGED <<wireVars, reading, answer>>
      BY <1>7, <2>2 DEF Caller, RegisterAdd, RegisterCancelExisting, RegisterReplace,
         RegisterRetry, SendRejected, GiveUp, AwaitReturns, AwaitCanceled, RemovePending,
         loopVars
    <3>2. \A q \in Requests : call'[q] \in Unwritten => call[q] \in Unwritten
      BY <1>7, <2>2 DEF Caller, RegisterAdd, RegisterCancelExisting, RegisterReplace,
         RegisterRetry, SendRejected, GiveUp, AwaitReturns, AwaitCanceled, RemovePending,
         IInv, TypeOK, Unwritten
    <3> QED BY <1>5, <3>1, <3>2
  <2> QED BY <2>1, <2>2
<1>8. CASE BeginDispose \/ CancelAllClear \/ (\E k \in Keys : CancelAllVisit(k)) \/ UNCHANGED vars
  <2>1. UNCHANGED <<wireVars, reading, answer, call>>
    BY <1>8 DEF BeginDispose, CancelAllClear, CancelAllVisit, vars, reqVars, loopVars, wireVars
  <2> QED BY <1>5, <2>1
<1> QED BY <1>2, <1>3, <1>4, <1>6, <1>7, <1>8 DEF Next, ReceiveLoop, Dispose, Ecu

(* An answer exists exactly with a result, and is the call's own unless the *)
(* answered request was abandoned.  The case that matters is the receive    *)
(* loop finding another call under the key of the reply to q: q is written, *)
(* holds no answer of its own and is not the entry under its key, so by     *)
(* NoOrphan its TaskCompletionSource is not open.                           *)
LEMMA AnswerStep ==
    IInv /\ AInv /\ [Next]_vars =>
        AnswerMatches' /\ TakenMatches' /\ AnswerIsOwnUnlessAbandoned'
<1> SUFFICES ASSUME IInv, AInv, [Next]_vars
             PROVE AnswerMatches' /\ TakenMatches' /\ AnswerIsOwnUnlessAbandoned'
  OBVIOUS
<1>a. \A q \in Requests : Abandoned(q) => Abandoned(q)'
  BY AbandonedStays
<1>l. life' = "open" => life = "open"
  BY DEF Next, Caller, RegisterAdd, RegisterCancelExisting, RegisterReplace, RegisterRetry,
     SendRejected, WriteRequest, GiveUp, AwaitReturns, AwaitCanceled, RemovePending,
     ReceiveLoop, TryRemoveEntry, CompleteEntry, NoPendingRequest, Dispose, BeginDispose,
     CancelAllVisit, CancelAllClear, CloseChannel, EndDispose, Ecu, EcuAnswers, FrameLost,
     vars
<1>1. CASE TryRemoveEntry
  <2> DEFINE q == Head(fromEcu)
  <2>1. /\ q \in Requests /\ InTransit(q) /\ reading = NoReq
        /\ reading' = q /\ taken' = pending[Key(q)]
        /\ UNCHANGED <<call, tcs, answer, life>>
    <3>1. fromEcu # <<>> /\ fromEcu \in Seq(Requests)
      BY <1>1 DEF TryRemoveEntry, IInv, TypeOK
    <3>2. q \in Requests /\ InTransit(q)
      BY <3>1, TailOnce DEF AInv, TransitOnce, InTransit, Replied
    <3> QED BY <1>1, <3>2 DEF TryRemoveEntry, reqVars
  <2> HIDE DEF q
  <2>2. AnswerMatches'
    BY <2>1 DEF AInv, AnswerMatches
  <2>3. ASSUME taken' # NoReq, life = "open", taken' # q PROVE Abandoned(q)
    <3>1. taken = NoReq /\ q # NoReq
      BY <2>1 DEF IInv, TakenIsOut
    <3>2. call[q] \notin Unwritten /\ answer[q] # q
      BY <2>1 DEF AInv, TransitOpen
    <3>3. ~(call[q] \in InFlight /\ tcs[q] = "open")
      BY <2>1, <2>3, <3>1 DEF IInv, NoOrphan
    <3> QED BY <2>1, <3>2, <3>3 DEF Abandoned, AInv, AnswerMatches, IInv, TypeOK,
            CallStates, TcsStates, InFlight, Finished, Unwritten
  <2>4. TakenMatches'
    <3>1. taken' # NoReq => Key(taken') = Key(q)
      BY <2>1 DEF IInv, EntriesRun, Key
    <3> QED BY <1>a, <1>l, <2>1, <2>3, <3>1 DEF TakenMatches, Key
  <2>5. AnswerIsOwnUnlessAbandoned'
    BY <2>1, <1>a DEF AInv, AnswerIsOwnUnlessAbandoned, Key, IInv, TypeOK, OptRequest
  <2> QED BY <2>2, <2>4, <2>5
<1>2. CASE CompleteEntry
  <2>1. /\ taken \in Requests /\ reading \in Requests /\ tcs[taken] = "open"
        /\ tcs' = [tcs EXCEPT ![taken] = "result"]
        /\ answer' = [answer EXCEPT ![taken] = reading]
        /\ taken' = NoReq /\ UNCHANGED <<call, life>>
    BY <1>2 DEF CompleteEntry, Completable, IInv, TypeOK, OptRequest
  <2>2. AnswerMatches'
    BY <2>1 DEF AInv, AnswerMatches, IInv, TypeOK
  <2>3. TakenMatches'
    BY <2>1 DEF TakenMatches
  <2>4. AnswerIsOwnUnlessAbandoned'
    BY <2>1, <1>a DEF AInv, AnswerIsOwnUnlessAbandoned, TakenMatches, Key, IInv, TypeOK, OptRequest
  <2> QED BY <2>2, <2>3, <2>4
<1>3. ASSUME UNCHANGED answer,
             taken' = NoReq \/ UNCHANGED <<taken, reading>>,
             AnswerMatches'
      PROVE AnswerMatches' /\ TakenMatches' /\ AnswerIsOwnUnlessAbandoned'
  <2>1. TakenMatches'
    BY <1>a, <1>l, <1>3 DEF AInv, TakenMatches, Key, IInv, TypeOK, OptRequest, TakenIsOut
  <2>2. AnswerIsOwnUnlessAbandoned'
    BY <1>a, <1>l, <1>3 DEF AInv, AnswerIsOwnUnlessAbandoned, Key, IInv, TypeOK, OptRequest
  <2> QED BY <1>3, <2>1, <2>2
<1>4. ASSUME ~TryRemoveEntry, ~CompleteEntry
      PROVE  /\ UNCHANGED answer
             /\ taken' = NoReq \/ UNCHANGED <<taken, reading>>
  BY <1>4 DEF Next, Caller, RegisterAdd, RegisterCancelExisting, RegisterReplace,
     RegisterRetry, SendRejected, WriteRequest, GiveUp, AwaitReturns, AwaitCanceled,
     RemovePending, ReceiveLoop, NoPendingRequest, Dispose, BeginDispose,
     CancelAllVisit, CancelAllClear, CloseChannel, EndDispose, Ecu, EcuAnswers, FrameLost,
     vars, reqVars, loopVars
<1>5. ASSUME ~TryRemoveEntry, ~CompleteEntry PROVE AnswerMatches'
  <2> USE DEF AInv, AnswerMatches, IInv, TypeOK, Cancel, reqVars
  <2>1. ASSUME NEW r \in Requests, Caller(r) PROVE AnswerMatches'
    BY <2>1 DEF Caller, RegisterAdd, RegisterCancelExisting, RegisterReplace,
       RegisterRetry, SendRejected, WriteRequest, GiveUp, AwaitReturns, AwaitCanceled,
       RemovePending
  <2>2. CASE NoPendingRequest BY <2>2 DEF NoPendingRequest
  <2>3. CASE Dispose
    BY <2>3 DEF Dispose, BeginDispose, CancelAllVisit, CancelAllClear, CloseChannel, EndDispose
  <2>4. CASE Ecu BY <2>4 DEF Ecu, EcuAnswers, FrameLost
  <2>5. CASE UNCHANGED vars BY <2>5 DEF vars
  <2> QED BY <1>5, <2>1, <2>2, <2>3, <2>4, <2>5 DEF Next, ReceiveLoop
<1> QED BY <1>1, <1>2, <1>3, <1>4, <1>5

(* A call is completed only by a reply with its own (class, command), and   *)
(* by the reply to another request only when that request was abandoned     *)
(* first: whatever the requests, their keys and the interleaving.           *)
THEOREM AnswersAreOwn == Spec => []AnswerIsOwnUnlessAbandoned
<1>1. IInv /\ AInv /\ [Next]_vars => AInv'
  BY TransitStep, AnswerStep DEF AInv
<1>2. AInv => AnswerIsOwnUnlessAbandoned
  BY DEF AInv
<1> QED BY <1>1, <1>2, InitAInv, Inductive, PTL DEF Spec
==============================================================================
