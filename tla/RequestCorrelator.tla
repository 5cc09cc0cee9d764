-------------------------- MODULE RequestCorrelator --------------------------
(***************************************************************************)
(* The request/response half of ME221.Comms: ProtocolService.SendAsync,    *)
(* its receive loop and DisposeAsync, over RequestCorrelator's dictionary  *)
(* of pending TaskCompletionSources.                                       *)
(*                                                                         *)
(* A request is one call of SendAsync<TResponse>.  The dictionary knows a  *)
(* request only by its (class, command) pair, KeyOf[r]: two GetTable       *)
(* requests for different tables share a key.  A reply on the wire is      *)
(* named by the request the ECU answered, which the code cannot see.       *)
(***************************************************************************)
EXTENDS Naturals, Sequences, FiniteSets

CONSTANTS
    Requests,   \* calls of SendAsync, each made at most once
    Keys,       \* (class, command) pairs
    KeyOf,      \* the key of each request
    OwnToken,   \* calls whose caller passes a cancelable token
    NoReq       \* "no TaskCompletionSource"

ASSUME KeyAssumption == KeyOf \in [Requests -> Keys]
ASSUME NoReqAssumption == NoReq \notin Requests
ASSUME OwnTokenAssumption == OwnToken \subseteq Requests

VARIABLES
    call,       \* where each SendAsync call is
    tcs,        \* state of the call's TaskCompletionSource
    answer,     \* the reply its TaskCompletionSource was completed with
    pending,    \* _pendingRequests
    seen,       \* the existing TCS an AddOrUpdate is about to replace
    taken,      \* the entry the receive loop removed and has not completed
    reading,    \* the response TryCorrelate is working on
    toEcu,      \* request frames on the wire
    fromEcu,    \* response frames on the wire and in IncomingFrames
    life,       \* progress of DisposeAsync
    visited     \* keys CancelAll's loop has passed

reqVars == <<call, tcs, answer>>
dictVars == <<pending, seen>>
loopVars == <<taken, reading>>
wireVars == <<toEcu, fromEcu>>
vars == <<reqVars, dictVars, loopVars, wireVars, life, visited>>

InFlight == {"registered", "awaiting"}
Finished == {"returned", "failed"}
CallStates == {"idle", "replacing", "cleanup"} \cup InFlight \cup Finished
TcsStates == {"open", "result", "canceled"}
Stages == {"open", "cancelling", "cleared", "closed", "done"}
OptRequest == Requests \cup {NoReq}

Key(r) == KeyOf[r]

Init ==
    /\ call = [r \in Requests |-> "idle"]
    /\ tcs = [r \in Requests |-> "open"]
    /\ answer = [r \in Requests |-> NoReq]
    /\ pending = [k \in Keys |-> NoReq]
    /\ seen = [r \in Requests |-> NoReq]
    /\ taken = NoReq
    /\ reading = NoReq
    /\ toEcu = <<>>
    /\ fromEcu = <<>>
    /\ life = "open"
    /\ visited = {}

(* TrySetCanceled: a no-op on a TaskCompletionSource already completed. *)
Cancel(r) == tcs' = [tcs EXCEPT ![r] = IF @ = "open" THEN "canceled" ELSE @]

-----------------------------------------------------------------------------
(* SendAsync, up to the write.  AddOrUpdate adds under its lock; to update  *)
(* it runs the delegate, which cancels the existing TCS, and then stores    *)
(* only if the entry has not changed, starting over otherwise.              *)

RegisterAdd(r) ==
    /\ call[r] = "idle"
    /\ life # "done" \/ r \in OwnToken
    /\ pending[Key(r)] = NoReq
    /\ pending' = [pending EXCEPT ![Key(r)] = r]
    /\ call' = [call EXCEPT ![r] = "registered"]
    /\ UNCHANGED <<tcs, answer, seen, loopVars, wireVars, life, visited>>

(* Mutated form: the existing call is replaced without being cancelled. *)
RegisterOverExisting(r) ==
    /\ call[r] = "idle"
    /\ life # "done" \/ r \in OwnToken
    /\ pending[Key(r)] # NoReq
    /\ seen' = [seen EXCEPT ![r] = pending[Key(r)]]
    /\ call' = [call EXCEPT ![r] = "replacing"]
    /\ UNCHANGED <<tcs, answer, pending, loopVars, wireVars, life, visited>>

RegisterCancelExisting(r) ==
    /\ call[r] = "idle"
    /\ life # "done" \/ r \in OwnToken
    /\ pending[Key(r)] # NoReq
    /\ Cancel(pending[Key(r)])
    /\ seen' = [seen EXCEPT ![r] = pending[Key(r)]]
    /\ call' = [call EXCEPT ![r] = "replacing"]
    /\ UNCHANGED <<answer, pending, loopVars, wireVars, life, visited>>

RegisterReplace(r) ==
    /\ call[r] = "replacing"
    /\ pending[Key(r)] = seen[r]
    /\ pending' = [pending EXCEPT ![Key(r)] = r]
    /\ seen' = [seen EXCEPT ![r] = NoReq]
    /\ call' = [call EXCEPT ![r] = "registered"]
    /\ UNCHANGED <<tcs, answer, loopVars, wireVars, life, visited>>

RegisterRetry(r) ==
    /\ call[r] = "replacing"
    /\ pending[Key(r)] # seen[r]
    /\ seen' = [seen EXCEPT ![r] = NoReq]
    /\ call' = [call EXCEPT ![r] = "idle"]
    /\ UNCHANGED <<tcs, answer, pending, loopVars, wireVars, life, visited>>

(* _disposeCts.Token throws once the source is disposed. *)
SendRejected(r) ==
    /\ call[r] = "idle"
    /\ life = "done"
    /\ r \notin OwnToken
    /\ call' = [call EXCEPT ![r] = "failed"]
    /\ UNCHANGED <<tcs, answer, dictVars, loopVars, wireVars, life, visited>>

-----------------------------------------------------------------------------
(* The write, the await and the exception path. *)

WriteRequest(r) ==
    /\ call[r] = "registered"
    /\ life \notin {"closed", "done"}
    /\ toEcu' = Append(toEcu, r)
    /\ call' = [call EXCEPT ![r] = "awaiting"]
    /\ UNCHANGED <<tcs, answer, dictVars, loopVars, fromEcu, life, visited>>

(* The write throws, or the effective token fires: before the write, or     *)
(* during the await even if the TCS was completed meanwhile, because its    *)
(* continuations run asynchronously.                                        *)
GiveUp(r) ==
    /\ call[r] \in InFlight
    /\ call' = [call EXCEPT ![r] = "cleanup"]
    /\ UNCHANGED <<tcs, answer, dictVars, loopVars, wireVars, life, visited>>

AwaitReturns(r) ==
    /\ call[r] = "awaiting"
    /\ tcs[r] = "result"
    /\ call' = [call EXCEPT ![r] = "returned"]
    /\ UNCHANGED <<tcs, answer, dictVars, loopVars, wireVars, life, visited>>

AwaitCanceled(r) ==
    /\ call[r] = "awaiting"
    /\ tcs[r] = "canceled"
    /\ call' = [call EXCEPT ![r] = "cleanup"]
    /\ UNCHANGED <<tcs, answer, dictVars, loopVars, wireVars, life, visited>>

(* Mutated form: the entry is cancelled but stays in the dictionary. *)
CancelPendingOnly(r) ==
    LET holder == pending[Key(r)] IN
    /\ call[r] = "cleanup"
    /\ call' = [call EXCEPT ![r] = "failed"]
    /\ IF holder = NoReq
       THEN UNCHANGED tcs
       ELSE Cancel(holder)
    /\ UNCHANGED <<answer, pending, seen, loopVars, wireVars, life, visited>>

(* RemovePending: whatever the dictionary holds under the request's key.    *)
RemovePending(r) ==
    LET holder == pending[Key(r)] IN
    /\ call[r] = "cleanup"
    /\ call' = [call EXCEPT ![r] = "failed"]
    /\ pending' = [pending EXCEPT ![Key(r)] = NoReq]
    /\ IF holder = NoReq
       THEN UNCHANGED tcs
       ELSE Cancel(holder)
    /\ UNCHANGED <<answer, seen, loopVars, wireVars, life, visited>>

-----------------------------------------------------------------------------
(* The receive loop: TryCorrelate removes the entry, then completes it. *)

(* Mutated form: any pending entry is taken, whatever its command. *)
TryRemoveAnyEntry ==
    /\ reading = NoReq
    /\ fromEcu # <<>>
    /\ reading' = Head(fromEcu)
    /\ \E k \in Keys :
        /\ taken' = pending[k]
        /\ pending' = [pending EXCEPT ![k] = NoReq]
    /\ fromEcu' = Tail(fromEcu)
    /\ UNCHANGED <<reqVars, seen, toEcu, life, visited>>

TryRemoveEntry ==
    /\ reading = NoReq
    /\ fromEcu # <<>>
    /\ LET q == Head(fromEcu) IN
       /\ reading' = q
       /\ taken' = pending[Key(q)]
       /\ pending' = [pending EXCEPT ![Key(q)] = NoReq]
    /\ fromEcu' = Tail(fromEcu)
    /\ UNCHANGED <<reqVars, seen, toEcu, life, visited>>

Completable == taken # NoReq /\ tcs[taken] = "open"

CompleteEntry ==
    /\ reading # NoReq
    /\ Completable
    /\ tcs' = [tcs EXCEPT ![taken] = "result"]
    /\ answer' = [answer EXCEPT ![taken] = reading]
    /\ reading' = NoReq
    /\ taken' = NoReq
    /\ UNCHANGED <<call, dictVars, wireVars, life, visited>>

(* No entry, or one completed already: the response goes to                 *)
(* UncorrelatedFrames.  When the cancellation comes between the IsCompleted *)
(* test and TrySetResult it counts as correlated and is dropped.            *)
NoPendingRequest ==
    /\ reading # NoReq
    /\ ~Completable
    /\ reading' = NoReq
    /\ taken' = NoReq
    /\ UNCHANGED <<reqVars, dictVars, wireVars, life, visited>>

-----------------------------------------------------------------------------
(* DisposeAsync: cancel the token, CancelAll, close the channel, wait for   *)
(* the receive loop.  CancelAll's loop is not a snapshot of the dictionary. *)

BeginDispose ==
    /\ life = "open"
    /\ life' = "cancelling"
    /\ UNCHANGED <<reqVars, dictVars, loopVars, wireVars, visited>>

CancelAllVisit(k) ==
    /\ life = "cancelling"
    /\ k \notin visited
    /\ visited' = visited \cup {k}
    /\ IF pending[k] = NoReq
       THEN UNCHANGED tcs
       ELSE Cancel(pending[k])
    /\ UNCHANGED <<call, answer, dictVars, loopVars, wireVars, life>>

CancelAllClear ==
    /\ life = "cancelling"
    /\ visited = Keys
    /\ pending' = [k \in Keys |-> NoReq]
    /\ life' = "cleared"
    /\ UNCHANGED <<reqVars, seen, loopVars, wireVars, visited>>

CloseChannel ==
    /\ life = "cleared"
    /\ life' = "closed"
    /\ toEcu' = <<>>
    /\ UNCHANGED <<reqVars, dictVars, loopVars, fromEcu, visited>>

(* The loop has left: frames still in IncomingFrames are not read. *)
EndDispose ==
    /\ life = "closed"
    /\ reading = NoReq
    /\ life' = "done"
    /\ fromEcu' = <<>>
    /\ UNCHANGED <<reqVars, dictVars, loopVars, toEcu, visited>>

-----------------------------------------------------------------------------
(* The ECU answers requests in order; any frame may be lost on the way. *)

EcuAnswers ==
    /\ toEcu # <<>>
    /\ toEcu' = Tail(toEcu)
    /\ fromEcu' = Append(fromEcu, Head(toEcu))
    /\ UNCHANGED <<reqVars, dictVars, loopVars, life, visited>>

FrameLost ==
    /\ toEcu # <<>>
    /\ toEcu' = Tail(toEcu)
    /\ UNCHANGED <<reqVars, dictVars, loopVars, fromEcu, life, visited>>

-----------------------------------------------------------------------------
Caller(r) ==
    \/ RegisterAdd(r) \/ RegisterCancelExisting(r) \/ RegisterReplace(r)
    \/ RegisterRetry(r) \/ SendRejected(r) \/ WriteRequest(r) \/ GiveUp(r)
    \/ AwaitReturns(r) \/ AwaitCanceled(r) \/ RemovePending(r)

ReceiveLoop == TryRemoveEntry \/ CompleteEntry \/ NoPendingRequest

Dispose ==
    \/ BeginDispose \/ CancelAllClear \/ CloseChannel \/ EndDispose
    \/ \E k \in Keys : CancelAllVisit(k)

Ecu == EcuAnswers \/ FrameLost

Next == (\E r \in Requests : Caller(r)) \/ ReceiveLoop \/ Dispose \/ Ecu

Spec == Init /\ [][Next]_vars

-----------------------------------------------------------------------------
TypeOK ==
    /\ call \in [Requests -> CallStates]
    /\ tcs \in [Requests -> TcsStates]
    /\ answer \in [Requests -> OptRequest]
    /\ pending \in [Keys -> OptRequest]
    /\ seen \in [Requests -> OptRequest]
    /\ taken \in OptRequest
    /\ reading \in OptRequest
    /\ toEcu \in Seq(Requests)
    /\ fromEcu \in Seq(Requests)
    /\ life \in Stages
    /\ visited \subseteq Keys

(* No silent orphan: while the service is open, a call that waits on an     *)
(* open TaskCompletionSource can still be reached by a response, through    *)
(* the dictionary or through the receive loop that just removed it.  This   *)
(* is the promise of the comment in Register ("replace rather than silently *)
(* orphaning it"), across concurrent registrations, replies and timeouts.   *)
NoOrphan ==
    life = "open" =>
        \A r \in Requests :
            call[r] \in InFlight /\ tcs[r] = "open" =>
                pending[Key(r)] = r \/ taken = r

(* No stale entry: the dictionary never holds the TaskCompletionSource of a *)
(* call that has already returned or thrown, so a finished request cannot   *)
(* swallow the response of a later one with the same key.                   *)
NoStaleEntry ==
    \A k \in Keys : pending[k] # NoReq => call[pending[k]] \notin Finished

(* The reply to q was of no use to q any more. *)
Abandoned(q) ==
    \/ call[q] \in {"cleanup", "failed"}
    \/ tcs[q] = "canceled"
    \/ answer[q] \notin {q, NoReq}

(* Correlation by key: a call is completed only by a reply with its own     *)
(* (class, command), and by the reply to ANOTHER request only when that     *)
(* request was abandoned first (timed out, replaced, or itself answered by  *)
(* an older reply).  As long as no same-key request is abandoned, every     *)
(* caller of an open service gets the answer to its own question.           *)
AnswerIsOwnUnlessAbandoned ==
    \A r \in Requests :
        answer[r] # NoReq =>
            /\ Key(answer[r]) = Key(r)
            /\ life = "open" /\ answer[r] # r => Abandoned(answer[r])

(* What RemovePending's comment says (RequestCorrelator.cs:122, "Removes    *)
(* the pending TCS for the given request"): giving up on one request never  *)
(* cancels the TaskCompletionSource of another one.                         *)
NoForeignCancel ==
    [][\A q, r \in Requests :
        q # r /\ call[q] = "cleanup" /\ call'[q] = "failed" => tcs'[r] = tcs[r]]_vars
=============================================================================
