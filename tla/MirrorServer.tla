----------------------------- MODULE MirrorServer -----------------------------
(***************************************************************************)
(* MirrorServerService: the companion-mirror server's sessions, from the   *)
(* connection through hello, token lookup and approval to the close, with  *)
(* the caps, the two timeouts, and the bridge calls that approve, deny,    *)
(* revoke, reset the pairing or end sessions after a config change.        *)
(*                                                                         *)
(* Every critical section under _gate is one action; an await splits a     *)
(* handler.  The companion sends one hello per connection.  viewers is the *)
(* set MirrorStreamService keeps from SessionApproved and SessionClosed.   *)
(***************************************************************************)
EXTENDS Naturals, FiniteSets, Sequences, Functions

CONSTANTS
    Sessions,       \* connections, each used once
    Clients,        \* companion devices (ClientId)
    ClientOf,       \* the device behind each connection
    None,
    ConnectionCap,  \* approved sessions
    PendingCap,     \* sessions waiting for approval
    PreHelloCap     \* connections that sent no hello

ASSUME ClientAssumption == ClientOf \in [Sessions -> Clients]
ASSUME NoneAssumption == None \notin Sessions
ASSUME CapAssumption == ConnectionCap \in Nat /\ PendingCap \in Nat /\ PreHelloCap \in Nat

\* For instances: all connections come from one companion device.
OneDevice == [s \in Sessions |-> CHOOSE c \in Clients : TRUE]

VARIABLES
    status,     \* MirrorServerSession.Status
    sock,       \* the WebSocket: new, open, closing (Close called), closed
    slots,      \* _sessions: a Dictionary reuses the slot freed last,
    freed,      \*   so FirstOrDefault does not follow arrival order
    hello,      \* progress of HandleMessageAsync for the hello
    approving,  \* progress of ApproveDeviceAsync past the lock
    decision,   \* the ApprovalDecision frames sent (history)
    ending,     \* sessions a task is about to close
    autoDeny,   \* sessions whose 60 s task has not run
    store,      \* clients with an entry in ApprovedDeviceStore
    viewers,    \* MirrorStreamService._viewers
    revoking,   \* clients between the bridge's two revoke steps
    resetting,  \* is a pairing reset between its steps
    running,    \* IsRunning
    raced       \* sessions that closed amid their approval (history)

bridgeVars == <<store, revoking, resetting, running>>
sessionVars == <<status, sock, hello, approving, decision, ending, autoDeny>>
vars == <<sessionVars, slots, freed, viewers, bridgeVars, raced>>

Statuses == {"AwaitingHello", "PendingApproval", "Approved", "Closed"}

Tracked == Range(slots) \ {None}
With(st) == {s \in Tracked : status[s] = st}

Init ==
    /\ status = [s \in Sessions |-> "AwaitingHello"]
    /\ sock = [s \in Sessions |-> "new"]
    /\ slots = <<>>
    /\ freed = <<>>
    /\ hello = [s \in Sessions |-> "none"]
    /\ approving = [s \in Sessions |-> "none"]
    /\ decision = [s \in Sessions |-> "none"]
    /\ ending = {}
    /\ autoDeny = {}
    /\ store \in SUBSET Clients
    /\ viewers = {}
    /\ revoking = {}
    /\ resetting = FALSE
    /\ running = TRUE
    /\ raced = {}

(* Dictionary.Add and Remove. *)
Track(s) ==
    IF freed = <<>>
    THEN slots' = Append(slots, s) /\ freed' = freed
    ELSE slots' = [slots EXCEPT ![Head(freed)] = s] /\ freed' = Tail(freed)

Untrack(s) ==
    IF s \in Tracked
    THEN LET i == CHOOSE j \in DOMAIN slots : slots[j] = s IN
         slots' = [slots EXCEPT ![i] = None] /\ freed' = <<i>> \o freed
    ELSE UNCHANGED <<slots, freed>>

(* _sessions.Values.FirstOrDefault(s => s.ClientId == c && s.Status == st) *)
First(c, st) ==
    LET hits == {i \in DOMAIN slots : slots[i] # None
                     /\ ClientOf[slots[i]] = c /\ status[slots[i]] = st}
    IN  IF hits = {} THEN None
        ELSE slots[CHOOSE i \in hits : \A j \in hits : i <= j]

Close(s) == sock' = [sock EXCEPT ![s] = IF @ = "open" THEN "closing" ELSE @]
Decide(s, d) == decision' = [decision EXCEPT ![s] = IF @ = "none" THEN d ELSE "twice"]

-----------------------------------------------------------------------------
(* Connections. *)

ClientConnects(s) ==
    /\ running
    /\ sock[s] = "new"
    /\ IF Cardinality(With("AwaitingHello")) >= PreHelloCap
       THEN sock' = [sock EXCEPT ![s] = "closed"] /\ UNCHANGED <<slots, freed>>
       ELSE sock' = [sock EXCEPT ![s] = "open"] /\ Track(s)
    /\ UNCHANGED <<status, hello, approving, decision, ending, autoDeny, viewers, bridgeVars, raced>>

(* Mutated form: the session is forgotten and its socket left open. *)
PreHelloForgets(s) ==
    /\ s \in Tracked
    /\ status[s] = "AwaitingHello"
    /\ Untrack(s)
    /\ UNCHANGED <<sessionVars, viewers, bridgeVars, raced>>

(* The 15 s task forgets a silent session under the lock and closes it     *)
(* outside.  A hello whose token is still being looked up counts as silent. *)
PreHelloExpires(s) ==
    /\ s \in Tracked
    /\ status[s] = "AwaitingHello"
    /\ Untrack(s)
    /\ ending' = ending \cup {s}
    /\ UNCHANGED <<status, sock, hello, approving, decision, autoDeny, viewers, bridgeVars, raced>>

(* Mutated form: the stream service is not told. *)
SessionClosesUntold(s) ==
    /\ sock[s] \in {"open", "closing"}
    /\ sock' = [sock EXCEPT ![s] = "closed"]
    /\ Untrack(s)
    /\ UNCHANGED <<status, hello, approving, decision, ending, autoDeny, viewers, bridgeVars, raced>>

(* The viewer or the network closes, or a Close of ours takes effect. *)
SessionCloses(s) ==
    /\ sock[s] \in {"open", "closing"}
    /\ sock' = [sock EXCEPT ![s] = "closed"]
    /\ Untrack(s)
    /\ viewers' = viewers \ {s}
    /\ raced' = IF hello[s] \in {"lookup", "known", "announce"} \/ approving[s] # "none"
                THEN raced \cup {s} ELSE raced
    /\ UNCHANGED <<status, hello, approving, decision, ending, autoDeny, bridgeVars>>

-----------------------------------------------------------------------------
(* HandleMessageAsync: version gate, token lookup, admission, queueing. *)

HelloRefused(s) ==
    /\ sock[s] = "open"
    /\ hello[s] = "none"
    /\ hello' = [hello EXCEPT ![s] = "done"]
    /\ Close(s)
    /\ UNCHANGED <<status, slots, freed, approving, decision, ending, autoDeny, viewers, bridgeVars, raced>>

Hello(s, withToken) ==
    /\ sock[s] = "open"
    /\ hello[s] = "none"
    /\ hello' = [hello EXCEPT ![s] = IF withToken THEN "lookup" ELSE "unknown"]
    /\ UNCHANGED <<status, sock, slots, freed, approving, decision, ending, autoDeny, viewers, bridgeVars, raced>>

FindByToken(s) ==
    /\ hello[s] = "lookup"
    /\ hello' = [hello EXCEPT ![s] = IF ClientOf[s] \in store THEN "known" ELSE "unknown"]
    /\ UNCHANGED <<status, sock, slots, freed, approving, decision, ending, autoDeny, viewers, bridgeVars, raced>>

(* Mutated form: a known token is admitted beyond the cap. *)
AdmitKnownUncapped(s) ==
    /\ hello[s] = "known"
    /\ hello' = [hello EXCEPT ![s] = "announce"]
    /\ status' = [status EXCEPT ![s] = "Approved"]
    /\ UNCHANGED <<sock, slots, freed, approving, decision, ending, autoDeny, viewers, bridgeVars, raced>>

AdmitKnown(s) ==
    /\ hello[s] = "known"
    /\ IF Cardinality(With("Approved")) >= ConnectionCap
       THEN /\ hello' = [hello EXCEPT ![s] = "done"]
            /\ Close(s)
            /\ status' = status
       ELSE /\ hello' = [hello EXCEPT ![s] = "announce"]
            /\ status' = [status EXCEPT ![s] = "Approved"]
            /\ sock' = sock
    /\ UNCHANGED <<slots, freed, approving, decision, ending, autoDeny, viewers, bridgeVars, raced>>

(* SessionApproved, once the ack was sent. *)
AnnounceKnown(s) ==
    /\ hello[s] = "announce"
    /\ hello' = [hello EXCEPT ![s] = "done"]
    /\ viewers' = viewers \cup {s}
    /\ UNCHANGED <<status, sock, slots, freed, approving, decision, ending, autoDeny, bridgeVars, raced>>

(* The per-address rate limit or the pending cap refuses, else the viewer   *)
(* is queued, the user asked and the 60 s task started.                     *)
RefuseUnknown(s) ==
    /\ hello[s] = "unknown"
    /\ hello' = [hello EXCEPT ![s] = "done"]
    /\ Close(s)
    /\ UNCHANGED <<status, slots, freed, approving, decision, ending, autoDeny, viewers, bridgeVars, raced>>

(* Mutated form: the 60 s task is not started. *)
QueueUntimed(s) ==
    /\ hello[s] = "unknown"
    /\ Cardinality(With("PendingApproval")) < PendingCap
    /\ hello' = [hello EXCEPT ![s] = "done"]
    /\ status' = [status EXCEPT ![s] = "PendingApproval"]
    /\ UNCHANGED <<sock, slots, freed, approving, decision, ending, autoDeny, viewers, bridgeVars, raced>>

QueueUnknown(s) ==
    /\ hello[s] = "unknown"
    /\ Cardinality(With("PendingApproval")) < PendingCap
    /\ hello' = [hello EXCEPT ![s] = "done"]
    /\ status' = [status EXCEPT ![s] = "PendingApproval"]
    /\ autoDeny' = autoDeny \cup {s}
    /\ UNCHANGED <<sock, slots, freed, approving, decision, ending, viewers, bridgeVars, raced>>

-----------------------------------------------------------------------------
(* ApproveDeviceAsync, DenyDeviceAsync and the auto-deny task. *)

(* Mutated form: the status is not set under the lock. *)
ApproveUnmarked(c) ==
    LET s == First(c, "PendingApproval") IN
    /\ s # None
    /\ approving' = [approving EXCEPT ![s] = "adding"]
    /\ UNCHANGED <<status, sock, slots, freed, hello, decision, ending, autoDeny, viewers, bridgeVars, raced>>

Approve(c) ==
    LET s == First(c, "PendingApproval") IN
    /\ s # None
    /\ IF Cardinality(With("Approved")) >= ConnectionCap
       THEN /\ status' = [status EXCEPT ![s] = "Closed"]
            /\ Decide(s, "deny")
            /\ Close(s)
            /\ UNCHANGED approving
       ELSE /\ status' = [status EXCEPT ![s] = "Approved"]
            /\ approving' = [approving EXCEPT ![s] = "adding"]
            /\ UNCHANGED <<decision, sock>>
    /\ UNCHANGED <<slots, freed, hello, ending, autoDeny, viewers, bridgeVars, raced>>

ApproveStores(s) ==
    /\ approving[s] = "adding"
    /\ store' = store \cup {ClientOf[s]}
    /\ approving' = [approving EXCEPT ![s] = "added"]
    /\ UNCHANGED <<status, sock, slots, freed, hello, decision, ending, autoDeny, viewers,
                   revoking, resetting, running, raced>>

ApproveAnnounces(s) ==
    /\ approving[s] = "added"
    /\ Decide(s, "approve")
    /\ viewers' = viewers \cup {s}
    /\ approving' = [approving EXCEPT ![s] = "none"]
    /\ UNCHANGED <<status, sock, slots, freed, hello, ending, autoDeny, bridgeVars, raced>>

(* Mutated form: the denied session is not marked closed. *)
DenyUnmarked(s) ==
    /\ Decide(s, "deny")
    /\ ending' = ending \cup {s}
    /\ UNCHANGED status

DenySession(s) ==
    /\ status' = [status EXCEPT ![s] = "Closed"]
    /\ Decide(s, "deny")
    /\ ending' = ending \cup {s}

Deny(c) ==
    /\ First(c, "PendingApproval") # None
    /\ DenySession(First(c, "PendingApproval"))
    /\ UNCHANGED <<sock, slots, freed, hello, approving, autoDeny, viewers, bridgeVars, raced>>

(* The task looks for its own session, and denies by client id.  The look    *)
(* and the denial hold the gate one after the other; here they are one step. *)
AutoDenyRuns(s) ==
    /\ s \in autoDeny
    /\ autoDeny' = autoDeny \ {s}
    /\ IF s \in With("PendingApproval")
       THEN DenySession(First(ClientOf[s], "PendingApproval"))
       ELSE UNCHANGED <<status, decision, ending>>
    /\ UNCHANGED <<sock, slots, freed, hello, approving, viewers, bridgeVars, raced>>

(* Mutated form: the socket is not closed in the end. *)
EndingForgets(s) ==
    /\ s \in ending
    /\ ending' = ending \ {s}
    /\ UNCHANGED <<status, sock, slots, freed, hello, approving, decision, autoDeny, viewers, bridgeVars, raced>>

(* CloseGracefullyAsync, 100 ms after the last frame, and the close of an   *)
(* expired silent session.                                                  *)
EndingCloses(s) ==
    /\ s \in ending
    /\ ending' = ending \ {s}
    /\ Close(s)
    /\ UNCHANGED <<status, slots, freed, hello, approving, decision, autoDeny, viewers, bridgeVars, raced>>

-----------------------------------------------------------------------------
(* RevokeDevice and ResetPairing of the bridge: the store first, then the   *)
(* live sessions.  A config change ends every approved session.             *)

RevokeStored(c) ==
    /\ c \notin revoking
    /\ store' = store \ {c}
    /\ revoking' = revoking \cup {c}
    /\ UNCHANGED <<sessionVars, slots, freed, viewers, resetting, running, raced>>

RevokeSession(c) ==
    LET s == First(c, "Approved") IN
    /\ c \in revoking
    /\ revoking' = revoking \ {c}
    /\ IF s = None
       THEN UNCHANGED <<status, ending>>
       ELSE /\ status' = [status EXCEPT ![s] = "Closed"]
            /\ ending' = ending \cup {s}
    /\ UNCHANGED <<sock, slots, freed, hello, approving, decision, autoDeny, viewers,
                   store, resetting, running, raced>>

ResetStored ==
    /\ ~resetting
    /\ resetting' = TRUE
    /\ store' = {}
    /\ UNCHANGED <<sessionVars, slots, freed, viewers, revoking, running, raced>>

CloseAllTracked ==
    sock' = [s \in Sessions |-> IF s \in Tracked /\ sock[s] = "open" THEN "closing" ELSE sock[s]]

DisconnectAll ==
    /\ resetting
    /\ resetting' = FALSE
    /\ CloseAllTracked
    /\ UNCHANGED <<status, slots, freed, hello, approving, decision, ending, autoDeny, viewers,
                   store, revoking, running, raced>>

NotifyConfigUpdate ==
    /\ With("Approved") # {}
    /\ ending' = ending \cup With("Approved")
    /\ UNCHANGED <<status, sock, slots, freed, hello, approving, decision, autoDeny, viewers, bridgeVars, raced>>

Stop ==
    /\ running
    /\ running' = FALSE
    /\ CloseAllTracked
    /\ slots' = <<>>
    /\ freed' = <<>>
    /\ UNCHANGED <<status, hello, approving, decision, ending, autoDeny, viewers,
                   store, revoking, resetting, raced>>

-----------------------------------------------------------------------------
Viewer(s) ==
    ClientConnects(s) \/ SessionCloses(s) \/ HelloRefused(s)
    \/ \E withToken \in BOOLEAN : Hello(s, withToken)

(* Tasks of the server that run once they are started. *)
HelloTask(s) ==
    \/ FindByToken(s) \/ AdmitKnown(s) \/ AnnounceKnown(s)
    \/ RefuseUnknown(s) \/ QueueUnknown(s)

ApproveTask(s) == ApproveStores(s) \/ ApproveAnnounces(s)

ServerTask(s) == HelloTask(s) \/ ApproveTask(s) \/ AutoDenyRuns(s) \/ EndingCloses(s)

User ==
    \/ \E c \in Clients : Approve(c) \/ Deny(c) \/ RevokeStored(c) \/ RevokeSession(c)
    \/ ResetStored \/ DisconnectAll \/ NotifyConfigUpdate \/ Stop

Next == User \/ \E s \in Sessions : Viewer(s) \/ ServerTask(s) \/ PreHelloExpires(s)

(* Timers fire, tasks run on, and a socket told to close reports OnClose.   *)
(* The user owes nothing: approving and denying are not fair.               *)
Fairness ==
    \A s \in Sessions :
        /\ WF_vars(PreHelloExpires(s))
        /\ WF_vars(HelloTask(s)) /\ WF_vars(ApproveTask(s))
        /\ WF_vars(AutoDenyRuns(s)) /\ WF_vars(EndingCloses(s))
        /\ WF_vars(sock[s] = "closing" /\ SessionCloses(s))

Spec == Init /\ [][Next]_vars
FairSpec == Spec /\ Fairness

-----------------------------------------------------------------------------
TypeOK ==
    /\ status \in [Sessions -> Statuses]
    /\ sock \in [Sessions -> {"new", "open", "closing", "closed"}]
    /\ slots \in Seq(Sessions \cup {None})
    /\ freed \in Seq(Nat)
    /\ hello \in [Sessions -> {"none", "lookup", "known", "announce", "unknown", "done"}]
    /\ approving \in [Sessions -> {"none", "adding", "added"}]
    /\ decision \in [Sessions -> {"none", "approve", "deny", "twice"}]
    /\ ending \subseteq Sessions
    /\ autoDeny \subseteq Sessions
    /\ store \subseteq Clients
    /\ viewers \subseteq Sessions
    /\ revoking \subseteq Clients
    /\ resetting \in BOOLEAN
    /\ running \in BOOLEAN
    /\ raced \subseteq Sessions

(* The three caps hold whatever the order of connects, hellos, token        *)
(* lookups, approvals and closes: never more than ConnectionCap approved,   *)
(* PendingCap pending and PreHelloCap silent sessions in the dictionary.    *)
CapsHold ==
    /\ Cardinality(With("Approved")) <= ConnectionCap
    /\ Cardinality(With("PendingApproval")) <= PendingCap
    /\ Cardinality(With("AwaitingHello")) <= PreHelloCap

(* A viewer is answered once: the user's approve and deny and the 60 s task *)
(* race for a session, and it is sent at most one decision ("cannot both    *)
(* send on the same session").                                              *)
OneDecision == \A s \in Sessions : decision[s] # "twice"

(* A viewer that was denied is never streamed to. *)
DeniedNeverStreams == \A s \in Sessions : decision[s] \in {"deny", "twice"} => s \notin viewers

(* No lost connection: an open socket is in the dictionary, where the caps  *)
(* count it and a disconnect finds it, or some task is about to close it.   *)
OpenIsTracked == \A s \in Sessions : sock[s] = "open" => s \in Tracked \cup ending

(* The stream service keeps no closed session, unless the session closed in *)
(* the middle of its own approval (SessionClosed before SessionApproved).   *)
NoGhostViewer == \A s \in viewers : sock[s] = "closed" => s \in raced

(* The banner, the 60 s task and an approval compete for one session: one of *)
(* them decides, and a denial is never followed by a stream.                 *)
DecisionsHold == OneDecision /\ DeniedNeverStreams

(* Under every order of closes, timers and approvals, what is open is counted *)
(* and what is streamed to is open.                                           *)
ViewersTracked == OpenIsTracked /\ NoGhostViewer

(* A connection that stays silent is dropped within its 15 s. *)
SilentDropped ==
    \A s \in Sessions :
        sock[s] = "open" /\ status[s] = "AwaitingHello" ~> ~(sock[s] = "open" /\ status[s] = "AwaitingHello")

Waits(s) == s \in With("PendingApproval")

(* The "60 s auto-deny (R2)" (MirrorServerService.cs:11): a session that    *)
(* waits for approval does not wait for ever, even if the user ignores it.  *)
(* It may where one device waits twice: a task looks for its own session,   *)
(* denies by client id, and may hit the other one, whose own task has run.  *)
PendingEnds == \A s \in Sessions : Waits(s) ~> ~Waits(s)

(* What the code keeps of it: a session that waits is answered, or the      *)
(* denial that was due to it went to another session of its device.         *)
PendingEndsOrTwinDenied ==
    \A s \in Sessions :
        Waits(s) ~> \/ ~Waits(s)
                    \/ \E t \in Sessions \ {s} : ClientOf[t] = ClientOf[s] /\ decision[t] = "deny"
=============================================================================
