----------------------------- MODULE MirrorStream -----------------------------
(***************************************************************************)
(* MirrorStreamService for one approved viewer, and the MirrorEventRelay   *)
(* at the other end of its socket: the snapshot in acknowledged chunks,    *)
(* retried as a whole, then the record feed and the latest-wins frames.    *)
(*                                                                         *)
(* The socket is ordered and reliable until it closes.  Acks carry only a  *)
(* chunk index, so a late one counts for the next attempt.  A sample is    *)
(* the number of the live-data update it comes from.                       *)
(***************************************************************************)
EXTENDS Naturals, Sequences

CONSTANTS
    Chunks,      \* chunks of the snapshot
    MaxAttempts, \* MirrorProtocol.MaxSnapshotAttempts
    Loops,       \* SendViewerLoopAsync activations alive at a time (bound)
    MaxUpdates,  \* live-data updates (bound)
    NoLoop

ASSUME ChunksAssumption == Chunks \in Nat \ {0}
ASSUME AttemptsAssumption == MaxAttempts \in Nat \ {0}
ASSUME UpdatesAssumption == MaxUpdates \in Nat
ASSUME LoopAssumption == NoLoop \notin Loops

VARIABLES
    snap,       \* progress of SendSnapshotAsync
    attempt,    \* SnapshotSeq, a fresh one per attempt
    index,      \* the chunk being sent
    acked,      \* AckedChunks
    complete,   \* SnapshotComplete
    nextRecord, \* NextRecordSeq
    nextFrame,  \* NextFrameSeq
    updates,    \* samples produced so far
    queue,      \* RecordQueue
    pending,    \* PendingFrame, 0 for null
    sending,    \* SendingFrame
    loop,       \* each activation: where it is, what it holds
    caller,     \* the activation the update thread still runs itself
    open,       \* the viewer's socket
    toViewer,   \* messages in flight to the relay
    toServer,   \* acks in flight to the service
    assembly,   \* the relay's _reassembler: its sequence and next index
    gate,       \* _snapshotSeq once _gateOpen, else 0
    feed        \* records the relay passed on, <<seq, sample>>

snapshotVars == <<snap, attempt, index>>
seqVars == <<nextRecord, nextFrame>>
streamVars == <<updates, queue, pending, sending, loop, caller>>
relayVars == <<assembly, gate, feed>>
vars == <<snapshotVars, acked, complete, seqVars, streamVars, open, toViewer, toServer, relayVars>>

Idle == [pc |-> "idle", record |-> 0, frame |-> 0, seq |-> 0]
Message(kind, seq, body) == [kind |-> kind, seq |-> seq, body |-> body]
Send(kind, seq, body) == toViewer' = Append(toViewer, Message(kind, seq, body))

Init ==
    /\ snap = "build" /\ attempt = 0 /\ index = 0
    /\ acked = {}
    /\ complete = FALSE
    /\ nextRecord = 0 /\ nextFrame = 0
    /\ updates = 0
    /\ queue = <<>>
    /\ pending = 0
    /\ sending = FALSE
    /\ loop = [l \in Loops |-> Idle]
    /\ caller = NoLoop
    /\ open = TRUE
    /\ toViewer = <<>> /\ toServer = <<>>
    /\ assembly = [seq |-> 0, next |-> 0]
    /\ gate = 0
    /\ feed = <<>>

-----------------------------------------------------------------------------
(* SendSnapshotAsync. *)

BuildEnds ==
    /\ snap = "build"
    /\ \/ snap' = "start" /\ open' = open
       \/ snap' = "failed" /\ open' = FALSE
    /\ UNCHANGED <<attempt, index, acked, complete, seqVars, streamVars, toViewer, toServer, relayVars>>

StartAttempt ==
    /\ snap = "start"
    /\ snap' = "chunk"
    /\ attempt' = attempt + 1
    /\ index' = 0
    /\ acked' = {}
    /\ UNCHANGED <<complete, seqVars, streamVars, open, toViewer, toServer, relayVars>>

SendChunk ==
    /\ snap = "chunk"
    /\ open
    /\ snap' = "ack"
    /\ Send("chunk", attempt, index)
    /\ UNCHANGED <<attempt, index, acked, complete, seqVars, streamVars, open, toServer, relayVars>>

ChunkAcked ==
    /\ snap = "ack"
    /\ index \in acked
    /\ index' = index + 1
    /\ snap' = IF index' = Chunks THEN "done" ELSE "chunk"
    /\ UNCHANGED <<attempt, acked, complete, seqVars, streamVars, open, toViewer, toServer, relayVars>>

(* Three seconds without the ack: the whole snapshot again, or the session  *)
(* is closed.                                                               *)
AckTimeout ==
    /\ snap = "ack"
    /\ index \notin acked
    /\ IF attempt < MaxAttempts
       THEN snap' = "start" /\ open' = open
       ELSE snap' = "failed" /\ open' = FALSE
    /\ UNCHANGED <<attempt, index, acked, complete, seqVars, streamVars, toViewer, toServer, relayVars>>

SendDone ==
    /\ snap = "done"
    /\ open
    /\ snap' = "complete"
    /\ Send("done", attempt, 0)
    /\ UNCHANGED <<attempt, index, acked, complete, seqVars, streamVars, open, toServer, relayVars>>

(* Mutated form: the frames are not numbered from the snapshot on. *)
CompleteUnnumbered ==
    /\ snap = "complete"
    /\ snap' = "sent"
    /\ complete' = TRUE
    /\ nextRecord' = attempt
    /\ UNCHANGED <<attempt, index, acked, nextFrame, streamVars, open, toViewer, toServer, relayVars>>

CompleteSnapshot ==
    /\ snap = "complete"
    /\ snap' = "sent"
    /\ complete' = TRUE
    /\ nextFrame' = attempt
    /\ nextRecord' = attempt
    /\ UNCHANGED <<attempt, index, acked, streamVars, open, toViewer, toServer, relayVars>>

(* Mutated form: the failed send of a chunk is swallowed. *)
SnapshotBreaksLate ==
    /\ snap \in {"start", "ack", "done"}
    /\ ~open
    /\ snap' = "failed"
    /\ UNCHANGED <<attempt, index, acked, complete, seqVars, streamVars, open, toViewer, toServer, relayVars>>

(* Sending on a closed socket throws. *)
SnapshotBreaks ==
    /\ snap \in {"start", "chunk", "ack", "done"}
    /\ ~open
    /\ snap' = "failed"
    /\ UNCHANGED <<attempt, index, acked, complete, seqVars, streamVars, open, toViewer, toServer, relayVars>>

OnAck ==
    /\ toServer # <<>>
    /\ toServer' = Tail(toServer)
    /\ acked' = IF open THEN acked \cup {Head(toServer)} ELSE acked
    /\ UNCHANGED <<snapshotVars, complete, seqVars, streamVars, open, toViewer, relayVars>>

(* OnSessionClosed: the viewer is forgotten; its loops stop at their next   *)
(* send.                                                                    *)
SessionCloses ==
    /\ open
    /\ open' = FALSE
    /\ UNCHANGED <<snapshotVars, acked, complete, seqVars, streamVars, toViewer, toServer, relayVars>>

-----------------------------------------------------------------------------
(* OnEntitiesUpdated and SendViewerLoopAsync.  The update runs on the main  *)
(* thread, which also runs the loop it starts up to its first send.         *)

(* Mutated form: the newest record replaces the queued ones. *)
UpdateLatestWins ==
    /\ updates < MaxUpdates
    /\ caller = NoLoop
    /\ updates' = updates + 1
    /\ IF ~(open /\ complete)
       THEN UNCHANGED <<queue, pending, sending, loop, caller>>
       ELSE /\ queue' = <<updates'>>
            /\ pending' = updates'
            /\ sending' = TRUE
            /\ IF sending
               THEN UNCHANGED <<loop, caller>>
               ELSE \E l \in Loops :
                        /\ loop[l].pc = "idle"
                        /\ loop' = [loop EXCEPT ![l].pc = "head"]
                        /\ caller' = l
    /\ UNCHANGED <<snapshotVars, acked, complete, seqVars, open, toViewer, toServer, relayVars>>

Update ==
    /\ updates < MaxUpdates
    /\ caller = NoLoop
    /\ updates' = updates + 1
    /\ IF ~(open /\ complete)
       THEN UNCHANGED <<queue, pending, sending, loop, caller>>
       ELSE /\ queue' = Append(queue, updates')
            /\ pending' = updates'
            /\ sending' = TRUE
            /\ IF sending
               THEN UNCHANGED <<loop, caller>>
               ELSE \E l \in Loops :
                        /\ loop[l].pc = "idle"
                        /\ loop' = [loop EXCEPT ![l].pc = "head"]
                        /\ caller' = l
    /\ UNCHANGED <<snapshotVars, acked, complete, seqVars, open, toViewer, toServer, relayVars>>

Release(l) == caller' = IF caller = l THEN NoLoop ELSE caller

(* Mutated forms: the record is peeked at, not dequeued; and the flag is    *)
(* left to the finally block.                                               *)
LoopPeeks(l) ==
    /\ loop[l].pc = "head"
    /\ IF queue = <<>> /\ pending = 0
       THEN /\ sending' = FALSE
            /\ loop' = [loop EXCEPT ![l].pc = "finally"]
            /\ UNCHANGED pending
       ELSE /\ loop' = [loop EXCEPT ![l] =
                  [pc |-> IF queue # <<>> THEN "record" ELSE "frame",
                   record |-> IF queue # <<>> THEN Head(queue) ELSE 0,
                   frame |-> pending,
                   seq |-> 0]]
            /\ pending' = 0
            /\ UNCHANGED sending
    /\ UNCHANGED <<snapshotVars, acked, complete, seqVars, updates, queue, caller, open, toViewer, toServer, relayVars>>

LoopClearsLate(l) ==
    /\ loop[l].pc = "head"
    /\ IF queue = <<>> /\ pending = 0
       THEN /\ loop' = [loop EXCEPT ![l].pc = "finally"]
            /\ UNCHANGED <<queue, pending>>
       ELSE /\ loop' = [loop EXCEPT ![l] =
                  [pc |-> IF queue # <<>> THEN "record" ELSE "frame",
                   record |-> IF queue # <<>> THEN Head(queue) ELSE 0,
                   frame |-> pending,
                   seq |-> 0]]
            /\ queue' = IF queue # <<>> THEN Tail(queue) ELSE queue
            /\ pending' = 0
    /\ UNCHANGED <<snapshotVars, acked, complete, seqVars, updates, sending, caller, open, toViewer, toServer, relayVars>>

LoopTakes(l) ==
    /\ loop[l].pc = "head"
    /\ IF queue = <<>> /\ pending = 0
       THEN /\ sending' = FALSE
            /\ loop' = [loop EXCEPT ![l].pc = "finally"]
            /\ UNCHANGED <<queue, pending>>
       ELSE /\ loop' = [loop EXCEPT ![l] =
                  [pc |-> IF queue # <<>> THEN "record" ELSE "frame",
                   record |-> IF queue # <<>> THEN Head(queue) ELSE 0,
                   frame |-> pending,
                   seq |-> 0]]
            /\ queue' = IF queue # <<>> THEN Tail(queue) ELSE queue
            /\ pending' = 0
            /\ UNCHANGED sending
    /\ UNCHANGED <<snapshotVars, acked, complete, seqVars, updates, caller, open, toViewer, toServer, relayVars>>

(* Interlocked.Increment and SendAsync are two steps outside the lock. *)
LoopNumbersRecord(l) ==
    /\ loop[l].pc = "record"
    /\ nextRecord' = nextRecord + 1
    /\ loop' = [loop EXCEPT ![l].pc = "sendRecord", ![l].seq = nextRecord']
    /\ UNCHANGED <<snapshotVars, acked, complete, nextFrame, updates, queue, pending, sending, caller,
                   open, toViewer, toServer, relayVars>>

LoopSendsRecord(l) ==
    /\ loop[l].pc = "sendRecord"
    /\ open
    /\ Send("record", loop[l].seq, loop[l].record)
    /\ loop' = [loop EXCEPT ![l].pc = IF loop[l].frame # 0 THEN "frame" ELSE "head"]
    /\ Release(l)
    /\ UNCHANGED <<snapshotVars, acked, complete, seqVars, updates, queue, pending, sending,
                   open, toServer, relayVars>>

LoopNumbersFrame(l) ==
    /\ loop[l].pc = "frame"
    /\ nextFrame' = nextFrame + 1
    /\ loop' = [loop EXCEPT ![l].pc = "sendFrame", ![l].seq = nextFrame']
    /\ UNCHANGED <<snapshotVars, acked, complete, nextRecord, updates, queue, pending, sending, caller,
                   open, toViewer, toServer, relayVars>>

LoopSendsFrame(l) ==
    /\ loop[l].pc = "sendFrame"
    /\ open
    /\ Send("frame", loop[l].seq, loop[l].frame)
    /\ loop' = [loop EXCEPT ![l].pc = "head"]
    /\ Release(l)
    /\ UNCHANGED <<snapshotVars, acked, complete, seqVars, updates, queue, pending, sending,
                   open, toServer, relayVars>>

LoopBreaks(l) ==
    /\ loop[l].pc \in {"sendRecord", "sendFrame"}
    /\ ~open
    /\ loop' = [loop EXCEPT ![l].pc = "finally"]
    /\ UNCHANGED <<snapshotVars, acked, complete, seqVars, updates, queue, pending, sending, caller,
                   open, toViewer, toServer, relayVars>>

(* The finally block clears SendingFrame once more. *)
LoopEnds(l) ==
    /\ loop[l].pc = "finally"
    /\ sending' = FALSE
    /\ loop' = [loop EXCEPT ![l] = Idle]
    /\ Release(l)
    /\ UNCHANGED <<snapshotVars, acked, complete, seqVars, updates, queue, pending,
                   open, toViewer, toServer, relayVars>>

-----------------------------------------------------------------------------
(* MirrorEventRelay.OnMessage. *)

Receive(kind) ==
    /\ toViewer # <<>>
    /\ Head(toViewer).kind = kind
    /\ toViewer' = Tail(toViewer)

(* Mutated form: chunks are assembled by index alone, whatever their        *)
(* sequence.                                                                *)
HandleChunkAnySeq ==
    LET m == Head(toViewer)
        a == IF assembly.next = 0 THEN [seq |-> m.seq, next |-> 0] ELSE assembly
    IN
    /\ Receive("chunk")
    /\ IF a.next # Chunks /\ a.next = m.body
       THEN /\ assembly' = [a EXCEPT !.next = @ + 1]
            /\ toServer' = Append(toServer, m.body)
       ELSE assembly' = a /\ toServer' = toServer
    /\ UNCHANGED <<snapshotVars, acked, complete, seqVars, streamVars, open, gate, feed>>

HandleChunk ==
    LET m == Head(toViewer)
        a == IF assembly.next = 0 \/ assembly.seq # m.seq THEN [seq |-> m.seq, next |-> 0] ELSE assembly
    IN
    /\ Receive("chunk")
    /\ IF a.next # Chunks /\ a.next = m.body
       THEN /\ assembly' = [a EXCEPT !.next = @ + 1]
            /\ toServer' = Append(toServer, m.body)
       ELSE assembly' = a /\ toServer' = toServer
    /\ UNCHANGED <<snapshotVars, acked, complete, seqVars, streamVars, open, gate, feed>>

FinalizeSnapshot ==
    /\ Receive("done")
    /\ gate' = IF assembly = [seq |-> Head(toViewer).seq, next |-> Chunks] THEN Head(toViewer).seq ELSE gate
    /\ assembly' = [seq |-> 0, next |-> 0]
    /\ UNCHANGED <<snapshotVars, acked, complete, seqVars, streamVars, open, toServer, feed>>

HandleRecord ==
    /\ Receive("record")
    /\ feed' = Append(feed, <<Head(toViewer).seq, Head(toViewer).body>>)
    /\ UNCHANGED <<snapshotVars, acked, complete, seqVars, streamVars, open, toServer, assembly, gate>>

(* A frame the gate lets through is shown; neither case changes the state. *)
HandleFrame ==
    /\ Receive("frame")
    /\ UNCHANGED <<snapshotVars, acked, complete, seqVars, streamVars, open, toServer, relayVars>>

-----------------------------------------------------------------------------
SnapshotSender ==
    BuildEnds \/ StartAttempt \/ SendChunk \/ ChunkAcked \/ AckTimeout
    \/ SendDone \/ CompleteSnapshot \/ SnapshotBreaks

ViewerLoop(l) ==
    LoopTakes(l) \/ LoopNumbersRecord(l) \/ LoopSendsRecord(l) \/ LoopNumbersFrame(l)
    \/ LoopSendsFrame(l) \/ LoopBreaks(l) \/ LoopEnds(l)

Relay == HandleChunk \/ FinalizeSnapshot \/ HandleRecord \/ HandleFrame

Next ==
    SnapshotSender \/ OnAck \/ SessionCloses \/ Update \/ Relay
    \/ \E l \in Loops : ViewerLoop(l)

(* Tasks that can go on do, and the socket delivers; nobody owes an update  *)
(* or a close.                                                              *)
Fairness ==
    /\ WF_vars(SnapshotSender) /\ WF_vars(OnAck) /\ WF_vars(Relay)
    /\ \A l \in Loops : WF_vars(ViewerLoop(l))

Spec == Init /\ [][Next]_vars
FairSpec == Spec /\ Fairness

-----------------------------------------------------------------------------
Wire == [kind : {"chunk", "done", "record", "frame"}, seq : Nat, body : Nat]
LoopStates ==
    [pc : {"idle", "head", "record", "sendRecord", "frame", "sendFrame", "finally"},
     record : 0..MaxUpdates, frame : 0..MaxUpdates, seq : Nat]

TypeOK ==
    /\ snap \in {"build", "start", "chunk", "ack", "done", "complete", "sent", "failed"}
    /\ attempt \in 0..MaxAttempts
    /\ index \in 0..Chunks
    /\ acked \subseteq 0..Chunks-1
    /\ complete \in BOOLEAN
    /\ nextRecord \in Nat /\ nextFrame \in Nat
    /\ updates \in 0..MaxUpdates
    /\ queue \in Seq(1..MaxUpdates)
    /\ pending \in 0..MaxUpdates
    /\ sending \in BOOLEAN
    /\ loop \in [Loops -> LoopStates]
    /\ caller \in Loops \cup {NoLoop}
    /\ open \in BOOLEAN
    /\ toViewer \in Seq(Wire)
    /\ toServer \in Seq(0..Chunks-1)
    /\ assembly \in [seq : 0..MaxAttempts, next : 0..Chunks]
    /\ gate \in 0..MaxAttempts
    /\ feed \in Seq(Nat \X (1..MaxUpdates))

(* Whatever the acks of earlier attempts did, the end of the snapshot finds *)
(* its own attempt wholly assembled at the viewer.                          *)
DoneFindsAssembly ==
    toViewer # <<>> /\ Head(toViewer).kind = "done"
        => assembly = [seq |-> Head(toViewer).seq, next |-> Chunks]

(* No frame is lost at the gate: when the viewer receives one, a snapshot   *)
(* older than the frame has been applied.                                   *)
FramePassesGate ==
    toViewer # <<>> /\ Head(toViewer).kind = "frame"
        => gate # 0 /\ Head(toViewer).seq > gate

(* Two loops never send the same update, nor two records the same number.   *)
RecordOnce ==
    \A i, j \in 1..Len(feed) : i # j => feed[i][1] # feed[j][1] /\ feed[i][2] # feed[j][2]

(* No lost wake-up: while something waits to be sent to a live viewer, a    *)
(* loop is there to send it.                                                *)
NothingStranded ==
    open /\ (queue # <<>> \/ pending # 0) =>
        \E l \in Loops : loop[l].pc \notin {"idle", "finally"}

(* Acks of abandoned attempts, late chunks and frames in between: a snapshot *)
(* that is said to be done is the one the viewer holds, and the frames behind *)
(* it pass its gate.                                                          *)
SnapshotFits == DoneFindsAssembly /\ FramePassesGate

(* Overlapping sender loops neither repeat an update nor leave one behind. *)
RecordsKept == RecordOnce /\ NothingStranded

(* "a never-skipped recording feed with monotonic sequence"                 *)
(* (MirrorStreamService.cs:12-13): records arrive in sequence order.        *)
FeedInOrder ==
    \A i, j \in 1..Len(feed) : i < j => feed[i][1] < feed[j][1] /\ feed[i][2] < feed[j][2]

(* SendSnapshotAsync gives up or finishes: an ack that never comes, a late  *)
(* one and a close are all accounted for.                                   *)
SnapshotSettles == <>(snap \in {"sent", "failed"})

(* Never skipped: an update queued for a viewer reaches its feed, unless    *)
(* the session closes.                                                      *)
RecordDelivered ==
    \A u \in 1..MaxUpdates :
        (\E i \in 1..Len(queue) : queue[i] = u)
            ~> (~open \/ \E i \in 1..Len(feed) : feed[i][2] = u)
=============================================================================
