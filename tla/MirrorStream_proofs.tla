------------------------- MODULE MirrorStream_proofs -------------------------
(***************************************************************************)
(* TypeOK, SnapshotFits and RecordsKept hold for any snapshot, number of   *)
(* attempts, of sender loops and of updates, and any interleaving.  The    *)
(* inductive invariant follows the messages on the wire: the chunks on it  *)
(* continue one another from what the assembler holds, so the sender's     *)
(* place in the snapshot tells what the viewer will hold; the end of the   *)
(* snapshot and what is streamed come behind them; and each update, like   *)
(* each record number, is at one place among the queue, the hands of the   *)
(* loops, the wire and the feed.                                           *)
(***************************************************************************)
EXTENDS MirrorStream, SequenceTheorems, TLAPS

(* What the relay's assembler holds when message i is the next to arrive. *)
Before(i) ==
    IF i = 1 THEN assembly
    ELSE [seq |-> toViewer[i - 1].seq, next |-> toViewer[i - 1].body + 1]

(* A chunk continues what came before it, or begins a later attempt. *)
Follows(m, a) ==
    \/ m.seq = a.seq /\ m.body = a.next
    \/ m.seq > a.seq /\ m.body = 0

DoneSent == snap \in {"complete", "sent"}

(* The chunks on the wire follow one another, nothing but chunks is ahead   *)
(* of them, and the end of the snapshot comes after a whole attempt.        *)
MessageFits(i) ==
    LET m == toViewer[i] IN
    /\ m.kind \in {"chunk", "done"} =>
           gate = 0 /\ \A j \in 1..(i - 1) : toViewer[j].kind = "chunk"
    /\ m.kind = "chunk" =>
           m.seq \in 1..attempt /\ m.body \in 0..(Chunks - 1) /\ Follows(m, Before(i))
    /\ m.kind = "done" =>
           DoneSent /\ m.seq = attempt /\ Before(i) = [seq |-> attempt, next |-> Chunks]
    /\ m.kind \in {"record", "frame"} =>
           /\ complete
           /\ IF i = 1 THEN gate # 0 ELSE toViewer[i - 1].kind # "chunk"
    /\ m.kind = "record" => m.body \in 1..updates
    /\ m.kind = "frame" => m.seq > attempt

WireFits == \A i \in DOMAIN toViewer : MessageFits(i)

(* What the assembler holds once the wire is empty, if only chunks are on it. *)
After == Before(Len(toViewer) + 1)

(* Where the sender is tells what the relay will hold, and once the end of   *)
(* the snapshot is sent no chunk comes last.                                *)
SenderFits ==
    /\ snap \in {"build", "start"} => attempt < MaxAttempts /\ After.seq <= attempt
    /\ snap \in {"chunk", "ack"} => attempt > 0 /\ index < Chunks
    /\ snap = "chunk" =>
           \/ After = [seq |-> attempt, next |-> index]
           \/ After.seq < attempt /\ index = 0
    /\ snap = "ack" => After = [seq |-> attempt, next |-> index + 1]
    /\ snap = "done" => attempt > 0 /\ After = [seq |-> attempt, next |-> Chunks]
    /\ DoneSent =>
           /\ attempt > 0
           /\ IF toViewer = <<>> THEN gate # 0 ELSE toViewer[Len(toViewer)].kind # "chunk"
    /\ gate # 0 => DoneSent /\ gate = attempt

(* Nothing is streamed before the snapshot is complete. *)
QuietBefore ==
    /\ complete => snap = "sent" /\ nextFrame >= attempt
    /\ ~complete =>
           /\ queue = <<>> /\ pending = 0 /\ feed = <<>> /\ ~sending
           /\ \A l \in Loops : loop[l].pc = "idle"

Holds(l) == loop[l].pc \in {"record", "sendRecord"}

(* An update is in one place at a time: the queue, a loop's hands, the wire *)
(* or the feed.                                                             *)
SamplesDiffer ==
    /\ \A i, j \in DOMAIN queue : i # j => queue[i] # queue[j]
    /\ \A i \in DOMAIN queue :
           /\ queue[i] <= updates
           /\ \A l \in Loops : Holds(l) => loop[l].record # queue[i]
           /\ \A j \in DOMAIN toViewer : toViewer[j].kind = "record" => toViewer[j].body # queue[i]
           /\ \A j \in DOMAIN feed : feed[j][2] # queue[i]
    /\ \A l \in Loops : Holds(l) =>
           /\ loop[l].record \in 1..updates
           /\ \A k \in Loops : Holds(k) /\ k # l => loop[k].record # loop[l].record
           /\ \A j \in DOMAIN toViewer : toViewer[j].kind = "record" => toViewer[j].body # loop[l].record
           /\ \A j \in DOMAIN feed : feed[j][2] # loop[l].record
    /\ \A i \in DOMAIN toViewer : toViewer[i].kind = "record" =>
           /\ \A j \in DOMAIN toViewer :
                  toViewer[j].kind = "record" /\ j # i => toViewer[j].body # toViewer[i].body
           /\ \A j \in DOMAIN feed : feed[j][2] # toViewer[i].body
    /\ \A i \in DOMAIN feed : feed[i][2] <= updates
    /\ \A i, j \in DOMAIN feed : i # j => feed[i][2] # feed[j][2]

(* A record number is given once. *)
NumbersDiffer ==
    /\ \A l \in Loops : loop[l].pc = "sendFrame" => loop[l].seq > attempt
    /\ \A l \in Loops : loop[l].pc = "sendRecord" =>
           /\ loop[l].seq <= nextRecord
           /\ \A k \in Loops : loop[k].pc = "sendRecord" /\ k # l => loop[k].seq # loop[l].seq
           /\ \A j \in DOMAIN toViewer : toViewer[j].kind = "record" => toViewer[j].seq # loop[l].seq
           /\ \A j \in DOMAIN feed : feed[j][1] # loop[l].seq
    /\ \A i \in DOMAIN toViewer : toViewer[i].kind = "record" =>
           /\ toViewer[i].seq <= nextRecord
           /\ \A j \in DOMAIN toViewer :
                  toViewer[j].kind = "record" /\ j # i => toViewer[j].seq # toViewer[i].seq
           /\ \A j \in DOMAIN feed : feed[j][1] # toViewer[i].seq
    /\ \A i \in DOMAIN feed : feed[i][1] <= nextRecord
    /\ \A i, j \in DOMAIN feed : i # j => feed[i][1] # feed[j][1]

(* While the viewer is there, the flag, the queue and the pending frame are *)
(* each in the care of a loop that will look at them again.                 *)
Cared ==
    open /\ (sending \/ queue # <<>> \/ pending # 0) =>
        \E l \in Loops : loop[l].pc \notin {"idle", "finally"}

IInv ==
    /\ TypeOK /\ WireFits /\ SenderFits /\ QuietBefore
    /\ SamplesDiffer /\ NumbersDiffer /\ Cared

-----------------------------------------------------------------------------
USE ChunksAssumption, AttemptsAssumption, UpdatesAssumption, LoopAssumption
    DEF snapshotVars, seqVars, streamVars, relayVars

(* A message goes behind the others. *)
LEMMA WireAppend ==
    ASSUME toViewer \in Seq(Wire), NEW m \in Wire, toViewer' = Append(toViewer, m)
    PROVE  /\ DOMAIN toViewer = 1..Len(toViewer) /\ Len(toViewer) \in Nat
           /\ DOMAIN toViewer' = 1..(Len(toViewer) + 1)
           /\ toViewer' \in Seq(Wire) /\ Len(toViewer') = Len(toViewer) + 1 /\ toViewer' # <<>>
           /\ \A i \in 1..Len(toViewer) : toViewer'[i] = toViewer[i] /\ toViewer[i] \in Wire
           /\ toViewer'[Len(toViewer) + 1] = m
  BY AppendProperties, LenProperties, EmptySeq

(* The first message arrives, and the others move up. *)
LEMMA WireTail ==
    ASSUME toViewer \in Seq(Wire), NEW kind, Receive(kind)
    PROVE  /\ DOMAIN toViewer = 1..Len(toViewer) /\ Len(toViewer) \in Nat \ {0}
           /\ DOMAIN toViewer' = 1..(Len(toViewer) - 1)
           /\ toViewer' \in Seq(Wire) /\ Len(toViewer') = Len(toViewer) - 1
           /\ toViewer' = <<>> <=> Len(toViewer) = 1
           /\ \A i \in 1..Len(toViewer) : toViewer[i] \in Wire
           /\ \A i \in 1..(Len(toViewer) - 1) : toViewer'[i] = toViewer[i + 1]
           /\ Head(toViewer) = toViewer[1] /\ toViewer[1].kind = kind
<1>1. toViewer # <<>> /\ toViewer' = Tail(toViewer) /\ Head(toViewer).kind = kind
  BY DEF Receive
<1>2. /\ Len(toViewer) \in Nat \ {0} /\ DOMAIN toViewer = 1..Len(toViewer)
      /\ Head(toViewer) = toViewer[1]
      /\ \A i \in 1..Len(toViewer) : toViewer[i] \in Wire
  BY <1>1, LenProperties, EmptySeq
<1>3. /\ toViewer' \in Seq(Wire) /\ Len(toViewer') = Len(toViewer) - 1
      /\ \A i \in 1..Len(toViewer') : toViewer'[i] = toViewer[i + 1]
  BY <1>1, HeadTailProperties
<1>4. toViewer' = <<>> <=> Len(toViewer') = 0
  BY <1>3, EmptySeq
<1> QED BY <1>1, <1>2, <1>3, <1>4, LenProperties

(* The initial state: nothing on the wire, nothing queued. *)
LEMMA InitIInv == Init => IInv
<1> SUFFICES ASSUME Init PROVE IInv
  OBVIOUS
<1>1. \A S : <<>> \in Seq(S) /\ Len(<<>>) = 0
  BY EmptySeq
<1>2. TypeOK
  <2>1. \A l \in Loops : Idle \in LoopStates
    BY DEF Idle, LoopStates
  <2>2. [l \in Loops |-> Idle] \in [Loops -> LoopStates]
    BY <2>1
  <2>3. /\ [seq |-> 0, next |-> 0] \in [seq : 0..MaxAttempts, next : 0..Chunks]
        /\ 0 \in 0..MaxAttempts /\ 0 \in 0..Chunks /\ 0 \in 0..MaxUpdates
    OBVIOUS
  <2> QED BY <1>1, <2>2, <2>3 DEF Init, TypeOK
<1>3. WireFits /\ SenderFits
  BY <1>1 DEF Init, WireFits, SenderFits, After, Before, DoneSent
<1>4. QuietBefore /\ Cared
  BY DEF Init, QuietBefore, Cared, Idle
<1>5. SamplesDiffer /\ NumbersDiffer
  BY <1>1 DEF Init, SamplesDiffer, NumbersDiffer, Holds, Idle
<1> QED BY <1>2, <1>3, <1>4, <1>5 DEF IInv

(* Every step keeps each variable in its type. *)
LEMMA TypeStep == IInv /\ [Next]_vars => TypeOK'
<1> SUFFICES ASSUME IInv, [Next]_vars PROVE TypeOK'
  OBVIOUS
<1> USE DEF TypeOK
<1>0. /\ TypeOK /\ SenderFits /\ QuietBefore /\ SamplesDiffer /\ WireFits
      /\ Wire' = Wire /\ LoopStates' = LoopStates
  BY DEF IInv, Wire, LoopStates
<1>1. /\ loop \in [Loops -> LoopStates] /\ pending \in 0..MaxUpdates
      /\ nextRecord \in Nat /\ nextFrame \in Nat
      /\ \A l \in Loops : loop[l].record \in Nat /\ loop[l].frame \in Nat /\ loop[l].seq \in Nat
  BY <1>0, SMTT(20) DEF LoopStates
<1>2. CASE SnapshotSender
  <2>1. CASE BuildEnds BY <1>0, <2>1 DEF BuildEnds
  <2>2. CASE StartAttempt
    BY <1>0, <2>2 DEF StartAttempt, SenderFits
  <2>3. CASE SendChunk
    <3> DEFINE m == [kind |-> "chunk", seq |-> attempt, body |-> index]
    <3>1. m \in Wire /\ toViewer' = Append(toViewer, m)
      BY <1>0, <1>1, <2>3 DEF SendChunk, Send, Message, Wire
    <3>2. toViewer' \in Seq(Wire)
      BY <1>0, <3>1, WireAppend
    <3> QED BY <1>0, <2>3, <3>2 DEF SendChunk
  <2>4. CASE ChunkAcked
    BY <1>0, <2>4 DEF ChunkAcked, SenderFits
  <2>5. CASE AckTimeout BY <1>0, <2>5 DEF AckTimeout
  <2>6. CASE SendDone
    <3> DEFINE m == [kind |-> "done", seq |-> attempt, body |-> 0]
    <3>1. m \in Wire /\ toViewer' = Append(toViewer, m)
      BY <1>0, <1>1, <2>6 DEF SendDone, Send, Message, Wire
    <3>2. toViewer' \in Seq(Wire)
      BY <1>0, <3>1, WireAppend
    <3> QED BY <1>0, <2>6, <3>2 DEF SendDone
  <2>7. CASE CompleteSnapshot BY <1>0, <2>7 DEF CompleteSnapshot
  <2>8. CASE SnapshotBreaks BY <1>0, <2>8 DEF SnapshotBreaks
  <2> QED BY <1>2, <2>1, <2>2, <2>3, <2>4, <2>5, <2>6, <2>7, <2>8 DEF SnapshotSender
<1>3. CASE OnAck
  <2>1. toServer # <<>> => Head(toServer) \in 0..(Chunks - 1) /\ Tail(toServer) \in Seq(0..(Chunks - 1))
    BY <1>0, HeadTailProperties
  <2> QED BY <1>0, <1>3, <2>1 DEF OnAck
<1>4. CASE SessionCloses BY <1>0, <1>4 DEF SessionCloses
<1>5. CASE Update
  <2>1. updates' \in 1..MaxUpdates
    <3>1. updates \in 0..MaxUpdates /\ updates < MaxUpdates /\ updates' = updates + 1
      BY <1>0, <1>5 DEF Update
    <3> HIDE DEF TypeOK
    <3> QED BY <3>1
  <2>2. CASE ~(open /\ complete)
    BY <1>0, <1>5, <2>1, <2>2, SMTT(20) DEF Update
  <2>3. CASE open /\ complete
    <3>1. Append(queue, updates') \in Seq(1..MaxUpdates)
      BY <1>0, <2>1, AppendProperties
    <3>2. /\ queue' = Append(queue, updates') /\ pending' = updates' /\ sending' = TRUE
          /\ UNCHANGED <<snapshotVars, acked, complete, seqVars, open, toViewer, toServer, relayVars>>
      BY <1>5, <2>3 DEF Update
    <3>3. loop' \in [Loops -> LoopStates] /\ caller' \in Loops \cup {NoLoop}
      <4>1. \/ UNCHANGED <<loop, caller>>
            \/ \E l \in Loops : loop' = [loop EXCEPT ![l].pc = "head"] /\ caller' = l
        BY <1>5, <2>3 DEF Update
      <4>2. ASSUME NEW l \in Loops, loop' = [loop EXCEPT ![l].pc = "head"]
            PROVE  loop' \in [Loops -> LoopStates]
        <5>1. [loop[l] EXCEPT !.pc = "head"] \in LoopStates
          BY <1>1 DEF LoopStates
        <5> HIDE DEF TypeOK
        <5> QED BY <1>1, <4>2, <5>1
      <4> QED BY <1>0, <4>1, <4>2
    <3> QED BY <1>0, <2>1, <3>1, <3>2, <3>3
  <2> QED BY <2>2, <2>3
<1>6. ASSUME NEW l \in Loops, ViewerLoop(l) PROVE TypeOK'
  <2>1. CASE LoopTakes(l)
    <3>1. queue # <<>> => Head(queue) \in 1..MaxUpdates /\ Tail(queue) \in Seq(1..MaxUpdates)
      BY <1>0, HeadTailProperties
    <3>2. \E s \in LoopStates : loop' = [loop EXCEPT ![l] = s]
      <4>1. CASE queue = <<>> /\ pending = 0
        <5> DEFINE s == [loop[l] EXCEPT !.pc = "finally"]
        <5>1. loop' = [loop EXCEPT ![l] = s]
          BY <2>1, <4>1 DEF LoopTakes
        <5>2. s \in LoopStates
          BY <1>1 DEF LoopStates
        <5> QED BY <5>1, <5>2
      <4>2. CASE ~(queue = <<>> /\ pending = 0)
        <5> DEFINE s == [pc |-> IF queue # <<>> THEN "record" ELSE "frame",
                         record |-> IF queue # <<>> THEN Head(queue) ELSE 0,
                         frame |-> pending, seq |-> 0]
        <5>1. loop' = [loop EXCEPT ![l] = s]
          BY <2>1, <4>2 DEF LoopTakes
        <5>2. s \in LoopStates
          <6> HIDE DEF TypeOK
          <6> QED BY <1>1, <3>1 DEF LoopStates
        <5> QED BY <5>1, <5>2
      <4> QED BY <4>1, <4>2
    <3>3. queue' \in Seq(1..MaxUpdates) /\ pending' \in 0..MaxUpdates
      <4>1. queue \in Seq(1..MaxUpdates) /\ 0 \in 0..MaxUpdates
        BY <1>0
      <4>2. queue' = queue \/ (queue # <<>> /\ queue' = Tail(queue))
        BY <2>1 DEF LoopTakes
      <4>3. pending' = pending \/ pending' = 0
        BY <2>1 DEF LoopTakes
      <4>4. queue' \in Seq(1..MaxUpdates)
        BY <3>1, <4>1, <4>2
      <4>5. pending' \in 0..MaxUpdates
        BY <1>1, <4>1, <4>3
      <4> QED BY <4>4, <4>5
    <3>5. sending' = FALSE \/ sending' = sending
      BY <2>1 DEF LoopTakes
    <3>4. UNCHANGED <<snapshotVars, acked, complete, seqVars, updates, caller, open, toViewer, toServer, relayVars>>
      BY <2>1 DEF LoopTakes
    <3> QED BY <1>0, <3>2, <3>3, <3>4, <3>5, ZenonT(40)
  <2>2. CASE LoopNumbersRecord(l)
    <3>0. nextRecord' \in Nat
      <4> HIDE DEF TypeOK
      <4> QED BY <1>1, <2>2 DEF LoopNumbersRecord
    <3>1. loop' \in [Loops -> LoopStates]
      <4> HIDE DEF TypeOK
      <4>1. [loop[l] EXCEPT !.pc = "sendRecord", !.seq = nextRecord'] \in LoopStates
        BY <1>1, <3>0 DEF LoopStates
      <4> QED BY <1>1, <2>2, <4>1 DEF LoopNumbersRecord
    <3> QED BY <1>0, <2>2, <3>0, <3>1 DEF LoopNumbersRecord
  <2>3. CASE LoopSendsRecord(l)
    <3> DEFINE m == [kind |-> "record", seq |-> loop[l].seq, body |-> loop[l].record]
    <3>1. loop' \in [Loops -> LoopStates] /\ m \in Wire
      <4> HIDE DEF TypeOK
      <4> QED BY <1>1, <2>3 DEF LoopSendsRecord, LoopStates, Wire
    <3>2. toViewer' \in Seq(Wire)
      BY <1>0, <2>3, <3>1, WireAppend DEF LoopSendsRecord, Send, Message
    <3> QED BY <1>0, <2>3, <3>1, <3>2 DEF LoopSendsRecord, Release
  <2>4. CASE LoopNumbersFrame(l)
    <3>0. nextFrame' \in Nat
      <4> HIDE DEF TypeOK
      <4> QED BY <1>1, <2>4 DEF LoopNumbersFrame
    <3>1. loop' \in [Loops -> LoopStates]
      <4> HIDE DEF TypeOK
      <4>1. [loop[l] EXCEPT !.pc = "sendFrame", !.seq = nextFrame'] \in LoopStates
        BY <1>1, <3>0 DEF LoopStates
      <4> QED BY <1>1, <2>4, <4>1 DEF LoopNumbersFrame
    <3> QED BY <1>0, <2>4, <3>0, <3>1 DEF LoopNumbersFrame
  <2>5. CASE LoopSendsFrame(l)
    <3> DEFINE m == [kind |-> "frame", seq |-> loop[l].seq, body |-> loop[l].frame]
    <3>1. loop' \in [Loops -> LoopStates] /\ m \in Wire
      <4> HIDE DEF TypeOK
      <4> QED BY <1>1, <2>5 DEF LoopSendsFrame, LoopStates, Wire
    <3>2. toViewer' \in Seq(Wire)
      BY <1>0, <2>5, <3>1, WireAppend DEF LoopSendsFrame, Send, Message
    <3> QED BY <1>0, <2>5, <3>1, <3>2 DEF LoopSendsFrame, Release
  <2>6. CASE LoopBreaks(l)
    <3>1. loop' \in [Loops -> LoopStates]
      <4> HIDE DEF TypeOK
      <4> QED BY <1>1, <2>6 DEF LoopBreaks, LoopStates
    <3> QED BY <1>0, <2>6, <3>1 DEF LoopBreaks
  <2>7. CASE LoopEnds(l)
    <3>1. loop' \in [Loops -> LoopStates]
      <4> HIDE DEF TypeOK
      <4> QED BY <1>1, <2>7 DEF LoopEnds, Idle, LoopStates
    <3> QED BY <1>0, <2>7, <3>1 DEF LoopEnds, Release
  <2> QED BY <1>6, <2>1, <2>2, <2>3, <2>4, <2>5, <2>6, <2>7 DEF ViewerLoop
<1>7. CASE Relay
  <2>1. CASE HandleChunk
    <3>1. Receive("chunk") BY <2>1 DEF HandleChunk
    <3>2. /\ toViewer' \in Seq(Wire) /\ Head(toViewer) = toViewer[1] /\ 1 \in DOMAIN toViewer
          /\ toViewer[1].kind = "chunk"
      BY <1>0, <3>1, WireTail
    <3>3. Head(toViewer).seq \in 1..attempt /\ Head(toViewer).body \in 0..(Chunks - 1)
      BY <1>0, <3>2 DEF WireFits, MessageFits
    <3>4. Append(toServer, Head(toViewer).body) \in Seq(0..(Chunks - 1))
      BY <1>0, <3>3, AppendProperties
    <3>5. assembly' \in [seq : 0..MaxAttempts, next : 0..Chunks]
      <4> DEFINE m == Head(toViewer)
                 a == IF assembly.next = 0 \/ assembly.seq # m.seq THEN [seq |-> m.seq, next |-> 0] ELSE assembly
      <4>1. a \in [seq : 0..MaxAttempts, next : 0..Chunks]
        BY <1>0, <3>3, SMTT(20)
      <4>2. assembly' = IF a.next # Chunks /\ a.next = m.body THEN [a EXCEPT !.next = @ + 1] ELSE a
        BY <2>1 DEF HandleChunk
      <4>3. m.body + 1 \in 0..Chunks /\ m.body \in Nat
        BY <3>3
      <4> HIDE DEF a, TypeOK
      <4> QED BY <4>1, <4>2, <4>3
    <3>6. /\ toServer' \in Seq(0..(Chunks - 1))
          /\ UNCHANGED <<snapshotVars, acked, complete, seqVars, streamVars, open, gate, feed>>
      BY <1>0, <2>1, <3>4 DEF HandleChunk
    <3> QED BY <1>0, <3>2, <3>5, <3>6
  <2>2. CASE FinalizeSnapshot
    <3>1. Receive("done") BY <2>2 DEF FinalizeSnapshot
    <3>2. /\ toViewer' \in Seq(Wire) /\ Head(toViewer) = toViewer[1] /\ 1 \in DOMAIN toViewer
          /\ toViewer[1].kind = "done"
      BY <1>0, <3>1, WireTail
    <3>3. Head(toViewer).seq = attempt
      BY <1>0, <3>2 DEF WireFits, MessageFits
    <3> QED BY <1>0, <2>2, <3>2, <3>3, SMTT(20) DEF FinalizeSnapshot
  <2>3. CASE HandleRecord
    <3>1. Receive("record") BY <2>3 DEF HandleRecord
    <3>2. /\ toViewer' \in Seq(Wire) /\ Head(toViewer) = toViewer[1] /\ 1 \in DOMAIN toViewer
          /\ toViewer[1].kind = "record" /\ toViewer[1] \in Wire
      BY <1>0, <3>1, WireTail, SMTT(20)
    <3>3. Head(toViewer).body \in 1..MaxUpdates /\ Head(toViewer).seq \in Nat
      BY <1>0, <3>2, SMTT(20) DEF WireFits, MessageFits, Wire
    <3>4. Append(feed, <<Head(toViewer).seq, Head(toViewer).body>>) \in Seq(Nat \X (1..MaxUpdates))
      BY <1>0, <3>3, AppendProperties
    <3> QED BY <1>0, <2>3, <3>2, <3>4 DEF HandleRecord
  <2>4. CASE HandleFrame
    <3>1. Receive("frame") BY <2>4 DEF HandleFrame
    <3>2. toViewer' \in Seq(Wire)
      BY <1>0, <3>1, WireTail
    <3> QED BY <1>0, <2>4, <3>2 DEF HandleFrame
  <2> QED BY <1>7, <2>1, <2>2, <2>3, <2>4 DEF Relay
<1>8. CASE UNCHANGED vars BY <1>0, <1>8 DEF vars
<1> QED BY <1>2, <1>3, <1>4, <1>5, <1>6, <1>7, <1>8 DEF Next

(* A message on the wire is a chunk, an end, a record or a frame with its   *)
(* numbers.                                                                 *)
LEMMA WireTyped ==
    ASSUME TypeOK
    PROVE  /\ DOMAIN toViewer = 1..Len(toViewer) /\ Len(toViewer) \in Nat
           /\ toViewer = <<>> <=> Len(toViewer) = 0
           /\ \A i \in 1..Len(toViewer) :
                  /\ toViewer[i] \in Wire
                  /\ toViewer[i].kind \in {"chunk", "done", "record", "frame"}
                  /\ toViewer[i].seq \in Nat
                  /\ toViewer[i].body \in Nat
           /\ assembly = [seq |-> assembly.seq, next |-> assembly.next]
           /\ assembly.seq \in Nat /\ assembly.next \in 0..Chunks
           /\ attempt \in 0..MaxAttempts /\ index \in 0..Chunks /\ gate \in Nat
           /\ updates \in Nat /\ nextFrame \in Nat /\ nextRecord \in Nat
<1>1. toViewer \in Seq(Wire)
  BY DEF TypeOK
<1>2. /\ DOMAIN toViewer = 1..Len(toViewer) /\ Len(toViewer) \in Nat
      /\ toViewer = <<>> <=> Len(toViewer) = 0
      /\ \A i \in 1..Len(toViewer) : toViewer[i] \in Wire
  BY <1>1, LenProperties, EmptySeq
<1>3. \A m \in Wire : m.kind \in {"chunk", "done", "record", "frame"} /\ m.seq \in Nat /\ m.body \in Nat
  BY DEF Wire
<1>4. /\ assembly = [seq |-> assembly.seq, next |-> assembly.next]
      /\ assembly.seq \in Nat /\ assembly.next \in 0..Chunks
  BY DEF TypeOK
<1>5. /\ attempt \in 0..MaxAttempts /\ index \in 0..Chunks /\ gate \in Nat
      /\ updates \in Nat /\ nextFrame \in Nat /\ nextRecord \in Nat
  BY DEF TypeOK
<1> QED BY <1>2, <1>3, <1>4, <1>5

(* The snapshot's sender, the wire and the relay's assembler stay in step,  *)
(* whatever acks arrive.                                                    *)
LEMMA WireStep == IInv /\ [Next]_vars => WireFits' /\ SenderFits'
<1> SUFFICES ASSUME IInv, [Next]_vars PROVE WireFits' /\ SenderFits'
  OBVIOUS
<1>0. TypeOK /\ WireFits /\ SenderFits /\ QuietBefore /\ SamplesDiffer /\ NumbersDiffer
  BY DEF IInv
<1>1. toViewer \in Seq(Wire) /\ TypeOK'
  BY <1>0, TypeStep DEF TypeOK
<1>2. /\ DOMAIN toViewer = 1..Len(toViewer) /\ Len(toViewer) \in Nat
      /\ toViewer = <<>> <=> Len(toViewer) = 0
      /\ \A i \in 1..Len(toViewer) :
             /\ toViewer[i] \in Wire
             /\ toViewer[i].kind \in {"chunk", "done", "record", "frame"}
             /\ toViewer[i].seq \in Nat
             /\ toViewer[i].body \in Nat
      /\ assembly = [seq |-> assembly.seq, next |-> assembly.next]
      /\ assembly.seq \in Nat /\ assembly.next \in 0..Chunks
      /\ attempt \in 0..MaxAttempts /\ index \in 0..Chunks /\ gate \in Nat
      /\ updates \in Nat /\ nextFrame \in Nat /\ nextRecord \in Nat
  BY <1>0, WireTyped
<1>3. ASSUME UNCHANGED <<toViewer, assembly, gate, attempt, complete>>,
             DoneSent => DoneSent', updates' \in Nat, updates' >= updates
      PROVE  WireFits' /\ After' = After
  <2>1. \A i : Before(i)' = Before(i)
    BY <1>3 DEF Before
  <2>2. ASSUME NEW i \in DOMAIN toViewer PROVE MessageFits(i)'
    <3>1. MessageFits(i) /\ toViewer[i] \in Wire
      BY <1>0, <1>2 DEF WireFits
    <3>2. Before(i)' = Before(i)
      BY <2>1
    <3> QED BY <1>2, <1>3, <3>1, <3>2, SMTT(20) DEF MessageFits, Follows
  <2>3. After' = After
    BY <1>3 DEF After, Before
  <2> QED BY <1>3, <2>2, <2>3 DEF WireFits
<1>4. ASSUME UNCHANGED <<toViewer, assembly, gate, attempt, index, snap, complete>>,
             updates' \in Nat, updates' >= updates
      PROVE  WireFits' /\ SenderFits'
  <2>1. WireFits' /\ After' = After
    BY <1>3, <1>4 DEF DoneSent
  <2> QED BY <1>0, <1>4, <2>1 DEF SenderFits, DoneSent
<1>5. ASSUME NEW m \in Wire, toViewer' = Append(toViewer, m),
             UNCHANGED <<assembly, gate, attempt, complete, updates>>, DoneSent => DoneSent'
      PROVE  /\ DOMAIN toViewer' = 1..(Len(toViewer) + 1)
             /\ Len(toViewer') = Len(toViewer) + 1 /\ toViewer' # <<>>
             /\ toViewer'[Len(toViewer) + 1] = m
             /\ \A i \in 1..Len(toViewer) : toViewer'[i] = toViewer[i] /\ MessageFits(i)'
             /\ \A i \in 1..(Len(toViewer) + 1) : Before(i)' = Before(i)
             /\ After' = [seq |-> m.seq, next |-> m.body + 1]
  <2>1. /\ DOMAIN toViewer' = 1..(Len(toViewer) + 1)
        /\ Len(toViewer') = Len(toViewer) + 1 /\ toViewer' # <<>>
        /\ toViewer'[Len(toViewer) + 1] = m
        /\ \A i \in 1..Len(toViewer) : toViewer'[i] = toViewer[i]
    BY <1>1, <1>5, WireAppend
  <2>2. ASSUME NEW i \in 1..(Len(toViewer) + 1) PROVE Before(i)' = Before(i)
    <3>1. i # 1 => i - 1 \in 1..Len(toViewer)
      BY <1>2, SMTT(20)
    <3> QED BY <1>5, <2>1, <3>1 DEF Before
  <2>3. ASSUME NEW i \in 1..Len(toViewer) PROVE MessageFits(i)'
    <3>1. MessageFits(i) /\ toViewer'[i] = toViewer[i] /\ Before(i)' = Before(i)
      BY <1>0, <1>2, <2>1, <2>2 DEF WireFits
    <3>2. \A j \in 1..(i - 1) : toViewer'[j] = toViewer[j]
      BY <1>2, <2>1, SMTT(20)
    <3>3. i # 1 => i - 1 \in 1..(i - 1)
      BY <1>2
    <3> QED BY <1>2, <1>5, <3>1, <3>2, <3>3 DEF MessageFits, Follows
  <2>4. After' = [seq |-> m.seq, next |-> m.body + 1]
    <3>1. Len(toViewer') + 1 # 1 /\ (Len(toViewer') + 1) - 1 = Len(toViewer) + 1
      BY <1>2, <2>1
    <3> QED BY <2>1, <3>1 DEF After, Before
  <2> QED BY <2>1, <2>2, <2>3, <2>4
<1>6. ASSUME NEW m \in Wire, toViewer' = Append(toViewer, m),
             NEW n, n = Len(toViewer) + 1, MessageFits(n)',
             UNCHANGED <<assembly, gate, attempt, complete, updates>>, DoneSent => DoneSent'
      PROVE  WireFits'
  BY <1>2, <1>5, <1>6 DEF WireFits
<1>7. CASE SnapshotSender
  <2>1. CASE BuildEnds
    <3>1. UNCHANGED <<toViewer, assembly, gate, attempt, complete, updates>> /\ ~DoneSent
      BY <2>1 DEF BuildEnds, DoneSent
    <3>2. WireFits' /\ After' = After
      BY <1>2, <1>3, <3>1
    <3> QED BY <1>0, <2>1, <3>1, <3>2 DEF BuildEnds, SenderFits, DoneSent
  <2>2. CASE StartAttempt
    <3>1. snap = "start" /\ snap' = "chunk" /\ attempt' = attempt + 1 /\ index' = 0
          /\ UNCHANGED <<toViewer, assembly, gate, complete, updates>>
      BY <2>2 DEF StartAttempt
    <3>2. \A i : Before(i)' = Before(i)
      BY <3>1 DEF Before
    <3>3. ASSUME NEW i \in DOMAIN toViewer PROVE MessageFits(i)'
      <4>1. MessageFits(i) /\ toViewer[i].kind = "chunk"
        BY <1>0, <1>2, <3>1 DEF WireFits, MessageFits, DoneSent, QuietBefore
      <4>2. Before(i)' = Before(i)
        BY <3>2
      <4> QED BY <1>2, <3>1, <4>1, <4>2, SMTT(20) DEF MessageFits, Follows
    <3>4. WireFits'
      BY <3>1, <3>3 DEF WireFits
    <3>5. After' = After
      BY <3>1 DEF After, Before
    <3>6. /\ After.seq <= attempt /\ attempt < MaxAttempts /\ gate = 0
          /\ After.seq \in Nat
      BY <1>0, <1>2, <3>1 DEF SenderFits, DoneSent, After, Before
    <3> QED BY <1>2, <3>1, <3>4, <3>5, <3>6 DEF SenderFits, DoneSent
  <2>3. CASE SendChunk
    <3> DEFINE m == [kind |-> "chunk", seq |-> attempt, body |-> index]
    <3>0. PICK n \in Nat : n = Len(toViewer) + 1
      BY <1>2
    <3>1. m \in Wire /\ toViewer' = Append(toViewer, m)
      BY <1>2, <2>3 DEF SendChunk, Send, Message, Wire
    <3>2. /\ snap = "chunk" /\ snap' = "ack"
          /\ UNCHANGED <<attempt, index, assembly, gate, complete, updates>>
      BY <2>3 DEF SendChunk
    <3>3. \A i \in 1..Len(toViewer) : toViewer[i].kind = "chunk"
      BY <1>0, <1>2, <3>2 DEF WireFits, MessageFits, DoneSent, QuietBefore
    <3>4. gate = 0 /\ attempt > 0 /\ index < Chunks
      BY <1>0, <3>2 DEF SenderFits, DoneSent
    <3>5. m.kind = "chunk" /\ m.seq = attempt /\ m.body = index
      OBVIOUS
    <3> HIDE DEF m
    <3>6. /\ Len(toViewer') = n /\ toViewer' # <<>> /\ toViewer'[n] = m
          /\ \A i \in 1..Len(toViewer) : toViewer'[i] = toViewer[i]
          /\ Before(n)' = Before(n)
          /\ After' = [seq |-> m.seq, next |-> m.body + 1]
      BY <1>2, <1>5, <3>0, <3>1, <3>2, SMTT(20) DEF DoneSent
    <3>7. Follows(m, Before(n))
      BY <1>0, <1>2, <3>0, <3>2, <3>5 DEF SenderFits, After, Follows
    <3>8. MessageFits(n)'
      <4>1. \A j \in 1..(n - 1) : toViewer'[j].kind = "chunk"
        BY <1>2, <3>0, <3>3, <3>6
      <4> QED BY <1>2, <3>2, <3>4, <3>5, <3>6, <3>7, <4>1 DEF MessageFits, Follows
    <3>9. WireFits'
      BY <1>6, <3>0, <3>1, <3>2, <3>8 DEF DoneSent
    <3>10. SenderFits'
      BY <1>0, <3>2, <3>4, <3>5, <3>6 DEF SenderFits, DoneSent
    <3> QED BY <3>9, <3>10
  <2>4. CASE ChunkAcked
    <3>1. UNCHANGED <<toViewer, assembly, gate, attempt, complete, updates>>
          /\ snap = "ack" /\ index' = index + 1
          /\ snap' = IF index' = Chunks THEN "done" ELSE "chunk"
      BY <2>4 DEF ChunkAcked
    <3>2. WireFits' /\ After' = After
      BY <1>2, <1>3, <3>1 DEF DoneSent
    <3> QED BY <1>0, <1>2, <3>1, <3>2 DEF SenderFits, DoneSent
  <2>5. CASE AckTimeout
    <3>1. UNCHANGED <<toViewer, assembly, gate, attempt, index, complete, updates>>
          /\ snap = "ack" /\ IF attempt < MaxAttempts THEN snap' = "start" ELSE snap' = "failed"
      BY <2>5 DEF AckTimeout
    <3>2. WireFits' /\ After' = After
      BY <1>2, <1>3, <3>1 DEF DoneSent
    <3> QED BY <1>0, <1>2, <3>1, <3>2 DEF SenderFits, DoneSent
  <2>6. CASE SendDone
    <3> DEFINE m == [kind |-> "done", seq |-> attempt, body |-> 0]
    <3>0. PICK n \in Nat : n = Len(toViewer) + 1
      BY <1>2
    <3>1. m \in Wire /\ toViewer' = Append(toViewer, m)
      BY <1>2, <2>6 DEF SendDone, Send, Message, Wire
    <3>2. /\ snap = "done" /\ snap' = "complete"
          /\ UNCHANGED <<attempt, index, assembly, gate, complete, updates>>
      BY <2>6 DEF SendDone
    <3>3. \A i \in 1..Len(toViewer) : toViewer[i].kind = "chunk"
      BY <1>0, <1>2, <3>2 DEF WireFits, MessageFits, DoneSent, QuietBefore
    <3>4. gate = 0 /\ attempt > 0
      BY <1>0, <3>2 DEF SenderFits, DoneSent
    <3>5. m.kind = "done" /\ m.seq = attempt
      OBVIOUS
    <3> HIDE DEF m
    <3>6. /\ Len(toViewer') = n /\ toViewer' # <<>> /\ toViewer'[n] = m
          /\ \A i \in 1..Len(toViewer) : toViewer'[i] = toViewer[i]
          /\ Before(n)' = Before(n)
      BY <1>2, <1>5, <3>0, <3>1, <3>2 DEF DoneSent
    <3>7. Before(n) = [seq |-> attempt, next |-> Chunks]
      BY <1>0, <1>2, <3>0, <3>2 DEF SenderFits, After
    <3>8. MessageFits(n)'
      <4>1. \A j \in 1..(n - 1) : toViewer'[j].kind = "chunk"
        BY <1>2, <3>0, <3>3, <3>6
      <4> QED BY <1>2, <3>2, <3>4, <3>5, <3>6, <3>7, <4>1 DEF MessageFits, DoneSent
    <3>9. WireFits'
      BY <1>6, <3>0, <3>1, <3>2, <3>8 DEF DoneSent
    <3>10. SenderFits'
      BY <1>0, <3>2, <3>4, <3>5, <3>6 DEF SenderFits, DoneSent
    <3> QED BY <3>9, <3>10
  <2>7. CASE CompleteSnapshot
    <3>1. /\ snap = "complete" /\ snap' = "sent" /\ complete' = TRUE
          /\ UNCHANGED <<toViewer, assembly, gate, attempt, index, updates>>
      BY <2>7 DEF CompleteSnapshot
    <3>2. \A i : Before(i)' = Before(i)
      BY <3>1 DEF Before
    <3>3. ASSUME NEW i \in DOMAIN toViewer PROVE MessageFits(i)'
      <4>1. MessageFits(i)
        BY <1>0 DEF WireFits
      <4>2. Before(i)' = Before(i)
        BY <3>2
      <4> QED BY <1>2, <3>1, <4>1, <4>2 DEF MessageFits, Follows, DoneSent
    <3>4. WireFits'
      BY <3>1, <3>3 DEF WireFits
    <3> QED BY <1>0, <3>1, <3>4 DEF SenderFits, DoneSent
  <2>8. CASE SnapshotBreaks
    <3>1. UNCHANGED <<toViewer, assembly, gate, attempt, complete, updates>> /\ ~DoneSent
          /\ snap' = "failed"
      BY <2>8 DEF SnapshotBreaks, DoneSent
    <3>2. WireFits'
      BY <1>2, <1>3, <3>1
    <3> QED BY <1>0, <3>1, <3>2 DEF SenderFits, DoneSent
  <2> QED BY <1>7, <2>1, <2>2, <2>3, <2>4, <2>5, <2>6, <2>7, <2>8 DEF SnapshotSender
<1>8. CASE OnAck \/ SessionCloses
  BY <1>2, <1>4, <1>8 DEF OnAck, SessionCloses
<1>9. CASE Update
  BY <1>2, <1>4, <1>9, SMTT(20) DEF Update
<1>10. ASSUME NEW m \in Wire, toViewer' = Append(toViewer, m),
              m.kind \in {"record", "frame"}, complete,
              m.kind = "record" => m.body \in 1..updates,
              m.kind = "frame" => m.seq > attempt,
              UNCHANGED <<snap, attempt, index, assembly, gate, complete, updates>>
       PROVE  WireFits' /\ SenderFits'
  <2>0. PICK n \in Nat : n = Len(toViewer) + 1
    BY <1>2
  <2>1. snap = "sent"
    BY <1>0, <1>10 DEF QuietBefore
  <2>2. /\ Len(toViewer') = n /\ toViewer' # <<>> /\ toViewer'[n] = m
        /\ \A i \in 1..Len(toViewer) : toViewer'[i] = toViewer[i]
    BY <1>2, <1>5, <1>10, <2>0 DEF DoneSent
  <2>3. IF n = 1 THEN gate # 0 ELSE toViewer'[n - 1].kind # "chunk"
    BY <1>0, <1>2, <2>0, <2>1, <2>2, SMTT(20) DEF SenderFits, DoneSent
  <2>4. MessageFits(n)'
    BY <1>2, <1>10, <2>2, <2>3 DEF MessageFits
  <2>5. WireFits'
    BY <1>6, <1>10, <2>0, <2>4 DEF DoneSent
  <2>6. SenderFits'
    BY <1>0, <1>10, <2>1, <2>2 DEF SenderFits, DoneSent
  <2> QED BY <2>5, <2>6
<1>11. ASSUME NEW l \in Loops, ViewerLoop(l) PROVE WireFits' /\ SenderFits'
  <2>1. loop[l].seq \in Nat /\ loop[l].record \in Nat /\ loop[l].frame \in Nat
    BY <1>0, SMTT(20) DEF TypeOK, LoopStates
  <2>2. CASE LoopSendsRecord(l)
    <3> DEFINE m == [kind |-> "record", seq |-> loop[l].seq, body |-> loop[l].record]
    <3>1. m \in Wire /\ toViewer' = Append(toViewer, m)
      BY <2>1, <2>2 DEF LoopSendsRecord, Send, Message, Wire
    <3>2. m.kind = "record" /\ m.body \in 1..updates /\ complete
      BY <1>0, <2>2 DEF LoopSendsRecord, SamplesDiffer, Holds, QuietBefore
    <3>3. UNCHANGED <<snap, attempt, index, assembly, gate, complete, updates>>
      BY <2>2 DEF LoopSendsRecord
    <3> HIDE DEF m
    <3> QED BY <1>10, <3>1, <3>2, <3>3
  <2>3. CASE LoopSendsFrame(l)
    <3> DEFINE m == [kind |-> "frame", seq |-> loop[l].seq, body |-> loop[l].frame]
    <3>1. m \in Wire /\ toViewer' = Append(toViewer, m)
      BY <2>1, <2>3 DEF LoopSendsFrame, Send, Message, Wire
    <3>2. m.kind = "frame" /\ m.seq > attempt /\ complete
      BY <1>0, <2>3 DEF LoopSendsFrame, NumbersDiffer, QuietBefore
    <3>3. UNCHANGED <<snap, attempt, index, assembly, gate, complete, updates>>
      BY <2>3 DEF LoopSendsFrame
    <3> HIDE DEF m
    <3> QED BY <1>10, <3>1, <3>2, <3>3
  <2>4. CASE LoopTakes(l) \/ LoopNumbersRecord(l) \/ LoopNumbersFrame(l) \/ LoopBreaks(l) \/ LoopEnds(l)
    <3>1. UNCHANGED <<toViewer, assembly, gate, attempt, index, snap, complete, updates>>
      BY <2>4 DEF LoopTakes, LoopNumbersRecord, LoopNumbersFrame, LoopBreaks, LoopEnds
    <3> QED BY <1>2, <1>4, <3>1
  <2> QED BY <1>11, <2>2, <2>3, <2>4 DEF ViewerLoop
<1>12. ASSUME NEW kind, Receive(kind)
       PROVE  /\ Len(toViewer) \in Nat \ {0} /\ 1 \in DOMAIN toViewer
              /\ DOMAIN toViewer' = 1..(Len(toViewer) - 1)
              /\ Len(toViewer') = Len(toViewer) - 1
              /\ toViewer' = <<>> <=> Len(toViewer) = 1
              /\ \A i \in 1..(Len(toViewer) - 1) : toViewer'[i] = toViewer[i + 1]
              /\ Head(toViewer) = toViewer[1] /\ toViewer[1].kind = kind
              /\ MessageFits(1)
  <2>1. /\ Len(toViewer) \in Nat \ {0} /\ 1 \in DOMAIN toViewer
        /\ DOMAIN toViewer' = 1..(Len(toViewer) - 1)
        /\ Len(toViewer') = Len(toViewer) - 1
        /\ toViewer' = <<>> <=> Len(toViewer) = 1
        /\ \A i \in 1..(Len(toViewer) - 1) : toViewer'[i] = toViewer[i + 1]
        /\ Head(toViewer) = toViewer[1] /\ toViewer[1].kind = kind
    BY <1>1, <1>12, WireTail
  <2> QED BY <1>0, <2>1 DEF WireFits
<1>13. CASE HandleChunk
  <2>1. /\ Len(toViewer) \in Nat \ {0} /\ 1 \in DOMAIN toViewer
        /\ DOMAIN toViewer' = 1..(Len(toViewer) - 1)
        /\ Len(toViewer') = Len(toViewer) - 1
        /\ toViewer' = <<>> <=> Len(toViewer) = 1
        /\ \A i \in 1..(Len(toViewer) - 1) : toViewer'[i] = toViewer[i + 1]
        /\ Head(toViewer) = toViewer[1] /\ toViewer[1].kind = "chunk"
        /\ MessageFits(1)
    BY <1>12, <1>13 DEF HandleChunk
  <2>2. Before(1) = assembly
    BY DEF Before
  <2>3. /\ gate = 0 /\ toViewer[1].seq \in 1..attempt /\ toViewer[1].body \in 0..(Chunks - 1)
        /\ Follows(toViewer[1], assembly)
    BY <2>1, <2>2 DEF MessageFits
  <2>4. assembly' = [seq |-> toViewer[1].seq, next |-> toViewer[1].body + 1]
    <3> DEFINE a == IF assembly.next = 0 \/ assembly.seq # Head(toViewer).seq
                    THEN [seq |-> Head(toViewer).seq, next |-> 0] ELSE assembly
    <3>1. a = [seq |-> toViewer[1].seq, next |-> toViewer[1].body]
      BY <1>2, <2>1, <2>3, SMTT(20) DEF Follows
    <3>2. assembly' = IF a.next # Chunks /\ a.next = Head(toViewer).body THEN [a EXCEPT !.next = @ + 1] ELSE a
      BY <1>13 DEF HandleChunk
    <3> HIDE DEF a
    <3> QED BY <2>1, <2>3, <3>1, <3>2
  <2>5. UNCHANGED <<snap, attempt, index, gate, complete, updates>>
    BY <1>13 DEF HandleChunk
  <2>6. ASSUME NEW i \in 1..Len(toViewer) PROVE Before(i)' = Before(i + 1)
    <3>1. i + 1 # 1 /\ (i + 1) - 1 = i
      BY <1>2
    <3>2. CASE i = 1
      BY <2>4, <3>1, <3>2 DEF Before
    <3>3. CASE i # 1
      <4>1. i - 1 \in 1..(Len(toViewer) - 1) /\ (i - 1) + 1 = i
        BY <1>2, <3>3, SMTT(20)
      <4> QED BY <2>1, <3>1, <3>3, <4>1 DEF Before
    <3> QED BY <3>2, <3>3
  <2>7. ASSUME NEW i \in 1..(Len(toViewer) - 1) PROVE MessageFits(i)'
    <3>1. i + 1 \in DOMAIN toViewer /\ i \in 1..Len(toViewer)
      BY <1>2, <2>1, SMTT(20)
    <3>2. MessageFits(i + 1) /\ Before(i)' = Before(i + 1) /\ toViewer'[i] = toViewer[i + 1]
      BY <1>0, <2>1, <2>6, <3>1 DEF WireFits
    <3>3. ASSUME \A j \in 1..((i + 1) - 1) : toViewer[j].kind = "chunk"
          PROVE  \A j \in 1..(i - 1) : toViewer'[j].kind = "chunk"
      <4>1. ASSUME NEW j \in 1..(i - 1) PROVE toViewer'[j].kind = "chunk"
        <5>1. j \in Nat /\ 1 <= j /\ j <= i - 1 /\ i \in Nat /\ i <= Len(toViewer) - 1
              /\ Len(toViewer) \in Nat
          BY <2>1
        <5>2. j \in 1..(Len(toViewer) - 1) /\ j + 1 \in 1..((i + 1) - 1)
          BY <5>1
        <5> QED BY <2>1, <3>3, <5>2
      <4> QED BY <4>1
    <3>4. ASSUME toViewer[i + 1].kind \in {"record", "frame"}
          PROVE  i # 1 /\ toViewer'[i - 1].kind # "chunk"
      <4>1. toViewer[i].kind # "chunk"
        BY <2>1, <3>2, <3>4 DEF MessageFits
      <4>2. i # 1
        BY <2>1, <4>1
      <4>3. i - 1 \in 1..(Len(toViewer) - 1) /\ (i - 1) + 1 = i
        BY <2>1, <4>2
      <4>4. toViewer'[i - 1] = toViewer[i]
        BY <2>1, <4>3
      <4> QED BY <4>1, <4>2, <4>4
    <3> QED BY <2>5, <3>2, <3>3, <3>4 DEF MessageFits, DoneSent
  <2>8. WireFits'
    BY <2>1, <2>7 DEF WireFits
  <2>9. After' = After
    <3>1. PICK n \in 1..Len(toViewer) : n = Len(toViewer)
      BY <2>1
    <3>2. Before(n)' = Before(n + 1)
      BY <2>6
    <3>3. Len(toViewer') + 1 = n
      BY <2>1, <3>1
    <3> QED BY <3>1, <3>2, <3>3 DEF After
  <2>10. toViewer' = <<>> => ~DoneSent
    <3>1. DoneSent /\ Len(toViewer) = 1 => toViewer[1].kind # "chunk"
      BY <1>0, <1>2 DEF SenderFits
    <3> QED BY <2>1, <3>1
  <2>11. toViewer' # <<>> => toViewer'[Len(toViewer')] = toViewer[Len(toViewer)]
    BY <2>1
  <2> QED BY <1>0, <1>2, <2>3, <2>5, <2>8, <2>9, <2>10, <2>11 DEF SenderFits, DoneSent
<1>14. ASSUME Receive("done") \/ Receive("record") \/ Receive("frame"),
              gate' # 0, gate' = attempt,
              UNCHANGED <<snap, attempt, index, complete, updates>>
       PROVE  WireFits' /\ SenderFits'
  <2>1. PICK kind \in {"done", "record", "frame"} : Receive(kind)
    BY <1>14
  <2>2. /\ Len(toViewer) \in Nat \ {0} /\ 1 \in DOMAIN toViewer
        /\ DOMAIN toViewer' = 1..(Len(toViewer) - 1)
        /\ Len(toViewer') = Len(toViewer) - 1
        /\ toViewer' = <<>> <=> Len(toViewer) = 1
        /\ \A i \in 1..(Len(toViewer) - 1) : toViewer'[i] = toViewer[i + 1]
        /\ toViewer[1].kind \in {"done", "record", "frame"}
        /\ MessageFits(1)
    BY <1>12, <2>1
  <2>3. ASSUME NEW i \in 2..Len(toViewer) PROVE MessageFits(i) /\ toViewer[i].kind \in {"record", "frame"}
    <3>1. MessageFits(i) /\ 1 \in 1..(i - 1) /\ toViewer[i].kind \in {"chunk", "done", "record", "frame"}
      BY <1>0, <1>2 DEF WireFits
    <3> QED BY <2>2, <3>1 DEF MessageFits
  <2>4. ASSUME NEW i \in 1..(Len(toViewer) - 1) PROVE MessageFits(i)'
    <3>1. i + 1 \in 2..Len(toViewer) /\ toViewer'[i] = toViewer[i + 1]
      BY <1>2, <2>2, SMTT(20)
    <3>2. MessageFits(i + 1) /\ toViewer[i + 1].kind \in {"record", "frame"}
      BY <2>3, <3>1
    <3>3. i # 1 => toViewer'[i - 1].kind # "chunk"
      <4>1. i # 1 => i - 1 \in 1..(Len(toViewer) - 1) /\ i \in 2..Len(toViewer) /\ (i - 1) + 1 = i
        BY <1>2, <2>2, SMTT(20)
      <4> QED BY <2>2, <2>3, <4>1
    <3> QED BY <1>14, <3>1, <3>2, <3>3 DEF MessageFits
  <2>5. WireFits'
    BY <2>2, <2>4 DEF WireFits
  <2>6. DoneSent
    BY <1>0, <2>2 DEF MessageFits, DoneSent, QuietBefore
  <2>7. toViewer' # <<>> => toViewer'[Len(toViewer')].kind # "chunk"
    <3>1. toViewer' # <<>> => /\ Len(toViewer) \in 2..Len(toViewer) /\ Len(toViewer') \in 1..(Len(toViewer) - 1)
                              /\ Len(toViewer') + 1 = Len(toViewer)
      BY <2>2
    <3> QED BY <2>2, <2>3, <3>1
  <2> QED BY <1>0, <1>2, <1>14, <2>5, <2>6, <2>7 DEF SenderFits, DoneSent
<1>15. CASE FinalizeSnapshot
  <2>1. /\ MessageFits(1) /\ toViewer[1].kind = "done" /\ Head(toViewer) = toViewer[1]
        /\ Receive("done")
    BY <1>12, <1>15 DEF FinalizeSnapshot
  <2>2. toViewer[1].seq = attempt /\ assembly = [seq |-> attempt, next |-> Chunks] /\ DoneSent
    BY <2>1 DEF MessageFits, Before
  <2>3. gate' = attempt /\ UNCHANGED <<snap, attempt, index, complete, updates>>
    BY <1>15, <2>1, <2>2 DEF FinalizeSnapshot
  <2>4. attempt # 0
    BY <1>0, <1>2, <2>2 DEF SenderFits
  <2> QED BY <1>14, <2>1, <2>3, <2>4
<1>16. CASE HandleRecord \/ HandleFrame
  <2>1. /\ MessageFits(1) /\ toViewer[1].kind \in {"record", "frame"}
        /\ Receive("record") \/ Receive("frame")
    BY <1>12, <1>16 DEF HandleRecord, HandleFrame
  <2>2. gate # 0 /\ gate = attempt
    BY <1>0, <2>1 DEF MessageFits, SenderFits
  <2>3. UNCHANGED <<snap, attempt, index, gate, complete, updates>>
    BY <1>16 DEF HandleRecord, HandleFrame
  <2> QED BY <1>14, <2>1, <2>2, <2>3
<1>17. CASE UNCHANGED vars
  BY <1>2, <1>4, <1>17 DEF vars
<1> QED BY <1>7, <1>8, <1>9, <1>11, <1>13, <1>15, <1>16, <1>17 DEF Next, Relay

(* Before the snapshot is complete nothing is queued, sent or fed. *)
LEMMA QuietStep == IInv /\ [Next]_vars => QuietBefore'
<1> SUFFICES ASSUME IInv, [Next]_vars PROVE QuietBefore'
  OBVIOUS
<1>0. TypeOK /\ WireFits /\ QuietBefore
  BY DEF IInv
<1>1. /\ attempt \in Nat /\ nextFrame \in Nat /\ loop \in [Loops -> LoopStates]
      /\ \A l \in Loops : loop[l].pc # "idle" => complete
  BY <1>0 DEF TypeOK, QuietBefore
<1> USE DEF QuietBefore
<1>2. ASSUME UNCHANGED <<complete, snap, nextFrame, attempt, queue, pending, feed, sending, loop>>
      PROVE  QuietBefore'
  BY <1>0, <1>2
<1>3. CASE SnapshotSender
  BY <1>0, <1>1, <1>3 DEF SnapshotSender, BuildEnds, StartAttempt, SendChunk, ChunkAcked, AckTimeout,
         SendDone, CompleteSnapshot, SnapshotBreaks
<1>4. CASE OnAck \/ SessionCloses
  BY <1>2, <1>4 DEF OnAck, SessionCloses
<1>5. CASE Update
  BY <1>0, <1>1, <1>5 DEF Update
<1>6. ASSUME NEW l \in Loops, ViewerLoop(l) PROVE QuietBefore'
  BY <1>0, <1>1, <1>6 DEF ViewerLoop, LoopTakes, LoopNumbersRecord, LoopSendsRecord, LoopNumbersFrame,
         LoopSendsFrame, LoopBreaks, LoopEnds
<1>7. CASE Relay
  <2>1. CASE HandleRecord
    <3>1. Receive("record") BY <2>1 DEF HandleRecord
    <3>2. toViewer[1].kind = "record" /\ 1 \in DOMAIN toViewer
      <4>1. toViewer \in Seq(Wire)
        BY <1>0 DEF TypeOK
      <4> QED BY <3>1, <4>1, WireTail
    <3>3. complete
      BY <1>0, <3>2 DEF WireFits, MessageFits
    <3> QED BY <1>0, <2>1, <3>3 DEF HandleRecord
  <2>2. CASE HandleChunk \/ FinalizeSnapshot \/ HandleFrame
    BY <1>2, <2>2 DEF HandleChunk, FinalizeSnapshot, HandleFrame
  <2> QED BY <1>7, <2>1, <2>2 DEF Relay
<1>8. CASE UNCHANGED vars
  BY <1>2, <1>8 DEF vars
<1> QED BY <1>3, <1>4, <1>5, <1>6, <1>7, <1>8 DEF Next

(* A loop leaves the viewer only with nothing left to send, or with a dead  *)
(* socket.                                                                  *)
LEMMA CaredStep == IInv /\ [Next]_vars => Cared'
<1> SUFFICES ASSUME IInv, [Next]_vars PROVE Cared'
  OBVIOUS
<1>0. loop \in [Loops -> LoopStates] /\ Cared
  BY DEF IInv, TypeOK
<1> USE DEF Cared
<1>1. ASSUME open' => open, UNCHANGED <<sending, queue, pending, loop>> PROVE Cared'
  BY <1>0, <1>1
<1>2. CASE SnapshotSender
  BY <1>1, <1>2 DEF SnapshotSender, BuildEnds, StartAttempt, SendChunk, ChunkAcked, AckTimeout,
         SendDone, CompleteSnapshot, SnapshotBreaks
<1>3. CASE OnAck \/ SessionCloses
  BY <1>1, <1>3 DEF OnAck, SessionCloses
<1>4. CASE Update
  <2>1. CASE ~(open /\ complete)
    BY <1>1, <1>4, <2>1 DEF Update
  <2>2. CASE open /\ complete /\ sending
    BY <1>0, <1>4, <2>2 DEF Update
  <2>3. CASE open /\ complete /\ ~sending
    <3>1. PICK l \in Loops : loop' = [loop EXCEPT ![l].pc = "head"]
      BY <1>4, <2>3 DEF Update
    <3>2. loop'[l].pc = "head"
      BY <1>0, <3>1
    <3> QED BY <3>2
  <2> QED BY <2>1, <2>2, <2>3
<1>5. ASSUME NEW l \in Loops, ViewerLoop(l) PROVE Cared'
  <2>1. CASE LoopTakes(l)
    <3>1. CASE queue = <<>> /\ pending = 0
      <4>1. queue' = <<>> /\ pending' = 0 /\ ~sending'
        BY <2>1, <3>1 DEF LoopTakes
      <4> QED BY <4>1
    <3>2. CASE ~(queue = <<>> /\ pending = 0)
      <4>1. loop'[l].pc \in {"record", "frame"}
        BY <1>0, <2>1, <3>2 DEF LoopTakes
      <4> QED BY <4>1
    <3> QED BY <3>1, <3>2
  <2>2. CASE LoopNumbersRecord(l) \/ LoopSendsRecord(l) \/ LoopNumbersFrame(l) \/ LoopSendsFrame(l)
    <3>1. LoopNumbersRecord(l) => loop'[l].pc = "sendRecord"
      BY <1>0 DEF LoopNumbersRecord, LoopStates
    <3>2. LoopSendsRecord(l) => loop'[l].pc \in {"frame", "head"}
      BY <1>0 DEF LoopSendsRecord
    <3>3. LoopNumbersFrame(l) => loop'[l].pc = "sendFrame"
      BY <1>0 DEF LoopNumbersFrame, LoopStates
    <3>4. LoopSendsFrame(l) => loop'[l].pc = "head"
      BY <1>0 DEF LoopSendsFrame
    <3> QED BY <2>2, <3>1, <3>2, <3>3, <3>4
  <2>3. CASE LoopBreaks(l)
    <3>1. ~open'
      BY <2>3 DEF LoopBreaks
    <3> QED BY <3>1
  <2>4. CASE LoopEnds(l)
    <3>1. /\ UNCHANGED <<open, queue, pending>> /\ ~sending'
          /\ loop[l].pc = "finally" /\ \A k \in Loops : k # l => loop'[k] = loop[k]
      BY <1>0, <2>4 DEF LoopEnds
    <3> QED BY <1>0, <3>1
  <2> QED BY <1>5, <2>1, <2>2, <2>3, <2>4 DEF ViewerLoop
<1>6. CASE Relay
  BY <1>1, <1>6 DEF Relay, HandleChunk, FinalizeSnapshot, HandleRecord, HandleFrame
<1>7. CASE UNCHANGED vars
  BY <1>1, <1>7 DEF vars
<1> QED BY <1>2, <1>3, <1>4, <1>5, <1>6, <1>7 DEF Next

(* Updates stay apart when nothing new is taken, numbered or sent: every    *)
(* record on the wire was there before, in one place.                       *)
LEMMA SamplesKept ==
    ASSUME SamplesDiffer, UNCHANGED <<queue, feed>>,
           updates \in Nat, updates' \in Nat, updates <= updates',
           \A l \in Loops : loop[l].record \in Nat,
           \A i \in DOMAIN queue : queue[i] \in Nat,
           \A i \in DOMAIN feed : feed[i][2] \in Nat,
           \A l \in Loops : Holds(l)' => Holds(l) /\ loop'[l].record = loop[l].record,
           NEW f,
           \A i \in DOMAIN toViewer' : toViewer'[i].kind = "record" =>
               f[i] \in DOMAIN toViewer /\ toViewer'[i] = toViewer[f[i]],
           \A i, j \in DOMAIN toViewer' : f[i] = f[j] => i = j
    PROVE  SamplesDiffer'
<1>1. ASSUME NEW i \in DOMAIN queue'
      PROVE  /\ queue'[i] <= updates'
             /\ \A l \in Loops : Holds(l)' => loop'[l].record # queue'[i]
             /\ \A j \in DOMAIN toViewer' : toViewer'[j].kind = "record" => toViewer'[j].body # queue'[i]
             /\ \A j \in DOMAIN feed' : feed'[j][2] # queue'[i]
  BY DEF SamplesDiffer
<1>2. ASSUME NEW l \in Loops, Holds(l)'
      PROVE  /\ loop'[l].record \in 1..updates'
             /\ \A k \in Loops : Holds(k)' /\ k # l => loop'[k].record # loop'[l].record
             /\ \A j \in DOMAIN toViewer' : toViewer'[j].kind = "record" => toViewer'[j].body # loop'[l].record
             /\ \A j \in DOMAIN feed' : feed'[j][2] # loop'[l].record
  BY <1>2 DEF SamplesDiffer
<1>3. ASSUME NEW i \in DOMAIN toViewer', toViewer'[i].kind = "record"
      PROVE  /\ \A j \in DOMAIN toViewer' :
                    toViewer'[j].kind = "record" /\ j # i => toViewer'[j].body # toViewer'[i].body
             /\ \A j \in DOMAIN feed' : feed'[j][2] # toViewer'[i].body
  BY <1>3 DEF SamplesDiffer
<1>4. /\ \A i, j \in DOMAIN queue' : i # j => queue'[i] # queue'[j]
      /\ \A i \in DOMAIN feed' : feed'[i][2] <= updates'
      /\ \A i, j \in DOMAIN feed' : i # j => feed'[i][2] # feed'[j][2]
  BY DEF SamplesDiffer
<1> QED BY <1>1, <1>2, <1>3, <1>4 DEF SamplesDiffer

(* So do the numbers. *)
LEMMA NumbersKept ==
    ASSUME NumbersDiffer, UNCHANGED <<feed, nextRecord, attempt>>,
           \A l \in Loops : loop'[l].pc = "sendRecord" => loop[l].pc = "sendRecord" /\ loop'[l].seq = loop[l].seq,
           \A l \in Loops : loop'[l].pc = "sendFrame" => loop'[l].seq > attempt,
           NEW f,
           \A i \in DOMAIN toViewer' : toViewer'[i].kind = "record" =>
               f[i] \in DOMAIN toViewer /\ toViewer'[i] = toViewer[f[i]],
           \A i, j \in DOMAIN toViewer' : f[i] = f[j] => i = j
    PROVE  NumbersDiffer'
<1>1. ASSUME NEW l \in Loops, loop'[l].pc = "sendRecord"
      PROVE  /\ loop'[l].seq <= nextRecord'
             /\ \A k \in Loops : loop'[k].pc = "sendRecord" /\ k # l => loop'[k].seq # loop'[l].seq
             /\ \A j \in DOMAIN toViewer' : toViewer'[j].kind = "record" => toViewer'[j].seq # loop'[l].seq
             /\ \A j \in DOMAIN feed' : feed'[j][1] # loop'[l].seq
  BY <1>1 DEF NumbersDiffer
<1>2. ASSUME NEW i \in DOMAIN toViewer', toViewer'[i].kind = "record"
      PROVE  /\ toViewer'[i].seq <= nextRecord'
             /\ \A j \in DOMAIN toViewer' :
                    toViewer'[j].kind = "record" /\ j # i => toViewer'[j].seq # toViewer'[i].seq
             /\ \A j \in DOMAIN feed' : feed'[j][1] # toViewer'[i].seq
  BY <1>2 DEF NumbersDiffer
<1>3. /\ \A i \in DOMAIN feed' : feed'[i][1] <= nextRecord'
      /\ \A i, j \in DOMAIN feed' : i # j => feed'[i][1] # feed'[j][1]
  BY DEF NumbersDiffer
<1> QED BY <1>1, <1>2, <1>3 DEF NumbersDiffer

(* However the wire moves, a record on it was on it before, unless one is    *)
(* sent.                                                                    *)
LEMMA RecordsMove ==
    ASSUME TypeOK,
           \/ toViewer' = toViewer
           \/ \E m \in Wire : m.kind # "record" /\ toViewer' = Append(toViewer, m)
           \/ \E kind : Receive(kind)
    PROVE  \E f :
               /\ \A i \in DOMAIN toViewer' : toViewer'[i].kind = "record" =>
                      f[i] \in DOMAIN toViewer /\ toViewer'[i] = toViewer[f[i]]
               /\ \A i, j \in DOMAIN toViewer' : f[i] = f[j] => i = j
<1>0. /\ toViewer \in Seq(Wire) /\ Len(toViewer) \in Nat /\ DOMAIN toViewer = 1..Len(toViewer)
  BY WireTyped DEF TypeOK
<1>1. ASSUME \A i \in DOMAIN toViewer' : toViewer'[i].kind = "record" =>
                 i \in DOMAIN toViewer /\ toViewer'[i] = toViewer[i]
      PROVE  \E f :
               /\ \A i \in DOMAIN toViewer' : toViewer'[i].kind = "record" =>
                      f[i] \in DOMAIN toViewer /\ toViewer'[i] = toViewer[f[i]]
               /\ \A i, j \in DOMAIN toViewer' : f[i] = f[j] => i = j
  <2> DEFINE same == [i \in DOMAIN toViewer' |-> i]
  <2>1. \A i \in DOMAIN toViewer' : same[i] = i
    OBVIOUS
  <2> HIDE DEF same
  <2>2. \A i \in DOMAIN toViewer' : toViewer'[i].kind = "record" =>
            same[i] \in DOMAIN toViewer /\ toViewer'[i] = toViewer[same[i]]
    BY <1>1, <2>1
  <2>3. \A i, j \in DOMAIN toViewer' : same[i] = same[j] => i = j
    BY <2>1
  <2> WITNESS same
  <2> QED BY <2>2, <2>3
<1>2. CASE toViewer' = toViewer
  BY <1>1, <1>2
<1>3. CASE \E m \in Wire : m.kind # "record" /\ toViewer' = Append(toViewer, m)
  <2>1. PICK m \in Wire : m.kind # "record" /\ toViewer' = Append(toViewer, m)
    BY <1>3
  <2>2. /\ DOMAIN toViewer' = 1..(Len(toViewer) + 1)
        /\ \A i \in 1..Len(toViewer) : toViewer'[i] = toViewer[i]
        /\ toViewer'[Len(toViewer) + 1] = m
    BY <1>0, <2>1, WireAppend
  <2>3. \A i \in 1..(Len(toViewer) + 1) : i \in 1..Len(toViewer) \/ i = Len(toViewer) + 1
    BY <1>0
  <2>4. \A i \in DOMAIN toViewer' : toViewer'[i].kind = "record" =>
            i \in DOMAIN toViewer /\ toViewer'[i] = toViewer[i]
    BY <1>0, <2>1, <2>2, <2>3
  <2> QED BY <1>1, <2>4
<1>4. CASE \E kind : Receive(kind)
  <2> DEFINE next == [i \in DOMAIN toViewer' |-> i + 1]
  <2>1. PICK kind : Receive(kind)
    BY <1>4
  <2>2. /\ DOMAIN toViewer' = 1..(Len(toViewer) - 1)
        /\ \A i \in 1..(Len(toViewer) - 1) : toViewer'[i] = toViewer[i + 1]
    BY <1>0, <2>1, WireTail
  <2>3. \A i \in DOMAIN toViewer' : next[i] = i + 1
    OBVIOUS
  <2> HIDE DEF next
  <2>4. \A i \in DOMAIN toViewer' : toViewer'[i].kind = "record" =>
            next[i] \in DOMAIN toViewer /\ toViewer'[i] = toViewer[next[i]]
    <3>1. \A i \in 1..(Len(toViewer) - 1) : i + 1 \in 1..Len(toViewer)
      BY <1>0
    <3> QED BY <1>0, <2>2, <2>3, <3>1
  <2>5. \A i, j \in DOMAIN toViewer' : next[i] = next[j] => i = j
    <3>1. \A i, j \in 1..(Len(toViewer) - 1) : i + 1 = j + 1 => i = j
      BY <1>0
    <3> QED BY <2>2, <2>3, <3>1
  <2> WITNESS next
  <2> QED BY <2>4, <2>5
<1> QED BY <1>2, <1>3, <1>4

(* The types of what the records pass through. *)
LEMMA RecordsTyped ==
    ASSUME TypeOK
    PROVE  /\ loop \in [Loops -> LoopStates]
           /\ \A l \in Loops : loop[l].record \in Nat /\ loop[l].seq \in Nat
           /\ queue \in Seq(1..MaxUpdates) /\ feed \in Seq(Nat \X (1..MaxUpdates))
           /\ Len(queue) \in Nat /\ DOMAIN queue = 1..Len(queue)
           /\ \A i \in DOMAIN queue : queue[i] \in Nat \ {0}
           /\ Len(feed) \in Nat /\ DOMAIN feed = 1..Len(feed)
           /\ \A i \in DOMAIN feed : feed[i][1] \in Nat /\ feed[i][2] \in Nat
<1>1. /\ loop \in [Loops -> LoopStates] /\ queue \in Seq(1..MaxUpdates)
      /\ feed \in Seq(Nat \X (1..MaxUpdates))
  BY DEF TypeOK
<1>2. \A s \in LoopStates : s.record \in Nat /\ s.seq \in Nat
  BY DEF LoopStates
<1>3. /\ Len(queue) \in Nat /\ DOMAIN queue = 1..Len(queue)
      /\ Len(feed) \in Nat /\ DOMAIN feed = 1..Len(feed)
  BY <1>1, LenProperties
<1>4. ASSUME NEW i \in DOMAIN queue PROVE queue[i] \in Nat \ {0}
  <2>1. queue[i] \in 1..MaxUpdates
    BY <1>1, <1>3, ElementOfSeq
  <2> QED BY <2>1
<1>5. ASSUME NEW i \in DOMAIN feed PROVE feed[i][1] \in Nat /\ feed[i][2] \in Nat
  <2>1. feed[i] \in Nat \X (1..MaxUpdates)
    BY <1>1, <1>3, ElementOfSeq
  <2>2. feed[i][2] \in 1..MaxUpdates /\ feed[i][1] \in Nat
    BY <2>1
  <2> QED BY <2>2
<1> QED BY <1>1, <1>2, <1>3, <1>4, <1>5

(* Every step keeps an update in one place. *)
LEMMA SamplesStep == IInv /\ [Next]_vars => SamplesDiffer'
<1> SUFFICES ASSUME IInv, [Next]_vars PROVE SamplesDiffer'
  OBVIOUS
<1>0. TypeOK /\ WireFits /\ QuietBefore /\ SamplesDiffer
  BY DEF IInv
<1>1. /\ updates \in Nat /\ loop \in [Loops -> LoopStates] /\ toViewer \in Seq(Wire)
      /\ queue \in Seq(1..MaxUpdates) /\ feed \in Seq(Nat \X (1..MaxUpdates))
      /\ Len(queue) \in Nat /\ DOMAIN queue = 1..Len(queue)
      /\ Len(feed) \in Nat /\ DOMAIN feed = 1..Len(feed)
      /\ Len(toViewer) \in Nat /\ DOMAIN toViewer = 1..Len(toViewer)
  BY <1>0, RecordsTyped, WireTyped DEF TypeOK
<1>2. /\ \A l \in Loops : loop[l].record \in Nat
      /\ \A i \in DOMAIN queue : queue[i] \in Nat
      /\ \A i \in DOMAIN feed : feed[i][2] \in Nat
      /\ \A i \in DOMAIN toViewer : toViewer[i].body \in Nat
  BY <1>0, RecordsTyped, WireTyped
<1>11. loop \in [Loops -> LoopStates]
  BY <1>1
<1>3. ASSUME UNCHANGED <<queue, feed>>, updates' \in Nat, updates <= updates',
             \A l \in Loops : Holds(l)' => Holds(l) /\ loop'[l].record = loop[l].record,
             \/ toViewer' = toViewer
             \/ \E m \in Wire : m.kind # "record" /\ toViewer' = Append(toViewer, m)
             \/ \E kind : Receive(kind)
      PROVE  SamplesDiffer'
  <2>1. PICK f :
            /\ \A i \in DOMAIN toViewer' : toViewer'[i].kind = "record" =>
                   f[i] \in DOMAIN toViewer /\ toViewer'[i] = toViewer[f[i]]
            /\ \A i, j \in DOMAIN toViewer' : f[i] = f[j] => i = j
    BY <1>0, <1>3, RecordsMove
  <2> QED BY <1>0, <1>1, <1>2, <1>3, <2>1, SamplesKept
<1>4. CASE SnapshotSender
  <2>1. UNCHANGED <<queue, feed, updates, loop>>
    BY <1>4 DEF SnapshotSender, BuildEnds, StartAttempt, SendChunk, ChunkAcked, AckTimeout,
         SendDone, CompleteSnapshot, SnapshotBreaks
  <2>2. \/ toViewer' = toViewer
        \/ toViewer' = Append(toViewer, Message("chunk", attempt, index))
        \/ toViewer' = Append(toViewer, Message("done", attempt, 0))
    BY <1>4 DEF SnapshotSender, BuildEnds, StartAttempt, SendChunk, ChunkAcked, AckTimeout,
         SendDone, CompleteSnapshot, SnapshotBreaks, Send
  <2>3. attempt \in Nat /\ index \in Nat
    BY <1>0 DEF TypeOK
  <2>4. \/ toViewer' = toViewer
        \/ \E m \in Wire : m.kind # "record" /\ toViewer' = Append(toViewer, m)
    BY <2>2, <2>3 DEF Message, Wire
  <2>5. \A l \in Loops : Holds(l)' => Holds(l) /\ loop'[l].record = loop[l].record
    BY <2>1 DEF Holds
  <2> QED BY <1>1, <1>3, <2>1, <2>4, <2>5
<1>5. ASSUME UNCHANGED <<queue, feed, updates, loop>>,
             toViewer' = toViewer \/ \E kind : Receive(kind)
      PROVE  SamplesDiffer'
  BY <1>1, <1>3, <1>5 DEF Holds
<1>6. CASE OnAck \/ SessionCloses
  BY <1>5, <1>6 DEF OnAck, SessionCloses
<1>7. CASE Update
  <2>1. updates' = updates + 1 /\ UNCHANGED <<feed, toViewer>>
    BY <1>7 DEF Update
  <2>2. \A l \in Loops : (Holds(l)' <=> Holds(l)) /\ loop'[l].record = loop[l].record
    <3>1. \/ loop' = loop
          \/ \E k \in Loops : loop[k].pc = "idle" /\ loop' = [loop EXCEPT ![k].pc = "head"]
      BY <1>7 DEF Update
    <3>2. ASSUME NEW k \in Loops, loop[k].pc = "idle", loop' = [loop EXCEPT ![k].pc = "head"]
          PROVE  \A l \in Loops : (Holds(l)' <=> Holds(l)) /\ loop'[l].record = loop[l].record
      BY <1>11, <3>2 DEF Holds, LoopStates
    <3> QED BY <3>1, <3>2 DEF Holds
  <2>3. CASE ~(open /\ complete)
    <3>1. queue' = queue
      BY <1>7, <2>3 DEF Update
    <3> QED BY <1>1, <1>3, <2>1, <2>2, <3>1
  <2>4. CASE open /\ complete
    <3>1. queue' = Append(queue, updates + 1)
      BY <1>7, <2>1, <2>4 DEF Update
    <3>2. /\ DOMAIN queue' = 1..(Len(queue) + 1)
          /\ \A i \in 1..Len(queue) : queue'[i] = queue[i]
          /\ queue'[Len(queue) + 1] = updates + 1
      <4>1. updates' \in 1..MaxUpdates
        <5>1. TypeOK' /\ updates' \in 0..MaxUpdates
          BY TypeStep DEF TypeOK
        <5> QED BY <1>1, <2>1, <5>1
      <4> QED BY <1>1, <2>1, <3>1, <4>1, AppendProperties, LenProperties
    <3>3. \A i \in DOMAIN queue' : (i \in DOMAIN queue /\ queue'[i] = queue[i])
                                   \/ (i = Len(queue) + 1 /\ queue'[i] = updates + 1)
      <4>1. \A i \in 1..(Len(queue) + 1) : i \in 1..Len(queue) \/ i = Len(queue) + 1
        BY <1>1
      <4> QED BY <1>1, <3>2, <4>1
    <3>4. /\ \A i \in DOMAIN queue : queue[i] <= updates
          /\ \A l \in Loops : Holds(l) => loop[l].record <= updates
          /\ \A i \in DOMAIN toViewer : toViewer[i].kind = "record" => toViewer[i].body <= updates
          /\ \A i \in DOMAIN feed : feed[i][2] <= updates
      BY <1>0, <1>1, <1>2 DEF SamplesDiffer, WireFits, MessageFits
    <3>5. \A i, j \in DOMAIN queue' : i # j => queue'[i] # queue'[j]
      BY <1>0, <1>1, <1>2, <3>3, <3>4 DEF SamplesDiffer
    <3>6. ASSUME NEW i \in DOMAIN queue'
          PROVE  /\ queue'[i] <= updates'
                 /\ \A l \in Loops : Holds(l)' => loop'[l].record # queue'[i]
                 /\ \A j \in DOMAIN toViewer' : toViewer'[j].kind = "record" => toViewer'[j].body # queue'[i]
                 /\ \A j \in DOMAIN feed' : feed'[j][2] # queue'[i]
      <4>1. CASE i \in DOMAIN queue /\ queue'[i] = queue[i]
        <5>1. queue'[i] <= updates'
          BY <1>1, <1>2, <2>1, <3>4, <4>1
        <5> QED BY <1>0, <2>1, <2>2, <4>1, <5>1 DEF SamplesDiffer
      <4>2. CASE queue'[i] = updates + 1
        <5>1. \A n \in Nat : n <= updates => n # updates + 1
          BY <1>1
        <5>2. \A l \in Loops : Holds(l)' => loop'[l].record # queue'[i]
          BY <1>2, <2>2, <3>4, <4>2, <5>1
        <5>3. /\ \A j \in DOMAIN toViewer' : toViewer'[j].kind = "record" => toViewer'[j].body # queue'[i]
              /\ \A j \in DOMAIN feed' : feed'[j][2] # queue'[i]
          BY <1>2, <2>1, <3>4, <4>2, <5>1
        <5>4. queue'[i] <= updates'
          BY <1>1, <2>1, <4>2
        <5> QED BY <5>2, <5>3, <5>4
      <4> QED BY <3>3, <4>1, <4>2
    <3>7. ASSUME NEW l \in Loops, Holds(l)'
          PROVE  /\ loop'[l].record \in 1..updates'
                 /\ \A k \in Loops : Holds(k)' /\ k # l => loop'[k].record # loop'[l].record
                 /\ \A j \in DOMAIN toViewer' : toViewer'[j].kind = "record" => toViewer'[j].body # loop'[l].record
                 /\ \A j \in DOMAIN feed' : feed'[j][2] # loop'[l].record
      BY <1>0, <1>1, <2>1, <2>2, <3>7 DEF SamplesDiffer
    <3>8. /\ \A i \in DOMAIN toViewer' : toViewer'[i].kind = "record" =>
                /\ \A j \in DOMAIN toViewer' :
                      toViewer'[j].kind = "record" /\ j # i => toViewer'[j].body # toViewer'[i].body
                /\ \A j \in DOMAIN feed' : feed'[j][2] # toViewer'[i].body
          /\ \A i \in DOMAIN feed' : feed'[i][2] <= updates'
          /\ \A i, j \in DOMAIN feed' : i # j => feed'[i][2] # feed'[j][2]
      BY <1>0, <1>1, <1>2, <2>1, <3>4 DEF SamplesDiffer
    <3> QED BY <3>5, <3>6, <3>7, <3>8 DEF SamplesDiffer
  <2> QED BY <2>3, <2>4
<1>8. ASSUME NEW l \in Loops, ViewerLoop(l) PROVE SamplesDiffer'
  <2>1. CASE LoopTakes(l)
    <3>1. UNCHANGED <<updates, feed, toViewer>>
      BY <2>1 DEF LoopTakes
    <3>2. CASE queue = <<>>
      <4>1. queue' = queue
        BY <2>1, <3>2 DEF LoopTakes
      <4>2. \A k \in Loops : Holds(k)' => Holds(k) /\ loop'[k].record = loop[k].record
        <5>1. /\ loop'[l].pc \in {"finally", "frame"}
              /\ \A k \in Loops : k # l => loop'[k] = loop[k]
          BY <1>11, <2>1, <3>2 DEF LoopTakes, LoopStates
        <5> QED BY <5>1 DEF Holds
      <4> QED BY <1>1, <1>3, <3>1, <4>1, <4>2
    <3>3. CASE queue # <<>>
      <4>1. queue' = Tail(queue) /\ Len(queue) \in Nat \ {0}
        BY <1>1, <2>1, <3>3, EmptySeq DEF LoopTakes
      <4>2. /\ DOMAIN queue' = 1..(Len(queue) - 1)
            /\ \A i \in 1..(Len(queue) - 1) : queue'[i] = queue[i + 1]
            /\ Head(queue) = queue[1]
        BY <1>1, <3>3, <4>1, HeadTailProperties, LenProperties
      <4>3. /\ \A i \in DOMAIN queue' : i + 1 \in DOMAIN queue /\ i + 1 # 1 /\ queue'[i] = queue[i + 1]
            /\ 1 \in DOMAIN queue
        BY <1>1, <4>1, <4>2
      <4>4. /\ Holds(l)' /\ ~Holds(l) /\ loop'[l].record = queue[1]
            /\ \A k \in Loops : k # l => (Holds(k)' <=> Holds(k)) /\ loop'[k].record = loop[k].record
        BY <1>1, <2>1, <3>3, <4>2 DEF LoopTakes, Holds
      <4>5. \A i, j \in DOMAIN queue' : i # j => queue'[i] # queue'[j]
        BY <1>0, <1>1, <4>1, <4>2, <4>3 DEF SamplesDiffer
      <4>6. ASSUME NEW i \in DOMAIN queue'
            PROVE  /\ queue'[i] <= updates'
                   /\ \A k \in Loops : Holds(k)' => loop'[k].record # queue'[i]
                   /\ \A j \in DOMAIN toViewer' : toViewer'[j].kind = "record" => toViewer'[j].body # queue'[i]
                   /\ \A j \in DOMAIN feed' : feed'[j][2] # queue'[i]
        BY <1>0, <3>1, <4>3, <4>4 DEF SamplesDiffer
      <4>7. ASSUME NEW k \in Loops, Holds(k)'
            PROVE  /\ loop'[k].record \in 1..updates'
                   /\ \A n \in Loops : Holds(n)' /\ n # k => loop'[n].record # loop'[k].record
                   /\ \A j \in DOMAIN toViewer' : toViewer'[j].kind = "record" => toViewer'[j].body # loop'[k].record
                   /\ \A j \in DOMAIN feed' : feed'[j][2] # loop'[k].record
        <5>1. queue[1] \in 1..updates
          <6>1. queue[1] \in Nat \ {0} /\ queue[1] <= updates
            BY <1>0, <4>3, RecordsTyped DEF SamplesDiffer
          <6> QED BY <1>1, <6>1
        <5> QED BY <1>0, <3>1, <4>3, <4>4, <4>7, <5>1 DEF SamplesDiffer
      <4>8. /\ \A i \in DOMAIN toViewer' : toViewer'[i].kind = "record" =>
                  /\ \A j \in DOMAIN toViewer' :
                        toViewer'[j].kind = "record" /\ j # i => toViewer'[j].body # toViewer'[i].body
                  /\ \A j \in DOMAIN feed' : feed'[j][2] # toViewer'[i].body
            /\ \A i \in DOMAIN feed' : feed'[i][2] <= updates'
            /\ \A i, j \in DOMAIN feed' : i # j => feed'[i][2] # feed'[j][2]
        BY <1>0, <3>1 DEF SamplesDiffer
      <4> QED BY <4>5, <4>6, <4>7, <4>8 DEF SamplesDiffer
    <3> QED BY <3>2, <3>3
  <2>2. CASE LoopNumbersRecord(l) \/ LoopNumbersFrame(l) \/ LoopBreaks(l) \/ LoopEnds(l)
    <3>1. UNCHANGED <<queue, feed, updates, toViewer>>
      BY <2>2 DEF LoopNumbersRecord, LoopNumbersFrame, LoopBreaks, LoopEnds
    <3>2. \A k \in Loops : Holds(k)' => Holds(k) /\ loop'[k].record = loop[k].record
      <4>1. \A k \in Loops : k # l => loop'[k] = loop[k]
        BY <1>11, <2>2 DEF LoopNumbersRecord, LoopNumbersFrame, LoopBreaks, LoopEnds
      <4>2. LoopNumbersRecord(l) => Holds(l) /\ loop'[l].record = loop[l].record
        BY <1>11 DEF LoopNumbersRecord, LoopStates, Holds
      <4>3. LoopNumbersFrame(l) => loop'[l].pc = "sendFrame"
        BY <1>11 DEF LoopNumbersFrame, LoopStates
      <4>4. LoopBreaks(l) => loop'[l].pc = "finally"
        BY <1>11 DEF LoopBreaks, LoopStates
      <4>5. LoopEnds(l) => loop'[l].pc = "idle"
        BY <1>11 DEF LoopEnds, Idle
      <4> QED BY <2>2, <4>1, <4>2, <4>3, <4>4, <4>5 DEF Holds
    <3> QED BY <1>1, <1>3, <3>1, <3>2
  <2>3. CASE LoopSendsFrame(l)
    <3>1. UNCHANGED <<queue, feed, updates>>
      BY <2>3 DEF LoopSendsFrame
    <3>2. \A k \in Loops : Holds(k)' => Holds(k) /\ loop'[k].record = loop[k].record
      BY <1>1, <2>3 DEF LoopSendsFrame, Holds
    <3>3. \E m \in Wire : m.kind # "record" /\ toViewer' = Append(toViewer, m)
      <4>1. toViewer' = Append(toViewer, Message("frame", loop[l].seq, loop[l].frame))
        BY <2>3 DEF LoopSendsFrame, Send
      <4>2. Message("frame", loop[l].seq, loop[l].frame) \in Wire
        BY <1>1 DEF Message, Wire, LoopStates
      <4> QED BY <4>1, <4>2 DEF Message
    <3>4. updates' \in Nat /\ updates <= updates'
      BY <1>1, <3>1
    <3> QED BY <1>3, <3>1, <3>2, <3>3, <3>4
  <2>4. CASE LoopSendsRecord(l)
    <3> DEFINE m == Message("record", loop[l].seq, loop[l].record)
    <3>1. UNCHANGED <<queue, feed, updates>> /\ toViewer' = Append(toViewer, m)
      BY <2>4 DEF LoopSendsRecord, Send
    <3>2. m \in Wire /\ m.kind = "record" /\ m.body = loop[l].record
      BY <1>0, RecordsTyped DEF Message, Wire
    <3> HIDE DEF m
    <3>3. /\ DOMAIN toViewer' = 1..(Len(toViewer) + 1)
          /\ \A i \in 1..Len(toViewer) : toViewer'[i] = toViewer[i]
          /\ toViewer'[Len(toViewer) + 1] = m
      BY <1>1, <3>1, <3>2, WireAppend
    <3>4. \A i \in DOMAIN toViewer' : (i \in DOMAIN toViewer /\ toViewer'[i] = toViewer[i])
                                      \/ (i = Len(toViewer) + 1 /\ toViewer'[i] = m)
      BY <1>1, <3>3
    <3>5. /\ Holds(l) /\ ~Holds(l)'
          /\ \A k \in Loops : Holds(k)' => Holds(k) /\ k # l /\ loop'[k].record = loop[k].record
      BY <1>1, <2>4 DEF LoopSendsRecord, Holds
    <3>6. ASSUME NEW i \in DOMAIN queue'
          PROVE  /\ queue'[i] <= updates'
                 /\ \A k \in Loops : Holds(k)' => loop'[k].record # queue'[i]
                 /\ \A j \in DOMAIN toViewer' : toViewer'[j].kind = "record" => toViewer'[j].body # queue'[i]
                 /\ \A j \in DOMAIN feed' : feed'[j][2] # queue'[i]
      BY <1>0, <3>1, <3>2, <3>4, <3>5 DEF SamplesDiffer
    <3>7. ASSUME NEW k \in Loops, Holds(k)'
          PROVE  /\ loop'[k].record \in 1..updates'
                 /\ \A n \in Loops : Holds(n)' /\ n # k => loop'[n].record # loop'[k].record
                 /\ \A j \in DOMAIN toViewer' : toViewer'[j].kind = "record" => toViewer'[j].body # loop'[k].record
                 /\ \A j \in DOMAIN feed' : feed'[j][2] # loop'[k].record
      BY <1>0, <3>1, <3>2, <3>4, <3>5, <3>7 DEF SamplesDiffer
    <3>8. ASSUME NEW i \in DOMAIN toViewer', toViewer'[i].kind = "record"
          PROVE  /\ \A j \in DOMAIN toViewer' :
                        toViewer'[j].kind = "record" /\ j # i => toViewer'[j].body # toViewer'[i].body
                 /\ \A j \in DOMAIN feed' : feed'[j][2] # toViewer'[i].body
      BY <1>0, <3>1, <3>2, <3>4, <3>5, <3>8 DEF SamplesDiffer
    <3>9. /\ \A i, j \in DOMAIN queue' : i # j => queue'[i] # queue'[j]
          /\ \A i \in DOMAIN feed' : feed'[i][2] <= updates'
          /\ \A i, j \in DOMAIN feed' : i # j => feed'[i][2] # feed'[j][2]
      BY <1>0, <3>1 DEF SamplesDiffer
    <3> QED BY <3>6, <3>7, <3>8, <3>9 DEF SamplesDiffer
  <2> QED BY <1>8, <2>1, <2>2, <2>3, <2>4 DEF ViewerLoop
<1>9. CASE Relay
  <2>1. CASE HandleRecord
    <3>1. Receive("record") /\ UNCHANGED <<queue, updates, loop>>
          /\ feed' = Append(feed, <<Head(toViewer).seq, Head(toViewer).body>>)
      BY <2>1 DEF HandleRecord
    <3>2. /\ DOMAIN toViewer' = 1..(Len(toViewer) - 1)
          /\ \A i \in 1..(Len(toViewer) - 1) : toViewer'[i] = toViewer[i + 1]
          /\ Head(toViewer) = toViewer[1] /\ toViewer[1].kind = "record" /\ Len(toViewer) \in Nat \ {0}
      BY <1>1, <3>1, WireTail
    <3>3. /\ \A i \in DOMAIN toViewer' : i + 1 \in DOMAIN toViewer /\ i + 1 # 1 /\ toViewer'[i] = toViewer[i + 1]
          /\ 1 \in DOMAIN toViewer
      BY <1>1, <3>2
    <3>4. \A i, j \in DOMAIN toViewer' : i # j => i + 1 # j + 1
      BY <1>1, <3>2
    <3>5. toViewer[1].body \in 1..updates
      BY <1>0, <3>2, <3>3 DEF WireFits, MessageFits
    <3>6. <<toViewer[1].seq, toViewer[1].body>> \in Nat \X (1..MaxUpdates)
      <4>1. toViewer[1].seq \in Nat /\ updates \in 0..MaxUpdates
        BY <1>0, <1>1, <3>3, WireTyped DEF TypeOK
      <4> QED BY <3>5, <4>1
    <3>7. /\ DOMAIN feed' = 1..(Len(feed) + 1)
          /\ \A i \in 1..Len(feed) : feed'[i] = feed[i]
          /\ feed'[Len(feed) + 1] = <<toViewer[1].seq, toViewer[1].body>>
      BY <1>1, <3>1, <3>2, <3>6, AppendProperties, LenProperties
    <3>8. \A i \in DOMAIN feed' : (i \in DOMAIN feed /\ feed'[i][2] = feed[i][2])
                                  \/ (i = Len(feed) + 1 /\ feed'[i][2] = toViewer[1].body)
      BY <1>1, <3>7, SMTT(20)
    <3>9. \A l \in Loops : (Holds(l)' <=> Holds(l)) /\ loop'[l].record = loop[l].record
      BY <3>1 DEF Holds
    <3>10. ASSUME NEW i \in DOMAIN queue'
           PROVE  /\ queue'[i] <= updates'
                  /\ \A k \in Loops : Holds(k)' => loop'[k].record # queue'[i]
                  /\ \A j \in DOMAIN toViewer' : toViewer'[j].kind = "record" => toViewer'[j].body # queue'[i]
                  /\ \A j \in DOMAIN feed' : feed'[j][2] # queue'[i]
      BY <1>0, <3>1, <3>2, <3>3, <3>8, <3>9 DEF SamplesDiffer
    <3>11. ASSUME NEW k \in Loops, Holds(k)'
           PROVE  /\ loop'[k].record \in 1..updates'
                  /\ \A n \in Loops : Holds(n)' /\ n # k => loop'[n].record # loop'[k].record
                  /\ \A j \in DOMAIN toViewer' : toViewer'[j].kind = "record" => toViewer'[j].body # loop'[k].record
                  /\ \A j \in DOMAIN feed' : feed'[j][2] # loop'[k].record
      BY <1>0, <3>1, <3>2, <3>3, <3>8, <3>9, <3>11 DEF SamplesDiffer
    <3>12. ASSUME NEW i \in DOMAIN toViewer', toViewer'[i].kind = "record"
           PROVE  /\ \A j \in DOMAIN toViewer' :
                         toViewer'[j].kind = "record" /\ j # i => toViewer'[j].body # toViewer'[i].body
                  /\ \A j \in DOMAIN feed' : feed'[j][2] # toViewer'[i].body
      BY <1>0, <3>1, <3>2, <3>3, <3>4, <3>8, <3>12 DEF SamplesDiffer
    <3>13. ASSUME NEW i \in DOMAIN feed', NEW j \in DOMAIN feed', i # j
           PROVE  feed'[i][2] # feed'[j][2]
      BY <1>0, <3>2, <3>3, <3>8, <3>13 DEF SamplesDiffer
    <3>14. /\ \A i, j \in DOMAIN queue' : i # j => queue'[i] # queue'[j]
           /\ \A i \in DOMAIN feed' : feed'[i][2] <= updates'
      BY <1>0, <1>1, <3>1, <3>5, <3>8 DEF SamplesDiffer
    <3> QED BY <3>10, <3>11, <3>12, <3>13, <3>14 DEF SamplesDiffer
  <2>2. CASE HandleChunk \/ FinalizeSnapshot \/ HandleFrame
    BY <1>5, <2>2 DEF HandleChunk, FinalizeSnapshot, HandleFrame
  <2> QED BY <1>9, <2>1, <2>2 DEF Relay
<1>10. CASE UNCHANGED vars
  BY <1>5, <1>10 DEF vars
<1> QED BY <1>4, <1>6, <1>7, <1>8, <1>9, <1>10 DEF Next

(* Every step gives a record number once, and numbers a frame behind its    *)
(* snapshot.                                                                *)
LEMMA NumbersStep == IInv /\ [Next]_vars => NumbersDiffer'
<1> SUFFICES ASSUME IInv, [Next]_vars PROVE NumbersDiffer'
  OBVIOUS
<1>0. TypeOK /\ WireFits /\ QuietBefore /\ NumbersDiffer
  BY DEF IInv
<1>1. /\ nextRecord \in Nat /\ nextFrame \in Nat /\ attempt \in Nat
      /\ loop \in [Loops -> LoopStates] /\ toViewer \in Seq(Wire)
      /\ feed \in Seq(Nat \X (1..MaxUpdates))
      /\ Len(feed) \in Nat /\ DOMAIN feed = 1..Len(feed)
      /\ Len(toViewer) \in Nat /\ DOMAIN toViewer = 1..Len(toViewer)
  BY <1>0, RecordsTyped, WireTyped DEF TypeOK
<1>2. /\ \A l \in Loops : loop[l].seq \in Nat
      /\ \A i \in DOMAIN feed : feed[i][1] \in Nat
      /\ \A i \in DOMAIN toViewer : toViewer[i].seq \in Nat
  BY <1>0, RecordsTyped, WireTyped
<1>11. loop \in [Loops -> LoopStates]
  BY <1>1
<1>3. ASSUME UNCHANGED <<feed, nextRecord, attempt>>,
             \A l \in Loops : loop'[l].pc = "sendRecord" => loop[l].pc = "sendRecord" /\ loop'[l].seq = loop[l].seq,
             \A l \in Loops : loop'[l].pc = "sendFrame" => loop'[l].seq > attempt,
             \/ toViewer' = toViewer
             \/ \E m \in Wire : m.kind # "record" /\ toViewer' = Append(toViewer, m)
             \/ \E kind : Receive(kind)
      PROVE  NumbersDiffer'
  <2>1. PICK f :
            /\ \A i \in DOMAIN toViewer' : toViewer'[i].kind = "record" =>
                   f[i] \in DOMAIN toViewer /\ toViewer'[i] = toViewer[f[i]]
            /\ \A i, j \in DOMAIN toViewer' : f[i] = f[j] => i = j
    BY <1>0, <1>3, RecordsMove
  <2> QED BY <1>0, <1>3, <2>1, NumbersKept
<1>4. CASE SnapshotSender
  <2>1. ~complete
    BY <1>0, <1>4 DEF QuietBefore, SnapshotSender, BuildEnds, StartAttempt, SendChunk, ChunkAcked,
         AckTimeout, SendDone, CompleteSnapshot, SnapshotBreaks
  <2>2. UNCHANGED <<loop, feed>>
    BY <1>4 DEF SnapshotSender, BuildEnds, StartAttempt, SendChunk, ChunkAcked, AckTimeout,
         SendDone, CompleteSnapshot, SnapshotBreaks
  <2>3. \/ toViewer' = toViewer
        \/ toViewer' = Append(toViewer, Message("chunk", attempt, index))
        \/ toViewer' = Append(toViewer, Message("done", attempt, 0))
    BY <1>4 DEF SnapshotSender, BuildEnds, StartAttempt, SendChunk, ChunkAcked, AckTimeout,
         SendDone, CompleteSnapshot, SnapshotBreaks, Send
  <2>4. index \in Nat
    BY <1>0 DEF TypeOK
  <2>5. \/ toViewer' = toViewer
        \/ \E m \in Wire : m.kind # "record" /\ toViewer' = Append(toViewer, m)
    BY <1>1, <2>3, <2>4 DEF Message, Wire
  <2>6. PICK f : \A i \in DOMAIN toViewer' : toViewer'[i].kind = "record" =>
                     f[i] \in DOMAIN toViewer /\ toViewer'[i] = toViewer[f[i]]
    BY <1>0, <2>5, RecordsMove
  <2>7. \A i \in DOMAIN toViewer : toViewer[i].kind # "record"
    BY <1>0, <2>1 DEF WireFits, MessageFits
  <2>8. feed = <<>> /\ \A l \in Loops : loop[l].pc = "idle"
    BY <1>0, <2>1 DEF QuietBefore
  <2>9. DOMAIN feed = {}
    BY <2>8
  <2> QED BY <2>2, <2>6, <2>7, <2>8, <2>9 DEF NumbersDiffer
<1>5. ASSUME UNCHANGED <<feed, nextRecord, attempt, loop>>,
             toViewer' = toViewer \/ \E kind : Receive(kind)
      PROVE  NumbersDiffer'
  BY <1>0, <1>3, <1>5 DEF NumbersDiffer
<1>6. CASE OnAck \/ SessionCloses
  BY <1>5, <1>6 DEF OnAck, SessionCloses
<1>7. CASE Update
  <2>1. UNCHANGED <<feed, nextRecord, attempt, toViewer>>
    BY <1>7 DEF Update
  <2>2. \/ loop' = loop
        \/ \E k \in Loops : loop[k].pc = "idle" /\ loop' = [loop EXCEPT ![k].pc = "head"]
    BY <1>7 DEF Update
  <2>3. ASSUME NEW k \in Loops, loop' = [loop EXCEPT ![k].pc = "head"]
        PROVE  /\ loop'[k].pc = "head"
               /\ \A l \in Loops : l # k => loop'[l] = loop[l]
    BY <1>11, <2>3 DEF LoopStates
  <2>4. /\ \A l \in Loops : loop'[l].pc = "sendRecord" => loop'[l] = loop[l]
        /\ \A l \in Loops : loop'[l].pc = "sendFrame" => loop'[l] = loop[l]
    BY <2>2, <2>3
  <2> QED BY <1>0, <1>3, <2>1, <2>4 DEF NumbersDiffer
<1>8. ASSUME NEW l \in Loops, ViewerLoop(l) PROVE NumbersDiffer'
  <2>0. \A k \in Loops : k # l => loop'[k] = loop[k]
    BY <1>8, <1>11 DEF ViewerLoop, LoopTakes, LoopNumbersRecord, LoopSendsRecord, LoopNumbersFrame,
         LoopSendsFrame, LoopBreaks, LoopEnds
  <2>00. UNCHANGED <<feed, attempt>>
    BY <1>8 DEF ViewerLoop, LoopTakes, LoopNumbersRecord, LoopSendsRecord, LoopNumbersFrame,
         LoopSendsFrame, LoopBreaks, LoopEnds
  <2>1. ASSUME loop'[l].pc \notin {"sendRecord", "sendFrame"}, UNCHANGED <<nextRecord, toViewer>>
        PROVE  NumbersDiffer'
    BY <1>0, <1>3, <2>0, <2>00, <2>1 DEF NumbersDiffer
  <2>2. CASE LoopTakes(l) \/ LoopBreaks(l) \/ LoopEnds(l)
    <3>1. UNCHANGED <<nextRecord, toViewer>>
      BY <2>2 DEF LoopTakes, LoopBreaks, LoopEnds
    <3>2. LoopTakes(l) => loop'[l].pc \in {"finally", "record", "frame"}
      BY <1>11 DEF LoopTakes, LoopStates
    <3>3. LoopBreaks(l) => loop'[l].pc = "finally"
      BY <1>11 DEF LoopBreaks, LoopStates
    <3>4. LoopEnds(l) => loop'[l].pc = "idle"
      BY <1>11 DEF LoopEnds, Idle
    <3> QED BY <2>1, <2>2, <3>1, <3>2, <3>3, <3>4
  <2>3. CASE LoopNumbersFrame(l)
    <3>1. UNCHANGED <<nextRecord, toViewer>> /\ loop[l].pc = "frame"
      BY <2>3 DEF LoopNumbersFrame
    <3>2. loop'[l].pc = "sendFrame" /\ loop'[l].seq = nextFrame + 1
      BY <1>11, <2>3 DEF LoopNumbersFrame, LoopStates
    <3>3. nextFrame >= attempt
      BY <1>0, <3>1 DEF QuietBefore
    <3>4. loop'[l].seq > attempt
      BY <1>1, <3>2, <3>3
    <3>5. \A k \in Loops : loop'[k].pc = "sendFrame" => loop'[k].seq > attempt
      BY <1>0, <2>0, <3>4 DEF NumbersDiffer
    <3>6. \A k \in Loops : loop'[k].pc = "sendRecord" => loop[k].pc = "sendRecord" /\ loop'[k].seq = loop[k].seq
      BY <2>0, <3>2
    <3> QED BY <1>3, <2>00, <3>1, <3>5, <3>6
  <2>4. CASE LoopSendsFrame(l)
    <3>1. UNCHANGED nextRecord /\ loop'[l].pc = "head"
      BY <1>11, <2>4 DEF LoopSendsFrame, LoopStates
    <3>2. \E m \in Wire : m.kind # "record" /\ toViewer' = Append(toViewer, m)
      <4>1. toViewer' = Append(toViewer, Message("frame", loop[l].seq, loop[l].frame))
        BY <2>4 DEF LoopSendsFrame, Send
      <4>2. Message("frame", loop[l].seq, loop[l].frame) \in Wire
        BY <1>1 DEF Message, Wire, LoopStates
      <4> QED BY <4>1, <4>2 DEF Message
    <3>3. \A k \in Loops : loop'[k].pc = "sendFrame" => loop'[k].seq > attempt
      BY <1>0, <2>0, <3>1 DEF NumbersDiffer
    <3>4. \A k \in Loops : loop'[k].pc = "sendRecord" => loop[k].pc = "sendRecord" /\ loop'[k].seq = loop[k].seq
      BY <2>0, <3>1
    <3> QED BY <1>3, <2>00, <3>1, <3>2, <3>3, <3>4
  <2>5. CASE LoopNumbersRecord(l)
    <3>1. /\ loop'[l].pc = "sendRecord" /\ loop'[l].seq = nextRecord + 1
          /\ nextRecord' = nextRecord + 1 /\ UNCHANGED toViewer
      BY <1>11, <2>5 DEF LoopNumbersRecord, LoopStates
    <3>2. \A n \in Nat : n <= nextRecord => n # nextRecord + 1 /\ n <= nextRecord'
      BY <1>1, <3>1
    <3>3. nextRecord + 1 <= nextRecord'
      BY <1>1, <3>1
    <3>4. ASSUME NEW k \in Loops, loop'[k].pc = "sendRecord"
          PROVE  /\ loop'[k].seq <= nextRecord'
                 /\ \A n \in Loops : loop'[n].pc = "sendRecord" /\ n # k => loop'[n].seq # loop'[k].seq
                 /\ \A j \in DOMAIN toViewer' : toViewer'[j].kind = "record" => toViewer'[j].seq # loop'[k].seq
                 /\ \A j \in DOMAIN feed' : feed'[j][1] # loop'[k].seq
      <4>1. CASE k = l
        BY <1>0, <1>2, <2>0, <2>00, <3>1, <3>2, <3>3, <4>1 DEF NumbersDiffer
      <4>2. CASE k # l
        BY <1>0, <1>2, <2>0, <2>00, <3>1, <3>2, <3>4, <4>2 DEF NumbersDiffer
      <4> QED BY <4>1, <4>2
    <3>5. ASSUME NEW i \in DOMAIN toViewer', toViewer'[i].kind = "record"
          PROVE  /\ toViewer'[i].seq <= nextRecord'
                 /\ \A j \in DOMAIN toViewer' :
                        toViewer'[j].kind = "record" /\ j # i => toViewer'[j].seq # toViewer'[i].seq
                 /\ \A j \in DOMAIN feed' : feed'[j][1] # toViewer'[i].seq
      BY <1>0, <1>2, <2>00, <3>1, <3>2, <3>5 DEF NumbersDiffer
    <3>6. /\ \A i \in DOMAIN feed' : feed'[i][1] <= nextRecord'
          /\ \A i, j \in DOMAIN feed' : i # j => feed'[i][1] # feed'[j][1]
      BY <1>0, <1>2, <2>00, <3>2 DEF NumbersDiffer
    <3>7. \A k \in Loops : loop'[k].pc = "sendFrame" => loop'[k].seq > attempt'
      BY <1>0, <2>0, <2>00, <3>1 DEF NumbersDiffer
    <3> QED BY <3>4, <3>5, <3>6, <3>7 DEF NumbersDiffer
  <2>6. CASE LoopSendsRecord(l)
    <3> DEFINE m == Message("record", loop[l].seq, loop[l].record)
    <3>1. UNCHANGED nextRecord /\ toViewer' = Append(toViewer, m)
      BY <2>6 DEF LoopSendsRecord, Send
    <3>2. m \in Wire /\ m.kind = "record" /\ m.seq = loop[l].seq
      BY <1>0, RecordsTyped DEF Message, Wire
    <3> HIDE DEF m
    <3>3. /\ DOMAIN toViewer' = 1..(Len(toViewer) + 1)
          /\ \A i \in 1..Len(toViewer) : toViewer'[i] = toViewer[i]
          /\ toViewer'[Len(toViewer) + 1] = m
      BY <1>1, <3>1, <3>2, WireAppend
    <3>4. \A i \in DOMAIN toViewer' : (i \in DOMAIN toViewer /\ toViewer'[i] = toViewer[i])
                                      \/ (i = Len(toViewer) + 1 /\ toViewer'[i] = m)
      BY <1>1, <3>3
    <3>5. loop[l].pc = "sendRecord" /\ loop'[l].pc \in {"frame", "head"}
      BY <1>11, <2>6 DEF LoopSendsRecord, LoopStates
    <3>6. ASSUME NEW k \in Loops, loop'[k].pc = "sendRecord"
          PROVE  /\ loop'[k].seq <= nextRecord'
                 /\ \A n \in Loops : loop'[n].pc = "sendRecord" /\ n # k => loop'[n].seq # loop'[k].seq
                 /\ \A j \in DOMAIN toViewer' : toViewer'[j].kind = "record" => toViewer'[j].seq # loop'[k].seq
                 /\ \A j \in DOMAIN feed' : feed'[j][1] # loop'[k].seq
      <4>1. k # l /\ loop'[k] = loop[k]
        BY <2>0, <3>5, <3>6
      <4> QED BY <1>0, <2>0, <2>00, <3>1, <3>2, <3>4, <3>5, <3>6, <4>1 DEF NumbersDiffer
    <3>7. ASSUME NEW i \in DOMAIN toViewer', toViewer'[i].kind = "record"
          PROVE  /\ toViewer'[i].seq <= nextRecord'
                 /\ \A j \in DOMAIN toViewer' :
                        toViewer'[j].kind = "record" /\ j # i => toViewer'[j].seq # toViewer'[i].seq
                 /\ \A j \in DOMAIN feed' : feed'[j][1] # toViewer'[i].seq
      BY <1>0, <2>00, <3>1, <3>2, <3>4, <3>5, <3>7 DEF NumbersDiffer
    <3>8. /\ \A i \in DOMAIN feed' : feed'[i][1] <= nextRecord'
          /\ \A i, j \in DOMAIN feed' : i # j => feed'[i][1] # feed'[j][1]
      BY <1>0, <2>00, <3>1 DEF NumbersDiffer
    <3>9. \A k \in Loops : loop'[k].pc = "sendFrame" => loop'[k].seq > attempt'
      BY <1>0, <2>0, <2>00, <3>5 DEF NumbersDiffer
    <3> QED BY <3>6, <3>7, <3>8, <3>9 DEF NumbersDiffer
  <2> QED BY <1>8, <2>2, <2>3, <2>4, <2>5, <2>6 DEF ViewerLoop
<1>9. CASE Relay
  <2>1. CASE HandleRecord
    <3>1. Receive("record") /\ UNCHANGED <<nextRecord, attempt, loop>>
          /\ feed' = Append(feed, <<Head(toViewer).seq, Head(toViewer).body>>)
      BY <2>1 DEF HandleRecord
    <3>2. /\ DOMAIN toViewer' = 1..(Len(toViewer) - 1)
          /\ \A i \in 1..(Len(toViewer) - 1) : toViewer'[i] = toViewer[i + 1]
          /\ Head(toViewer) = toViewer[1] /\ toViewer[1].kind = "record" /\ Len(toViewer) \in Nat \ {0}
      BY <1>1, <3>1, WireTail
    <3>3. /\ \A i \in DOMAIN toViewer' : i + 1 \in DOMAIN toViewer /\ i + 1 # 1 /\ toViewer'[i] = toViewer[i + 1]
          /\ 1 \in DOMAIN toViewer
      BY <1>1, <3>2
    <3>4. \A i, j \in DOMAIN toViewer' : i # j => i + 1 # j + 1
      BY <1>1, <3>2
    <3>5. <<toViewer[1].seq, toViewer[1].body>> \in Nat \X (1..MaxUpdates)
      <4>1. toViewer[1].seq \in Nat /\ updates \in 0..MaxUpdates
        BY <1>0, <1>2, <3>3 DEF TypeOK
      <4>2. toViewer[1].body \in 1..updates
        BY <1>0, <3>2, <3>3 DEF WireFits, MessageFits
      <4> QED BY <4>1, <4>2
    <3>7. /\ DOMAIN feed' = 1..(Len(feed) + 1)
          /\ \A i \in 1..Len(feed) : feed'[i] = feed[i]
          /\ feed'[Len(feed) + 1] = <<toViewer[1].seq, toViewer[1].body>>
      BY <1>1, <3>1, <3>2, <3>5, AppendProperties, LenProperties
    <3>8. \A i \in DOMAIN feed' : (i \in DOMAIN feed /\ feed'[i][1] = feed[i][1])
                                  \/ (i = Len(feed) + 1 /\ feed'[i][1] = toViewer[1].seq)
      BY <1>1, <3>7
    <3>11. ASSUME NEW k \in Loops, loop'[k].pc = "sendRecord"
           PROVE  /\ loop'[k].seq <= nextRecord'
                  /\ \A n \in Loops : loop'[n].pc = "sendRecord" /\ n # k => loop'[n].seq # loop'[k].seq
                  /\ \A j \in DOMAIN toViewer' : toViewer'[j].kind = "record" => toViewer'[j].seq # loop'[k].seq
                  /\ \A j \in DOMAIN feed' : feed'[j][1] # loop'[k].seq
      BY <1>0, <3>1, <3>2, <3>3, <3>8, <3>11 DEF NumbersDiffer
    <3>12. ASSUME NEW i \in DOMAIN toViewer', toViewer'[i].kind = "record"
           PROVE  /\ toViewer'[i].seq <= nextRecord'
                  /\ \A j \in DOMAIN toViewer' :
                         toViewer'[j].kind = "record" /\ j # i => toViewer'[j].seq # toViewer'[i].seq
                  /\ \A j \in DOMAIN feed' : feed'[j][1] # toViewer'[i].seq
      BY <1>0, <3>1, <3>2, <3>3, <3>4, <3>8, <3>12 DEF NumbersDiffer
    <3>13. ASSUME NEW i \in DOMAIN feed', NEW j \in DOMAIN feed', i # j
           PROVE  feed'[i][1] # feed'[j][1]
      BY <1>0, <3>2, <3>3, <3>8, <3>13 DEF NumbersDiffer
    <3>14. \A i \in DOMAIN feed' : feed'[i][1] <= nextRecord'
      BY <1>0, <3>1, <3>2, <3>3, <3>8 DEF NumbersDiffer
    <3>15. \A k \in Loops : loop'[k].pc = "sendFrame" => loop'[k].seq > attempt'
      BY <1>0, <3>1 DEF NumbersDiffer
    <3> QED BY <3>11, <3>12, <3>13, <3>14, <3>15 DEF NumbersDiffer
  <2>2. CASE HandleChunk \/ FinalizeSnapshot \/ HandleFrame
    BY <1>5, <2>2 DEF HandleChunk, FinalizeSnapshot, HandleFrame
  <2> QED BY <1>9, <2>1, <2>2 DEF Relay
<1>10. CASE UNCHANGED vars
  BY <1>5, <1>10 DEF vars
<1> QED BY <1>4, <1>6, <1>7, <1>8, <1>9, <1>10 DEF Next

-----------------------------------------------------------------------------
(* The invariant says what the run checks.                                  *)
LEMMA Suffices == IInv => SnapshotFits /\ RecordsKept
<1> SUFFICES ASSUME IInv PROVE SnapshotFits /\ RecordsKept
  OBVIOUS
<1>0. TypeOK /\ WireFits /\ SenderFits /\ SamplesDiffer /\ NumbersDiffer /\ Cared
  BY DEF IInv
<1>1. ASSUME toViewer # <<>>
      PROVE  /\ Head(toViewer) = toViewer[1] /\ MessageFits(1)
             /\ toViewer[1].seq \in Nat /\ attempt \in Nat
  <2>1. 1 \in DOMAIN toViewer
    BY <1>0, <1>1, WireTyped
  <2>2. Head(toViewer) = toViewer[1]
    BY <1>0, <1>1 DEF TypeOK
  <2> QED BY <1>0, <2>1, <2>2, WireTyped DEF WireFits, TypeOK
<1>2. DoneFindsAssembly
  BY <1>1 DEF DoneFindsAssembly, MessageFits, Before
<1>3. FramePassesGate
  BY <1>0, <1>1 DEF FramePassesGate, MessageFits, SenderFits
<1>4. RecordOnce
  <2>1. DOMAIN feed = 1..Len(feed)
    BY <1>0, RecordsTyped
  <2> QED BY <1>0, <2>1 DEF RecordOnce, SamplesDiffer, NumbersDiffer
<1>5. NothingStranded
  BY <1>0 DEF NothingStranded, Cared
<1> QED BY <1>2, <1>3, <1>4, <1>5 DEF SnapshotFits, RecordsKept

(* The invariant holds in every state. *)
LEMMA Inductive == Spec => []IInv
<1>1. IInv /\ [Next]_vars => IInv'
  BY TypeStep, WireStep, QuietStep, SamplesStep, NumbersStep, CaredStep DEF IInv
<1> QED BY <1>1, InitIInv, PTL DEF Spec

(* MirrorStreamService and MirrorEventRelay keep every variable in its      *)
(* type, for any number of chunks, attempts, loops and updates.             *)
THEOREM TypeCorrect == Spec => []TypeOK
<1>1. IInv => TypeOK
  BY DEF IInv
<1> QED BY <1>1, Inductive, PTL

(* SendSnapshotAsync and HandleChunk: whatever acks of abandoned attempts   *)
(* arrive, the end of a snapshot finds its own attempt assembled and the    *)
(* frames behind it pass the gate.                                          *)
THEOREM SnapshotAlwaysFits == Spec => []SnapshotFits
BY Inductive, Suffices, PTL

(* OnEntitiesUpdated and SendViewerLoopAsync: overlapping loops feed no     *)
(* update and no number twice, and leave nothing queued with no loop to     *)
(* send it.                                                                 *)
THEOREM RecordsAlwaysKept == Spec => []RecordsKept
BY Inductive, Suffices, PTL
=============================================================================
