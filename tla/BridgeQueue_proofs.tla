-------------------------- MODULE BridgeQueue_proofs --------------------------
(* The chain of promises implements the first-in first-out queue, and the   *)
(* host has one call at a time, for every number of calls.  The types do not*)
(* give either: what a call is chained to, and that whatever it waited for  *)
(* is settled once it has begun, is the inductive invariant.                *)
EXTENDS BridgeQueue, TLAPS

\* A call is chained to the one made before it.
ChainedInOrder ==
  /\ \A i \in BridgeCalls : promise[i] # "unmade" <=> i <= bridgeQueue
  /\ \A i \in BridgeCalls : i <= bridgeQueue => after[i] = i - 1

\* A call that has begun found every earlier one settled.
BegunInOrder ==
  \A i \in BridgeCalls : promise[i] \in {"invoked", "fulfilled", "rejected"}
    => \A j \in BridgeCalls : j < i => IsSettled(j)

FirstSettled == IsSettled(0)

\* Only the call the host has can kill the bridge.
InvokedAlive == \A i \in BridgeCalls : promise[i] = "invoked" => bridgeAlive

BridgeInv ==
  /\ BridgeTypeOK
  /\ ChainedInOrder
  /\ BegunInOrder
  /\ FirstSettled
  /\ InvokedAlive

\* The invariant holds when the page is loaded.
LEMMA BridgeInitInv == BridgeInit => BridgeInv
<1>1. SUFFICES ASSUME BridgeInit PROVE BridgeInv
  OBVIOUS
<1> USE MaxBridgeCallsAssumption DEF BridgeCalls, Promises
<1>2. BridgeTypeOK
  BY <1>1 DEF BridgeInit, BridgeTypeOK, PromiseStates
<1>3. \A i \in BridgeCalls : promise[i] = "unmade"
  BY <1>1 DEF BridgeInit
<1>4. ChainedInOrder
  <2>1. bridgeQueue = 0 /\ \A i \in BridgeCalls : ~(i <= 0)
    BY <1>1 DEF BridgeInit
  <2>2. QED
    BY <2>1, <1>3 DEF ChainedInOrder
<1>5. BegunInOrder /\ InvokedAlive
  BY <1>3 DEF BegunInOrder, InvokedAlive
<1>6. FirstSettled
  BY <1>1 DEF BridgeInit, FirstSettled, IsSettled
<1>7. QED
  BY <1>2, <1>4, <1>5, <1>6 DEF BridgeInv

\* When the predecessor of a call is settled, so is every call before it.
LEMMA SettledBelow ==
  ASSUME BridgeInv, NEW i \in BridgeCalls, promise[i] = "chained", IsSettled(after[i])
  PROVE  \A j \in BridgeCalls : j < i => IsSettled(j)
<1>1. i <= bridgeQueue /\ after[i] = i - 1
  BY DEF BridgeInv, ChainedInOrder
<1>2. SUFFICES ASSUME NEW j \in BridgeCalls, j < i PROVE IsSettled(j)
  OBVIOUS
<1>3. i - 1 \in BridgeCalls /\ IsSettled(i - 1)
  BY <1>1, <1>2, MaxBridgeCallsAssumption DEF BridgeCalls
<1>4. CASE j = i - 1
  BY <1>3, <1>4
<1>5. CASE j # i - 1
  <2>1. j < i - 1
    BY <1>2, <1>5, MaxBridgeCallsAssumption DEF BridgeCalls
  <2>2. QED
    BY <2>1, <1>3, MaxBridgeCallsAssumption DEF BridgeInv, BegunInOrder, IsSettled
<1>6. QED
  BY <1>4, <1>5

\* No step leaves the invariant.
LEMMA BridgeNextInv == BridgeInv /\ [BridgeNext]_bridgeVars => BridgeInv'
<1>1. SUFFICES ASSUME BridgeInv, [BridgeNext]_bridgeVars PROVE BridgeInv'
  OBVIOUS
<1> USE MaxBridgeCallsAssumption DEF BridgeCalls, Promises
<1>2. ASSUME NEW i \in BridgeCalls, MakeCall(i) PROVE BridgeInv'
  <2>1. BridgeTypeOK'
    BY <1>1, <1>2 DEF BridgeInv, BridgeTypeOK, MakeCall, PromiseStates
  <2>2. \A k \in Promises : k # i => promise'[k] = promise[k]
    BY <1>1, <1>2 DEF BridgeInv, BridgeTypeOK, MakeCall
  <2>3. promise[i] = "unmade" /\ promise'[i] = "chained"
    BY <1>1, <1>2 DEF BridgeInv, BridgeTypeOK, MakeCall
  <2>4. i = bridgeQueue + 1 /\ bridgeQueue' = i /\ bridgeQueue \in Int
    BY <1>1, <1>2 DEF BridgeInv, BridgeTypeOK, MakeCall
  <2>5. \A k \in BridgeCalls : promise'[k] # "unmade" <=> k <= bridgeQueue'
    BY <1>1, <2>2, <2>3, <2>4 DEF BridgeInv, ChainedInOrder
  <2>6. \A k \in BridgeCalls : k <= bridgeQueue' => after'[k] = k - 1
    BY <1>1, <1>2, <2>4 DEF BridgeInv, BridgeTypeOK, ChainedInOrder, MakeCall
  <2>7. BegunInOrder'
    BY <1>1, <2>2, <2>3 DEF BridgeInv, BegunInOrder, IsSettled
  <2>8. FirstSettled' /\ InvokedAlive'
    BY <1>1, <1>2, <2>2, <2>3 DEF BridgeInv, FirstSettled, InvokedAlive, IsSettled, MakeCall
  <2>9. QED
    BY <2>1, <2>5, <2>6, <2>7, <2>8 DEF BridgeInv, ChainedInOrder
<1>3. ASSUME NEW i \in BridgeCalls, StartCall(i) \/ SkipCall(i) PROVE BridgeInv'
  <2>1. \A j \in BridgeCalls : j < i => IsSettled(j)
    BY <1>1, <1>3, SettledBelow DEF StartCall, SkipCall
  <2>2. BridgeTypeOK'
    BY <1>1, <1>3 DEF BridgeInv, BridgeTypeOK, StartCall, SkipCall, PromiseStates
  <2>3. \A k \in Promises : k # i => promise'[k] = promise[k]
    BY <1>1, <1>3 DEF BridgeInv, BridgeTypeOK, StartCall, SkipCall
  <2>4. /\ promise[i] = "chained"
        /\ promise'[i] \in {"invoked", "rejected"}
        /\ promise'[i] = "invoked" => bridgeAlive
        /\ UNCHANGED <<bridgeQueue, after, bridgeAlive>>
    BY <1>1, <1>3 DEF BridgeInv, BridgeTypeOK, StartCall, SkipCall
  <2>5. ChainedInOrder'
    BY <1>1, <2>3, <2>4 DEF BridgeInv, ChainedInOrder
  <2>6. BegunInOrder'
    BY <1>1, <2>1, <2>3, <2>4 DEF BridgeInv, BegunInOrder, IsSettled
  <2>7. FirstSettled' /\ InvokedAlive'
    BY <1>1, <2>3, <2>4 DEF BridgeInv, FirstSettled, InvokedAlive, IsSettled
  <2>8. QED
    BY <2>2, <2>5, <2>6, <2>7 DEF BridgeInv
<1>4. ASSUME NEW i \in BridgeCalls, HostReturns(i) PROVE BridgeInv'
  <2>t. BridgeTypeOK
    BY <1>1 DEF BridgeInv
  <2>1. BridgeTypeOK'
    BY <2>t, <1>4 DEF BridgeTypeOK, HostReturns, PromiseStates
  <2>2. \A k \in Promises : k # i => promise'[k] = promise[k]
    BY <2>t, <1>4 DEF BridgeTypeOK, HostReturns
  <2>3. promise[i] = "invoked" /\ IsSettled(i)'
    BY <2>t, <1>4 DEF BridgeTypeOK, HostReturns, IsSettled
  <2>4. UNCHANGED <<bridgeQueue, after>>
    BY <1>4 DEF HostReturns
  <2>5. ChainedInOrder'
    BY <1>1, <2>2, <2>3, <2>4 DEF BridgeInv, ChainedInOrder, IsSettled
  <2>6. BegunInOrder'
    BY <1>1, <2>2, <2>3 DEF BridgeInv, BegunInOrder, IsSettled
  <2>7. \A j \in BridgeCalls : promise[j] = "invoked" => j = i
    BY <1>1, <2>3 DEF BridgeInv, BegunInOrder, IsSettled
  <2>8. FirstSettled' /\ InvokedAlive'
    BY <1>1, <2>2, <2>3, <2>7 DEF BridgeInv, FirstSettled, InvokedAlive, IsSettled
  <2>9. QED
    BY <2>1, <2>5, <2>6, <2>8 DEF BridgeInv
<1>5. ASSUME NEW i \in BridgeCalls, HostThrows(i) PROVE BridgeInv'
  <2>t. BridgeTypeOK
    BY <1>1 DEF BridgeInv
  <2>1. BridgeTypeOK'
    <3>1. bridgeAlive' \in BOOLEAN
      BY <2>t, <1>5, Zenon DEF BridgeTypeOK, HostThrows
    <3>2. QED
      BY <2>t, <1>5, <3>1 DEF BridgeTypeOK, HostThrows, PromiseStates
  <2>2. \A k \in Promises : k # i => promise'[k] = promise[k]
    BY <2>t, <1>5 DEF BridgeTypeOK, HostThrows
  <2>3. promise[i] = "invoked" /\ IsSettled(i)'
    BY <2>t, <1>5 DEF BridgeTypeOK, HostThrows, IsSettled
  <2>4. UNCHANGED <<bridgeQueue, after>>
    BY <1>5 DEF HostThrows
  <2>5. ChainedInOrder'
    BY <1>1, <2>2, <2>3, <2>4 DEF BridgeInv, ChainedInOrder, IsSettled
  <2>6. BegunInOrder'
    BY <1>1, <2>2, <2>3 DEF BridgeInv, BegunInOrder, IsSettled
  <2>7. \A j \in BridgeCalls : promise[j] = "invoked" => j = i
    BY <1>1, <2>3 DEF BridgeInv, BegunInOrder, IsSettled
  <2>8. FirstSettled' /\ InvokedAlive'
    BY <1>1, <2>2, <2>3, <2>7 DEF BridgeInv, FirstSettled, InvokedAlive, IsSettled
  <2>9. QED
    BY <2>1, <2>5, <2>6, <2>8 DEF BridgeInv
<1>6. CASE UNCHANGED bridgeVars
  <2>1. BridgeTypeOK' /\ ChainedInOrder'
    BY <1>1, <1>6 DEF BridgeInv, BridgeTypeOK, ChainedInOrder, bridgeVars
  <2>2. BegunInOrder' /\ FirstSettled' /\ InvokedAlive'
    BY <1>1, <1>6
    DEF BridgeInv, BegunInOrder, FirstSettled, InvokedAlive, IsSettled, bridgeVars
  <2>3. QED
    BY <2>1, <2>2 DEF BridgeInv
<1>7. QED
  BY <1>1, <1>2, <1>3, <1>4, <1>5, <1>6 DEF BridgeNext, BridgeUser, BridgeMoves

\* The inductive invariant holds throughout.
THEOREM BridgeSpecInv == BridgeSpec => []BridgeInv
  BY BridgeInitInv, BridgeNextInv, PTL DEF BridgeSpec

\* The host never has two calls of the pages at once (queuedInvoke).
THEOREM BridgeOneCall == BridgeSpec => []OneCallInHost
<1>1. BridgeInv => OneCallInHost
  BY MaxBridgeCallsAssumption
  DEF BridgeInv, BegunInOrder, OneCallInHost, IsSettled, BridgeCalls
<1>2. QED
  BY <1>1, BridgeSpecInv, PTL

------------------------------------------------------------------------------
(* The refinement.  Starting a call is a stutter of the queue, every answer *)
(* takes its oldest call.                                                   *)

OpenCalls == {i \in BridgeCalls : promise[i] \in {"chained", "invoked"}}

\* The call the host has is the oldest open one, and so is one the chain has
\* come to.
LEMMA BegunIsOldest ==
  ASSUME BridgeInv, NEW i \in BridgeCalls,
         \/ promise[i] = "invoked"
         \/ promise[i] = "chained" /\ IsSettled(after[i])
  PROVE  i \in OpenCalls /\ \A j \in OpenCalls : i <= j
<1>1. \A j \in BridgeCalls : j < i => IsSettled(j)
  BY SettledBelow DEF BridgeInv, BegunInOrder
<1>2. QED
  BY <1>1, MaxBridgeCallsAssumption DEF OpenCalls, IsSettled, BridgeCalls

RefusedCalls == {i \in BridgeCalls : promise[i] = "rejected"}

\* A step of the chain is a step of the queue or none.
LEMMA FifoStep == BridgeInv /\ [BridgeNext]_bridgeVars => [Fifo!Next]_(Fifo!fifoVars)
<1>1. SUFFICES ASSUME BridgeInv, [BridgeNext]_bridgeVars
               PROVE  [Fifo!Next]_(Fifo!fifoVars)
  OBVIOUS
<1>t. BridgeTypeOK
  BY <1>1 DEF BridgeInv
<1> USE DEF BridgeCalls, Promises
<1>2. ASSUME NEW i \in BridgeCalls, MakeCall(i) PROVE Fifo!Ask
  <2>1. OpenCalls' = OpenCalls \cup {bridgeQueue + 1}
    BY <1>t, <1>2 DEF BridgeTypeOK, MakeCall, OpenCalls
  <2>2. RefusedCalls' = RefusedCalls
    BY <1>t, <1>2 DEF BridgeTypeOK, MakeCall, RefusedCalls
  <2>3. QED
    BY <2>1, <2>2, <1>2 DEF MakeCall, Fifo!Ask, OpenCalls, RefusedCalls
<1>3. ASSUME NEW i \in BridgeCalls, StartCall(i) PROVE UNCHANGED Fifo!fifoVars
  <2>1. OpenCalls' = OpenCalls /\ RefusedCalls' = RefusedCalls
    BY <1>t, <1>3 DEF BridgeTypeOK, StartCall, OpenCalls, RefusedCalls
  <2>2. QED
    BY <2>1, <1>3 DEF StartCall, Fifo!fifoVars, OpenCalls, RefusedCalls
<1>4. ASSUME NEW i \in BridgeCalls, SkipCall(i) PROVE i \in OpenCalls /\ Fifo!Refuse(i)
  <2>1. i \in OpenCalls /\ \A j \in OpenCalls : i <= j
    BY <1>1, <1>4, BegunIsOldest DEF SkipCall
  <2>2. OpenCalls' = OpenCalls \ {i} /\ RefusedCalls' = RefusedCalls \cup {i}
    BY <1>t, <1>4 DEF BridgeTypeOK, SkipCall, OpenCalls, RefusedCalls
  <2>3. QED
    BY <2>1, <2>2, <1>4 DEF SkipCall, Fifo!Refuse, Fifo!Oldest, OpenCalls, RefusedCalls
<1>5. ASSUME NEW i \in BridgeCalls, HostReturns(i) PROVE i \in OpenCalls /\ Fifo!Answer(i)
  <2>1. i \in OpenCalls /\ \A j \in OpenCalls : i <= j
    BY <1>1, <1>5, BegunIsOldest DEF HostReturns
  <2>2. OpenCalls' = OpenCalls \ {i} /\ RefusedCalls' = RefusedCalls
    BY <1>t, <1>5 DEF BridgeTypeOK, HostReturns, OpenCalls, RefusedCalls
  <2>3. bridgeAlive
    BY <1>1, <1>5 DEF BridgeInv, InvokedAlive, HostReturns
  <2>4. QED
    BY <2>1, <2>2, <2>3, <1>5
    DEF HostReturns, Fifo!Answer, Fifo!Oldest, OpenCalls, RefusedCalls
<1>6. ASSUME NEW i \in BridgeCalls, HostThrows(i) PROVE i \in OpenCalls /\ Fifo!Refuse(i)
  <2>1. i \in OpenCalls /\ \A j \in OpenCalls : i <= j
    BY <1>1, <1>6, BegunIsOldest DEF HostThrows
  <2>2. OpenCalls' = OpenCalls \ {i} /\ RefusedCalls' = RefusedCalls \cup {i}
    BY <1>t, <1>6 DEF BridgeTypeOK, HostThrows, OpenCalls, RefusedCalls
  <2>3. QED
    BY <2>1, <2>2, <1>6 DEF HostThrows, Fifo!Refuse, Fifo!Oldest, OpenCalls, RefusedCalls
<1>7. CASE UNCHANGED bridgeVars
  BY <1>7 DEF bridgeVars, Fifo!fifoVars
<1>8. QED
  BY <1>1, <1>2, <1>3, <1>4, <1>5, <1>6, <1>7
  DEF BridgeNext, BridgeUser, BridgeMoves, Fifo!Next, OpenCalls

\* Before any call was made the queue is empty.
LEMMA FifoInit == BridgeInit => Fifo!Init
<1>1. SUFFICES ASSUME BridgeInit PROVE Fifo!Init
  OBVIOUS
<1>2. \A i \in BridgeCalls : promise[i] = "unmade"
  BY <1>1, MaxBridgeCallsAssumption DEF BridgeInit, BridgeCalls, Promises
<1>3. OpenCalls = {} /\ RefusedCalls = {}
  BY <1>2 DEF OpenCalls, RefusedCalls
<1>4. QED
  BY <1>1, <1>3 DEF BridgeInit, Fifo!Init, OpenCalls, RefusedCalls

\* Whatever calls interleave and whenever the bridge dies, the chain of promises
\* of HybridBridge.ts answers the calls one at a time, in order, and refuses
\* them all after its death.
THEOREM BridgeImplementsFifo == BridgeSpec => ImplementsFifo
  BY FifoInit, FifoStep, BridgeSpecInv, PTL DEF BridgeSpec, ImplementsFifo, Fifo!Spec
===============================================================================
