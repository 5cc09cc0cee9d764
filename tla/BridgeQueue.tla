------------------------------ MODULE BridgeQueue ------------------------------
(***************************************************************************)
(* The serial queue of the bridge between the pages and the host           *)
(* (lib/HybridBridge.ts, queuedInvoke and invokeDotNetLogged).  The code   *)
(* keeps no list: a call awaits the promise of the call made before it,    *)
(* whatever became of that one, and _bridgeQueue is the last promise of the*)
(* chain.  Calls of several pages, stores and timers interleave.           *)
(***************************************************************************)
EXTENDS Integers

CONSTANT MaxBridgeCalls   \* bound: calls made

ASSUME MaxBridgeCallsAssumption == MaxBridgeCalls \in Nat

VARIABLES bridgeQueue,   \* _bridgeQueue: the number of the call whose promise it is
          promise,       \* promise[i]: the promise of the i-th call; promise 0 is
                         \* resolved from the start
          after,         \* after[i]: the call whose promise it was chained to
          bridgeAlive,   \* _bridgeAlive
          pendingCalls   \* _pendingCalls

bridgeVars == <<bridgeQueue, promise, after, bridgeAlive, pendingCalls>>

BridgeCalls == 1..MaxBridgeCalls
Promises == 0..MaxBridgeCalls

PromiseStates == {"unmade", "chained", "invoked", "fulfilled", "rejected"}

IsSettled(i) == promise[i] \in {"fulfilled", "rejected"}

BridgeInit ==
  /\ bridgeQueue = 0
  /\ promise = [i \in Promises |-> IF i = 0 THEN "fulfilled" ELSE "unmade"]
  /\ after = [i \in BridgeCalls |-> 0]
  /\ bridgeAlive = TRUE
  /\ pendingCalls = 0

\* queuedInvoke: then(fn, fn), so a rejection starts the next call as well.
MakeCall(i) ==
  /\ i = bridgeQueue + 1
  /\ promise[i] = "unmade"
  /\ promise' = [promise EXCEPT ![i] = "chained"]
  /\ after' = [after EXCEPT ![i] = bridgeQueue]
  /\ bridgeQueue' = i
  /\ UNCHANGED <<bridgeAlive, pendingCalls>>

\* A mutation: the call does not wait.
StartUnchained(i) ==
  /\ promise[i] = "chained"
  /\ bridgeAlive
  /\ promise' = [promise EXCEPT ![i] = "invoked"]
  /\ pendingCalls' = pendingCalls + 1
  /\ UNCHANGED <<bridgeQueue, after, bridgeAlive>>

\* The chain has come to a call: the host gets it.
StartCall(i) ==
  /\ promise[i] = "chained" /\ IsSettled(after[i])
  /\ bridgeAlive
  /\ promise' = [promise EXCEPT ![i] = "invoked"]
  /\ pendingCalls' = pendingCalls + 1
  /\ UNCHANGED <<bridgeQueue, after, bridgeAlive>>

\* Not when the bridge is dead.
SkipCall(i) ==
  /\ promise[i] = "chained" /\ IsSettled(after[i])
  /\ ~bridgeAlive
  /\ promise' = [promise EXCEPT ![i] = "rejected"]
  /\ UNCHANGED <<bridgeQueue, after, bridgeAlive, pendingCalls>>

HostReturns(i) ==
  /\ promise[i] = "invoked"
  /\ promise' = [promise EXCEPT ![i] = "fulfilled"]
  /\ pendingCalls' = pendingCalls - 1
  /\ UNCHANGED <<bridgeQueue, after, bridgeAlive>>

\* An error the host threw, or one of the network, which the bridge does not
\* survive.
HostThrows(i) ==
  /\ promise[i] = "invoked"
  /\ promise' = [promise EXCEPT ![i] = "rejected"]
  /\ bridgeAlive' \in {bridgeAlive, FALSE}
  /\ pendingCalls' = pendingCalls - 1
  /\ UNCHANGED <<bridgeQueue, after>>

BridgeUser == \E i \in BridgeCalls : MakeCall(i)

BridgeMoves ==
  \E i \in BridgeCalls : StartCall(i) \/ SkipCall(i) \/ HostReturns(i) \/ HostThrows(i)

BridgeNext == BridgeUser \/ BridgeMoves

BridgeSpec == BridgeInit /\ [][BridgeNext]_bridgeVars

------------------------------------------------------------------------------
(* Properties.                                                              *)

BridgeTypeOK ==
  /\ bridgeQueue \in Promises
  /\ promise \in [Promises -> PromiseStates]
  /\ after \in [BridgeCalls -> Promises]
  /\ bridgeAlive \in BOOLEAN
  /\ pendingCalls \in Int

\* The comment over the queue ("Concurrent calls cause ERR_ADDRESS_UNREACHABLE
\* and permanently kill the bridge"): the host never has two calls at once.
OneCallInHost ==
  \A i, j \in BridgeCalls : promise[i] = "invoked" /\ promise[j] = "invoked" => i = j

\* The chain of promises is a first-in first-out queue.
Fifo == INSTANCE BridgeFifo WITH
  asked <- bridgeQueue,
  open <- {i \in BridgeCalls : promise[i] \in {"chained", "invoked"}},
  refused <- {i \in BridgeCalls : promise[i] = "rejected"},
  alive <- bridgeAlive

ImplementsFifo == Fifo!Spec
===============================================================================
