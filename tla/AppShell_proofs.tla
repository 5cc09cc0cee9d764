--------------------------- MODULE AppShell_proofs ----------------------------
(***************************************************************************)
(* The types, GateAgrees and ReconnectAlive hold for any dashboards, tabs  *)
(* and number of attempts, whatever the host loses.  A lemma for each      *)
(* operator on the shell says that it keeps a good shell good, and that it *)
(* leaves the loop that reconnects to somebody: to a call it queues, or to *)
(* the timer it had.                                                       *)
(***************************************************************************)
EXTENDS AppShell, SequenceTheorems, TLAPS

Fields == {"state", "page", "source", "before", "reconnecting", "attempt", "handle", "orphans",
           "manual", "calibrated", "matched", "armed", "withheld", "dialog", "stash", "names",
           "active", "remount"}

(* A shell with its types, whose gate guards a page that is there.          *)
Typed(s) ==
  /\ DOMAIN s = Fields
  /\ s.state \in ConnectionStates
  /\ s.page \in AllPages
  /\ s.source \in Openers \cup {Nowhere}
  /\ s.before \in AllPages
  /\ s.attempt \in 0..MaxAttempts
  /\ s.orphans \in Nat
  /\ s.stash \in Intents \cup {Nowhere}
  /\ s.names \subseteq Dashboards
  /\ s.remount \in {"dashboard", "config", Nowhere}

Gated(s) ==
  /\ s.armed => s.page = "config"
  /\ s.dialog => s.armed /\ s.stash # Nowhere

Good(s) == Typed(s) /\ Gated(s)

(* Somebody is at work for a shell that reconnects.                         *)
OfLoop(q) == \E i \in 1..Len(q) : q[i].then = "again"
Alive(s, q) == s.reconnecting => OfLoop(q) \/ s.handle \/ s.orphans > 0

(* What a function of the shell s returns: the loop is left as it was, is   *)
(* over, or goes on with a call.                                            *)
Queued(r) == r.q = <<>> \/ \E c \in ShellCalls : r.q = <<c>>
Continues(r) == \E c \in ShellCalls : r.q = <<c>> /\ c.then = "again"
AsBefore(s, t) == t.reconnecting = s.reconnecting /\ t.handle = s.handle /\ t.orphans = s.orphans

Result(r, s) ==
  /\ Good(r.s) /\ Queued(r)
  /\ \/ AsBefore(s, r.s)
     \/ ~r.s.reconnecting
     \/ Continues(r)

(* The result of a function that ends the loop or goes on with it.          *)
Settled(r) ==
  /\ Good(r.s) /\ Queued(r)
  /\ ~r.s.reconnecting \/ Continues(r)

IInv ==
  /\ Good(shell)
  /\ calls \in Seq(ShellCalls)
  /\ events \in Seq(ConnectionStates)
  /\ ecu \in {"up", "down", "retrying"}
  /\ Alive(shell, calls)

------------------------------------------------------------------------------
USE ShellAssumption DEF ShellAssumption

(* Pages and the gate.                                                      *)

LEMMA PagesAre ==
  /\ FunctionalPages \subseteq AllPages /\ Openers \subseteq AllPages
  /\ {"connection", "logs", "sessions", "settings", "splash", "welcome", "calibration",
      "dashboard", "config", "ecuMonitor"} \subseteq AllPages
  BY DEF AllPages, FunctionalPages, Openers

LEMMA DisarmedGood ==
  ASSUME NEW s, Typed(s)
  PROVE  /\ Good(Disarmed(s)) /\ AsBefore(s, Disarmed(s))
         /\ Disarmed(s).page = s.page /\ Disarmed(s).armed = FALSE /\ Disarmed(s).dialog = FALSE
  BY DEF Typed, Good, Gated, Disarmed, Fields, AsBefore

LEMMA ShowGood ==
  ASSUME NEW s, Good(s), NEW page \in AllPages
  PROVE  Good(Show(s, page)) /\ AsBefore(s, Show(s, page))
<1>1. CASE s.page = "config" /\ page # "config"
  BY <1>1 DEF Typed, Good, Gated, Show, Disarmed, Fields, AsBefore
<1>2. CASE ~(s.page = "config" /\ page # "config")
  BY <1>2 DEF Typed, Good, Gated, Show, Fields, AsBefore
<1> QED BY <1>1, <1>2

LEMMA ActivateGood ==
  ASSUME NEW s, Good(s), NEW name
  PROVE  /\ Good(Activate(s, name)) /\ AsBefore(s, Activate(s, name))
         /\ Activate(s, name).page = s.page /\ Activate(s, name).names = s.names
  BY DEF Typed, Good, Gated, Activate, Disarmed, Fields, AsBefore

LEMMA AskFirstGood ==
  ASSUME NEW s, Good(s), s.armed, NEW intent \in Intents
  PROVE  Good(AskFirst(s, intent)) /\ AsBefore(s, AskFirst(s, intent))
  BY DEF Typed, Good, Gated, AskFirst, Fields, AsBefore

LEMMA NavigateToGood ==
  ASSUME NEW s, Good(s), NEW page \in AllPages
  PROVE  Good(NavigateTo(s, page)) /\ AsBefore(s, NavigateTo(s, page))
<1>1. CASE s.armed
  <2>1. Intent("page", page) \in Intents
    BY DEF Intent, Intents
  <2> QED BY <1>1, <2>1, AskFirstGood DEF NavigateTo
<1>2. CASE ~s.armed /\ Refused(s, page)
  BY <1>2 DEF NavigateTo, AsBefore
<1>3. CASE ~s.armed /\ ~Refused(s, page)
  <2> DEFINE t == [s EXCEPT !.source = IF s.page \in Openers THEN s.page ELSE @]
  <2>1. Good(t) /\ AsBefore(s, t)
    BY DEF Typed, Good, Gated, Fields, AsBefore
  <2>2. NavigateTo(s, page) = Show(t, page)
    BY <1>3 DEF NavigateTo
  <2> HIDE DEF t
  <2> QED BY <2>1, <2>2, ShowGood DEF AsBefore
<1> QED BY <1>1, <1>2, <1>3

------------------------------------------------------------------------------
(* The chains of awaits.                                                    *)

(* A result without a call, and with one.                                   *)
LEMMA DoneResult ==
  ASSUME NEW s, NEW t, Good(t), AsBefore(s, t) \/ ~t.reconnecting
  PROVE  Result(Done(t), s) /\ (~t.reconnecting => Settled(Done(t)))
  BY DEF Result, Settled, Done, Queued

LEMMA AskResult ==
  ASSUME NEW s, NEW t, Good(t), NEW call \in ShellCalls,
         AsBefore(s, t) \/ ~t.reconnecting \/ call.then = "again"
  PROVE  /\ Result(Ask(t, call), s)
         /\ ~t.reconnecting \/ call.then = "again" => Settled(Ask(t, call))
<1>1. Ask(t, call).s = t /\ Ask(t, call).q = <<call>>
  BY DEF Ask
<1>2. Queued(Ask(t, call)) /\ (call.then = "again" => Continues(Ask(t, call)))
  BY <1>1 DEF Queued, Continues
<1> QED BY <1>1, <1>2 DEF Result, Settled

LEMMA SettledResult ==
  ASSUME NEW s, NEW r, Settled(r)
  PROVE  Result(r, s)
  BY DEF Settled, Result

(* The calls the shell makes, and those that continue one.                  *)
LEMMA CallIs ==
  ASSUME NEW op \in {"state", "platform", "names", "reporting", "last", "reconnect", "connect",
                     "disconnect", "save", "discard"},
         NEW then \in {"startup", "first", "again", "calibrated", "user"},
         then = "again" => op \in {"last", "reconnect"}
  PROVE  Call(op, then) \in ShellCalls /\ Call(op, then).then = then
  BY DEF Call, ShellCalls

LEMMA CallGoesOn ==
  ASSUME NEW call \in ShellCalls, NEW op \in {"names", "reporting"},
         call.then = "again" => call.page \in AllPages
  PROVE  [call EXCEPT !.op = op] \in ShellCalls /\ [call EXCEPT !.op = op].then = call.then
<1> DEFINE new == [op |-> op, then |-> call.then, page |-> call.page, name |-> call.name,
                   intent |-> call.intent]
<1>1. [call EXCEPT !.op = op] = new
  BY DEF ShellCalls
<1>2. new \in ShellCalls /\ new.then = call.then
  BY DEF ShellCalls
<1> HIDE DEF new
<1> QED BY <1>1, <1>2

LEMMA RestoredGood ==
  ASSUME NEW s, Good(s), NEW call, call.page \in AllPages
  PROVE  Good(Restored(s, call)) /\ ~Restored(s, call).reconnecting
<1> DEFINE page == IF call.page \in {"connection", "splash", "welcome", "calibration"}
                     THEN "dashboard" ELSE call.page
           t == Show(s, page)
<1>1. page \in AllPages
  BY PagesAre
<1> HIDE DEF page
<1>2. Good(t)
  BY <1>1, ShowGood
<1>3. Restored(s, call) = [t EXCEPT !.reconnecting = FALSE, !.attempt = 0, !.handle = FALSE]
  BY DEF Restored, page
<1> HIDE DEF t
<1> QED BY <1>2, <1>3 DEF Good, Typed, Gated, Fields

LEMMA LoadedGood ==
  ASSUME NEW s, Good(s), NEW call \in ShellCalls, call.then = "again" => call.page \in AllPages
  PROVE  /\ Result(Loaded(s, call), s)
         /\ call.then = "again" => Settled(Loaded(s, call))
<1>1. CASE call.then = "again"
  <2>1. Loaded(s, call) = Done(Restored(s, call))
    BY <1>1 DEF Loaded
  <2>2. Settled(Done(Restored(s, call)))
    BY <1>1, RestoredGood, DoneResult
  <2> QED BY <2>1, <2>2, SettledResult
<1>2. CASE call.then = "calibrated"
  <2>1. Loaded(s, call) = Done(NavigateTo(s, "dashboard"))
    BY <1>2 DEF Loaded
  <2>2. Result(Done(NavigateTo(s, "dashboard")), s)
    BY PagesAre, NavigateToGood, DoneResult
  <2> QED BY <1>2, <2>1, <2>2
<1>3. CASE call.then \notin {"again", "calibrated"}
  <2> DEFINE next == [call EXCEPT !.op = "reporting"]
  <2>1. Loaded(s, call) = Ask(s, next)
    BY <1>3 DEF Loaded
  <2>2. next \in ShellCalls
    BY CallGoesOn
  <2> HIDE DEF next
  <2>3. Result(Ask(s, next), s)
    BY <2>2, AskResult DEF AsBefore
  <2> QED BY <1>3, <2>1, <2>3
<1> QED BY <1>1, <1>2, <1>3

LEMMA LoadNamesGood ==
  ASSUME NEW s, Good(s), NEW call \in ShellCalls, call.then = "again" => call.page \in AllPages
  PROVE  /\ Result(LoadNames(s, call), s)
         /\ call.then = "again" => Settled(LoadNames(s, call))
<1>1. CASE IsConnected(s)
  <2> DEFINE next == [call EXCEPT !.op = "names"]
  <2>1. LoadNames(s, call) = Ask(s, next)
    BY <1>1 DEF LoadNames
  <2>2. next \in ShellCalls /\ next.then = call.then
    BY CallGoesOn
  <2> HIDE DEF next
  <2>3. Result(Ask(s, next), s) /\ (call.then = "again" => Settled(Ask(s, next)))
    BY <2>2, AskResult DEF AsBefore
  <2> QED BY <2>1, <2>3
<1>2. CASE ~IsConnected(s)
  BY <1>2, LoadedGood DEF LoadNames
<1> QED BY <1>1, <1>2

LEMMA ReportedGood ==
  ASSUME NEW s, Good(s), NEW call \in ShellCalls, call.then = "again" => call.page \in AllPages
  PROVE  /\ Result(Reported(s, call), s)
         /\ call.then = "again" => Settled(Reported(s, call))
<1>1. CASE call.then = "again"
  BY <1>1, LoadNamesGood DEF Reported
<1>2. CASE call.then # "again"
  <2>1. \E page \in AllPages : Reported(s, call) = Done(NavigateTo(s, page))
    BY <1>2, PagesAre DEF Reported
  <2> QED BY <1>2, <2>1, NavigateToGood, DoneResult
<1> QED BY <1>1, <1>2

------------------------------------------------------------------------------
(* Reconnection.                                                            *)

LEMMA CancelReconnectGood ==
  ASSUME NEW s, Good(s)
  PROVE  Good(CancelReconnect(s)) /\ ~CancelReconnect(s).reconnecting
  BY DEF CancelReconnect, Good, Typed, Gated, Fields

LEMMA RetryLaterGood ==
  ASSUME NEW s, Good(s)
  PROVE  Good(RetryLater(s)) /\ RetryLater(s).handle
  BY DEF RetryLater, Good, Typed, Gated, Fields

(* tryReconnect goes on with a call, or the loop is over.                   *)
LEMMA TryReconnectGood ==
  ASSUME NEW s, Good(s)
  PROVE  Settled(TryReconnect(s))
<1>1. CASE ~s.reconnecting
  BY <1>1, DoneResult DEF TryReconnect
<1>2. CASE s.reconnecting /\ s.attempt >= MaxAttempts
  <2>1. TryReconnect(s) = Done(NavigateTo(CancelReconnect(s), "connection"))
    BY <1>2 DEF TryReconnect
  <2>2. /\ Good(NavigateTo(CancelReconnect(s), "connection"))
        /\ ~NavigateTo(CancelReconnect(s), "connection").reconnecting
    BY CancelReconnectGood, NavigateToGood, PagesAre DEF AsBefore
  <2> QED BY <2>1, <2>2, DoneResult
<1>3. CASE s.reconnecting /\ ~(s.attempt >= MaxAttempts)
  <2> DEFINE t == [s EXCEPT !.attempt = @ + 1]
             call == Call("last", "again")
  <2>1. TryReconnect(s) = Ask(t, call)
    BY <1>3 DEF TryReconnect
  <2>2. Good(t)
    BY <1>3 DEF Good, Typed, Gated, Fields
  <2>3. call \in ShellCalls /\ call.then = "again"
    BY CallIs
  <2> HIDE DEF t, call
  <2> QED BY <2>1, <2>2, <2>3, AskResult
<1> QED BY <1>1, <1>2, <1>3

LEMMA StartReconnectGood ==
  ASSUME NEW s, Good(s)
  PROVE  Settled(StartReconnect(s))
<1> DEFINE c == CancelReconnect(s)
           t == [c EXCEPT !.reconnecting = TRUE, !.before = s.page]
<1>1. Good(c)
  BY CancelReconnectGood
<1> HIDE DEF c
<1>2. Good(t)
  BY <1>1 DEF Good, Typed, Gated, Fields
<1>3. StartReconnect(s) = TryReconnect(t)
  BY DEF StartReconnect, c
<1> HIDE DEF t
<1> QED BY <1>2, <1>3, TryReconnectGood

(* handleConnectionChange.                                                  *)
LEMMA OnConnectionGood ==
  ASSUME NEW s, Good(s), NEW state \in ConnectionStates
  PROVE  Result(OnConnection(s, state), s)
<1> DEFINE told == [s EXCEPT !.state = state]
           cancelled == CancelReconnect(told)
           first == Call("names", "first")
           r == OnConnection(s, state)
<1>1. Good(told) /\ AsBefore(s, told)
  BY DEF Good, Typed, Gated, Fields, AsBefore
<1>2. \/ r = Done(told)
      \/ r = Done(cancelled)
      \/ r = LoadNames(cancelled, first)
      \/ r = Done(NavigateTo(cancelled, "connection"))
      \/ r = Done(NavigateTo(told, "connection"))
      \/ r = StartReconnect(told)
  BY DEF OnConnection
<1> HIDE DEF told, r
<1>3. Good(cancelled) /\ ~cancelled.reconnecting
  BY <1>1, CancelReconnectGood
<1> HIDE DEF cancelled
<1>4. Result(Done(told), s) /\ Result(Done(cancelled), s)
  BY <1>1, <1>3, DoneResult
<1>5. Result(LoadNames(cancelled, first), s)
  <2>1. first \in ShellCalls /\ first.then = "first"
    BY CallIs
  <2>2. Result(LoadNames(cancelled, first), cancelled)
    BY <1>3, <2>1, LoadNamesGood
  <2> QED BY <1>3, <2>2 DEF Result, AsBefore
<1>6. Result(Done(NavigateTo(cancelled, "connection")), s)
  <2> DEFINE t == NavigateTo(cancelled, "connection")
  <2>1. Good(t) /\ ~t.reconnecting
    BY <1>3, PagesAre, NavigateToGood DEF AsBefore
  <2> HIDE DEF t
  <2>2. Result(Done(t), s)
    BY <2>1, DoneResult
  <2> QED BY <2>2 DEF t
<1>7. Result(Done(NavigateTo(told, "connection")), s)
  BY <1>1, PagesAre, NavigateToGood, DoneResult DEF AsBefore
<1>8. Result(StartReconnect(told), s)
  BY <1>1, StartReconnectGood, SettledResult
<1> QED BY <1>2, <1>4, <1>5, <1>6, <1>7, <1>8 DEF r

------------------------------------------------------------------------------
(* Steps.                                                                   *)

(* The queue, when its first call is taken from it and another one put in.  *)
LEMMA QueueTaken ==
  ASSUME NEW q \in Seq(ShellCalls), q # <<>>
  PROVE  /\ Head(q) \in ShellCalls /\ Tail(q) \in Seq(ShellCalls)
         /\ OfLoop(q) => Head(q).then = "again" \/ OfLoop(Tail(q))
<1>1. Head(q) = q[1] /\ Head(q) \in ShellCalls
  BY HeadTailProperties
<1>2. /\ Tail(q) \in Seq(ShellCalls) /\ Len(Tail(q)) = Len(q) - 1
      /\ \A i \in 1..Len(Tail(q)) : Tail(q)[i] = q[i + 1]
  BY HeadTailProperties
<1>3. Len(q) \in Nat
  BY LenProperties
<1>4. ASSUME NEW i \in 1..Len(q), q[i].then = "again", i # 1
      PROVE  OfLoop(Tail(q))
  <2>1. i - 1 \in 1..Len(Tail(q)) /\ (i - 1) + 1 = i
    BY <1>2, <1>3, <1>4
  <2>2. Tail(q)[i - 1] = q[i]
    BY <1>2, <2>1
  <2> QED BY <1>4, <2>1, <2>2 DEF OfLoop
<1> QED BY <1>1, <1>2, <1>4 DEF OfLoop

LEMMA QueueGrows ==
  ASSUME NEW q \in Seq(ShellCalls), NEW r, Queued(r)
  PROVE  /\ q \o r.q \in Seq(ShellCalls)
         /\ OfLoop(q) \/ Continues(r) => OfLoop(q \o r.q)
<1>1. r.q \in Seq(ShellCalls)
  <2>1. ASSUME NEW c \in ShellCalls PROVE <<c>> \in Seq(ShellCalls)
    OBVIOUS
  <2>2. <<>> \in Seq(ShellCalls)
    OBVIOUS
  <2> QED BY <2>1, <2>2 DEF Queued
<1> DEFINE e == r.q
<1> HIDE DEF e
<1>2. e \in Seq(ShellCalls) /\ e = r.q
  BY <1>1 DEF e
<1>3. /\ q \o e \in Seq(ShellCalls) /\ Len(q \o e) = Len(q) + Len(e)
      /\ \A i \in 1..Len(q) + Len(e) : (q \o e)[i] = IF i <= Len(q) THEN q[i] ELSE e[i - Len(q)]
  BY <1>2, ConcatProperties
<1>4. Len(q) \in Nat /\ Len(e) \in Nat
  BY <1>2, LenProperties
<1>5. ASSUME OfLoop(q) PROVE OfLoop(q \o e)
  <2>1. PICK i \in 1..Len(q) : q[i].then = "again"
    BY <1>5 DEF OfLoop
  <2>2. i \in 1..Len(q) + Len(e) /\ i <= Len(q)
    BY <1>4
  <2>3. (q \o e)[i] = q[i]
    BY <1>3, <2>2
  <2> QED BY <1>3, <2>1, <2>2, <2>3 DEF OfLoop
<1>6. ASSUME Continues(r) PROVE OfLoop(q \o e)
  <2>1. PICK c \in ShellCalls : e = <<c>> /\ c.then = "again"
    BY <1>2, <1>6 DEF Continues
  <2>2. Len(e) = 1 /\ e[1] = c
    BY <2>1
  <2>3. Len(q) + 1 \in 1..Len(q) + Len(e) /\ ~(Len(q) + 1 <= Len(q)) /\ Len(q) + 1 - Len(q) = 1
    BY <1>4, <2>2
  <2>4. (q \o e)[Len(q) + 1] = c
    BY <1>3, <2>2, <2>3
  <2> QED BY <1>3, <2>1, <2>3, <2>4 DEF OfLoop
<1> QED BY <1>2, <1>3, <1>5, <1>6

(* Inv is what a step of the shell, or of the host alone, has to keep.      *)
ShellKept == Good(shell') /\ calls' \in Seq(ShellCalls) /\ Alive(shell', calls')

(* A result whose loop is left alone by the calls that stay.                *)
LEMMA KeptBy ==
  ASSUME NEW s, NEW rest \in Seq(ShellCalls), Alive(s, rest), NEW r, Result(r, s),
         Becomes(r, rest)
  PROVE  ShellKept
<1>1. /\ shell' = r.s /\ calls' = rest \o r.q /\ Good(r.s)
      /\ rest \o r.q \in Seq(ShellCalls)
      /\ OfLoop(rest) \/ Continues(r) => OfLoop(rest \o r.q)
  BY QueueGrows DEF Result, Becomes
<1>2. Alive(r.s, rest \o r.q)
  BY <1>1 DEF Alive, Result, AsBefore
<1> QED BY <1>1, <1>2 DEF ShellKept

(* A result that settles the loop, whatever stays.                          *)
LEMMA SettledBy ==
  ASSUME NEW rest \in Seq(ShellCalls), NEW r, Settled(r), Becomes(r, rest)
  PROVE  ShellKept
<1>1. /\ shell' = r.s /\ calls' = rest \o r.q /\ Good(r.s)
      /\ rest \o r.q \in Seq(ShellCalls)
      /\ Continues(r) => OfLoop(rest \o r.q)
  BY QueueGrows DEF Settled, Becomes
<1>2. Alive(r.s, rest \o r.q)
  BY <1>1 DEF Alive, Settled
<1> QED BY <1>1, <1>2 DEF ShellKept

(* The two ways an answer leaves the loop: it is of the loop and settles    *)
(* it, or it is not and leaves it to those before.                          *)
LEMMA AnsweredBy ==
  ASSUME IInv, calls # <<>>, NEW r, Becomes(r, Tail(calls)), Result(r, shell),
         Head(calls).then = "again" => Settled(r)
  PROVE  ShellKept
<1>1. Tail(calls) \in Seq(ShellCalls)
  BY QueueTaken DEF IInv
<1>2. CASE Head(calls).then = "again"
  BY <1>1, <1>2, SettledBy
<1>3. CASE Head(calls).then # "again"
  <2>1. Alive(shell, Tail(calls))
    BY <1>3, QueueTaken DEF IInv, Alive
  <2> QED BY <1>1, <2>1, KeptBy
<1> QED BY <1>2, <1>3

LEMMA ResultFrom ==
  ASSUME NEW s, NEW t, AsBefore(s, t), NEW r, Result(r, t)
  PROVE  Result(r, s)
  BY DEF Result, AsBefore

(* The answer to a call that is not of the loop.                            *)
LEMMA AnsweredApart ==
  ASSUME IInv, calls # <<>>, Head(calls).op \notin {"last", "reconnect", "reporting", "names"},
         NEW r, Becomes(r, Tail(calls)), Result(r, shell)
  PROVE  ShellKept
<1>1. Head(calls) \in ShellCalls
  BY QueueTaken DEF IInv
<1>2. Head(calls).then # "again"
  BY <1>1 DEF ShellCalls
<1> QED BY <1>2, AnsweredBy

(* A step of the user, which takes no call from the queue.                  *)
LEMMA UserMoves ==
  ASSUME IInv, NEW r, Becomes(r, calls), Result(r, shell)
  PROVE  ShellKept
  BY KeptBy DEF IInv

LEMMA UserTurns ==
  ASSUME IInv, NEW t, Turns(t), Good(t), AsBefore(shell, t) \/ ~t.reconnecting
  PROVE  ShellKept
<1>1. Result(Done(t), shell)
  BY DoneResult
<1>2. Becomes(Done(t), calls)
  BY DEF Turns
<1> HIDE DEF Turns, Becomes
<1> QED BY <1>1, <1>2, UserMoves

(* The answers.                                                             *)

LEMMA StateAnsweredKeeps == ASSUME IInv, StateAnswered PROVE ShellKept
<1> DEFINE head == Head(calls)
           up == [shell EXCEPT !.state = IF ecu = "up" THEN "Connected" ELSE "Disconnected"]
           ready == [up EXCEPT !.calibrated = TRUE]
           platform == Call("platform", "startup")
           r == IF IsConnected(up) THEN LoadNames(ready, head) ELSE Ask(up, platform)
<1>1. calls # <<>> /\ head.op = "state" /\ Becomes(r, Tail(calls))
  BY DEF StateAnswered, Asked
<1>2. head \in ShellCalls /\ head.then # "again"
  <2>1. head \in ShellCalls
    BY <1>1, QueueTaken DEF IInv
  <2> QED BY <1>1, <2>1 DEF ShellCalls
<1>3. Good(up) /\ AsBefore(shell, up)
  BY DEF IInv, Good, Typed, Gated, Fields, AsBefore, ConnectionStates
<1> HIDE DEF up
<1>4. Good(ready) /\ AsBefore(up, ready)
  BY <1>3 DEF Good, Typed, Gated, Fields, AsBefore
<1> HIDE DEF ready, head
<1>5. Result(LoadNames(ready, head), shell)
  <2>1. Result(LoadNames(ready, head), ready)
    BY <1>2, <1>4, LoadNamesGood
  <2>2. AsBefore(shell, ready)
    BY <1>3, <1>4 DEF AsBefore
  <2> QED BY <2>1, <2>2, ResultFrom
<1>6. Result(Ask(up, platform), shell)
  <2>1. platform \in ShellCalls
    BY CallIs
  <2> HIDE DEF platform
  <2> QED BY <1>3, <2>1, AskResult
<1>7. Result(r, shell)
  BY <1>5, <1>6
<1> HIDE DEF r
<1> QED BY <1>1, <1>7, AnsweredApart DEF head

LEMMA PlatformAnsweredKeeps == ASSUME IInv, PlatformAnswered PROVE ShellKept
<1>1. PICK page \in {"connection", "welcome"} :
        Becomes(Done(NavigateTo(shell, page)), Tail(calls))
  BY DEF PlatformAnswered
<1> DEFINE t == NavigateTo(shell, page)
<1>2. Good(t) /\ AsBefore(shell, t)
  BY PagesAre, NavigateToGood DEF IInv
<1> HIDE DEF t
<1>3. Result(Done(t), shell)
  BY <1>2, DoneResult
<1>4. Becomes(Done(t), Tail(calls)) /\ calls # <<>> /\ Head(calls).op = "platform"
  BY <1>1 DEF t, PlatformAnswered, Asked
<1> QED BY <1>3, <1>4, AnsweredApart

(* A call of the loop, when it is answered, knows the page to go back to.   *)
LEMMA HeadIsCall ==
  ASSUME IInv, NEW op \in {"names", "reporting"}, Asked(op)
  PROVE  /\ calls # <<>> /\ Head(calls) \in ShellCalls
         /\ Head(calls).then = "again" => Head(calls).page \in AllPages
<1>1. calls # <<>> /\ Head(calls) \in ShellCalls /\ Head(calls).op = op
  BY QueueTaken DEF IInv, Asked
<1> QED BY <1>1 DEF ShellCalls

LEMMA NamesAnsweredKeeps == ASSUME IInv, NamesAnswered PROVE ShellKept
<1>1. PICK name \in shell.names :
        Becomes(Loaded(Activate(shell, name), Head(calls)), Tail(calls))
  BY DEF NamesAnswered
<1> DEFINE t == Activate(shell, name)
           r == Loaded(t, Head(calls))
<1>2. /\ calls # <<>> /\ Head(calls) \in ShellCalls
      /\ Head(calls).then = "again" => Head(calls).page \in AllPages
  BY HeadIsCall DEF NamesAnswered
<1>3. Good(t) /\ AsBefore(shell, t)
  BY ActivateGood DEF IInv
<1>4. Becomes(r, Tail(calls))
  BY <1>1
<1> HIDE DEF t
<1>5. Result(r, t) /\ (Head(calls).then = "again" => Settled(r))
  BY <1>2, <1>3, LoadedGood
<1> HIDE DEF r
<1>6. Result(r, shell)
  BY <1>3, <1>5, ResultFrom
<1> QED BY <1>2, <1>4, <1>5, <1>6, AnsweredBy

LEMMA ReportingAnsweredKeeps == ASSUME IInv, ReportingAnswered PROVE ShellKept
<1> DEFINE r == Reported(shell, Head(calls))
<1>1. /\ calls # <<>> /\ Head(calls) \in ShellCalls
      /\ Head(calls).then = "again" => Head(calls).page \in AllPages
  BY HeadIsCall DEF ReportingAnswered
<1>2. Result(r, shell) /\ (Head(calls).then = "again" => Settled(r))
  BY <1>1, ReportedGood DEF IInv
<1>3. Becomes(r, Tail(calls))
  BY DEF ReportingAnswered
<1> HIDE DEF r
<1> QED BY <1>1, <1>2, <1>3, AnsweredBy

LEMMA LastAnsweredKeeps == ASSUME IInv, LastAnswered PROVE ShellKept
<1>1. calls # <<>> /\ Tail(calls) \in Seq(ShellCalls) /\ Good(shell)
  BY QueueTaken DEF IInv, LastAnswered, Asked
<1>2. CASE Becomes(Ask(shell, Call("reconnect", "again")), Tail(calls))
  <2> DEFINE call == Call("reconnect", "again")
  <2>1. call \in ShellCalls /\ call.then = "again"
    BY CallIs
  <2> HIDE DEF call
  <2>2. Settled(Ask(shell, call))
    BY <1>1, <2>1, AskResult
  <2>3. Becomes(Ask(shell, call), Tail(calls))
    BY <1>2 DEF call
  <2> QED BY <1>1, <2>2, <2>3, SettledBy
<1>3. CASE Becomes(Done(NavigateTo(CancelReconnect(shell), "connection")), Tail(calls))
  <2> DEFINE t == NavigateTo(CancelReconnect(shell), "connection")
  <2>1. Good(t) /\ ~t.reconnecting
    BY <1>1, PagesAre, CancelReconnectGood, NavigateToGood DEF AsBefore
  <2>2. Becomes(Done(t), Tail(calls))
    BY <1>3
  <2> HIDE DEF t
  <2>3. Settled(Done(t))
    BY <2>1, DoneResult
  <2> QED BY <1>1, <2>2, <2>3, SettledBy
<1> QED BY <1>2, <1>3 DEF LastAnswered

(* An attempt succeeds and the loop reports, or fails and its timer runs.   *)
LEMMA ReconnectAnsweredKeeps == ASSUME IInv, ReconnectAnswered PROVE ShellKept
<1> DEFINE back == [Call("reporting", "again") EXCEPT !.page = shell.before]
           up == [shell EXCEPT !.state = "Connected", !.before = "connection"]
           later == RetryLater(shell)
<1>1. calls # <<>> /\ Tail(calls) \in Seq(ShellCalls) /\ Good(shell)
  BY QueueTaken DEF IInv, ReconnectAnswered, Asked
<1>2. CASE Becomes(Ask(up, back), Tail(calls))
  <2>1. back \in ShellCalls /\ back.then = "again"
    <3>1. back = [op |-> "reporting", then |-> "again", page |-> shell.before,
                  name |-> Nowhere, intent |-> Nowhere]
      BY DEF Call
    <3>2. shell.before \in AllPages
      BY <1>1 DEF Good, Typed
    <3> QED BY <3>1, <3>2 DEF ShellCalls
  <2>2. Good(up)
    BY <1>1, PagesAre DEF Good, Typed, Gated, Fields, ConnectionStates
  <2> HIDE DEF back, up
  <2>3. Settled(Ask(up, back))
    BY <2>1, <2>2, AskResult
  <2> QED BY <1>1, <1>2, <2>3, SettledBy
<1>3. CASE Becomes(Done(later), Tail(calls))
  <2>1. Good(later) /\ later.handle
    BY <1>1, RetryLaterGood
  <2> HIDE DEF later
  <2>2. shell' = later /\ calls' = Tail(calls) \o <<>>
    BY <1>3 DEF Becomes, Done
  <2>3. Tail(calls) \o <<>> \in Seq(ShellCalls)
    BY <1>1, ConcatEmptySeq
  <2> QED BY <2>1, <2>2, <2>3 DEF ShellKept, Alive
<1> QED BY <1>2, <1>3 DEF ReconnectAnswered

LEMMA ConnectAnsweredKeeps == ASSUME IInv, ConnectAnswered PROVE ShellKept
<1>1. PICK ok \in BOOLEAN :
        Becomes(OnConnection(shell, IF ok THEN "Connected" ELSE "Error"), Tail(calls))
  BY DEF ConnectAnswered
<1> DEFINE r == OnConnection(shell, IF ok THEN "Connected" ELSE "Error")
<1>2. Result(r, shell)
  BY OnConnectionGood DEF IInv, ConnectionStates
<1>3. calls # <<>> /\ Head(calls).op = "connect"
  BY DEF ConnectAnswered, Asked
<1>4. Becomes(r, Tail(calls))
  BY <1>1
<1> HIDE DEF r
<1> QED BY <1>2, <1>3, <1>4, AnsweredApart

LEMMA DisconnectAnsweredKeeps == ASSUME IInv, DisconnectAnswered PROVE ShellKept
<1> DEFINE shown == Show(shell, "connection")
           t == [shown EXCEPT !.state = "Disconnected", !.manual = FALSE]
<1>1. Good(shown) /\ AsBefore(shell, shown)
  BY PagesAre, ShowGood DEF IInv
<1>2. Becomes(Done(t), Tail(calls)) /\ calls # <<>> /\ Head(calls).op = "disconnect"
  BY DEF DisconnectAnswered, Asked
<1> HIDE DEF shown
<1>3. Good(t) /\ AsBefore(shell, t)
  BY <1>1 DEF Good, Typed, Gated, Fields, AsBefore, ConnectionStates
<1> HIDE DEF t
<1>4. Result(Done(t), shell)
  BY <1>3, DoneResult
<1> QED BY <1>2, <1>4, AnsweredApart

LEMMA SwitchAnsweredKeeps == ASSUME IInv, SwitchAnswered PROVE ShellKept
<1> DEFINE active == Activate(shell, Head(calls).name)
           t == NavigateTo(active, "dashboard")
<1>1. Becomes(Done(t), Tail(calls)) /\ calls # <<>> /\ Head(calls).op = "setActive"
  BY DEF SwitchAnswered, Asked
<1>2. Good(active) /\ AsBefore(shell, active)
  BY ActivateGood DEF IInv
<1> HIDE DEF active
<1>3. Good(t) /\ AsBefore(shell, t)
  BY <1>2, PagesAre, NavigateToGood DEF AsBefore
<1> HIDE DEF t
<1>4. Result(Done(t), shell)
  BY <1>3, DoneResult
<1> QED BY <1>1, <1>4, AnsweredApart

(* The calls about a dashboard name one.                                    *)
LEMMA HeadNames ==
  ASSUME IInv, NEW op \in {"setActive", "create", "delete"}, Asked(op)
  PROVE  calls # <<>> /\ Head(calls).op = op /\ Head(calls).name \in Dashboards
<1>1. calls # <<>> /\ Head(calls) \in ShellCalls /\ Head(calls).op = op
  BY QueueTaken DEF IInv, Asked
<1> QED BY <1>1 DEF ShellCalls

LEMMA CreateAnsweredKeeps == ASSUME IInv, CreateAnswered PROVE ShellKept
<1> DEFINE name == Head(calls).name
           active == Activate(shell, name)
           named == [active EXCEPT !.names = @ \cup {name}]
           t == Show(named, "config")
<1>1. calls # <<>> /\ Head(calls).op = "create" /\ name \in Dashboards
  BY HeadNames DEF CreateAnswered
<1>2. Becomes(Done(t), Tail(calls)) \/ Becomes(Done(shell), Tail(calls))
  BY DEF CreateAnswered
<1> HIDE DEF name
<1>3. Good(active) /\ AsBefore(shell, active)
  BY ActivateGood DEF IInv
<1> HIDE DEF active
<1>4. Good(named) /\ AsBefore(shell, named)
  BY <1>1, <1>3 DEF Good, Typed, Gated, Fields, AsBefore
<1> HIDE DEF named
<1>5. Good(t) /\ AsBefore(shell, t)
  BY <1>4, PagesAre, ShowGood DEF AsBefore
<1> HIDE DEF t
<1>6. Result(Done(t), shell) /\ Result(Done(shell), shell)
  BY <1>5, DoneResult DEF IInv, AsBefore
<1> QED BY <1>1, <1>2, <1>6, AnsweredApart

LEMMA DeleteAnsweredKeeps == ASSUME IInv, DeleteAnswered PROVE ShellKept
<1> DEFINE left == shell.names \ {Head(calls).name}
           to(s) == IF s.page \in {"dashboard", "config"}
                      THEN [Show(s, "splash") EXCEPT !.remount = s.page] ELSE s
           named(name) == [Activate(shell, name) EXCEPT !.names = left]
<1>1. calls # <<>> /\ Head(calls).op = "delete"
  BY DEF DeleteAnswered, Asked
<1>2. \/ \E name \in left : Becomes(Done(to(named(name))), Tail(calls))
      \/ Becomes(Done(shell), Tail(calls))
  BY DEF DeleteAnswered
<1>3. Good(shell) /\ left \subseteq Dashboards
  BY DEF IInv, Good, Typed
<1> HIDE DEF left
<1>4. ASSUME NEW name PROVE Good(named(name)) /\ AsBefore(shell, named(name))
  <2> DEFINE active == Activate(shell, name)
  <2>1. Good(active) /\ AsBefore(shell, active)
    BY <1>3, ActivateGood
  <2> HIDE DEF active
  <2>2. /\ Good([active EXCEPT !.names = left])
        /\ AsBefore(shell, [active EXCEPT !.names = left])
    BY <1>3, <2>1 DEF Good, Typed, Gated, Fields, AsBefore
  <2> QED BY <2>2 DEF active
<1>5. ASSUME NEW s, Good(s), AsBefore(shell, s)
      PROVE  Good(to(s)) /\ AsBefore(shell, to(s))
  <2> DEFINE shown == Show(s, "splash")
  <2>1. Good(shown) /\ AsBefore(s, shown)
    BY <1>5, PagesAre, ShowGood
  <2> HIDE DEF shown
  <2>2. ASSUME s.page \in {"dashboard", "config"}
        PROVE  /\ Good([shown EXCEPT !.remount = s.page])
               /\ AsBefore(s, [shown EXCEPT !.remount = s.page])
    BY <2>1, <2>2 DEF Good, Typed, Gated, Fields, AsBefore
  <2> QED BY <1>5, <2>2 DEF shown, AsBefore
<1> HIDE DEF named, to
<1>6. CASE \E name \in left : Becomes(Done(to(named(name))), Tail(calls))
  <2>1. PICK name \in left : Becomes(Done(to(named(name))), Tail(calls))
    BY <1>6
  <2> DEFINE t == to(named(name))
  <2>2. Good(t) /\ AsBefore(shell, t)
    BY <1>4, <1>5
  <2> HIDE DEF t
  <2>3. Result(Done(t), shell)
    BY <2>2, DoneResult
  <2>4. Becomes(Done(t), Tail(calls))
    BY <2>1 DEF t
  <2> QED BY <1>1, <2>3, <2>4, AnsweredApart
<1>7. CASE Becomes(Done(shell), Tail(calls))
  <2>1. Result(Done(shell), shell)
    BY <1>3, DoneResult DEF AsBefore
  <2> QED BY <1>1, <1>7, <2>1, AnsweredApart
<1> QED BY <1>2, <1>6, <1>7

(* What was kept while the dialog was open is done.                         *)
LEMMA PerformDisconnectGood ==
  ASSUME NEW s, Good(s)
  PROVE  Result(PerformDisconnect(s), s)
<1> DEFINE c == CancelReconnect(s)
           t == [c EXCEPT !.manual = TRUE]
           call == Call("disconnect", "user")
<1>1. Good(c) /\ ~c.reconnecting
  BY CancelReconnectGood
<1>2. PerformDisconnect(s) = Ask(t, call)
  BY DEF PerformDisconnect
<1> HIDE DEF c
<1>3. Good(t) /\ ~t.reconnecting
  BY <1>1 DEF Good, Typed, Gated, Fields
<1>4. call \in ShellCalls
  BY CallIs
<1> HIDE DEF t, call
<1> QED BY <1>2, <1>3, <1>4, AskResult

(* A call about a dashboard.                                                *)
LEMMA NamingCall ==
  ASSUME NEW op \in {"setActive", "create", "delete"}, NEW name \in Dashboards
  PROVE  [Call(op, "user") EXCEPT !.name = name] \in ShellCalls
<1>1. [Call(op, "user") EXCEPT !.name = name]
        = [op |-> op, then |-> "user", page |-> Nowhere, name |-> name, intent |-> Nowhere]
  BY DEF Call
<1> QED BY <1>1 DEF ShellCalls

LEMMA ResolveGood ==
  ASSUME NEW s, Good(s), NEW intent \in Intents \cup {Nowhere}
  PROVE  Result(Resolve(s, intent), s)
<1>1. CASE intent = Nowhere
  <2>1. Result(Done(s), s)
    BY DoneResult DEF AsBefore
  <2> QED BY <1>1, <2>1 DEF Resolve
<1>2. CASE intent # Nowhere /\ intent.kind = "disconnect"
  BY <1>2, PerformDisconnectGood DEF Resolve
<1>3. CASE intent # Nowhere /\ intent.kind \in {"create", "delete"}
  <2> DEFINE call == [Call(intent.kind, "user") EXCEPT !.name = intent.target]
  <2>1. intent.target \in Dashboards
    BY <1>3 DEF Intents
  <2>2. call \in ShellCalls
    BY <1>3, <2>1, NamingCall
  <2>3. Resolve(s, intent) = Ask(s, call)
    BY <1>3 DEF Resolve
  <2> HIDE DEF call
  <2> QED BY <2>2, <2>3, AskResult DEF AsBefore
<1>4. CASE intent # Nowhere /\ intent.kind \notin {"disconnect", "create", "delete"}
  <2>1. intent.target \in AllPages
    BY <1>4 DEF Intents
  <2>2. Resolve(s, intent) = Done(NavigateTo(s, intent.target))
    BY <1>4 DEF Resolve
  <2> DEFINE t == NavigateTo(s, intent.target)
  <2>3. Good(t) /\ AsBefore(s, t)
    BY <2>1, NavigateToGood
  <2> HIDE DEF t
  <2>4. Result(Done(t), s)
    BY <2>3, DoneResult
  <2> QED BY <2>2, <2>4 DEF t
<1> QED BY <1>1, <1>2, <1>3, <1>4

LEMMA ChoiceAnsweredKeeps == ASSUME IInv, ChoiceAnswered PROVE ShellKept
<1> DEFINE s == Disarmed(shell)
           intent == Head(calls).intent
           r == Resolve(s, intent)
<1>1. calls # <<>> /\ Head(calls) \in ShellCalls /\ Head(calls).op \in {"save", "discard"}
  BY QueueTaken DEF IInv, ChoiceAnswered, Asked
<1>2. Good(s) /\ AsBefore(shell, s)
  BY DisarmedGood DEF IInv, Good
<1>3. intent \in Intents \cup {Nowhere}
  BY <1>1 DEF ShellCalls
<1>4. \/ Becomes(r, Tail(calls))
      \/ shell' = shell /\ calls' = Tail(calls)
  BY DEF ChoiceAnswered, Becomes
<1> HIDE DEF s, intent
<1>5. Result(r, shell)
  BY <1>2, <1>3, ResolveGood, ResultFrom
<1> HIDE DEF r
<1>6. CASE Becomes(r, Tail(calls))
  BY <1>1, <1>5, <1>6, AnsweredApart
<1>7. CASE shell' = shell /\ calls' = Tail(calls)
  <2>1. Result(Done(shell), shell)
    BY DoneResult DEF IInv, AsBefore
  <2>2. Becomes(Done(shell), Tail(calls))
    <3>1. Tail(calls) \in Seq(ShellCalls)
      BY <1>1, QueueTaken DEF IInv
    <3>2. Tail(calls) \o <<>> = Tail(calls)
      BY <3>1, ConcatEmptySeq
    <3> QED BY <1>7, <3>2 DEF Becomes, Done
  <2> QED BY <1>1, <2>1, <2>2, AnsweredApart
<1> QED BY <1>4, <1>6, <1>7

------------------------------------------------------------------------------
(* What moves the shell without an answer.                                  *)

(* The first event, and those that stay.                                    *)
LEMMA EventTaken ==
  ASSUME IInv, events # <<>>
  PROVE  Head(events) \in ConnectionStates /\ Tail(events) \in Seq(ConnectionStates)
  BY HeadTailProperties DEF IInv

LEMMA EventArrivesKeeps == ASSUME IInv, EventArrives PROVE ShellKept
<1> DEFINE r == OnConnection(shell, Head(events))
<1>1. Result(r, shell)
  BY EventTaken, OnConnectionGood DEF IInv, EventArrives
<1>2. Becomes(r, calls)
  BY DEF EventArrives
<1> HIDE DEF r
<1> QED BY <1>1, <1>2, UserMoves

(* The timer of the loop, with its handle or without.                       *)
LEMMA RetryTimerKeeps == ASSUME IInv, RetryTimer PROVE ShellKept
<1> DEFINE off == [shell EXCEPT !.handle = FALSE]
           fewer == [shell EXCEPT !.orphans = @ - 1]
<1>1. Good(off)
  BY DEF IInv, Good, Typed, Gated, Fields
<1>2. shell.orphans > 0 => Good(fewer)
  BY DEF IInv, Good, Typed, Gated, Fields
<1>3. \/ Becomes(TryReconnect(off), calls)
      \/ shell.orphans > 0 /\ Becomes(TryReconnect(fewer), calls)
  BY DEF RetryTimer
<1> HIDE DEF off, fewer
<1> QED BY <1>1, <1>2, <1>3, TryReconnectGood, SettledBy DEF IInv

LEMMA NextFrameKeeps == ASSUME IInv, NextFrame PROVE ShellKept
<1> DEFINE shown == Show(shell, shell.remount)
           t == [shown EXCEPT !.remount = Nowhere]
<1>1. shell.remount \in AllPages
  BY PagesAre DEF IInv, Good, Typed, NextFrame
<1>2. Good(shown) /\ AsBefore(shell, shown)
  BY <1>1, ShowGood DEF IInv
<1>3. Turns(t)
  BY DEF NextFrame
<1> HIDE DEF shown
<1>4. Good(t) /\ AsBefore(shell, t)
  BY <1>2 DEF Good, Typed, Gated, Fields, AsBefore
<1> HIDE DEF t
<1> QED BY <1>3, <1>4, UserTurns

LEMMA CalibrationDoneKeeps == ASSUME IInv, CalibrationDone PROVE ShellKept
<1> DEFINE t == [shell EXCEPT !.matched = 0, !.calibrated = TRUE]
           call == Call("names", "calibrated")
<1>1. Good(t) /\ AsBefore(shell, t)
  BY DEF IInv, Good, Typed, Gated, Fields, AsBefore
<1>2. call \in ShellCalls /\ call.then = "calibrated"
  BY CallIs
<1>3. Becomes(LoadNames(t, call), calls)
  BY DEF CalibrationDone
<1> HIDE DEF t, call
<1>4. Result(LoadNames(t, call), shell)
  BY <1>1, <1>2, LoadNamesGood, ResultFrom
<1> QED BY <1>3, <1>4, UserMoves

------------------------------------------------------------------------------
(* The user.                                                                *)

LEMMA StayKeeps == ASSUME IInv, Stay PROVE ShellKept
<1> DEFINE t == [shell EXCEPT !.dialog = FALSE, !.stash = Nowhere]
<1>1. Good(t) /\ AsBefore(shell, t)
  BY DEF IInv, Good, Typed, Gated, Fields, AsBefore
<1>2. Turns(t)
  BY DEF Stay
<1> HIDE DEF t
<1> QED BY <1>1, <1>2, UserTurns

LEMMA LeaveBySaveOrDiscardKeeps == ASSUME IInv, LeaveBySaveOrDiscard PROVE ShellKept
<1>1. PICK op \in {"save", "discard"} :
        Becomes(Ask([shell EXCEPT !.dialog = FALSE, !.stash = Nowhere],
                    [Call(op, "user") EXCEPT !.intent = shell.stash]), calls)
  BY DEF LeaveBySaveOrDiscard
<1> DEFINE t == [shell EXCEPT !.dialog = FALSE, !.stash = Nowhere]
           call == [Call(op, "user") EXCEPT !.intent = shell.stash]
<1>2. Good(t) /\ AsBefore(shell, t)
  BY DEF IInv, Good, Typed, Gated, Fields, AsBefore
<1>3. call \in ShellCalls
  <2>1. call = [op |-> op, then |-> "user", page |-> Nowhere, name |-> Nowhere,
                intent |-> shell.stash]
    BY DEF Call
  <2>2. shell.stash \in Intents \cup {Nowhere}
    BY DEF IInv, Good, Typed
  <2> QED BY <2>1, <2>2 DEF ShellCalls
<1>4. Becomes(Ask(t, call), calls)
  BY <1>1
<1> HIDE DEF t, call
<1>5. Result(Ask(t, call), shell)
  BY <1>2, <1>3, AskResult
<1> QED BY <1>4, <1>5, UserMoves

LEMMA NavigateKeeps ==
  ASSUME IInv, NEW page \in Tabs \cup {"connection", "ecuMonitor", "logs", "sessions"},
         Navigate(page)
  PROVE  ShellKept
<1> DEFINE t == NavigateTo(shell, page)
<1>1. Good(t) /\ AsBefore(shell, t)
  BY PagesAre, NavigateToGood DEF IInv
<1>2. Turns(t)
  BY DEF Navigate
<1> HIDE DEF t
<1> QED BY <1>1, <1>2, UserTurns

LEMMA BackKeeps == ASSUME IInv, Back PROVE ShellKept
<1> DEFINE page == BackTarget(shell)
           intent == Intent("page", page)
           forgot == [shell EXCEPT !.source = Nowhere]
           t == IF shell.armed THEN AskFirst(shell, intent) ELSE NavigateTo(forgot, page)
<1>1. page \in AllPages /\ intent \in Intents
  <2>1. page \in AllPages
    BY PagesAre DEF IInv, Good, Typed, BackTarget
  <2> QED BY <2>1 DEF Intent, Intents
<1>2. Turns(t)
  BY DEF Back
<1> HIDE DEF page, intent
<1>3. Good(forgot) /\ AsBefore(shell, forgot)
  BY DEF IInv, Good, Typed, Gated, Fields, AsBefore
<1> HIDE DEF forgot
<1>4. Good(NavigateTo(forgot, page)) /\ AsBefore(shell, NavigateTo(forgot, page))
  BY <1>1, <1>3, NavigateToGood DEF AsBefore
<1>5. shell.armed => Good(AskFirst(shell, intent)) /\ AsBefore(shell, AskFirst(shell, intent))
  BY <1>1, AskFirstGood DEF IInv
<1>6. Good(t) /\ AsBefore(shell, t)
  BY <1>4, <1>5
<1> HIDE DEF t
<1> QED BY <1>2, <1>6, UserTurns

(* The page that is edited is there, and so may arm its gate.               *)
LEMMA EditKeeps == ASSUME IInv, Edit PROVE ShellKept
<1> DEFINE armed == [shell EXCEPT !.armed = TRUE]
<1>1. Good(Disarmed(shell)) /\ AsBefore(shell, Disarmed(shell))
  BY DisarmedGood DEF IInv, Good
<1>2. Good(armed) /\ AsBefore(shell, armed)
  BY DEF IInv, Good, Typed, Gated, Fields, AsBefore, Edit
<1>3. /\ shell' = Disarmed(shell) \/ shell' = armed
      /\ calls' = calls
  BY DEF Edit
<1> HIDE DEF armed
<1>4. Good(shell') /\ AsBefore(shell, shell')
  BY <1>1, <1>2, <1>3
<1> QED BY <1>3, <1>4 DEF IInv, ShellKept, Alive, AsBefore

LEMMA WithholdKeeps == ASSUME IInv, Withhold PROVE ShellKept
<1> DEFINE t == [shell EXCEPT !.withheld = ~@]
<1>1. Good(t) /\ AsBefore(shell, t)
  BY DEF IInv, Good, Typed, Gated, Fields, AsBefore
<1>2. Turns(t)
  BY DEF Withhold
<1> HIDE DEF t
<1> QED BY <1>1, <1>2, UserTurns

LEMMA CancelBannerKeeps == ASSUME IInv, CancelBanner PROVE ShellKept
<1>1. Good(CancelReconnect(shell)) /\ ~CancelReconnect(shell).reconnecting
  BY CancelReconnectGood DEF IInv
<1>2. Turns(CancelReconnect(shell))
  BY DEF CancelBanner
<1> QED BY <1>1, <1>2, UserTurns

LEMMA CalibrationMatchesKeeps == ASSUME IInv, CalibrationMatches PROVE ShellKept
<1> DEFINE t == [shell EXCEPT !.matched = 1]
<1>1. Good(t) /\ AsBefore(shell, t)
  BY DEF IInv, Good, Typed, Gated, Fields, AsBefore
<1>2. Turns(t)
  BY DEF CalibrationMatches
<1> HIDE DEF t
<1> QED BY <1>1, <1>2, UserTurns

(* The shell queues a call of the user, or opens the dialog.                *)
LEMMA ShellAsks ==
  ASSUME IInv, NEW call \in ShellCalls
  PROVE  Result(Ask(shell, call), shell)
  BY AskResult DEF IInv, AsBefore

LEMMA ShellAsksFirst ==
  ASSUME IInv, shell.armed, NEW intent \in Intents
  PROVE  Result(Done(AskFirst(shell, intent)), shell)
<1>1. Good(AskFirst(shell, intent)) /\ AsBefore(shell, AskFirst(shell, intent))
  BY AskFirstGood DEF IInv
<1> QED BY <1>1, DoneResult

LEMMA ConnectKeeps == ASSUME IInv, Connect PROVE ShellKept
<1> DEFINE call == Call("connect", "user")
<1>1. call \in ShellCalls
  BY CallIs
<1>2. Becomes(Ask(shell, call), calls)
  BY DEF Connect, Queues
<1> HIDE DEF call
<1> QED BY <1>1, <1>2, ShellAsks, UserMoves

LEMMA DisconnectEcuKeeps == ASSUME IInv, DisconnectEcu PROVE ShellKept
<1> DEFINE intent == Intent("disconnect", "connection")
           r == IF shell.armed THEN Done(AskFirst(shell, intent)) ELSE PerformDisconnect(shell)
<1>1. intent \in Intents
  BY DEF Intent, Intents
<1>2. Becomes(r, calls)
  BY DEF DisconnectEcu
<1> HIDE DEF intent
<1>3. Result(r, shell)
  BY <1>1, ShellAsksFirst, PerformDisconnectGood DEF IInv
<1> HIDE DEF r
<1> QED BY <1>2, <1>3, UserMoves

LEMMA SwitchDashboardKeeps ==
  ASSUME IInv, NEW name \in Dashboards, SwitchDashboard(name)
  PROVE  ShellKept
<1> DEFINE call == [Call("setActive", "user") EXCEPT !.name = name]
           t == NavigateTo(shell, "dashboard")
           r == IF name = shell.active THEN Done(t) ELSE Ask(shell, call)
<1>1. Becomes(r, calls)
  BY DEF SwitchDashboard
<1>2. call \in ShellCalls
  BY NamingCall
<1>3. Good(t) /\ AsBefore(shell, t)
  BY PagesAre, NavigateToGood DEF IInv
<1> HIDE DEF call, t
<1>4. Result(r, shell)
  BY <1>2, <1>3, DoneResult, ShellAsks
<1> HIDE DEF r
<1> QED BY <1>1, <1>4, UserMoves

LEMMA CreateDashboardKeeps ==
  ASSUME IInv, NEW name \in Dashboards, CreateDashboard(name)
  PROVE  ShellKept
<1> DEFINE call == [Call("create", "user") EXCEPT !.name = name]
           intent == Intent("create", name)
           r == IF shell.armed THEN Done(AskFirst(shell, intent)) ELSE Ask(shell, call)
<1>1. Becomes(r, calls)
  BY DEF CreateDashboard
<1>2. call \in ShellCalls /\ intent \in Intents
  BY NamingCall DEF Intent, Intents
<1> HIDE DEF call, intent
<1>3. Result(r, shell)
  BY <1>2, ShellAsks, ShellAsksFirst
<1> HIDE DEF r
<1> QED BY <1>1, <1>3, UserMoves

LEMMA DeleteDashboardKeeps ==
  ASSUME IInv, NEW name \in Dashboards, DeleteDashboard(name)
  PROVE  ShellKept
<1> DEFINE call == [Call("delete", "user") EXCEPT !.name = name]
           intent == Intent("delete", name)
           r == IF shell.armed THEN Done(AskFirst(shell, intent)) ELSE Ask(shell, call)
<1>1. Becomes(r, calls)
  BY DEF DeleteDashboard
<1>2. call \in ShellCalls /\ intent \in Intents
  BY NamingCall DEF Intent, Intents
<1> HIDE DEF call, intent
<1>3. Result(r, shell)
  BY <1>2, ShellAsks, ShellAsksFirst
<1> HIDE DEF r
<1> QED BY <1>1, <1>3, UserMoves

------------------------------------------------------------------------------
(* The host and its events.                                                 *)

HostTyped == events' \in Seq(ConnectionStates) /\ ecu' \in {"up", "down", "retrying"}

(* The events the host sends are put behind those on their way.             *)
LEMMA OneEvent ==
  ASSUME IInv, NEW e \in ConnectionStates
  PROVE  Append(events, e) \in Seq(ConnectionStates)
  BY AppendProperties DEF IInv

LEMMA TwoEvents ==
  ASSUME IInv, NEW e \in ConnectionStates, NEW f \in ConnectionStates
  PROVE  events \o <<e, f>> \in Seq(ConnectionStates)
<1> DEFINE both == <<e, f>>
<1>1. both \in Seq(ConnectionStates)
  OBVIOUS
<1> HIDE DEF both
<1> QED BY <1>1, ConcatProperties DEF IInv

LEMMA HostConnectsTyped ==
  ASSUME IInv, NEW ok \in BOOLEAN, HostConnects(ok)
  PROVE  HostTyped
<1>1. "Connecting" \in ConnectionStates /\ (IF ok THEN "Connected" ELSE "Error") \in ConnectionStates
  BY DEF ConnectionStates
<1>2. CASE ecu = "up"
  BY <1>2 DEF HostConnects, HostTyped, IInv
<1>3. CASE ecu # "up"
  <2>1. events \o <<"Connecting", IF ok THEN "Connected" ELSE "Error">> \in Seq(ConnectionStates)
    BY <1>1, TwoEvents
  <2> QED BY <1>3, <2>1 DEF HostConnects, HostTyped
<1> QED BY <1>2, <1>3

LEMMA DisconnectAnsweredTyped == ASSUME IInv, DisconnectAnswered PROVE HostTyped
<1>1. events \o <<"Disconnecting", "Disconnected">> \in Seq(ConnectionStates)
  BY TwoEvents DEF ConnectionStates
<1> QED BY <1>1 DEF DisconnectAnswered, HostDisconnects, HostTyped, IInv

LEMMA HostLosesTyped == ASSUME IInv, HostLoses PROVE HostTyped
<1>1. Append(events, "Disconnected") \in Seq(ConnectionStates)
  BY OneEvent DEF ConnectionStates
<1> QED BY <1>1 DEF HostLoses, HostTyped

LEMMA HostRetryEndsTyped == ASSUME IInv, HostRetryEnds PROVE HostTyped
<1>1. Append(events, "Error") \in Seq(ConnectionStates)
  BY OneEvent DEF ConnectionStates
<1>2. events \o <<"Connecting", "Connected">> \in Seq(ConnectionStates)
  BY TwoEvents DEF ConnectionStates
<1> QED BY <1>1, <1>2 DEF HostRetryEnds, HostTyped

------------------------------------------------------------------------------
(* The invariant.                                                           *)

LEMMA InitInv == ShellInit => IInv
<1> SUFFICES ASSUME ShellInit PROVE IInv
  OBVIOUS
<1> DEFINE first == Call("state", "startup")
<1>1. first \in ShellCalls
  BY CallIs
<1>2. calls = <<first>> /\ events = <<>> /\ ecu \in {"up", "down", "retrying"}
  BY DEF ShellInit
<1> HIDE DEF first
<1>3. calls \in Seq(ShellCalls) /\ events \in Seq(ConnectionStates)
  BY <1>1, <1>2
<1>4. Good(shell) /\ ~shell.reconnecting
  BY DEF ShellInit, Good, Typed, Gated, Fields, AllPages, ConnectionStates
<1> QED BY <1>2, <1>3, <1>4 DEF IInv, Alive

LEMMA KeptInv ==
  ASSUME ShellKept, HostTyped
  PROVE  IInv'
  BY DEF ShellKept, HostTyped, IInv

(* The steps that are of the shell alone, and leave the host as it is.      *)
LEMMA SameTyped == ASSUME IInv, Same PROVE HostTyped
  BY DEF IInv, Same, HostTyped

LEMMA AnswersKeep == ASSUME IInv, HostAnswersShell PROVE IInv'
<1>1. CASE StateAnswered
  BY <1>1, StateAnsweredKeeps, SameTyped, KeptInv DEF StateAnswered
<1>2. CASE PlatformAnswered
  BY <1>2, PlatformAnsweredKeeps, SameTyped, KeptInv DEF PlatformAnswered
<1>3. CASE NamesAnswered
  BY <1>3, NamesAnsweredKeeps, SameTyped, KeptInv DEF NamesAnswered
<1>4. CASE ReportingAnswered
  BY <1>4, ReportingAnsweredKeeps, SameTyped, KeptInv DEF ReportingAnswered
<1>5. CASE LastAnswered
  BY <1>5, LastAnsweredKeeps, SameTyped, KeptInv DEF LastAnswered
<1>6. CASE ReconnectAnswered
  BY <1>6, ReconnectAnsweredKeeps, HostConnectsTyped, KeptInv DEF ReconnectAnswered
<1>7. CASE ConnectAnswered
  BY <1>7, ConnectAnsweredKeeps, HostConnectsTyped, KeptInv DEF ConnectAnswered
<1>8. CASE DisconnectAnswered
  BY <1>8, DisconnectAnsweredKeeps, DisconnectAnsweredTyped, KeptInv
<1>9. CASE SwitchAnswered
  BY <1>9, SwitchAnsweredKeeps, SameTyped, KeptInv DEF SwitchAnswered
<1>10. CASE CreateAnswered
  BY <1>10, CreateAnsweredKeeps, SameTyped, KeptInv DEF CreateAnswered
<1>11. CASE DeleteAnswered
  BY <1>11, DeleteAnsweredKeeps, SameTyped, KeptInv DEF DeleteAnswered
<1>12. CASE ChoiceAnswered
  BY <1>12, ChoiceAnsweredKeeps, SameTyped, KeptInv DEF ChoiceAnswered
<1> QED BY <1>1, <1>2, <1>3, <1>4, <1>5, <1>6, <1>7, <1>8, <1>9, <1>10, <1>11, <1>12
        DEF HostAnswersShell

(* The host alone: the shell and its queue stay as they are.                *)
LEMMA ShellStays ==
  ASSUME IInv, UNCHANGED <<shell, calls>>
  PROVE  ShellKept
  BY DEF IInv, ShellKept, Alive

LEMMA RunsKeep == ASSUME IInv, ShellRuns PROVE IInv'
<1>1. CASE HostAnswersShell
  BY <1>1, AnswersKeep
<1>2. CASE EventArrives
  <2>1. HostTyped
    BY <1>2, EventTaken DEF EventArrives, HostTyped, IInv
  <2> QED BY <1>2, <2>1, EventArrivesKeeps, KeptInv
<1>3. CASE HostRetryEnds
  <2>1. ShellKept
    BY <1>3, ShellStays DEF HostRetryEnds
  <2> QED BY <1>3, <2>1, HostRetryEndsTyped, KeptInv
<1>4. CASE RetryTimer
  BY <1>4, RetryTimerKeeps, SameTyped, KeptInv DEF RetryTimer
<1>5. CASE NextFrame
  BY <1>5, NextFrameKeeps, SameTyped, KeptInv DEF NextFrame
<1>6. CASE CalibrationDone
  BY <1>6, CalibrationDoneKeeps, SameTyped, KeptInv DEF CalibrationDone
<1> QED BY <1>1, <1>2, <1>3, <1>4, <1>5, <1>6 DEF ShellRuns

LEMMA UserKeeps == ASSUME IInv, ShellUser PROVE IInv'
<1>1. CASE \E page \in Tabs \cup {"connection", "ecuMonitor", "logs", "sessions"} : Navigate(page)
  <2>1. PICK page \in Tabs \cup {"connection", "ecuMonitor", "logs", "sessions"} : Navigate(page)
    BY <1>1
  <2> QED BY <2>1, NavigateKeeps, SameTyped, KeptInv DEF Navigate
<1>2. CASE \E name \in Dashboards :
             SwitchDashboard(name) \/ CreateDashboard(name) \/ DeleteDashboard(name)
  <2>1. PICK name \in Dashboards :
          SwitchDashboard(name) \/ CreateDashboard(name) \/ DeleteDashboard(name)
    BY <1>2
  <2>2. CASE SwitchDashboard(name)
    BY <2>2, SwitchDashboardKeeps, SameTyped, KeptInv DEF SwitchDashboard
  <2>3. CASE CreateDashboard(name)
    BY <2>3, CreateDashboardKeeps, SameTyped, KeptInv DEF CreateDashboard
  <2>4. CASE DeleteDashboard(name)
    BY <2>4, DeleteDashboardKeeps, SameTyped, KeptInv DEF DeleteDashboard
  <2> QED BY <2>1, <2>2, <2>3, <2>4
<1>3. CASE Back
  BY <1>3, BackKeeps, SameTyped, KeptInv DEF Back
<1>4. CASE Withhold
  BY <1>4, WithholdKeeps, SameTyped, KeptInv DEF Withhold
<1>5. CASE CancelBanner
  BY <1>5, CancelBannerKeeps, SameTyped, KeptInv DEF CancelBanner
<1>6. CASE Connect
  BY <1>6, ConnectKeeps, SameTyped, KeptInv DEF Connect
<1>7. CASE DisconnectEcu
  BY <1>7, DisconnectEcuKeeps, SameTyped, KeptInv DEF DisconnectEcu
<1>8. CASE CalibrationMatches
  BY <1>8, CalibrationMatchesKeeps, SameTyped, KeptInv DEF CalibrationMatches
<1> QED BY <1>1, <1>2, <1>3, <1>4, <1>5, <1>6, <1>7, <1>8 DEF ShellUser

LEMMA EditorKeeps == ASSUME IInv, ShellEditor PROVE IInv'
<1>1. CASE Edit
  BY <1>1, EditKeeps, SameTyped, KeptInv DEF Edit
<1>2. CASE Stay
  BY <1>2, StayKeeps, SameTyped, KeptInv DEF Stay
<1>3. CASE LeaveBySaveOrDiscard
  BY <1>3, LeaveBySaveOrDiscardKeeps, SameTyped, KeptInv DEF LeaveBySaveOrDiscard
<1> QED BY <1>1, <1>2, <1>3 DEF ShellEditor

LEMMA NextKeeps == IInv /\ [ShellNext]_shellVars => IInv'
<1> SUFFICES ASSUME IInv, [ShellNext]_shellVars PROVE IInv'
  OBVIOUS
<1>1. CASE HostLoses
  <2>1. ShellKept
    BY <1>1, ShellStays DEF HostLoses
  <2> QED BY <1>1, <2>1, HostLosesTyped, KeptInv
<1>2. CASE ShellRuns
  BY <1>2, RunsKeep
<1>3. CASE ShellUser
  BY <1>3, UserKeeps
<1>4. CASE ShellEditor
  BY <1>4, EditorKeeps
<1>5. CASE UNCHANGED shellVars
  <2>1. ShellKept
    BY <1>5, ShellStays DEF shellVars
  <2>2. HostTyped
    BY <1>5 DEF shellVars, IInv, HostTyped
  <2> QED BY <2>1, <2>2, KeptInv
<1> QED BY <1>1, <1>2, <1>3, <1>4, <1>5 DEF ShellNext

LEMMA InvAlways == ShellSpec => []IInv
  BY InitInv, NextKeeps, PTL DEF ShellSpec

------------------------------------------------------------------------------

(* The state of App.svelte, the queue of its calls and the events of the    *)
(* host have their types, for any set of dashboards and of tabs: a call of  *)
(* the loop that is answered knows the page to go back to, and a call about *)
(* a dashboard names one.                                                   *)
THEOREM TypeCorrect == ShellSpec => []ShellTypeOK
<1>1. IInv => ShellTypeOK
  BY DEF IInv, Good, Typed, ShellTypeOK
<1> QED BY <1>1, InvAlways, PTL

(* The navigation gate is armed only while the configuration page is shown, *)
(* and its dialog is open only over an armed gate and with something to     *)
(* resolve to, whatever answers, events and timers come in between.         *)
THEOREM GateAgreesAlways == ShellSpec => []GateAgrees
<1>1. IInv => GateAgrees
  BY DEF IInv, Good, Gated, GateAgrees
<1> QED BY <1>1, InvAlways, PTL

(* The banner of the reconnection is never left without a call of the loop  *)
(* or a timer: no order of an answer, an event, a timer whose handle is     *)
(* lost and the user's own steps strands it.                                *)
THEOREM ReconnectAliveAlways == ShellSpec => []ReconnectAlive
<1>1. IInv => ReconnectAlive
  <2> SUFFICES ASSUME IInv, shell.reconnecting
               PROVE  \/ \E i \in DOMAIN calls : calls[i].then = "again"
                      \/ shell.handle
                      \/ shell.orphans > 0
    BY DEF ReconnectAlive
  <2>1. DOMAIN calls = 1..Len(calls)
    BY LenProperties DEF IInv
  <2> QED BY <2>1 DEF IInv, Alive, OfLoop
<1> QED BY <1>1, InvAlways, PTL
===============================================================================
