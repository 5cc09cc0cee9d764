------------------------------- MODULE LogsPage --------------------------------
(***************************************************************************)
(* The log page (pages/LogsPage.svelte): it reads the log of the host,     *)
(* starts the stream of new entries and stops it when it is left, takes    *)
(* imported files into the same list, looks for events in what was         *)
(* imported (lib/logEventDetector.ts) and keeps two markers.  The host has *)
(* one flag for the stream (Services/LogCapture.cs), and the bridge        *)
(* executes its calls one at a time, in order.                             *)
(*                                                                         *)
(* An entry is a number, or a message that is none: words with a digit in  *)
(* them, or nothing.  Events and markers are kept as positions, the first  *)
(* in the list, the second in what the filter leaves of it.                *)
(***************************************************************************)
EXTENDS Integers, Sequences, FiniteSets, SequencesExt

CONSTANTS LogNumbers,    \* numbers an entry may carry
          SpikeOver,     \* SPIKE_THRESHOLD
          FlatRun,       \* FLATLINE_THRESHOLD
          NormalMax,     \* the upper end of the range checks
          MaxLog,        \* entries the list keeps when it grows by a live one
          MaxEntries,    \* bound: entries ever written or imported
          MaxLogCalls    \* bound: calls in the queue

VARIABLES logPage,       \* the mounted page: subscribed, started, paused, filter
          logs,          \* the list of the page
          logEvents,     \* detectedEvents
          markers,       \* positions of the two markers, or 0, and which is next
          logCalls,      \* the queue of the bridge
          hostLog,       \* the log of the host
          hostStreams,   \* the flag of the stream
          entriesMade,   \* entries so far, which are their names
          markedEntry,   \* the entry each marker was placed on (a history variable)
          logGaps        \* what happened that the code does not guard against (a history variable)

logVars == <<logPage, logs, logEvents, markers, logCalls, hostLog, hostStreams,
             entriesMade, markedEntry, logGaps>>

LogTexts == [kind : {"number"}, n : LogNumbers] \cup [kind : {"words", "empty"}, n : {0}]

LogFilters == {"all", "numbers", "spike"}

Unmounted == [mounted |-> FALSE, subscribed |-> FALSE, started |-> FALSE, paused |-> FALSE, filter |-> "all"]
NoMarkers == [A |-> 0, B |-> 0, next |-> "A"]

LogsInit ==
  /\ logPage = Unmounted
  /\ logs = <<>> /\ logEvents = {} /\ markers = NoMarkers
  /\ logCalls = <<>>
  /\ hostLog = <<>> /\ hostStreams = FALSE
  /\ entriesMade = 0
  /\ markedEntry = [A |-> 0, B |-> 0]
  /\ logGaps = {}

------------------------------------------------------------------------------
(* The events of a list. *)

IsNumber(list, i) == list[i].text.kind = "number"
Distance(a, b) == IF a < b THEN b - a ELSE a - b

Spikes(list) ==
  {i \in 2..Len(list) : /\ IsNumber(list, i - 1) /\ IsNumber(list, i)
                        /\ Distance(list[i - 1].text.n, list[i].text.n) > SpikeOver}

Continues(list, i) ==
  i <= Len(list) /\ IsNumber(list, i - 1) /\ IsNumber(list, i) /\ list[i - 1].text.n = list[i].text.n

\* A run ends where the next entry does not continue it, the last one behind the
\* list; a long one is an event in its middle.
Flatlines(list) ==
  FoldLeft(LAMBDA run, i :
             IF Continues(list, i) THEN run
             ELSE [start |-> i,
                   found |-> IF i - run.start >= FlatRun /\ IsNumber(list, run.start)
                             THEN run.found \cup {run.start + (i - run.start) \div 2} ELSE run.found],
           [start |-> 1, found |-> {}],
           [k \in 1..Len(list) |-> k + 1]).found

NumbersIn(list) == {i \in 1..Len(list) : IsNumber(list, i)}

LastNumber(list) == CHOOSE j \in NumbersIn(list) : \A k \in NumbersIn(list) : k <= j
DropNear == 5

\* Words after a number; nothing near the last number of the list, or before it.
Dropouts(list) ==
  {i \in 1..Len(list) :
     \/ list[i].text.kind = "words" /\ \E j \in NumbersIn(list) : j < i
     \/ /\ list[i].text.kind = "empty" /\ NumbersIn(list) # {}
        /\ i - LastNumber(list) < DropNear}

Abnormal(list) == {i \in NumbersIn(list) : list[i].text.n > NormalMax}

DetectEvents(list) ==
  [spike |-> Spikes(list), flatline |-> Flatlines(list), dropout |-> Dropouts(list), abnormal |-> Abnormal(list)]

NoEvents == [spike |-> {}, flatline |-> {}, dropout |-> {}, abnormal |-> {}]

------------------------------------------------------------------------------
(* The page. *)

\* The positions the filter leaves, in their order.
FilteredLogs ==
  SelectSeq([i \in 1..Len(logs) |-> i],
            LAMBDA i : CASE logPage.filter = "all" -> TRUE
                         [] logPage.filter = "numbers" -> IsNumber(logs, i)
                         [] logPage.filter = "spike" -> logEvents # {} /\ \E e \in logEvents : i \in e.spike)

AskHost(calls) == Len(logCalls) + Len(calls) <= MaxLogCalls /\ logCalls' = logCalls \o calls

LogCall(op) == [op |-> op, gone |-> FALSE]

MountLogs ==
  /\ ~logPage.mounted
  /\ logPage' = [Unmounted EXCEPT !.mounted = TRUE]
  /\ logs' = <<>> /\ logEvents' = {} /\ markers' = NoMarkers
  /\ markedEntry' = [A |-> 0, B |-> 0]
  /\ logGaps' = logGaps \cap {"failed"}
  /\ AskHost(<<LogCall("recent")>>)
  /\ UNCHANGED <<hostLog, hostStreams, entriesMade>>

\* Leaving stops what was started; what is under way finds the page gone.
LeaveLogs ==
  /\ logPage.mounted
  /\ logPage' = Unmounted
  /\ LET gone == [i \in 1..Len(logCalls) |-> [logCalls[i] EXCEPT !.gone = TRUE]]
     IN /\ logPage.started => Len(logCalls) < MaxLogCalls
        /\ logCalls' = IF logPage.started THEN Append(gone, LogCall("stop")) ELSE gone
  /\ UNCHANGED <<logs, logEvents, markers, hostLog, hostStreams, entriesMade, markedEntry, logGaps>>

\* A file is read into the list, and the events of the whole list are detected.
ImportLog ==
  /\ logPage.mounted /\ entriesMade < MaxEntries
  /\ \E texts \in UNION {[1..n -> LogTexts] : n \in 1..(MaxEntries - entriesMade)} :
       /\ logs' = logs \o [i \in 1..Len(texts) |-> [id |-> entriesMade + i, text |-> texts[i]]]
       /\ entriesMade' = entriesMade + Len(texts)
  /\ logEvents' = {DetectEvents(logs')}
  /\ logGaps' = IF logPage.filter = "all" THEN logGaps ELSE logGaps \cup {"filtered"}
  /\ UNCHANGED <<logPage, markers, logCalls, hostLog, hostStreams, markedEntry>>

ClearLogs ==
  /\ logPage.mounted
  /\ logs' = <<>> /\ logEvents' = {} /\ markers' = NoMarkers
  /\ markedEntry' = [A |-> 0, B |-> 0]
  /\ AskHost(<<LogCall("clear")>>)
  /\ UNCHANGED <<logPage, hostLog, hostStreams, entriesMade, logGaps>>

\* The marker whose turn it is goes to a position of the filtered list.
PlaceMarker ==
  /\ logPage.mounted
  /\ \E i \in 1..Len(FilteredLogs) :
       /\ markers' = [markers EXCEPT ![markers.next] = i, !.next = IF @ = "A" THEN "B" ELSE "A"]
       /\ markedEntry' = [markedEntry EXCEPT ![markers.next] = logs[FilteredLogs[i]].id]
  /\ UNCHANGED <<logPage, logs, logEvents, logCalls, hostLog, hostStreams, entriesMade, logGaps>>

RemoveMarker ==
  /\ logPage.mounted
  /\ \E m \in {"A", "B"} :
       /\ markers[m] # 0
       /\ markers' = [markers EXCEPT ![m] = 0, !.next = m]
       /\ markedEntry' = [markedEntry EXCEPT ![m] = 0]
  /\ UNCHANGED <<logPage, logs, logEvents, logCalls, hostLog, hostStreams, entriesMade, logGaps>>

\* Another filter: the markers keep their positions.
FilterLogs ==
  /\ logPage.mounted
  /\ \E f \in LogFilters \ {logPage.filter} :
       /\ f = "spike" => \E e \in logEvents : e.spike # {}
       /\ logPage' = [logPage EXCEPT !.filter = f]
  /\ logGaps' = logGaps \cup {"filtered"}
  /\ UNCHANGED <<logs, logEvents, markers, logCalls, hostLog, hostStreams, entriesMade, markedEntry>>

PauseLogs ==
  /\ logPage.mounted
  /\ logPage' = [logPage EXCEPT !.paused = ~@]
  /\ UNCHANGED <<logs, logEvents, markers, logCalls, hostLog, hostStreams, entriesMade, markedEntry, logGaps>>

\* The host logs an entry; the page that is subscribed adds it and drops the
\* oldest, imported or not.  The events keep their positions.
HostLogs ==
  /\ entriesMade < MaxEntries
  /\ entriesMade' = entriesMade + 1
  /\ \E text \in LogTexts :
       LET entry == [id |-> entriesMade + 1, text |-> text]
           kept == IF Len(logs) < MaxLog THEN logs ELSE SubSeq(logs, Len(logs) - MaxLog + 2, Len(logs))
       IN /\ hostLog' = Append(hostLog, entry)
          /\ IF hostStreams /\ logPage.subscribed /\ ~logPage.paused
             THEN /\ logs' = Append(kept, entry)
                  /\ logGaps' = logGaps \cup (IF kept = logs THEN {"grown"} ELSE {"grown", "trimmed"})
             ELSE UNCHANGED <<logs, logGaps>>
  /\ UNCHANGED <<logPage, logEvents, markers, logCalls, hostStreams, markedEntry>>

\* The log was read: it replaces the list, with what was imported meanwhile.
LogsRead(gone) ==
  IF gone THEN UNCHANGED <<logPage, logs, logGaps>> /\ logCalls' = Tail(logCalls)
  ELSE /\ logs' = hostLog
       /\ logGaps' = IF logs = <<>> THEN logGaps ELSE logGaps \cup {"trimmed", "grown"}
       /\ logCalls' = Append(Tail(logCalls), LogCall("start"))
       /\ UNCHANGED logPage

\* A mutation: a page that was left does not look after the stream it asked for.
StreamStartedForGood(gone) ==
  /\ hostStreams' = TRUE
  /\ logCalls' = Tail(logCalls)
  /\ IF gone THEN UNCHANGED logPage
     ELSE logPage' = [logPage EXCEPT !.started = TRUE, !.subscribed = TRUE]

\* The stream was started: for a page that was left it is stopped again.
StreamStarted(gone) ==
  /\ hostStreams' = TRUE
  /\ IF gone THEN logCalls' = Append(Tail(logCalls), LogCall("stop")) /\ UNCHANGED logPage
     ELSE /\ logPage' = [logPage EXCEPT !.started = TRUE, !.subscribed = TRUE]
          /\ logCalls' = Tail(logCalls)

\* The next call of the queue is executed and answers, or fails.
LogCallDone ==
  /\ logCalls # <<>>
  /\ LET call == Head(logCalls)
     IN \/ call.op = "recent" /\ LogsRead(call.gone) /\ UNCHANGED <<hostLog, hostStreams>>
        \/ call.op = "start" /\ StreamStarted(call.gone) /\ UNCHANGED <<logs, hostLog, logGaps>>
        \/ /\ call.op = "stop" /\ hostStreams' = FALSE /\ logCalls' = Tail(logCalls)
           /\ UNCHANGED <<logPage, logs, hostLog, logGaps>>
        \/ /\ call.op = "clear" /\ hostLog' = <<>> /\ logCalls' = Tail(logCalls)
           /\ UNCHANGED <<logPage, logs, hostStreams, logGaps>>
        \/ /\ logCalls' = Tail(logCalls) /\ logGaps' = logGaps \cup {"failed"}
           /\ UNCHANGED <<logPage, logs, hostLog, hostStreams>>
  /\ UNCHANGED <<logEvents, markers, entriesMade, markedEntry>>

LogUser ==
  \/ MountLogs \/ LeaveLogs \/ ImportLog \/ ClearLogs \/ PlaceMarker \/ RemoveMarker \/ FilterLogs \/ PauseLogs
LogMoves == LogCallDone \/ HostLogs

LogNext == LogUser \/ LogMoves
LogSpec == LogsInit /\ [][LogNext]_logVars

------------------------------------------------------------------------------

LogTypeOK ==
  /\ logPage \in [mounted : BOOLEAN, subscribed : BOOLEAN, started : BOOLEAN, paused : BOOLEAN, filter : LogFilters]
  /\ \A i \in 1..Len(logs) : logs[i].id \in 1..entriesMade /\ logs[i].text \in LogTexts
  /\ markers.A \in Nat /\ markers.B \in Nat /\ markers.next \in {"A", "B"}
  /\ hostStreams \in BOOLEAN /\ Cardinality(logEvents) <= 1
  /\ \A i \in 1..Len(logCalls) : logCalls[i].op \in {"recent", "start", "stop", "clear"}

\* However often the page is left and opened while its calls wait, once they are
\* done the host streams exactly when a mounted page listens.
StreamFollowsPage ==
  "failed" \notin logGaps /\ logCalls = <<>> => (hostStreams <=> logPage.started)

\* Unless the filter changed, the list was cut or replaced, a marker marks the
\* entry it was placed on, through imports, live entries and clearing.
MarkersHold ==
  logGaps \cap {"filtered", "trimmed"} = {} =>
    \A m \in {"A", "B"} :
      markers[m] # 0 => markers[m] <= Len(FilteredLogs) /\ logs[FilteredLogs[markers[m]]].id = markedEntry[m]

\* The positions where the longest runs of one number are, from their definition.
FlatMiddles(list) ==
  {a + (b - a + 1) \div 2 : <<a, b>> \in
     {r \in (1..Len(list)) \X (1..Len(list)) :
        /\ r[1] <= r[2] /\ r[2] - r[1] + 1 >= FlatRun
        /\ \A i \in r[1]..r[2] : IsNumber(list, i) /\ list[i].text.n = list[r[1]].text.n
        /\ r[1] = 1 \/ ~Continues(list, r[1])
        /\ ~Continues(list, r[2] + 1)}}

\* Until a live entry comes the events are those of the list: the flat runs are
\* the longest runs of one number, and no event lies outside of the list.
EventsFit ==
  logGaps \cap {"grown"} = {} =>
    \A e \in logEvents :
      /\ e.flatline = FlatMiddles(logs)
      /\ e.spike \cup e.dropout \cup e.abnormal \subseteq 1..Len(logs)

LogsSound == StreamFollowsPage /\ MarkersHold /\ EventsFit

==============================================================================
