---------------------------- MODULE WarningSettings ----------------------------
(***************************************************************************)
(* The page that edits the warnings (pages/WarningSettingsPage.svelte) with*)
(* its level and point editors, its batch ledger and its delay draft, from *)
(* its mount to its destruction.                                           *)
(*                                                                         *)
(* Three copies of the settings exist: what the host has stored, what the  *)
(* evaluator judges frames by, and what the page shows and builds its next *)
(* write from.  A write suspends the data link in the evaluator, goes      *)
(* through the one queue of the bridge, and is followed by a re-read       *)
(* through the same queue.  Every call may be refused or may throw.  What  *)
(* a call's answer leads to is kept in its record, as the code keeps it in *)
(* the continuation of the await.                                          *)
(***************************************************************************)
EXTENDS Naturals, Sequences, FiniteSets

CONSTANTS Rows,
          Delays,        \* the delays a user enters, after the clamp
          HasDefaults,   \* the data links that have defaults in the definition file
          NotSet,
          MaxCalls,      \* bound: calls in the queue
          MaxEdits       \* bound: different contents the levels and points get

ASSUME PageAssumption == MaxEdits \in Nat /\ NotSet \notin {"resume", "restart"}

VARIABLES stored,       \* the host: rows of the data links and the delay
          known,        \* the same, as the evaluator has it
          page,         \* settings and delayMs
          calls,        \* the calls in the queue of the bridge
          pending,      \* rowWritePending
          failed,       \* rowWriteError, the data links that have an error row
          frozen,       \* the data links suspended in the evaluator (invalidatePending)
          resolve,      \* pendingResolveKind
          debounce,     \* debounceTimer is running
          phase,        \* "loading", "shown" or "left"
          sheet,        \* the action of the open batch sheet, or NotSet
          batchBlocks,  \* the gate's reason batch-in-flight
          inFlight,     \* the ledger's inFlight
          draft,        \* the state of the delay draft
          committing,   \* its commit is under way
          edits,        \* contents made so far
          missed,       \* the evaluator was last told nothing of a change: a call
                        \* threw, a re-read failed or a debounce was dropped
          givenUp       \* the data links whose suspension the page has let go of

pageVars == <<stored, known, page, calls, pending, failed, frozen, resolve, debounce, phase,
          sheet, batchBlocks, inFlight, draft, committing, edits, missed, givenUp>>

rowVars == <<pending, failed, frozen, resolve, givenUp>>
batchVars == <<sheet, batchBlocks, inFlight>>
delayVars == <<draft, committing>>

Actions == {"enable", "disable", "defaults"}

\* content 0 is the definition file's; every edit makes another one.
Row == [content : 0..MaxEdits, enabled : BOOLEAN, custom : BOOLEAN]

Config == [rows : [Rows -> Row], delay : Delays]

NoCall == [op |-> "none", link |-> NotSet, want |-> NotSet, kind |-> NotSet,
           batch |-> NotSet, todo |-> {}]

PageCall(op) == [NoCall EXCEPT !.op = op]

\* commitDatalink and commitDisplay send the page's row with one part changed.
SaveCall(d, want, kind) ==
  [NoCall EXCEPT !.op = "save", !.link = d, !.want = want, !.kind = kind]

PageInit ==
  /\ stored \in {c \in Config : \A d \in Rows : c.rows[d].content = 0}
  /\ known = stored
  /\ page = stored
  /\ calls = <<PageCall("load")>>
  /\ pending = {}
  /\ failed = {}
  /\ frozen = {}
  /\ resolve = [d \in Rows |-> NotSet]
  /\ debounce = FALSE
  /\ phase = "loading"
  /\ sheet = NotSet
  /\ batchBlocks = FALSE
  /\ inFlight = FALSE
  /\ draft = "idle"
  /\ committing = FALSE
  /\ edits = 0
  /\ missed = FALSE
  /\ givenUp = {}

------------------------------------------------------------------------------
(* The user.  A sheet covers the rows while it is open.                     *)

Editable == phase = "shown" /\ sheet = NotSet

Send(queue) == calls' = queue /\ Len(queue) <= MaxCalls

\* The first half of commitDatalink: the row is pending and suspended.
StartWrite(d) ==
  /\ pending' = pending \cup {d}
  /\ frozen' = frozen \cup {d}
  /\ givenUp' = givenUp \ {d}
  /\ UNCHANGED <<failed, resolve>>

\* commitLevels and commitPoints: a level was added, moved or deleted, or a
\* point was added, changed or removed.
EditRow(d) ==
  /\ Editable
  /\ edits < MaxEdits
  /\ edits' = edits + 1
  /\ StartWrite(d)
  /\ Send(Append(calls, SaveCall(d, [page.rows[d] EXCEPT !.content = edits + 1], "edit")))
  /\ UNCHANGED <<stored, known, page, debounce, phase, batchVars, delayVars, missed>>

\* displayLevels: a name, a color, autolog or flash of a level was changed.
EditDisplay(d) ==
  /\ Editable
  /\ edits < MaxEdits
  /\ edits' = edits + 1
  /\ Send(Append(calls, [SaveCall(d, [page.rows[d] EXCEPT !.content = edits + 1], "edit")
                           EXCEPT !.op = "display"]))
  /\ UNCHANGED <<stored, known, page, rowVars, debounce, phase, batchVars, delayVars, missed>>

\* toggleEnabled; the checkbox is disabled while a write of the row is pending.
ToggleEnabled(d) ==
  /\ Editable
  /\ d \notin pending
  /\ StartWrite(d)
  /\ Send(Append(calls, SaveCall(d, [page.rows[d] EXCEPT !.enabled = ~@], "toggle")))
  /\ UNCHANGED <<stored, known, page, debounce, phase, batchVars, delayVars, edits, missed>>

\* performRestore, confirmed in its dialog.
Restore(d) ==
  /\ Editable
  /\ d \in HasDefaults
  /\ StartWrite(d)
  /\ Send(Append(calls, SaveCall(d, [page.rows[d] EXCEPT !.content = 0], "preset")))
  /\ UNCHANGED <<stored, known, page, debounce, phase, batchVars, delayVars, edits, missed>>

RetryWrite(d) ==
  /\ Editable
  /\ d \in failed
  /\ failed' = failed \ {d}
  /\ Send(Append(calls, [PageCall("retry") EXCEPT !.link = d]))
  /\ UNCHANGED <<stored, known, page, pending, frozen, resolve, givenUp, debounce, phase,
                 batchVars, delayVars, edits, missed>>

DiscardWrite(d) ==
  /\ Editable
  /\ d \in failed
  /\ failed' = failed \ {d}
  /\ givenUp' = IF d \in frozen THEN givenUp \cup {d} ELSE givenUp
  /\ UNCHANGED <<stored, known, page, calls, pending, frozen, resolve, debounce, phase,
                 batchVars, delayVars, edits, missed>>

\* commitDelay: the draft starts anew even while an earlier one is committed,
\* whose submit then leaves it alone.
CommitDelay(v) ==
  /\ Editable
  /\ IF committing
       THEN /\ draft' = "pending"
            /\ UNCHANGED <<calls, committing>>
       ELSE IF v = NotSet
         THEN /\ draft' = "rejected"
              /\ UNCHANGED <<calls, committing>>
         ELSE /\ draft' = "pending"
              /\ committing' = TRUE
              /\ Send(Append(calls, [PageCall("delay") EXCEPT !.want = v]))
  /\ UNCHANGED <<stored, known, page, rowVars, debounce, phase, batchVars, edits, missed>>

RetryLoad ==
  /\ phase = "error"
  /\ phase' = "loading"
  /\ Send(Append(calls, PageCall("load")))
  /\ UNCHANGED <<stored, known, page, rowVars, debounce, batchVars, delayVars, edits, missed>>

\* onDestroy: the shell navigates only while the gate is open.
Leave ==
  /\ phase # "left"
  /\ pending = {} /\ failed = {} /\ ~batchBlocks
  /\ phase' = "left"
  /\ sheet' = NotSet
  /\ debounce' = FALSE
  /\ missed' = (missed \/ debounce)
  /\ UNCHANGED <<stored, known, page, calls, rowVars, batchBlocks, inFlight, delayVars, edits>>

DebounceFires ==
  /\ debounce
  /\ debounce' = FALSE
  /\ Send(Append(calls, PageCall("late")))
  /\ UNCHANGED <<stored, known, page, rowVars, phase, batchVars, delayVars, edits, missed>>

------------------------------------------------------------------------------
(* The batch.  The sheet does not see the ledger's inFlight change, so it   *)
(* can be confirmed again while a batch runs.                               *)

OpenBatch(action) ==
  /\ Editable
  /\ sheet' = action
  /\ UNCHANGED <<stored, known, page, calls, rowVars, debounce, phase, batchBlocks, inFlight,
                 delayVars, edits, missed>>

CancelSheet ==
  /\ sheet # NotSet
  /\ ~inFlight
  /\ sheet' = NotSet
  /\ UNCHANGED <<stored, known, page, calls, rowVars, debounce, phase, batchBlocks, inFlight,
                 delayVars, edits, missed>>

\* The rows a batch is for, of those the filter shows.
Targets(filtered, action) ==
  IF action = "defaults" THEN {d \in filtered : ~page.rows[d].custom} ELSE filtered

\* What the batch sends for a row: the toggle whatever it is now, or the
\* contents of the definition file.
BatchCall(shown, d, action, todo) ==
  [(IF action = "defaults" THEN SaveCall(d, [shown.rows[d] EXCEPT !.content = 0], "preset")
    ELSE SaveCall(d, [shown.rows[d] EXCEPT !.enabled = (action = "enable")], "toggle"))
     EXCEPT !.batch = action, !.todo = todo]

\* The rows still to do lead to the next write; the last one closes the batch.
\* base is the queue without the call that was answered, shown what the page shows
\* after the answer: a row is taken as the re-read of the one before it left it.
BatchGoesOn(base, action, todo, row, shown) ==
  IF todo = {}
    THEN /\ Send(base)
         /\ pending' = row.pending
         /\ frozen' = row.frozen
         /\ givenUp' = row.givenUp
         /\ batchBlocks' = FALSE
         /\ inFlight' = FALSE
         /\ sheet' = NotSet
         /\ debounce' = TRUE
    ELSE /\ \E d \in todo :
              /\ Send(Append(base, BatchCall(shown, d, action, todo \ {d})))
              /\ pending' = row.pending \cup {d}
              /\ frozen' = row.frozen \cup {d}
              /\ givenUp' = row.givenUp \ {d}
         /\ UNCHANGED <<batchVars, debounce>>

RowState == [pending |-> pending, frozen |-> frozen, givenUp |-> givenUp]

\* runBatch up to its first await.
ConfirmBatch(filtered) ==
  /\ sheet # NotSet
  /\ phase = "shown"
  /\ LET targets == Targets(filtered, sheet)
     IN  IF targets = {}
           THEN /\ batchBlocks' = TRUE
                /\ inFlight' = FALSE
                /\ sheet' = NotSet
                /\ UNCHANGED <<calls, pending, frozen, givenUp>>
           ELSE /\ batchBlocks' = TRUE
                /\ inFlight' = TRUE
                /\ UNCHANGED sheet
                /\ IF sheet = "defaults"
                     THEN /\ Send(Append(calls, [PageCall("defaults") EXCEPT
                                         !.batch = sheet, !.todo = targets]))
                          /\ UNCHANGED <<pending, frozen, givenUp>>
                     ELSE \E d \in targets :
                            /\ Send(Append(calls, BatchCall(page, d, sheet, targets \ {d})))
                            /\ pending' = pending \cup {d}
                            /\ frozen' = frozen \cup {d}
                            /\ givenUp' = givenUp \ {d}
  /\ UNCHANGED <<stored, known, page, failed, resolve, debounce, phase, delayVars, edits, missed>>

------------------------------------------------------------------------------
(* The answers of the host, one call at a time.                             *)

Answered == Head(calls)   \* the call the host answers

\* A row as the host keeps it: an edit makes it Custom, a preset Typical.
Written(call) ==
  [stored.rows[call.link] EXCEPT
     !.content = call.want.content,
     !.enabled = call.want.enabled,
     !.custom = CASE call.kind = "edit" -> TRUE [] call.kind = "preset" -> FALSE [] OTHER -> @]

\* A mutation: how to resume the row is not kept.
SaveAcceptedForgets ==
  /\ calls # <<>> /\ Answered.op = "save"
  /\ stored' = [stored EXCEPT !.rows[Answered.link] = Written(Answered)]
  /\ pending' = pending \ {Answered.link}
  /\ Send(Append(Tail(calls), [Answered EXCEPT !.op = "read"]))
  /\ UNCHANGED <<known, page, failed, frozen, resolve, givenUp, debounce, phase, batchVars,
                 delayVars, edits, missed>>

\* A write of a row was accepted: the row is re-read.
SaveAccepted ==
  /\ calls # <<>> /\ Answered.op = "save"
  /\ stored' = [stored EXCEPT !.rows[Answered.link] = Written(Answered)]
  /\ pending' = pending \ {Answered.link}
  /\ resolve' = [resolve EXCEPT ![Answered.link] =
                   IF Answered.kind = "toggle" /\ Answered.want.enabled THEN "restart" ELSE "resume"]
  /\ Send(Append(Tail(calls), [Answered EXCEPT !.op = "read"]))
  /\ UNCHANGED <<known, page, failed, frozen, givenUp, debounce, phase, batchVars, delayVars,
                 edits, missed>>

\* It was refused: the evaluator goes on, and the row, unless a batch wrote it,
\* shows the error.
SaveRefused ==
  /\ calls # <<>> /\ Answered.op = "save"
  /\ failed' = IF Answered.batch = NotSet THEN failed \cup {Answered.link} ELSE failed
  /\ LET row == [pending |-> pending \ {Answered.link}, frozen |-> frozen \ {Answered.link},
                 givenUp |-> givenUp]
     IN  IF Answered.batch = NotSet
           THEN /\ Send(Tail(calls))
                /\ pending' = row.pending
                /\ frozen' = row.frozen
                /\ UNCHANGED <<givenUp, batchVars, debounce>>
           ELSE BatchGoesOn(Tail(calls), Answered.batch, Answered.todo, row, page)
  /\ UNCHANGED <<stored, known, page, resolve, phase, delayVars, edits, missed>>

\* It threw, before or after the host had stored it: nothing of commitDatalink,
\* nor of the batch around it, runs any more.
SaveThrows ==
  /\ calls # <<>> /\ Answered.op = "save"
  /\ stored' \in {stored, [stored EXCEPT !.rows[Answered.link] = Written(Answered)]}
  /\ Send(Tail(calls))
  /\ givenUp' = givenUp \cup {Answered.link}
  /\ missed' = TRUE
  /\ UNCHANGED <<known, page, pending, failed, frozen, resolve, debounce, phase, batchVars,
                 delayVars, edits>>

\* reRead(true) after a write: the evaluator and the page get what is stored.
\* A restore then patches the row of the page once more.
ReadReturns ==
  /\ calls # <<>> /\ Answered.op = "read"
  /\ known' = stored
  /\ missed' = FALSE
  /\ page' = [rows |-> IF Answered.kind = "preset"
                         THEN [stored.rows EXCEPT ![Answered.link] =
                                 [@ EXCEPT !.content = 0, !.custom = FALSE]]
                         ELSE stored.rows,
              delay |-> page.delay]
  /\ resolve' = [resolve EXCEPT ![Answered.link] = NotSet]
  /\ LET row == [RowState EXCEPT !.frozen = @ \ {Answered.link}]
     IN  IF Answered.batch = NotSet
           THEN /\ Send(Tail(calls))
                /\ frozen' = row.frozen
                /\ UNCHANGED <<pending, givenUp, batchVars, debounce>>
           ELSE BatchGoesOn(Tail(calls), Answered.batch, Answered.todo, row, page')
  /\ UNCHANGED <<stored, failed, phase, delayVars, edits>>

\* The re-read failed: the row stays suspended and offers a retry.
ReadFails ==
  /\ calls # <<>> /\ Answered.op = "read"
  /\ failed' = failed \cup {Answered.link}
  /\ missed' = TRUE
  /\ page' = IF Answered.kind = "preset"
               THEN [page EXCEPT !.rows[Answered.link] = [@ EXCEPT !.content = 0, !.custom = FALSE]]
               ELSE page
  /\ IF Answered.batch = NotSet
       THEN /\ Send(Tail(calls))
            /\ UNCHANGED <<pending, frozen, givenUp, batchVars, debounce>>
       ELSE BatchGoesOn(Tail(calls), Answered.batch, Answered.todo, RowState, page')
  /\ UNCHANGED <<stored, known, resolve, phase, delayVars, edits>>

\* The re-read of retryWrite.
RetryReturns ==
  /\ calls # <<>> /\ Answered.op = "retry"
  /\ Send(Tail(calls))
  /\ known' = stored
  /\ missed' = FALSE
  /\ page' = [page EXCEPT !.rows = stored.rows]
  /\ frozen' = IF resolve[Answered.link] # NotSet THEN frozen \ {Answered.link} ELSE frozen
  /\ resolve' = [resolve EXCEPT ![Answered.link] = NotSet]
  /\ UNCHANGED <<stored, pending, failed, givenUp, debounce, phase, batchVars, delayVars, edits>>

RetryFails ==
  /\ calls # <<>> /\ Answered.op = "retry"
  /\ Send(Tail(calls))
  /\ givenUp' = IF Answered.link \in frozen THEN givenUp \cup {Answered.link} ELSE givenUp
  /\ missed' = TRUE
  /\ UNCHANGED <<stored, known, page, pending, failed, frozen, resolve, debounce, phase,
                 batchVars, delayVars, edits>>

\* A mutation: the evaluator does not hear of a change of the looks.
DisplayAcceptedQuietly ==
  /\ calls # <<>> /\ Answered.op = "display"
  /\ Send(Tail(calls))
  /\ stored' = [stored EXCEPT !.rows[Answered.link] = Written(Answered)]
  /\ page' = [page EXCEPT !.rows[Answered.link].content = Answered.want.content]
  /\ UNCHANGED <<known, rowVars, debounce, phase, batchVars, delayVars, edits, missed>>

\* commitDisplay: no suspension; the levels of the page's row are patched, its
\* status is not, and the evaluator hears of it when the timer has run out.
DisplayAccepted ==
  /\ calls # <<>> /\ Answered.op = "display"
  /\ Send(Tail(calls))
  /\ stored' = [stored EXCEPT !.rows[Answered.link] = Written(Answered)]
  /\ page' = [page EXCEPT !.rows[Answered.link].content = Answered.want.content]
  /\ debounce' = TRUE
  /\ UNCHANGED <<known, rowVars, phase, batchVars, delayVars, edits, missed>>

DisplayRefused ==
  /\ calls # <<>> /\ Answered.op = "display"
  /\ Send(Tail(calls))
  /\ failed' = failed \cup {Answered.link}
  /\ UNCHANGED <<stored, known, page, pending, frozen, resolve, givenUp, debounce, phase,
                 batchVars, delayVars, edits, missed>>

DisplayThrows ==
  /\ calls # <<>> /\ Answered.op = "display"
  /\ Send(Tail(calls))
  /\ stored' \in {stored, [stored EXCEPT !.rows[Answered.link] = Written(Answered)]}
  /\ missed' = TRUE
  /\ UNCHANGED <<known, page, rowVars, debounce, phase, batchVars, delayVars, edits>>

\* reRead(false) of the debounce: only the evaluator gets it.
LateReadEnds ==
  /\ calls # <<>> /\ Answered.op = "late"
  /\ Send(Tail(calls))
  /\ \/ known' = stored /\ missed' = FALSE
     \/ missed' = TRUE /\ UNCHANGED known
  /\ UNCHANGED <<stored, page, rowVars, debounce, phase, batchVars, delayVars, edits>>

\* loadSettings: a pending delay draft keeps the delay of the page.
LoadEnds ==
  /\ calls # <<>> /\ Answered.op = "load"
  /\ Send(Tail(calls))
  /\ \/ /\ known' = stored
        /\ missed' = FALSE
        /\ page' = IF draft = "pending" THEN [page EXCEPT !.rows = stored.rows] ELSE stored
        /\ phase' = IF phase = "left" THEN phase ELSE "shown"
     \/ /\ phase' = IF phase = "left" THEN phase ELSE "error"
        /\ UNCHANGED <<known, missed, page>>
  /\ UNCHANGED <<stored, rowVars, debounce, batchVars, delayVars, edits>>

\* getDefXmlDefaults of a batch: rows without defaults are skipped; when it
\* throws nothing of the batch runs any more.
DefaultsEnd ==
  /\ calls # <<>> /\ Answered.op = "defaults"
  /\ \/ BatchGoesOn(Tail(calls), Answered.batch, Answered.todo \cap HasDefaults, RowState, page)
     \/ /\ Send(Tail(calls))
        /\ UNCHANGED <<pending, frozen, givenUp, batchVars, debounce>>
  /\ UNCHANGED <<stored, known, page, failed, resolve, phase, delayVars, edits, missed>>

\* The draft's commit: the evaluator is told at once.
DelayAccepted ==
  /\ calls # <<>> /\ Answered.op = "delay"
  /\ Send(Tail(calls))
  /\ stored' = [stored EXCEPT !.delay = Answered.want]
  /\ page' = [page EXCEPT !.delay = Answered.want]
  /\ known' = [known EXCEPT !.delay = Answered.want]
  /\ committing' = FALSE
  /\ draft' = "idle"
  /\ UNCHANGED <<rowVars, debounce, phase, batchVars, edits, missed>>

DelayRefused ==
  /\ calls # <<>> /\ Answered.op = "delay"
  /\ Send(Tail(calls))
  /\ committing' = FALSE
  /\ draft' = "idle"
  /\ UNCHANGED <<stored, known, page, rowVars, debounce, phase, batchVars, edits, missed>>

DelayThrows ==
  /\ calls # <<>> /\ Answered.op = "delay"
  /\ Send(Tail(calls))
  /\ stored' \in {stored, [stored EXCEPT !.delay = Answered.want]}
  /\ committing' = FALSE
  /\ missed' = TRUE
  /\ UNCHANGED <<known, page, rowVars, debounce, phase, batchVars, draft, edits>>

HostAnswers ==
  \/ SaveAccepted \/ SaveRefused \/ SaveThrows
  \/ ReadReturns \/ ReadFails
  \/ RetryReturns \/ RetryFails
  \/ DisplayAccepted \/ DisplayRefused \/ DisplayThrows
  \/ LateReadEnds \/ LoadEnds \/ DefaultsEnd
  \/ DelayAccepted \/ DelayRefused \/ DelayThrows

PageUser ==
  \/ \E d \in Rows :
       EditRow(d) \/ EditDisplay(d) \/ ToggleEnabled(d) \/ Restore(d)
         \/ RetryWrite(d) \/ DiscardWrite(d)
  \/ \E v \in Delays \cup {NotSet} : CommitDelay(v)
  \/ \E action \in Actions : OpenBatch(action)
  \/ \E filtered \in SUBSET Rows : ConfirmBatch(filtered)
  \/ CancelSheet
  \/ RetryLoad
  \/ Leave

PageNext == HostAnswers \/ PageUser \/ DebounceFires

PageSpec == PageInit /\ [][PageNext]_pageVars

------------------------------------------------------------------------------
(* Properties.                                                              *)

PageTypeOK ==
  /\ stored \in Config
  /\ known \in Config
  /\ page \in Config
  /\ pending \subseteq Rows
  /\ failed \subseteq Rows
  /\ frozen \subseteq Rows
  /\ givenUp \subseteq Rows
  /\ resolve \in [Rows -> {NotSet, "resume", "restart"}]
  /\ phase \in {"loading", "shown", "error", "left"}
  /\ sheet \in Actions \cup {NotSet}
  /\ draft \in {"idle", "pending", "rejected"}
  /\ edits \in 0..MaxEdits
  /\ {debounce, batchBlocks, inFlight, committing, missed} \subseteq BOOLEAN

Serves(call, d) == call.link = d /\ call.op \in {"save", "read", "retry"}

\* A data link suspended by a write warns of nothing, so somebody must still
\* end its suspension: a call of it is under way, or its row offers a retry
\* that knows how to resume it.  (Not so once a call threw, a retry failed or
\* the user discarded the row: then it stays suspended, see the README.)
FrozenHasWayOut ==
  \A d \in frozen \ givenUp :
    \/ \E i \in DOMAIN calls : Serves(calls[i], d)
    \/ d \in failed /\ resolve[d] # NotSet

\* When no call is under way and no timer runs, the evaluator judges frames by
\* the settings that are stored, whatever writes, batches and re-reads have
\* crossed each other in the queue, unless it missed one that failed.
EvaluatorReads == (calls = <<>> /\ ~debounce /\ ~missed) => known = stored

\* The page keeps its promises to the evaluator: nobody stays suspended without
\* a way out, and what it last wrote is what the evaluator reads.
PageSound == FrozenHasWayOut /\ EvaluatorReads

\* "Applies DEF defaults to Typical-status data links only.  Custom data links
\* are left untouched." (the sheet of the batch)
CustomLeftUntouched ==
  [][\A d \in Rows :
       (stored'.rows[d] # stored.rows[d] /\ Head(calls).batch = "defaults")
         => ~stored.rows[d].custom]_pageVars
===============================================================================
