----------------------------- MODULE QueueDialog -----------------------------
(***************************************************************************)
(* The queue dialog of freescp-app's transfer.rs: what it shows of the     *)
(* transfer queue, what its buttons do to it, and who is told when a       *)
(* transfer is done.                                                       *)
(*                                                                         *)
(* The queue is the one TransferQueue implements, at the level of          *)
(* TransferLifecycle.  Workers change it at any time and announce it to    *)
(* the pump of the dialog; a timer looks at it as well.  The component     *)
(* lives as long as it is on the screen (Slint keeps it, the program keeps *)
(* weak handles); a thread-local entry about it survives it, until the     *)
(* next dialog has been made.                                              *)
(*                                                                         *)
(* Left out: progress, speed and error texts, the status line, the speed   *)
(* limits, opening a destination and copying a path.                       *)
(***************************************************************************)
EXTENDS Naturals, Sequences

CONSTANTS
  QueueTasks,
  QueueFilters,      \* of 0 All, 1 Active, 2 Errors, 3 Completed, 4 Canceled
  AutoClearModes,    \* of 0 Off, 1 Completed, 2 Failed/Canceled, 3 All finished
  DefaultMode,       \* the preference used while no dialog state is saved
  MaxPending,        \* bound: announcements the pump has not taken yet
  MaxQueueClicks     \* bound: what the user does in the dialog

ASSUME QueueDialogAssumption ==
  /\ QueueFilters \subseteq 0..4 /\ AutoClearModes \subseteq 0..3
  /\ 0 \in QueueFilters /\ DefaultMode \in AutoClearModes
  /\ MaxPending \in Nat /\ MaxQueueClicks \in Nat

VARIABLES
  taskPhase, taskRunning, queueHeld, queueHalted,   \* the queue: see TransferLifecycle
  expired,       \* finished tasks older than the auto-clear minutes
  clearMode,     \* the manager's auto_clear_mode
  seenNotified,  \* completed tasks that were announced in the status line
  inbox,         \* events the pump of the dialog on the screen has not taken
  queueDialog,   \* [up, filter, mode, rows, offers]: the component
  entry,         \* [made, prev, selected]: QUEUE_DIALOG
  acting,        \* [op, ids]: what for_selected has left to do
  savedUi,       \* queue-ui-state.toml: a set of at most one [mode, filter]
  told, witnessed, chosenUi, clicked   \* history: notices given, completions seen
                                     \* by this dialog, what the user chose last

lifeVars == <<taskPhase, taskRunning, queueHeld, queueHalted>>
dialogVars == <<lifeVars, expired, clearMode, seenNotified, inbox, queueDialog, entry,
                acting, savedUi, told, witnessed, chosenUi, clicked>>

Lifecycle == INSTANCE TransferLifecycle
  WITH Tasks <- QueueTasks, phase <- taskPhase, inFlight <- taskRunning,
       held <- queueHeld, halted <- queueHalted

Finished == {"Completed", "Failed", "Cancelled"}
Listed(ph) == {t \in QueueTasks : ph[t] \notin {"New", "Gone"}}
Idle == [op |-> "none", ids |-> {}]
UiFree == acting = Idle
UserClick == clicked < MaxQueueClicks /\ clicked' = clicked + 1

\* What each operation asks of a task's state, and what it makes of it.
Ops == {"pause", "resume", "cancel", "retry"}
Eligible(op) == CASE op = "pause" -> {"Queued", "Active"}
                  [] op = "resume" -> {"Paused"}
                  [] op = "cancel" -> {"Queued", "Active", "Paused"}
                  [] op = "retry" -> {"Failed", "Cancelled"}
Outcome(op) == CASE op = "pause" -> "Paused" [] op = "cancel" -> "Cancelled" [] OTHER -> "Queued"
Matching(filter) == CASE filter = 1 -> {"Queued", "Active", "Paused"}
                      [] filter = 2 -> {"Failed"}
                      [] filter = 3 -> {"Completed"}
                      [] filter = 4 -> {"Cancelled"}
                      [] OTHER -> Lifecycle!Live \cup Finished

DialogDown == [up |-> FALSE, filter |-> 0, mode |-> DefaultMode, rows |-> {}, offers |-> {}]
QueueDialogInit ==
  /\ Lifecycle!Init
  /\ expired = {} /\ clearMode = DefaultMode /\ seenNotified = {} /\ inbox = <<>>
  /\ queueDialog = DialogDown
  /\ entry = [made |-> FALSE, prev |-> {}, selected |-> {}]
  /\ acting = Idle /\ savedUi = {}
  /\ told = [t \in QueueTasks |-> 0] /\ witnessed = {}
  /\ chosenUi = [filter |-> 0, mode |-> DefaultMode, kept |-> TRUE] /\ clicked = 0

-----------------------------------------------------------------------------
(* The queue. *)

\* The pump of a dialog that is gone takes its events and drops them.
Announced(box, events) == IF queueDialog.up THEN box \o events ELSE box
PumpHasRoom(n) == Len(inbox) + n <= MaxPending

\* A record that changes its state has a new time at which it finished, or none.
StillExpired == {t \in expired : taskPhase'[t] = taskPhase[t]}

\* Workers and the scheduler; a task's end is one critical section, with both
\* its events.
WorkerSteps(t) ==
  /\ Lifecycle!Launch(t) \/ Lifecycle!Settle(t)
  /\ LET done == taskPhase'[t] = "Completed" IN
     /\ PumpHasRoom(IF done THEN 2 ELSE 1)
     /\ inbox' = Announced(inbox, IF done THEN <<"changed", "completed">> ELSE <<"changed">>)
     /\ witnessed' = IF done /\ queueDialog.up THEN witnessed \cup {t} ELSE witnessed
  /\ expired' = StillExpired
  /\ UNCHANGED <<clearMode, seenNotified, queueDialog, entry, acting, savedUi, told, chosenUi, clicked>>

\* The file panes queue a task.
EnqueueTask(t) ==
  /\ UiFree /\ PumpHasRoom(1)
  /\ Lifecycle!Submit(t)
  /\ inbox' = Announced(inbox, <<"changed">>)
  /\ UNCHANGED <<expired, clearMode, seenNotified, queueDialog, entry, acting, savedUi,
                 told, witnessed, chosenUi, clicked>>

TimePasses ==
  /\ \E t \in QueueTasks \ expired :
       taskPhase[t] \in Finished /\ expired' = expired \cup {t}
  /\ UNCHANGED <<lifeVars, clearMode, seenNotified, inbox, queueDialog, entry, acting, savedUi,
                 told, witnessed, chosenUi, clicked>>

-----------------------------------------------------------------------------
(* Refreshing the dialog. *)

\* What maybe_auto_clear removes: in this mode, and old enough.
AutoCleared(mode) ==
  {t \in expired : \/ mode \in {1, 3} /\ taskPhase[t] = "Completed"
                   \/ mode \in {2, 3} /\ taskPhase[t] \in {"Failed", "Cancelled"}}
PhasesWithout(S) == [t \in QueueTasks |-> IF t \in S THEN "Gone" ELSE taskPhase[t]]
RowsOf(ph, filter, selected) ==
  {<<t, ph[t], t \in selected>> : t \in {t \in Listed(ph) : ph[t] \in Matching(filter)}}
\* The buttons and menu items that are enabled.
Offers(ph, selected) ==
  {<<"all", op>> : op \in {op \in Ops : \E t \in QueueTasks : ph[t] \in Eligible(op)}}
    \cup {<<"selected", op>> : op \in {op \in Ops : \E t \in selected : ph[t] \in Eligible(op)}}

\* refresh_dialog of component d with what the entry e remembers: the rows are
\* set when they differ from those set last.
Refreshed(d, e, mode) ==
  LET gone == AutoCleared(mode)
      ph == PhasesWithout(gone)
      rows == RowsOf(ph, d.filter, e.selected)
  IN [gone |-> gone, phases |-> ph,
      dialog |-> [d EXCEPT !.offers = Offers(ph, e.selected),
                           !.rows = IF e.made /\ rows = e.prev THEN @ ELSE rows],
      entry |-> IF e.made THEN [e EXCEPT !.prev = rows] ELSE e]

\* r is such a refresh; box is what is left in the pump's inbox.
Show(r, box) ==
  /\ taskPhase' = r.phases /\ expired' = expired \ r.gone
  /\ queueDialog' = r.dialog /\ entry' = r.entry
  /\ inbox' = IF r.gone = {} THEN box ELSE Announced(box, <<"changed">>)
  /\ UNCHANGED <<taskRunning, queueHeld, queueHalted>>
Prune == seenNotified' = seenNotified \cap Listed(taskPhase')

\* The repeated timer of 250 ms.
PollQueue ==
  /\ queueDialog.up /\ UiFree /\ PumpHasRoom(1)
  /\ Show(Refreshed(queueDialog, entry, clearMode), inbox) /\ Prune
  /\ UNCHANGED <<clearMode, acting, savedUi, told, witnessed, chosenUi, clicked>>

\* The completed tasks not announced so far.
NewlyCompleted(ph) == {t \in QueueTasks : ph[t] = "Completed"} \ seenNotified

\* The pump takes an event: a refresh, and one notice for all that has completed.
PumpEvent ==
  /\ queueDialog.up /\ UiFree /\ inbox # <<>>
  /\ Show(Refreshed(queueDialog, entry, clearMode), Tail(inbox))
  /\ LET fresh == IF Head(inbox) = "completed" THEN NewlyCompleted(taskPhase') ELSE {} IN
     /\ told' = [t \in QueueTasks |-> IF t \in fresh THEN told[t] + 1 ELSE told[t]]
     /\ seenNotified' = (seenNotified \cup fresh) \cap Listed(taskPhase')
  /\ UNCHANGED <<clearMode, acting, savedUi, witnessed, chosenUi, clicked>>

-----------------------------------------------------------------------------
(* Opening and closing. *)

LoadedUi == IF savedUi = {} THEN [mode |-> DefaultMode, filter |-> 0]
            ELSE CHOOSE u \in savedUi : TRUE

\* A first or another dialog.  It is refreshed with what the entry of the one
\* before it remembers, subscribes, and gets an entry of its own.
OpenQueueDialog ==
  /\ ~queueDialog.up /\ UiFree /\ UserClick
  /\ LET new == [up |-> TRUE, filter |-> LoadedUi.filter, mode |-> LoadedUi.mode,
                 rows |-> {}, offers |-> {}]
         fresh == [made |-> TRUE, prev |-> {}, selected |-> {}]
     IN Show([Refreshed(new, entry, LoadedUi.mode) EXCEPT !.entry = fresh], <<>>)
  /\ clearMode' = LoadedUi.mode /\ Prune
  /\ UNCHANGED <<acting, savedUi, told, witnessed, chosenUi>>

\* Hidden, the component is gone; its timer and its pump find nobody.
CloseQueueDialog ==
  /\ queueDialog.up /\ UiFree /\ UserClick
  /\ queueDialog' = DialogDown /\ inbox' = <<>> /\ witnessed' = {}
  /\ UNCHANGED <<lifeVars, expired, clearMode, seenNotified, entry, acting, savedUi, told, chosenUi>>

-----------------------------------------------------------------------------
(* What the user does in it. *)

OnScreen == {row[1] : row \in queueDialog.rows}
InDialog == queueDialog.up /\ UiFree /\ UserClick

\* A click on a row selects it alone, or with Ctrl adds or removes it; the
\* context menu keeps a selection that contains the row.
SelectedBy(how, t) ==
  CASE how = "click" -> {t}
    [] how = "toggle" -> IF t \in entry.selected THEN entry.selected \ {t} ELSE entry.selected \cup {t}
    [] how = "menu" -> IF t \in entry.selected THEN entry.selected ELSE {t}
SelectRow(how, t) ==
  /\ InDialog /\ PumpHasRoom(1) /\ t \in OnScreen
  /\ Show(Refreshed(queueDialog, [entry EXCEPT !.selected = SelectedBy(how, t)], clearMode), inbox)
  /\ Prune
  /\ UNCHANGED <<clearMode, acting, savedUi, told, witnessed, chosenUi>>

\* The state of tasks S becomes p.
Change(S, p) ==
  /\ taskPhase' = [t \in QueueTasks |-> IF t \in S THEN p ELSE taskPhase[t]]
  /\ expired' = StillExpired /\ Prune
  /\ inbox' = IF S = {} THEN inbox ELSE Announced(inbox, <<"changed">>)
  /\ UNCHANGED <<taskRunning, queueHalted, clearMode, queueDialog, entry, savedUi,
                 told, witnessed, chosenUi>>
InStates(P) == {t \in QueueTasks : taskPhase[t] \in P}

\* for_selected looks at the queue once and then calls the manager for one
\* task after another; workers go on meanwhile.
ActOnSelected(op) ==
  /\ InDialog /\ <<"selected", op>> \in queueDialog.offers
  /\ acting' = [op |-> op, ids |-> entry.selected \cap InStates(Eligible(op))]
  /\ acting'.ids # {}
  /\ UNCHANGED <<lifeVars, expired, clearMode, seenNotified, inbox, queueDialog, entry,
                 savedUi, told, witnessed, chosenUi>>
ActOnTask(t) ==
  /\ t \in acting.ids
  /\ Change({t} \cap InStates(Eligible(acting.op)), Outcome(acting.op))
  /\ acting' = IF acting.ids = {t} THEN Idle ELSE [acting EXCEPT !.ids = @ \ {t}]
  /\ UNCHANGED <<queueHeld, clicked>>

CancelRow(t) ==
  /\ InDialog /\ PumpHasRoom(1) /\ t \in OnScreen
  /\ Change({t} \cap InStates(Eligible("cancel")), "Cancelled")
  /\ UNCHANGED <<queueHeld, acting>>

\* Pausing the queue pauses what runs; what is queued stays queued.
ActOnAll(op) ==
  /\ InDialog /\ PumpHasRoom(1) /\ <<"all", op>> \in queueDialog.offers
  /\ Change(InStates(IF op = "pause" THEN {"Active"} ELSE Eligible(op)), Outcome(op))
  /\ queueHeld' = CASE op = "pause" -> TRUE [] op = "resume" -> FALSE [] OTHER -> queueHeld
  /\ UNCHANGED acting

ClearTasks(P) ==
  /\ InDialog /\ PumpHasRoom(1)
  /\ Change(InStates(P), "Gone")
  /\ UNCHANGED <<queueHeld, acting>>

\* The file is written whole, not at all, or left in a state nobody can read.
SaveUi(u) ==
  /\ savedUi' \in {{u}, savedUi, {}}
  /\ chosenUi' = [filter |-> u.filter, mode |-> u.mode, kept |-> savedUi' = {u}]

\* Another filter drops the selection, so that hidden tasks are not acted on.
SetFilter(f) ==
  /\ InDialog /\ PumpHasRoom(1)
  /\ SaveUi([mode |-> queueDialog.mode, filter |-> f])
  /\ Show(Refreshed([queueDialog EXCEPT !.filter = f], [entry EXCEPT !.selected = {}], clearMode),
          inbox)
  /\ Prune
  /\ UNCHANGED <<clearMode, acting, told, witnessed>>

SetAutoClear(m) ==
  /\ InDialog
  /\ clearMode' = m /\ queueDialog' = [queueDialog EXCEPT !.mode = m]
  /\ SaveUi([mode |-> m, filter |-> queueDialog.filter])
  /\ UNCHANGED <<lifeVars, expired, seenNotified, inbox, entry, acting, told, witnessed>>

QueueDialogNext ==
  \/ \E t \in QueueTasks : WorkerSteps(t) \/ EnqueueTask(t) \/ ActOnTask(t) \/ CancelRow(t)
  \/ TimePasses \/ PollQueue \/ PumpEvent \/ OpenQueueDialog \/ CloseQueueDialog
  \/ \E how \in {"click", "toggle", "menu"}, t \in QueueTasks : SelectRow(how, t)
  \/ \E op \in Ops : ActOnSelected(op) \/ ActOnAll(op)
  \/ \E P \in {{"Completed"}, {"Failed", "Cancelled"}, Finished} : ClearTasks(P)
  \/ \E f \in QueueFilters : SetFilter(f)
  \/ \E m \in AutoClearModes : SetAutoClear(m)

QueueDialogSpec == QueueDialogInit /\ [][QueueDialogNext]_dialogVars

-----------------------------------------------------------------------------
\* Every variable has its type.
QueueDialogTypeOK ==
  /\ taskPhase \in [QueueTasks -> Lifecycle!Phases] /\ taskRunning \subseteq QueueTasks
  /\ queueHeld \in BOOLEAN /\ queueHalted = FALSE
  /\ expired \subseteq QueueTasks /\ seenNotified \subseteq QueueTasks
  /\ clearMode \in AutoClearModes
  /\ inbox \in Seq({"changed", "completed"})
  /\ queueDialog.filter \in QueueFilters /\ queueDialog.mode \in AutoClearModes
  /\ OnScreen \subseteq QueueTasks /\ entry.selected \subseteq QueueTasks
  /\ acting.ids \subseteq QueueTasks /\ witnessed \subseteq QueueTasks
  /\ told \in [QueueTasks -> Nat] /\ clicked \in 0..MaxQueueClicks

\* A completed transfer is announced once, though two may complete before the
\* pump gets to the first, dialogs come and go, and records are cleared; and
\* once the pump has caught up, whatever completed before the eyes of this
\* dialog and is still listed has been.  (take_completed_notice)
CompletionsTold ==
  /\ \A t \in QueueTasks : told[t] <= 1 /\ (told[t] = 1 => taskPhase[t] \in {"Completed", "Gone"})
  /\ inbox = <<>> => \A t \in witnessed : told[t] = 1 \/ taskPhase[t] = "Gone"

\* A dialog comes up with the filter and the auto-clear the user chose last,
\* unless they could not be saved, and the manager clears as it shows.
\* (save_queue_ui_state, load_queue_ui_state)
ChoicesKept ==
  queueDialog.up =>
    /\ clearMode = queueDialog.mode
    /\ chosenUi.kept => queueDialog.filter = chosenUi.filter /\ queueDialog.mode = chosenUi.mode

\* Whatever came before, the next poll shows each task the filter lets
\* through, in the state it has: rows are only set when they differ from those
\* the entry remembers, and the entry outlives the component.  (refresh_dialog)
NextPollShows ==
  queueDialog.up =>
    LET r == Refreshed(queueDialog, entry, clearMode)
    IN RowsOf(r.phases, queueDialog.filter, entry.selected) \subseteq r.dialog.rows
=============================================================================
