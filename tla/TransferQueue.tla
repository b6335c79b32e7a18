--------------------------- MODULE TransferQueue ---------------------------
(***************************************************************************)
(* The transfer manager of crates/freescp-app/src/transfer.rs: the queue    *)
(* of tasks, the operations of the queue dialog, the scheduler and the      *)
(* worker that carries out one attempt.                                     *)
(*                                                                          *)
(* Everything happens on threads.  UI is the event-loop thread, the only    *)
(* caller of the manager's operations; Workers are the slots for the tokio  *)
(* tasks running run_worker.  A step is one critical section of the mutex   *)
(* around Shared, or one access to the atomics `paused` and `running` that  *)
(* live next to the mutex and are NOT protected by it.  schedule() runs on  *)
(* whichever thread calls it: UI at the end of an operation, a worker at    *)
(* the end of its attempt.                                                  *)
(*                                                                          *)
(* A panic inside a critical section poisons the mutex, and every later     *)
(* lock().unwrap() panics too: `poisoned` stops the model.                  *)
(***************************************************************************)
EXTENDS Integers, FiniteSets

CONSTANTS
  NumTasks,      \* tasks the user enqueues; ids are handed out in order
  UI,            \* the event-loop thread
  Workers,       \* slots for spawned run_worker tasks (bounds the model)
  MaxLimit,      \* largest value given to set_max_concurrent
  DialAttempts,  \* attempts of create_worker_client (3 in the code)
  Isolated,      \* tasks queued with session options: they dial their own connection
  Preexisting,   \* tasks whose destination file exists before they start
  UserOps,       \* operations the user performs
  AwaitUnwind    \* the user resumes or retries only what has no live worker

Tasks == 1 .. NumTasks
Threads == Workers \cup {UI}

AllOps == {"cancel", "clear", "pauseAll", "resumeAll", "pauseTask",
           "resumeTask", "retry", "setMax", "drop"}

ASSUME QueueAssumption ==
  /\ NumTasks \in Nat \ {0}
  /\ MaxLimit \in Nat \ {0}
  /\ DialAttempts \in Nat \ {0}
  /\ IsFiniteSet(Workers)
  /\ UI \notin Workers
  /\ Isolated \subseteq Tasks
  /\ Preexisting \subseteq Tasks
  /\ UserOps \subseteq AllOps
  /\ AwaitUnwind \in BOOLEAN

VARIABLES
  state,      \* TransferState of the record; "New" before enqueue, "Gone" once removed
  home,       \* the record owns its template client
  cancelFlag, \* the record's Arc<AtomicBool>; a worker may outlive the record with it
  pauseFlag,
  hint,       \* resume_hint
  cursor,     \* rotating scheduling cursor: a position in the list
  maxConc,    \* max_concurrent
  paused,     \* atomic
  running,    \* atomic
  poisoned,
  pc,         \* where each thread is
  job,        \* the task a thread has picked or is transferring
  resume,     \* WorkerArgs::resume, copied from the hint when the task is picked
  tries,      \* failed connection attempts of a worker
  heard,      \* the worker polls the record's own cancel flag
  verdict,    \* outcome of the attempt
  dest        \* destination file of a task

recVars == <<state, home, cancelFlag, pauseFlag, hint>>
schedVars == <<cursor, maxConc, paused, running, poisoned>>
workVars == <<tries, heard, verdict, dest>>
vars == <<recVars, schedVars, pc, job, resume, workVars>>

NoTask == 0

Live == {"Queued", "Active", "Paused"}
Terminal == {"Completed", "Failed", "Cancelled"}
States == Live \cup Terminal \cup {"New", "Gone"}

Attempt == {"connect", "precheck", "prompt", "copy", "finish"}
PCs == Attempt \cup {"idle", "pauseMark", "resumeMark", "dropMark", "gone",
                     "free", "retire", "sched", "spawn"}

(***************************************************************************)
(* "foreign" is a file the task did not write, "agreed" the same file once  *)
(* the user has answered Overwrite or Resume, "own" the task's own output,  *)
(* "lost" a foreign file written over without having asked.                 *)
(***************************************************************************)
DestStates == {"none", "foreign", "agreed", "own", "lost"}
Written == {"own", "lost"}

Resting(th) == IF th = UI THEN "idle" ELSE "free"

InState(S) == {t \in Tasks : state[t] \in S}
Listed == InState(Live \cup Terminal)
QueuedTasks == InState({"Queued"})

(* Threads that own a task's client: a scheduler that took it out of the    *)
(* record, or the worker it was handed to.                                  *)
Holding(th) == pc[th] \in Attempt \cup {"spawn"}
Holders(t) == {th \in Threads : Holding(th) /\ job[th] = t}
InFlight == {t \in Tasks : Holders(t) # {}}

Go(th, to) == pc' = [pc EXCEPT ![th] = to]

Init ==
  /\ state = [t \in Tasks |-> "New"]
  /\ home = [t \in Tasks |-> FALSE]
  /\ cancelFlag = [t \in Tasks |-> FALSE]
  /\ pauseFlag = [t \in Tasks |-> FALSE]
  /\ hint = [t \in Tasks |-> FALSE]
  /\ cursor = 0
  /\ maxConc = MaxLimit
  /\ paused = FALSE
  /\ running = 0
  /\ poisoned = FALSE
  /\ pc = [th \in Threads |-> Resting(th)]
  /\ job = [th \in Threads |-> NoTask]
  /\ resume = [th \in Threads |-> FALSE]
  /\ tries = [w \in Workers |-> 0]
  /\ heard = [w \in Workers |-> FALSE]
  /\ verdict = [w \in Workers |-> "none"]
  /\ dest = [t \in Tasks |-> IF t \in Preexisting THEN "foreign" ELSE "none"]

-----------------------------------------------------------------------------
(***************************************************************************)
(* Operations of the queue dialog and the main window, on the UI thread.    *)
(* An operation that may make a task runnable ends in schedule(), pc        *)
(* "sched"; the others return after their critical section.                 *)
(***************************************************************************)
Op(name) == pc[UI] = "idle" /\ name \in UserOps

(* Push the next record, Queued and owning its client. *)
Enqueue(t) ==
  /\ pc[UI] = "idle"
  /\ state[t] = "New"
  /\ \A u \in Tasks : u < t => state[u] # "New"
  /\ state' = [state EXCEPT ![t] = "Queued"]
  /\ home' = [home EXCEPT ![t] = TRUE]
  /\ Go(UI, "sched")
  /\ UNCHANGED <<cancelFlag, pauseFlag, hint, schedVars, job, resume, workVars>>

(* cancel of one task, cancel_for_session and cancel_all: S is the scope.   *)
Cancel(S) ==
  LET hit == S \cap InState(Live) IN
  /\ Op("cancel")
  /\ hit # {}
  /\ state' = [t \in Tasks |-> IF t \in hit THEN "Cancelled" ELSE state[t]]
  /\ cancelFlag' = [t \in Tasks |-> t \in hit \/ cancelFlag[t]]
  /\ pauseFlag' = [t \in Tasks |-> t \notin hit /\ pauseFlag[t]]
  /\ UNCHANGED <<home, hint, schedVars, pc, job, resume, workVars>>

(* clear_finished, clear_failed_cancelled and maybe_auto_clear: drop        *)
(* terminal records, with the client a record may own.  Which of them are   *)
(* old enough and match the mode is any non-empty choice.                   *)
Clear(S) ==
  /\ Op("clear")
  /\ S # {}
  /\ S \subseteq InState(Terminal)
  /\ state' = [t \in Tasks |-> IF t \in S THEN "Gone" ELSE state[t]]
  /\ home' = [t \in Tasks |-> t \notin S /\ home[t]]
  /\ pauseFlag' = [t \in Tasks |-> t \notin S /\ pauseFlag[t]]
  /\ hint' = [t \in Tasks |-> t \notin S /\ hint[t]]
  /\ UNCHANGED <<cancelFlag, schedVars, pc, job, resume, workVars>>

(* pause_all stores the atomic first and marks the records afterwards. *)
PauseAllStore ==
  /\ Op("pauseAll")
  /\ paused' = TRUE
  /\ Go(UI, "pauseMark")
  /\ UNCHANGED <<recVars, cursor, maxConc, running, poisoned, job, resume, workVars>>

MarkPaused(S) ==
  /\ state' = [t \in Tasks |-> IF t \in S THEN "Paused" ELSE state[t]]
  /\ pauseFlag' = [t \in Tasks |-> t \in S \/ pauseFlag[t]]
  /\ UNCHANGED <<home, cancelFlag, hint, schedVars, job, resume, workVars>>

PauseAllMark ==
  /\ pc[UI] = "pauseMark"
  /\ MarkPaused(InState({"Active"}))
  /\ Go(UI, "idle")

PauseTask(t) ==
  /\ Op("pauseTask")
  /\ state[t] \in {"Queued", "Active"}
  /\ MarkPaused({t})
  /\ UNCHANGED pc

(* Nothing the user resumes or retries still has a worker, under AwaitUnwind. *)
Unwound(S) == AwaitUnwind => S \cap InFlight = {}

Requeue(S) ==
  /\ state' = [t \in Tasks |-> IF t \in S THEN "Queued" ELSE state[t]]
  /\ pauseFlag' = [t \in Tasks |-> t \notin S /\ pauseFlag[t]]
  /\ hint' = [t \in Tasks |-> t \in S \/ hint[t]]
  /\ Go(UI, "sched")
  /\ UNCHANGED <<home, schedVars, job, resume, workVars>>

ResumeAllStore ==
  /\ Op("resumeAll")
  /\ Unwound(InState({"Paused"}))
  /\ paused' = FALSE
  /\ Go(UI, "resumeMark")
  /\ UNCHANGED <<recVars, cursor, maxConc, running, poisoned, job, resume, workVars>>

(* Mutant: resumes only the tasks pause_all itself marked. *)
ResumeAllMarkSome ==
  /\ pc[UI] = "resumeMark"
  /\ Requeue({t \in InState({"Paused"}) : pauseFlag[t]})
  /\ UNCHANGED cancelFlag

ResumeAllMark ==
  /\ pc[UI] = "resumeMark"
  /\ Requeue(InState({"Paused"}))
  /\ UNCHANGED cancelFlag

ResumeTask(t) ==
  /\ Op("resumeTask")
  /\ state[t] = "Paused"
  /\ Unwound({t})
  /\ Requeue({t})
  /\ UNCHANGED cancelFlag

(* retry_task on one task, retry_failed on all: reset_for_retry also takes  *)
(* the cancel request back.                                                 *)
Retry(S) ==
  /\ Op("retry")
  /\ S # {}
  /\ S \subseteq InState({"Failed", "Cancelled"})
  /\ Unwound(S)
  /\ Requeue(S)
  /\ cancelFlag' = [t \in Tasks |-> t \notin S /\ cancelFlag[t]]

SetMaxConcurrent(n) ==
  /\ Op("setMax")
  /\ maxConc' = n
  /\ Go(UI, "sched")
  /\ UNCHANGED <<recVars, cursor, paused, running, poisoned, job, resume, workVars>>

(* Drop for TransferManager: the event loop is over, workers keep going. *)
DropStore ==
  /\ Op("drop")
  /\ paused' = TRUE
  /\ Go(UI, "dropMark")
  /\ UNCHANGED <<recVars, cursor, maxConc, running, poisoned, job, resume, workVars>>

(* Mutant: marks the records without setting their cancel flags. *)
DropMarkStateOnly ==
  /\ pc[UI] = "dropMark"
  /\ state' = [t \in Tasks |-> IF state[t] \in Live THEN "Cancelled" ELSE state[t]]
  /\ Go(UI, "gone")
  /\ UNCHANGED <<home, cancelFlag, pauseFlag, hint, schedVars, job, resume, workVars>>

DropMark ==
  /\ pc[UI] = "dropMark"
  /\ cancelFlag' = [t \in Tasks |-> t \in Listed \/ cancelFlag[t]]
  /\ state' = [t \in Tasks |-> IF state[t] \in Live THEN "Cancelled" ELSE state[t]]
  /\ Go(UI, "gone")
  /\ UNCHANGED <<home, pauseFlag, hint, schedVars, job, resume, workVars>>

-----------------------------------------------------------------------------
(***************************************************************************)
(* schedule(), on any thread.  The record list is in id order (ids only     *)
(* grow and records are only appended or removed), so the position of a     *)
(* record is the number of listed records with a smaller id.                *)
(***************************************************************************)
Position(t) == Cardinality({u \in Listed : u < t})
(* Where the search begins: a cursor past a list that has shrunk wraps to 0. *)
Start == IF cursor >= Cardinality(Listed) THEN 0 ELSE cursor

(* Mutant: no cursor, always from the head of the list. *)
OffsetFromHead(t) == Position(t)

Offset(t) ==
  IF Position(t) >= Start THEN Position(t) - Start
                          ELSE Position(t) + Cardinality(Listed) - Start

(* next_queued_index: the first Queued record at or after the cursor. *)
NextQueued == {t \in QueuedTasks : \A u \in QueuedTasks : Offset(t) <= Offset(u)}

(* Mutant: the pause is checked by the caller only. *)
MayLaunchPaused == running < maxConc

MayLaunch == ~paused /\ running < maxConc

(* The loop ends: the queue is paused, full or, having looked, has nothing  *)
(* to run.                                                                  *)
ScheduleReturns(th) ==
  /\ pc[th] = "sched"
  /\ \/ ~MayLaunch /\ UNCHANGED cursor
     \/ MayLaunch /\ QueuedTasks = {} /\ cursor' = Start
  /\ Go(th, Resting(th))
  /\ UNCHANGED <<recVars, maxConc, paused, running, poisoned, job, resume, workVars>>

(* Mutant: the client is cloned out of the record instead of taken. *)
TakeClientClones(t) == UNCHANGED home

TakeClient(t) == home' = [home EXCEPT ![t] = FALSE]

(* One turn of the loop, under the lock: mark Active, take the client.      *)
SchedulePicks(th) ==
  /\ pc[th] = "sched"
  /\ MayLaunch
  /\ \E t \in NextQueued :
       /\ home[t]
       /\ state' = [state EXCEPT ![t] = "Active"]
       /\ TakeClient(t)
       /\ cursor' = (Position(t) + 1) % Cardinality(Listed)
       /\ job' = [job EXCEPT ![th] = t]
       /\ resume' = [resume EXCEPT ![th] = hint[t]]
  /\ Go(th, "spawn")
  /\ UNCHANGED <<cancelFlag, pauseFlag, hint, maxConc, paused, running, poisoned, workVars>>

(* client.take().expect(...) on a Queued record whose client is still with  *)
(* an earlier worker: panic with the mutex held.                            *)
SchedulePanics(th) ==
  /\ pc[th] = "sched"
  /\ MayLaunch
  /\ \E t \in NextQueued :
       /\ ~home[t]
       /\ state' = [state EXCEPT ![t] = "Active"]
       /\ cursor' = (Position(t) + 1) % Cardinality(Listed)
  /\ poisoned' = TRUE
  /\ UNCHANGED <<home, cancelFlag, pauseFlag, hint, maxConc, paused, running,
                 pc, job, resume, workVars>>

(* The rest of the turn, after the unlock: running.fetch_add and spawn. *)
Spawn(th) ==
  /\ pc[th] = "spawn"
  /\ \E w \in Workers :
       /\ pc[w] = "free"
       /\ pc' = [pc EXCEPT ![w] = "connect", ![th] = "sched"]
       /\ job' = [job EXCEPT ![w] = job[th], ![th] = NoTask]
       /\ resume' = [resume EXCEPT ![w] = resume[th], ![th] = FALSE]
  /\ running' = running + 1
  /\ UNCHANGED <<recVars, cursor, maxConc, paused, poisoned, workVars>>

-----------------------------------------------------------------------------
(***************************************************************************)
(* run_one: one attempt by a worker.  Failed and Stopped are one outcome,   *)
(* "notDone": the finalizer tells them apart by the flags only.             *)
(***************************************************************************)
Concludes(w, v) ==
  /\ verdict' = [verdict EXCEPT ![w] = v]
  /\ Go(w, "finish")

(* The should_cancel closure: the pause flag is not part of it. *)
ShouldCancel(w) == paused \/ (heard[w] /\ cancelFlag[job[w]])

(* task_cancel_requested: a record that is gone counts as cancelled. *)
CancelRequested(t) == t \notin Listed \/ cancelFlag[t]

(* Without session options the enqueued client is used as it is. *)
UseOwnClient(w) ==
  /\ pc[w] = "connect"
  /\ job[w] \notin Isolated
  /\ Go(w, "precheck")
  /\ UNCHANGED <<recVars, schedVars, job, resume, workVars>>

(* Mutant: the early return skips the finalizer and the decrement. *)
DialRefusedReturns(w) ==
  /\ pc[w] = "connect"
  /\ job[w] \in Isolated
  /\ paused \/ CancelRequested(job[w])
  /\ Go(w, "sched")
  /\ job' = [job EXCEPT ![w] = NoTask]
  /\ UNCHANGED <<recVars, schedVars, resume, workVars>>

DialRefused(w) ==
  /\ pc[w] = "connect"
  /\ job[w] \in Isolated
  /\ paused \/ CancelRequested(job[w])
  /\ Concludes(w, "notDone")
  /\ UNCHANGED <<recVars, schedVars, job, resume, tries, heard, dest>>

Dial(w) ==
  /\ pc[w] = "connect"
  /\ job[w] \in Isolated
  /\ ~(paused \/ CancelRequested(job[w]))
  /\ \/ /\ Go(w, "precheck")
        /\ UNCHANGED <<tries, verdict>>
     \/ /\ tries' = [tries EXCEPT ![w] = @ + 1]
        /\ IF tries[w] + 1 < DialAttempts
             THEN UNCHANGED <<pc, verdict>>
             ELSE Concludes(w, "notDone")
  /\ UNCHANGED <<recVars, schedVars, job, resume, heard, dest>>

(* Mutant: the test of the resume flag is inverted. *)
MustAskOnResume(w) == resume[w] /\ dest[job[w]] # "none"

(* A resumed attempt never asks about the destination. *)
MustAsk(w) == ~resume[w] /\ dest[job[w]] # "none"

(* Mutant: the worker polls a flag of its own. *)
HearsNothing(w) == FALSE

(***************************************************************************)
(* The cancel flag is looked up in the record (unwrap_or_default gives a    *)
(* record that is gone a fresh flag nobody can set), then the destination   *)
(* is checked: exists/stat, ensure_remote_dir, create_dir_all.              *)
(***************************************************************************)
HearsRecord(w) == job[w] \in Listed

Precheck(w) ==
  /\ pc[w] = "precheck"
  /\ heard' = [heard EXCEPT ![w] = HearsRecord(w)]
  /\ \/ Go(w, IF MustAsk(w) THEN "prompt" ELSE "copy") /\ UNCHANGED verdict
     \/ Concludes(w, "notDone")
  /\ UNCHANGED <<recVars, schedVars, job, resume, tries, dest>>

(* The conflict hook returned; a cancel that arrived meanwhile comes first. *)
Answer(w, choice) ==
  /\ pc[w] = "prompt"
  /\ IF ShouldCancel(w) \/ choice = "Cancel"
       THEN Concludes(w, "notDone") /\ UNCHANGED dest
       ELSE IF choice = "Skip"
       THEN Concludes(w, "done") /\ UNCHANGED dest
       ELSE /\ Go(w, "copy")
            /\ dest' = [dest EXCEPT ![job[w]] = IF @ = "foreign" THEN "agreed" ELSE @]
            /\ UNCHANGED verdict
  /\ UNCHANGED <<recVars, schedVars, job, resume, tries, heard>>

(* get/put writes to the destination: appended or truncated first. *)
CopyWrites(w) ==
  /\ pc[w] = "copy"
  /\ dest[job[w]] \notin Written
  /\ dest' = [dest EXCEPT ![job[w]] = IF @ = "foreign" THEN "lost" ELSE "own"]
  /\ UNCHANGED <<recVars, schedVars, pc, job, resume, tries, heard, verdict>>

CopyDone(w) ==
  /\ pc[w] = "copy"
  /\ dest[job[w]] \in Written
  /\ Concludes(w, "done")
  /\ UNCHANGED <<recVars, schedVars, job, resume, tries, heard, dest>>

(* An error, or ShouldCancel(w) seen between two blocks. *)
CopyStops(w) ==
  /\ pc[w] = "copy"
  /\ Concludes(w, "notDone")
  /\ UNCHANGED <<recVars, schedVars, job, resume, tries, heard, dest>>

(* Mutant: the verdict alone decides, whatever the user asked meanwhile. *)
FinalStateByVerdict(t, v) ==
  IF v = "done" THEN "Completed" ELSE IF pauseFlag[t] \/ paused THEN "Paused" ELSE "Failed"

(* The state the finalizer gives a record that is still listed. *)
FinalState(t, v) ==
  CASE v = "done" -> "Completed"
    [] v # "done" /\ cancelFlag[t] -> "Cancelled"
    [] v # "done" /\ ~cancelFlag[t] /\ (pauseFlag[t] \/ paused) -> "Paused"
    [] v # "done" /\ ~cancelFlag[t] /\ ~(pauseFlag[t] \/ paused) ->
         IF state[t] = "Queued" THEN "Queued" ELSE "Failed"

(* Mutant: the record is settled but the client is dropped. *)
FinalizeDropsClient(w) ==
  LET t == job[w] IN
  /\ pc[w] = "finish"
  /\ state' = IF t \in Listed THEN [state EXCEPT ![t] = FinalState(t, verdict[w])] ELSE state
  /\ Go(w, "retire")
  /\ job' = [job EXCEPT ![w] = NoTask]
  /\ resume' = [resume EXCEPT ![w] = FALSE]
  /\ UNCHANGED <<home, cancelFlag, pauseFlag, hint, schedVars, workVars>>

(* run_worker's critical section: return the client, settle the record. *)
Finalize(w) ==
  LET t == job[w] IN
  /\ pc[w] = "finish"
  /\ IF t \in Listed
       THEN /\ state' = [state EXCEPT ![t] = FinalState(t, verdict[w])]
            /\ home' = [home EXCEPT ![t] = TRUE]
       ELSE UNCHANGED <<state, home>>
  /\ Go(w, "retire")
  /\ job' = [job EXCEPT ![w] = NoTask]
  /\ resume' = [resume EXCEPT ![w] = FALSE]
  /\ tries' = [tries EXCEPT ![w] = 0]
  /\ heard' = [heard EXCEPT ![w] = FALSE]
  /\ verdict' = [verdict EXCEPT ![w] = "none"]
  /\ UNCHANGED <<cancelFlag, pauseFlag, hint, schedVars, dest>>

(* Mutants: a finished worker leaves without scheduling; one counts down twice. *)
RetireSilently(w) ==
  /\ pc[w] = "retire"
  /\ running' = running - 1
  /\ Go(w, "free")
  /\ UNCHANGED <<recVars, cursor, maxConc, paused, poisoned, job, resume, workVars>>

RetireTwice(w) ==
  /\ pc[w] = "retire"
  /\ running' = running - 2
  /\ Go(w, "sched")
  /\ UNCHANGED <<recVars, cursor, maxConc, paused, poisoned, job, resume, workVars>>

(* running.fetch_sub, then the worker schedules on its way out. *)
Retire(w) ==
  /\ pc[w] = "retire"
  /\ running' = running - 1
  /\ Go(w, "sched")
  /\ UNCHANGED <<recVars, cursor, maxConc, paused, poisoned, job, resume, workVars>>

-----------------------------------------------------------------------------
Choices == {"Skip", "Overwrite", "Resume", "Cancel"}

(* One task, the tasks of one session, those the dialog's filter selects,   *)
(* or all: any group can be the scope of an operation.                      *)
Scopes == SUBSET Tasks

Operation ==
  \/ \E t \in Tasks : Enqueue(t) \/ PauseTask(t) \/ ResumeTask(t)
  \/ \E S \in Scopes : Cancel(S) \/ Clear(S) \/ Retry(S)
  \/ PauseAllStore \/ ResumeAllStore \/ DropStore
  \/ \E n \in 1 .. MaxLimit : SetMaxConcurrent(n)

(* The rest of an operation that has begun. *)
OperationEnds == PauseAllMark \/ ResumeAllMark \/ DropMark

Schedule(th) ==
  ScheduleReturns(th) \/ SchedulePicks(th) \/ SchedulePanics(th) \/ Spawn(th)

RunOne(w) ==
  \/ UseOwnClient(w) \/ DialRefused(w) \/ Dial(w) \/ Precheck(w)
  \/ \E c \in Choices : Answer(w, c)
  \/ CopyWrites(w) \/ CopyDone(w) \/ CopyStops(w)

RunWorker(w) == RunOne(w) \/ Finalize(w) \/ Retire(w)

Next ==
  /\ ~poisoned
  /\ \/ Operation
     \/ OperationEnds
     \/ \E th \in Threads : Schedule(th)
     \/ \E w \in Workers : RunWorker(w)

Spec == Init /\ [][Next]_vars

(***************************************************************************)
(* Threads make progress: the event loop finishes the callback it is in,    *)
(* tokio polls every ready task, and an attempt ends (dialing, prompting    *)
(* and copying all time out or fail).  Nothing obliges the user to act.     *)
(***************************************************************************)
Fairness ==
  /\ WF_vars(~poisoned /\ OperationEnds)
  /\ \A th \in Threads : WF_vars(~poisoned /\ Schedule(th))
  /\ \A w \in Workers : WF_vars(~poisoned /\ RunWorker(w))

FairSpec == Spec /\ Fairness

-----------------------------------------------------------------------------
(* Types, and the only ways a record and its flags can look. *)
TypeOK ==
  /\ state \in [Tasks -> States]
  /\ home \in [Tasks -> BOOLEAN]
  /\ cancelFlag \in [Tasks -> BOOLEAN]
  /\ pauseFlag \in [Tasks -> BOOLEAN]
  /\ hint \in [Tasks -> BOOLEAN]
  /\ cursor \in Nat
  /\ maxConc \in 1 .. MaxLimit
  /\ paused \in BOOLEAN
  /\ running \in Nat
  /\ poisoned \in BOOLEAN
  /\ pc \in [Threads -> PCs]
  /\ job \in [Threads -> Tasks \cup {NoTask}]
  /\ resume \in [Threads -> BOOLEAN]
  /\ tries \in [Workers -> Nat]
  /\ heard \in [Workers -> BOOLEAN]
  /\ verdict \in [Workers -> {"none", "done", "notDone"}]
  /\ dest \in [Tasks -> DestStates]

(***************************************************************************)
(* The client of a task is in its record or with exactly one thread, never  *)
(* in two places: no two attempts at one task ever run side by side,        *)
(* whatever the user cancels, retries, resumes or clears while a worker is  *)
(* still unwinding.                                                         *)
(***************************************************************************)
ClientCustody ==
  \A t \in Tasks :
    /\ \A a, b \in Threads : a \in Holders(t) /\ b \in Holders(t) => a = b
    /\ t \in Listed => (home[t] <=> Holders(t) = {})
    /\ home[t] => t \in Listed

(***************************************************************************)
(* `running` is the number of workers between spawn and fetch_sub, although *)
(* it is updated outside the lock: it never leaks a slot and never wraps    *)
(* below zero.                                                              *)
(***************************************************************************)
Counted == Attempt \cup {"retire"}
BusyWorkers == {w \in Workers : pc[w] \in Counted}
RunningCount == running = Cardinality(BusyWorkers)

(***************************************************************************)
(* Once pause_all has returned nothing is shown as Active and no scheduler, *)
(* on whatever thread it was, launches anything.                            *)
(***************************************************************************)
PausedQueueIsQuiet ==
  paused /\ pc[UI] \notin {"pauseMark", "dropMark"} => InState({"Active"}) = {}

(***************************************************************************)
(* No wakeup is lost: while a runnable task and a free slot coexist, some   *)
(* thread has still to go through the scheduler.  Launch conditions are     *)
(* read and written outside the lock, so a schedule() that returned on old  *)
(* values must always be followed by another.                               *)
(***************************************************************************)
WillSchedule == {"sched", "spawn", "retire", "resumeMark"}
NoLostWakeup ==
  MayLaunch /\ QueuedTasks # {} => \E th \in Threads : pc[th] \in WillSchedule

(***************************************************************************)
(* While the queue runs, a task is Paused only because the user paused it   *)
(* and not resumed it: no task is left behind by resume_all, even when a    *)
(* finalizer marks it Paused while the queue is being resumed.              *)
(***************************************************************************)
PausedByUser ==
  ~paused /\ pc[UI] # "resumeMark" =>
    \A t \in Tasks : state[t] = "Paused" => pauseFlag[t]

(***************************************************************************)
(* A worker that copies for a task still listed as Cancelled sees that when *)
(* it next polls, whenever the cancel arrived.                              *)
(***************************************************************************)
ListedCancelIsSeen ==
  \A w \in Workers :
    pc[w] \in {"prompt", "copy"} /\ state[job[w]] = "Cancelled" => ShouldCancel(w)

(***************************************************************************)
(* Only a task that was resumed or retried can write over a file that was   *)
(* there before without having asked.                                       *)
(***************************************************************************)
FirstAttemptAsks == \A t \in Listed : dest[t] = "lost" => hint[t]

(***************************************************************************)
(* Dropping the manager ends the queue for good: an attempt still unwinding *)
(* settles its record as Cancelled or Completed, and never puts it back in  *)
(* a state from which the dialog, gone by then, would have to restart it.   *)
(***************************************************************************)
DropEndsQueue == pc[UI] = "gone" => InState(Live) = {}

(***************************************************************************)
(* A user who resumes and retries only what has no worker left never meets  *)
(* the panic in schedule: every Queued record owns its client.              *)
(***************************************************************************)
PatienceIsSafe == AwaitUnwind => ~poisoned

(* The queue implements the life of its tasks. *)
Lifecycle == INSTANCE TransferLifecycle
  WITH phase <- state, inFlight <- InFlight, held <- paused, halted <- poisoned
ImplementsLifecycle == Lifecycle!Spec

(***************************************************************************)
(* A queued task is served however often the others fail and are retried: *)
(* the rotating cursor does not let the head of the list starve it. *)
(***************************************************************************)
QueuedIsServed == \A t \in Tasks : state[t] = "Queued" ~> (state[t] # "Queued" \/ paused)

(***************************************************************************)
(* When the user leaves the queue alone, it empties unless it is paused:    *)
(* each worker starts the next task on its way out.                         *)
(***************************************************************************)
QueueSettles ==
  <>[](pc[UI] = "idle") => []<>(paused \/ InState({"Queued", "Active"}) = {})

-----------------------------------------------------------------------------
(* What the documentation says and the code does not keep. *)

(***************************************************************************)
(* "queued task always owns its client" (expect in schedule), and the doc   *)
(* of resume_task: a task resumed while its worker unwinds is left alone.   *)
(***************************************************************************)
QueuedOwnsClient == ~poisoned

(* "launches up to MAX_CONCURRENT worker tasks" (module documentation). *)
RunningWithinLimit == running <= maxConc

(* "Active workers observe the cancel flag" (documentation of cancel).      *)
CancelReachesWorker ==
  \A w \in Workers : pc[w] = "copy" /\ state[job[w]] \in {"Cancelled", "Gone"} => ShouldCancel(w)

(* "the remote partial (if any) is this task's own output" (run_one).       *)
ResumesOwnOutput == \A t \in Tasks : dest[t] # "lost"

(* "pausing is the same mechanism plus a pause_flag" (module documentation). *)
PauseReachesWorker ==
  \A w \in Workers : pc[w] = "copy" /\ state[job[w]] = "Paused" => ShouldCancel(w)
=============================================================================
