------------------------ MODULE TransferQueueProofs ------------------------
(***************************************************************************)
(* Proofs about TransferQueue, for any number of tasks and worker slots,    *)
(* any limit, and whatever the user does.                                   *)
(*                                                                          *)
(* CoreInv (types, which places each kind of thread can be in, and the      *)
(* exactness of `running`) is inductive by itself.  Everything else is      *)
(* proved relative to it:                                                   *)
(*                                                                          *)
(*   Custody      no task's client is in two places                         *)
(*   CancelInv    a worker polls the flag that a Cancelled record has set   *)
(*   AskInv       the resume hint travels with the attempt it belongs to    *)
(*   DropInv, PatienceInv, FlagInv                                          *)
(*                                                                          *)
(* and the refinement of TransferLifecycle follows from CoreInv, Custody,   *)
(* CancelInv and FlagInv.  Each step lemma has one step per action of Next. *)
(***************************************************************************)
EXTENDS TransferQueue, FiniteSetTheorems, TLAPS

-----------------------------------------------------------------------------
(* Types, places and the running counter. *)

(* Where the event-loop thread and the workers can be. *)
UIPlaces == {"idle", "pauseMark", "resumeMark", "dropMark", "gone", "sched", "spawn"}
WorkerPlaces == Attempt \cup {"free", "retire", "sched", "spawn"}

(* Each thread is where its kind can be, and whoever holds a client knows   *)
(* whose it is.                                                             *)
RolesOK ==
  /\ pc[UI] \in UIPlaces
  /\ \A w \in Workers : pc[w] \in WorkerPlaces
  /\ \A th \in Threads : Holding(th) => job[th] \in Tasks

(* Places and holders stay well formed. *)
LEMMA RolesStep ==
  ASSUME TypeOK, RolesOK, [Next]_vars
  PROVE  RolesOK'
<1> USE QueueAssumption
    DEF TypeOK, RolesOK, UIPlaces, WorkerPlaces, Attempt, Holding, Threads, Go,
        recVars, schedVars, workVars
<1>1. ASSUME NEW t \in Tasks, Enqueue(t) PROVE RolesOK'
  BY <1>1 DEF Enqueue
<1>2. ASSUME NEW t \in Tasks, PauseTask(t) PROVE RolesOK'
  BY <1>2 DEF PauseTask, MarkPaused, Op
<1>3. ASSUME NEW t \in Tasks, ResumeTask(t) PROVE RolesOK'
  BY <1>3 DEF ResumeTask, Requeue, Op
<1>4. ASSUME NEW S \in SUBSET Tasks, Cancel(S) PROVE RolesOK'
  BY <1>4 DEF Cancel, Op
<1>5. ASSUME NEW S \in SUBSET Tasks, Clear(S) PROVE RolesOK'
  BY <1>5 DEF Clear, Op
<1>6. ASSUME NEW S \in SUBSET Tasks, Retry(S) PROVE RolesOK'
  BY <1>6 DEF Retry, Requeue, Op
<1>7. CASE PauseAllStore
  BY <1>7 DEF PauseAllStore, Op
<1>8. CASE ResumeAllStore
  BY <1>8 DEF ResumeAllStore, Op
<1>9. CASE DropStore
  BY <1>9 DEF DropStore, Op
<1>10. ASSUME NEW n \in 1 .. MaxLimit, SetMaxConcurrent(n) PROVE RolesOK'
  BY <1>10 DEF SetMaxConcurrent, Op
<1>11. CASE PauseAllMark
  BY <1>11 DEF PauseAllMark, MarkPaused
<1>12. CASE ResumeAllMark
  BY <1>12 DEF ResumeAllMark, Requeue
<1>13. CASE DropMark
  BY <1>13 DEF DropMark
<1>14. ASSUME NEW th \in Threads, ScheduleReturns(th) PROVE RolesOK'
  BY <1>14 DEF ScheduleReturns, Resting
<1>15. ASSUME NEW th \in Threads, SchedulePicks(th) PROVE RolesOK'
  BY <1>15 DEF SchedulePicks, TakeClient, NextQueued, QueuedTasks, InState
<1>16. ASSUME NEW th \in Threads, SchedulePanics(th) PROVE RolesOK'
  BY <1>16 DEF SchedulePanics, NextQueued, QueuedTasks, InState
<1>17. ASSUME NEW th \in Threads, Spawn(th) PROVE RolesOK'
  BY <1>17 DEF Spawn
<1>18. ASSUME NEW w \in Workers, UseOwnClient(w) PROVE RolesOK'
  BY <1>18 DEF UseOwnClient
<1>19. ASSUME NEW w \in Workers, DialRefused(w) PROVE RolesOK'
  BY <1>19 DEF DialRefused, Concludes
<1>20. ASSUME NEW w \in Workers, Dial(w) PROVE RolesOK'
  BY <1>20 DEF Dial, Concludes
<1>21. ASSUME NEW w \in Workers, Precheck(w) PROVE RolesOK'
  BY <1>21 DEF Precheck, Concludes
<1>22. ASSUME NEW w \in Workers, NEW c \in Choices, Answer(w, c) PROVE RolesOK'
  BY <1>22 DEF Answer, Concludes
<1>23. ASSUME NEW w \in Workers, CopyWrites(w) PROVE RolesOK'
  BY <1>23 DEF CopyWrites
<1>24. ASSUME NEW w \in Workers, CopyDone(w) PROVE RolesOK'
  BY <1>24 DEF CopyDone, Concludes
<1>25. ASSUME NEW w \in Workers, CopyStops(w) PROVE RolesOK'
  BY <1>25 DEF CopyStops, Concludes
<1>26. ASSUME NEW w \in Workers, Finalize(w) PROVE RolesOK'
  BY <1>26 DEF Finalize
<1>27. ASSUME NEW w \in Workers, Retire(w) PROVE RolesOK'
  BY <1>27 DEF Retire
<1>28. CASE UNCHANGED vars
  BY <1>28 DEF vars, recVars, schedVars, workVars
<1> QED
  BY <1>1, <1>2, <1>3, <1>4, <1>5, <1>6, <1>7, <1>8, <1>9, <1>10, <1>11, <1>12,
     <1>13, <1>14, <1>15, <1>16, <1>17, <1>18, <1>19, <1>20, <1>21, <1>22, <1>23,
     <1>24, <1>25, <1>26, <1>27, <1>28
     DEF Next, Operation, OperationEnds, Schedule, RunOne, RunWorker, Scopes

(* Only Spawn and Retire change the set of busy workers, each by one.       *)
LEMMA CountStep ==
  ASSUME TypeOK, RolesOK, RunningCount, [Next]_vars
  PROVE  RunningCount'
<1>f. IsFiniteSet(BusyWorkers)
  BY FS_Subset, QueueAssumption DEF BusyWorkers
<1>r. running \in Int
  BY DEF TypeOK
<1> DEFINE Same == running' = running /\ BusyWorkers' = BusyWorkers
<1>s. ASSUME Same PROVE RunningCount'
  BY <1>s DEF RunningCount
<1>u. ASSUME NEW w \in Workers \ BusyWorkers,
             BusyWorkers' = BusyWorkers \cup {w}, running' = running + 1
      PROVE  RunningCount'
  BY <1>f, <1>r, <1>u, FS_AddElement DEF RunningCount
<1>d. ASSUME NEW w \in BusyWorkers,
             BusyWorkers' = BusyWorkers \ {w}, running' = running - 1
      PROVE  RunningCount'
  BY <1>f, <1>r, <1>d, FS_RemoveElement DEF RunningCount
<1> USE QueueAssumption
    DEF TypeOK, RolesOK, UIPlaces, WorkerPlaces, Attempt, Counted, BusyWorkers, Holding, Threads, Go,
        recVars, schedVars, workVars
<1>1. ASSUME NEW t \in Tasks, Enqueue(t) PROVE Same
  BY <1>1 DEF Enqueue
<1>2. ASSUME NEW t \in Tasks, PauseTask(t) PROVE Same
  BY <1>2 DEF PauseTask, MarkPaused, Op
<1>3. ASSUME NEW t \in Tasks, ResumeTask(t) PROVE Same
  BY <1>3 DEF ResumeTask, Requeue, Op
<1>4. ASSUME NEW S \in SUBSET Tasks, Cancel(S) PROVE Same
  BY <1>4 DEF Cancel, Op
<1>5. ASSUME NEW S \in SUBSET Tasks, Clear(S) PROVE Same
  BY <1>5 DEF Clear, Op
<1>6. ASSUME NEW S \in SUBSET Tasks, Retry(S) PROVE Same
  BY <1>6 DEF Retry, Requeue, Op
<1>7. ASSUME PauseAllStore PROVE Same
  BY <1>7 DEF PauseAllStore, Op
<1>8. ASSUME ResumeAllStore PROVE Same
  BY <1>8 DEF ResumeAllStore, Op
<1>9. ASSUME DropStore PROVE Same
  BY <1>9 DEF DropStore, Op
<1>10. ASSUME NEW n \in 1 .. MaxLimit, SetMaxConcurrent(n) PROVE Same
  BY <1>10 DEF SetMaxConcurrent, Op
<1>11. ASSUME PauseAllMark PROVE Same
  BY <1>11 DEF PauseAllMark, MarkPaused
<1>12. ASSUME ResumeAllMark PROVE Same
  BY <1>12 DEF ResumeAllMark, Requeue
<1>13. ASSUME DropMark PROVE Same
  BY <1>13 DEF DropMark
<1>14. ASSUME NEW th \in Threads, ScheduleReturns(th) PROVE Same
  BY <1>14 DEF ScheduleReturns, Resting
<1>15. ASSUME NEW th \in Threads, SchedulePicks(th) PROVE Same
  BY <1>15 DEF SchedulePicks, TakeClient, NextQueued, QueuedTasks, InState
<1>16. ASSUME NEW th \in Threads, SchedulePanics(th) PROVE Same
  BY <1>16 DEF SchedulePanics, NextQueued, QueuedTasks, InState
<1>17. ASSUME NEW th \in Threads, Spawn(th) PROVE RunningCount'
  <2>1. PICK w \in Workers :
          /\ pc[w] = "free"
          /\ pc' = [pc EXCEPT ![w] = "connect", ![th] = "sched"]
    BY <1>17 DEF Spawn
  <2>2. w \notin BusyWorkers /\ BusyWorkers' = BusyWorkers \cup {w}
    BY <1>17, <2>1 DEF Spawn
  <2>3. running' = running + 1
    BY <1>17 DEF Spawn
  <2> QED
    BY <1>u, <2>2, <2>3
<1>18. ASSUME NEW w \in Workers, UseOwnClient(w) PROVE Same
  BY <1>18 DEF UseOwnClient
<1>19. ASSUME NEW w \in Workers, DialRefused(w) PROVE Same
  BY <1>19 DEF DialRefused, Concludes
<1>20. ASSUME NEW w \in Workers, Dial(w) PROVE Same
  BY <1>20 DEF Dial, Concludes
<1>21. ASSUME NEW w \in Workers, Precheck(w) PROVE Same
  BY <1>21 DEF Precheck, Concludes
<1>22. ASSUME NEW w \in Workers, NEW c \in Choices, Answer(w, c) PROVE Same
  BY <1>22 DEF Answer, Concludes
<1>23. ASSUME NEW w \in Workers, CopyWrites(w) PROVE Same
  BY <1>23 DEF CopyWrites
<1>24. ASSUME NEW w \in Workers, CopyDone(w) PROVE Same
  BY <1>24 DEF CopyDone, Concludes
<1>25. ASSUME NEW w \in Workers, CopyStops(w) PROVE Same
  BY <1>25 DEF CopyStops, Concludes
<1>26. ASSUME NEW w \in Workers, Finalize(w) PROVE Same
  BY <1>26 DEF Finalize
<1>27. ASSUME NEW w \in Workers, Retire(w) PROVE RunningCount'
  <2>1. w \in BusyWorkers /\ BusyWorkers' = BusyWorkers \ {w}
    BY <1>27 DEF Retire
  <2>2. running' = running - 1
    BY <1>27 DEF Retire
  <2> QED
    BY <1>d, <2>1, <2>2
<1>28. ASSUME UNCHANGED vars PROVE Same
  BY <1>28 DEF vars, recVars, schedVars, workVars
<1> QED
  BY <1>s, <1>1, <1>2, <1>3, <1>4, <1>5, <1>6, <1>7, <1>8, <1>9, <1>10, <1>11, <1>12,
     <1>13, <1>14, <1>15, <1>16, <1>17, <1>18, <1>19, <1>20, <1>21, <1>22, <1>23,
     <1>24, <1>25, <1>26, <1>27, <1>28
     DEF Next, Operation, OperationEnds, Schedule, RunOne, RunWorker, Scopes

(* The record list is finite, so positions and cursors are numbers.         *)
LEMMA ListFinite ==
  /\ IsFiniteSet(Listed)
  /\ Cardinality(Listed) \in Nat
<1>1. IsFiniteSet(Tasks)
  BY FS_Interval, QueueAssumption DEF Tasks
<1>2. IsFiniteSet(Listed)
  BY <1>1, FS_Subset DEF Listed, InState
<1> QED
  BY <1>2, FS_CardinalityType

(* The modulus in next_queued_index is never zero when it is used.          *)
LEMMA CursorMoves ==
  ASSUME NEW t \in NextQueued
  PROVE  (Position(t) + 1) % Cardinality(Listed) \in Nat
<1>1. t \in Listed
  BY DEF NextQueued, QueuedTasks, Listed, InState, Live
<1>2. Cardinality(Listed) \in Nat \ {0}
  BY <1>1, ListFinite, FS_EmptySet
<1>3. Position(t) \in Nat
  <2>1. IsFiniteSet({u \in Listed : u < t})
    BY ListFinite, FS_Subset
  <2> QED
    BY <2>1, FS_CardinalityType DEF Position
<1> HIDE DEF Position
<1> QED
  BY <1>2, <1>3

(* The finalizer settles a record in one of five states.                    *)
LEMMA FinalStateType ==
  ASSUME TypeOK, NEW t \in Tasks, NEW v
  PROVE  FinalState(t, v) \in {"Completed", "Cancelled", "Paused", "Queued", "Failed"}
BY DEF TypeOK, FinalState

(* Every step keeps the types; `running` stays a natural number because it  *)
(* counts a set.                                                            *)
LEMMA TypeStep ==
  ASSUME TypeOK, RolesOK, RunningCount', [Next]_vars
  PROVE  TypeOK'
<1>r. running' \in Nat
  <2>1. IsFiniteSet(BusyWorkers')
    BY FS_Subset, QueueAssumption DEF BusyWorkers
  <2> QED
    BY <2>1, FS_CardinalityType DEF RunningCount
<1> USE QueueAssumption, <1>r
    DEF TypeOK, RolesOK, UIPlaces, WorkerPlaces, PCs, Attempt, States, Live, Terminal, NoTask,
        Threads, Holding, Go, recVars, schedVars, workVars
<1>1. ASSUME NEW t \in Tasks, Enqueue(t) PROVE TypeOK'
  BY <1>1 DEF Enqueue
<1>2. ASSUME NEW t \in Tasks, PauseTask(t) PROVE TypeOK'
  BY <1>2 DEF PauseTask, MarkPaused, Op
<1>3. ASSUME NEW t \in Tasks, ResumeTask(t) PROVE TypeOK'
  BY <1>3 DEF ResumeTask, Requeue, Op
<1>4. ASSUME NEW S \in SUBSET Tasks, Cancel(S) PROVE TypeOK'
  BY <1>4 DEF Cancel, Op
<1>5. ASSUME NEW S \in SUBSET Tasks, Clear(S) PROVE TypeOK'
  BY <1>5 DEF Clear, Op
<1>6. ASSUME NEW S \in SUBSET Tasks, Retry(S) PROVE TypeOK'
  BY <1>6 DEF Retry, Requeue, Op
<1>7. CASE PauseAllStore
  BY <1>7 DEF PauseAllStore, Op
<1>8. CASE ResumeAllStore
  BY <1>8 DEF ResumeAllStore, Op
<1>9. CASE DropStore
  BY <1>9 DEF DropStore, Op
<1>10. ASSUME NEW n \in 1 .. MaxLimit, SetMaxConcurrent(n) PROVE TypeOK'
  BY <1>10 DEF SetMaxConcurrent, Op
<1>11. CASE PauseAllMark
  BY <1>11 DEF PauseAllMark, MarkPaused
<1>12. CASE ResumeAllMark
  BY <1>12 DEF ResumeAllMark, Requeue
<1>13. CASE DropMark
  BY <1>13 DEF DropMark
<1>14. ASSUME NEW th \in Threads, ScheduleReturns(th) PROVE TypeOK'
  BY <1>14, ListFinite DEF ScheduleReturns, Resting, Start
<1>15. ASSUME NEW th \in Threads, SchedulePicks(th) PROVE TypeOK'
  BY <1>15, CursorMoves DEF SchedulePicks, TakeClient, NextQueued, QueuedTasks, InState
<1>16. ASSUME NEW th \in Threads, SchedulePanics(th) PROVE TypeOK'
  BY <1>16, CursorMoves DEF SchedulePanics, NextQueued, QueuedTasks, InState
<1>17. ASSUME NEW th \in Threads, Spawn(th) PROVE TypeOK'
  BY <1>17 DEF Spawn
<1>18. ASSUME NEW w \in Workers, UseOwnClient(w) PROVE TypeOK'
  BY <1>18 DEF UseOwnClient
<1>19. ASSUME NEW w \in Workers, DialRefused(w) PROVE TypeOK'
  BY <1>19 DEF DialRefused, Concludes
<1>20. ASSUME NEW w \in Workers, Dial(w) PROVE TypeOK'
  BY <1>20 DEF Dial, Concludes
<1>21. ASSUME NEW w \in Workers, Precheck(w) PROVE TypeOK'
  BY <1>21 DEF Precheck, Concludes, HearsRecord
<1>22. ASSUME NEW w \in Workers, NEW c \in Choices, Answer(w, c) PROVE TypeOK'
  BY <1>22 DEF Answer, Concludes, DestStates
<1>23. ASSUME NEW w \in Workers, CopyWrites(w) PROVE TypeOK'
  BY <1>23 DEF CopyWrites, DestStates, Written
<1>24. ASSUME NEW w \in Workers, CopyDone(w) PROVE TypeOK'
  BY <1>24 DEF CopyDone, Concludes
<1>25. ASSUME NEW w \in Workers, CopyStops(w) PROVE TypeOK'
  BY <1>25 DEF CopyStops, Concludes
<1>26. ASSUME NEW w \in Workers, Finalize(w) PROVE TypeOK'
  <2>1. job[w] \in Tasks
    BY <1>26 DEF Finalize
  <2>2. FinalState(job[w], verdict[w]) \in States
    BY <2>1, FinalStateType
  <2>3. state' \in [Tasks -> States] /\ home' \in [Tasks -> BOOLEAN]
    BY <1>26, <2>1, <2>2 DEF Finalize
  <2> QED
    BY <1>26, <2>3 DEF Finalize
<1>27. ASSUME NEW w \in Workers, Retire(w) PROVE TypeOK'
  BY <1>27 DEF Retire
<1>28. CASE UNCHANGED vars
  BY <1>28 DEF vars, recVars, schedVars, workVars
<1> QED
  BY <1>1, <1>2, <1>3, <1>4, <1>5, <1>6, <1>7, <1>8, <1>9, <1>10, <1>11, <1>12,
     <1>13, <1>14, <1>15, <1>16, <1>17, <1>18, <1>19, <1>20, <1>21, <1>22, <1>23,
     <1>24, <1>25, <1>26, <1>27, <1>28
     DEF Next, Operation, OperationEnds, Schedule, RunOne, RunWorker, Scopes

(* The part every other proof relies on. *)
CoreInv == TypeOK /\ RolesOK /\ RunningCount

(* In every reachable state the types hold, no thread is out of place and   *)
(* the counter updated outside the lock is exact.                           *)
THEOREM CoreInvariant == Spec => []CoreInv
<1>1. Init => CoreInv
  <2> SUFFICES ASSUME Init PROVE CoreInv
    OBVIOUS
  <2>1. TypeOK
    <3>1. pc \in [Threads -> PCs]
      BY DEF Init, PCs, Resting, Threads
    <3>2. maxConc \in 1 .. MaxLimit
      BY QueueAssumption DEF Init
    <3> QED
      BY <3>1, <3>2 DEF Init, TypeOK, States, DestStates, NoTask
  <2>2. RolesOK
    BY QueueAssumption
    DEF Init, RolesOK, UIPlaces, WorkerPlaces, Attempt, Holding, Resting, Threads
  <2>3. BusyWorkers = {}
    BY QueueAssumption DEF Init, BusyWorkers, Counted, Attempt, Resting, Threads
  <2>4. RunningCount
    BY <2>3, FS_EmptySet DEF Init, RunningCount
  <2> QED
    BY <2>1, <2>2, <2>4 DEF CoreInv
<1>2. CoreInv /\ [Next]_vars => CoreInv'
  BY RolesStep, CountStep, TypeStep DEF CoreInv
<1> QED
  BY <1>1, <1>2, PTL DEF Spec

(* Every variable has its type in every reachable state of the manager.     *)
THEOREM TypeCorrect == Spec => []TypeOK
BY CoreInvariant, PTL DEF CoreInv

(* `running`, changed by fetch_add and fetch_sub outside the lock, is always *)
(* the number of workers between the two: no slot leaks, it never wraps.    *)
THEOREM RunningIsExact == Spec => []RunningCount
BY CoreInvariant, PTL DEF CoreInv

(* What a step of run_one leaves alone: it touches no record's state or     *)
(* flags, and only its own place.                                           *)
LEMMA AttemptFrame ==
  ASSUME CoreInv, NEW w \in Workers, RunOne(w)
  PROVE  /\ UNCHANGED <<state, home, cancelFlag, pauseFlag, hint>>
         /\ UNCHANGED <<cursor, maxConc, paused, running, poisoned, job, resume>>
         /\ pc' = [pc EXCEPT ![w] = pc'[w]]
         /\ pc[w] \in Attempt \ {"finish"}
         /\ pc'[w] \in Attempt
<1> USE QueueAssumption DEF CoreInv, TypeOK, RolesOK, Go, Threads, Attempt, recVars, schedVars, workVars
<1>1. CASE UseOwnClient(w)
  BY <1>1 DEF UseOwnClient
<1>2. CASE DialRefused(w)
  BY <1>2 DEF DialRefused, Concludes
<1>3. CASE Dial(w)
  BY <1>3 DEF Dial, Concludes
<1>4. CASE Precheck(w)
  BY <1>4 DEF Precheck, Concludes
<1>5. ASSUME NEW c \in Choices, Answer(w, c)
      PROVE  /\ UNCHANGED <<recVars, schedVars, job, resume>>
             /\ pc' = [pc EXCEPT ![w] = pc'[w]]
             /\ pc[w] = "prompt" /\ pc'[w] \in {"finish", "copy"}
  BY <1>5 DEF Answer, Concludes
<1>6. CASE CopyWrites(w)
  BY <1>6 DEF CopyWrites
<1>7. CASE CopyDone(w)
  BY <1>7 DEF CopyDone, Concludes
<1>8. CASE CopyStops(w)
  BY <1>8 DEF CopyStops, Concludes
<1> QED
  BY <1>1, <1>2, <1>3, <1>4, <1>5, <1>6, <1>7, <1>8 DEF RunOne

-----------------------------------------------------------------------------
(* Every step keeps a paused queue quiet.                                   *)
LEMMA QuietStep ==
  ASSUME CoreInv, PausedQueueIsQuiet, [Next]_vars
  PROVE  PausedQueueIsQuiet'
<1> USE QueueAssumption
    DEF CoreInv, TypeOK, RolesOK, PausedQueueIsQuiet, InState, UIPlaces, WorkerPlaces, Attempt,
        Threads, Go, MayLaunch, recVars, schedVars, workVars
<1>1. ASSUME NEW t \in Tasks, Enqueue(t) PROVE PausedQueueIsQuiet'
  BY <1>1 DEF Enqueue
<1>2. ASSUME NEW t \in Tasks, PauseTask(t) PROVE PausedQueueIsQuiet'
  BY <1>2 DEF PauseTask, MarkPaused, Op
<1>3. ASSUME NEW t \in Tasks, ResumeTask(t) PROVE PausedQueueIsQuiet'
  BY <1>3 DEF ResumeTask, Requeue, Op
<1>4. ASSUME NEW S \in SUBSET Tasks, Cancel(S) PROVE PausedQueueIsQuiet'
  BY <1>4 DEF Cancel, Op
<1>5. ASSUME NEW S \in SUBSET Tasks, Clear(S) PROVE PausedQueueIsQuiet'
  BY <1>5 DEF Clear, Op
<1>6. ASSUME NEW S \in SUBSET Tasks, Retry(S) PROVE PausedQueueIsQuiet'
  BY <1>6 DEF Retry, Requeue, Op
<1>7. CASE PauseAllStore
  BY <1>7 DEF PauseAllStore, Op
<1>8. CASE ResumeAllStore
  BY <1>8 DEF ResumeAllStore, Op
<1>9. CASE DropStore
  BY <1>9 DEF DropStore, Op
<1>10. ASSUME NEW n \in 1 .. MaxLimit, SetMaxConcurrent(n) PROVE PausedQueueIsQuiet'
  BY <1>10 DEF SetMaxConcurrent, Op
<1>11. CASE PauseAllMark
  BY <1>11 DEF PauseAllMark, MarkPaused
<1>12. CASE ResumeAllMark
  BY <1>12 DEF ResumeAllMark, Requeue
<1>13. CASE DropMark
  BY <1>13 DEF DropMark, Live
<1>14. ASSUME NEW th \in Threads, ScheduleReturns(th) PROVE PausedQueueIsQuiet'
  BY <1>14 DEF ScheduleReturns, Resting
<1>15. ASSUME NEW th \in Threads, SchedulePicks(th) PROVE PausedQueueIsQuiet'
  BY <1>15 DEF SchedulePicks, TakeClient
<1>16. ASSUME NEW th \in Threads, SchedulePanics(th) PROVE PausedQueueIsQuiet'
  BY <1>16 DEF SchedulePanics
<1>17. ASSUME NEW th \in Threads, Spawn(th) PROVE PausedQueueIsQuiet'
  BY <1>17 DEF Spawn
<1>18. ASSUME NEW w \in Workers, RunOne(w) PROVE PausedQueueIsQuiet'
  BY <1>18, AttemptFrame
<1>19. ASSUME NEW w \in Workers, Finalize(w) PROVE PausedQueueIsQuiet'
  BY <1>19, FinalStateType DEF Finalize
<1>20. ASSUME NEW w \in Workers, Retire(w) PROVE PausedQueueIsQuiet'
  BY <1>20 DEF Retire
<1>21. CASE UNCHANGED vars
  BY <1>21 DEF vars, recVars, schedVars, workVars
<1> QED
  BY <1>1, <1>2, <1>3, <1>4, <1>5, <1>6, <1>7, <1>8, <1>9, <1>10, <1>11, <1>12,
     <1>13, <1>14, <1>15, <1>16, <1>17, <1>18, <1>19, <1>20, <1>21
     DEF Next, Operation, OperationEnds, Schedule, RunWorker, Scopes

(* After pause_all has marked the records, no task is Active and none is    *)
(* launched until the queue is resumed, whichever threads were scheduling.  *)
THEOREM QuietWhenPaused == Spec => []PausedQueueIsQuiet
<1>1. Init => PausedQueueIsQuiet
  BY DEF Init, PausedQueueIsQuiet, InState
<1>2. CoreInv /\ PausedQueueIsQuiet /\ [Next]_vars => PausedQueueIsQuiet'
  BY QuietStep
<1> QED
  BY <1>1, <1>2, CoreInvariant, PTL DEF Spec

(* Every step that frees a slot or queues a task leaves a scheduler to run. *)
LEMMA WakeupStep ==
  ASSUME CoreInv, NoLostWakeup, [Next]_vars
  PROVE  NoLostWakeup'
<1> USE QueueAssumption
    DEF CoreInv, TypeOK, RolesOK, NoLostWakeup, WillSchedule, MayLaunch, QueuedTasks, InState,
        UIPlaces, WorkerPlaces, Attempt, Threads, Go, recVars, schedVars, workVars
<1>1. ASSUME NEW t \in Tasks, Enqueue(t) PROVE NoLostWakeup'
  BY <1>1 DEF Enqueue
<1>2. ASSUME NEW t \in Tasks, PauseTask(t) PROVE NoLostWakeup'
  BY <1>2 DEF PauseTask, MarkPaused, Op
<1>3. ASSUME NEW t \in Tasks, ResumeTask(t) PROVE NoLostWakeup'
  BY <1>3 DEF ResumeTask, Requeue, Op
<1>4. ASSUME NEW S \in SUBSET Tasks, Cancel(S) PROVE NoLostWakeup'
  BY <1>4 DEF Cancel, Op
<1>5. ASSUME NEW S \in SUBSET Tasks, Clear(S) PROVE NoLostWakeup'
  BY <1>5 DEF Clear, Op
<1>6. ASSUME NEW S \in SUBSET Tasks, Retry(S) PROVE NoLostWakeup'
  BY <1>6 DEF Retry, Requeue, Op
<1>7. CASE PauseAllStore
  BY <1>7 DEF PauseAllStore, Op
<1>8. CASE ResumeAllStore
  BY <1>8 DEF ResumeAllStore, Op
<1>9. CASE DropStore
  BY <1>9 DEF DropStore, Op
<1>10. ASSUME NEW n \in 1 .. MaxLimit, SetMaxConcurrent(n) PROVE NoLostWakeup'
  BY <1>10 DEF SetMaxConcurrent, Op
<1>11. CASE PauseAllMark
  BY <1>11 DEF PauseAllMark, MarkPaused
<1>12. CASE ResumeAllMark
  BY <1>12 DEF ResumeAllMark, Requeue
<1>13. CASE DropMark
  BY <1>13 DEF DropMark
<1>14. ASSUME NEW th \in Threads, ScheduleReturns(th) PROVE NoLostWakeup'
  BY <1>14 DEF ScheduleReturns, Resting
<1>15. ASSUME NEW th \in Threads, SchedulePicks(th) PROVE NoLostWakeup'
  BY <1>15 DEF SchedulePicks, TakeClient
<1>16. ASSUME NEW th \in Threads, SchedulePanics(th) PROVE NoLostWakeup'
  BY <1>16 DEF SchedulePanics
<1>17. ASSUME NEW th \in Threads, Spawn(th) PROVE NoLostWakeup'
  BY <1>17 DEF Spawn
<1>18. ASSUME NEW w \in Workers, RunOne(w) PROVE NoLostWakeup'
  BY <1>18, AttemptFrame
<1>19. ASSUME NEW w \in Workers, Finalize(w) PROVE NoLostWakeup'
  BY <1>19, FinalStateType DEF Finalize
<1>20. ASSUME NEW w \in Workers, Retire(w) PROVE NoLostWakeup'
  BY <1>20 DEF Retire
<1>21. CASE UNCHANGED vars
  BY <1>21 DEF vars, recVars, schedVars, workVars
<1> QED
  BY <1>1, <1>2, <1>3, <1>4, <1>5, <1>6, <1>7, <1>8, <1>9, <1>10, <1>11, <1>12,
     <1>13, <1>14, <1>15, <1>16, <1>17, <1>18, <1>19, <1>20, <1>21
     DEF Next, Operation, OperationEnds, Schedule, RunWorker, Scopes

(* While a task could run, some thread is still bound to go through         *)
(* schedule(): no interleaving of the unlocked counters strands a task.     *)
THEOREM NoWakeupIsLost == Spec => []NoLostWakeup
<1>1. Init => NoLostWakeup
  BY DEF Init, NoLostWakeup, QueuedTasks, InState
<1>2. CoreInv /\ NoLostWakeup /\ [Next]_vars => NoLostWakeup'
  BY WakeupStep
<1> QED
  BY <1>1, <1>2, CoreInvariant, PTL DEF Spec

(* Every step keeps the tie between Paused and the pause flag.              *)
LEMMA PausedStep ==
  ASSUME CoreInv, PausedByUser, [Next]_vars
  PROVE  PausedByUser'
<1> USE QueueAssumption
    DEF CoreInv, TypeOK, RolesOK, PausedByUser, InState, UIPlaces, WorkerPlaces, Attempt,
        Threads, Go, recVars, schedVars, workVars
<1>1. ASSUME NEW t \in Tasks, Enqueue(t) PROVE PausedByUser'
  BY <1>1 DEF Enqueue
<1>2. ASSUME NEW t \in Tasks, PauseTask(t) PROVE PausedByUser'
  BY <1>2 DEF PauseTask, MarkPaused, Op
<1>3. ASSUME NEW t \in Tasks, ResumeTask(t) PROVE PausedByUser'
  BY <1>3 DEF ResumeTask, Requeue, Op
<1>4. ASSUME NEW S \in SUBSET Tasks, Cancel(S) PROVE PausedByUser'
  BY <1>4 DEF Cancel, Op
<1>5. ASSUME NEW S \in SUBSET Tasks, Clear(S) PROVE PausedByUser'
  BY <1>5 DEF Clear, Op
<1>6. ASSUME NEW S \in SUBSET Tasks, Retry(S) PROVE PausedByUser'
  BY <1>6 DEF Retry, Requeue, Op
<1>7. CASE PauseAllStore
  BY <1>7 DEF PauseAllStore, Op
<1>8. CASE ResumeAllStore
  BY <1>8 DEF ResumeAllStore, Op
<1>9. CASE DropStore
  BY <1>9 DEF DropStore, Op
<1>10. ASSUME NEW n \in 1 .. MaxLimit, SetMaxConcurrent(n) PROVE PausedByUser'
  BY <1>10 DEF SetMaxConcurrent, Op
<1>11. CASE PauseAllMark
  BY <1>11 DEF PauseAllMark, MarkPaused
<1>12. CASE ResumeAllMark
  BY <1>12 DEF ResumeAllMark, Requeue
<1>13. CASE DropMark
  BY <1>13 DEF DropMark
<1>14. ASSUME NEW th \in Threads, ScheduleReturns(th) PROVE PausedByUser'
  BY <1>14 DEF ScheduleReturns, Resting
<1>15. ASSUME NEW th \in Threads, SchedulePicks(th) PROVE PausedByUser'
  BY <1>15 DEF SchedulePicks, TakeClient
<1>16. ASSUME NEW th \in Threads, SchedulePanics(th) PROVE PausedByUser'
  BY <1>16 DEF SchedulePanics
<1>17. ASSUME NEW th \in Threads, Spawn(th) PROVE PausedByUser'
  BY <1>17 DEF Spawn
<1>18. ASSUME NEW w \in Workers, RunOne(w) PROVE PausedByUser'
  BY <1>18, AttemptFrame
<1>19. ASSUME NEW w \in Workers, Finalize(w) PROVE PausedByUser'
  BY <1>19 DEF Finalize, FinalState
<1>20. ASSUME NEW w \in Workers, Retire(w) PROVE PausedByUser'
  BY <1>20 DEF Retire
<1>21. CASE UNCHANGED vars
  BY <1>21 DEF vars, recVars, schedVars, workVars
<1> QED
  BY <1>1, <1>2, <1>3, <1>4, <1>5, <1>6, <1>7, <1>8, <1>9, <1>10, <1>11, <1>12,
     <1>13, <1>14, <1>15, <1>16, <1>17, <1>18, <1>19, <1>20, <1>21
     DEF Next, Operation, OperationEnds, Schedule, RunWorker, Scopes

(* resume_all leaves no task behind: in a running queue a Paused task is one *)
(* whose own pause flag the user set.                                       *)
THEOREM OnlyTheUserPauses == Spec => []PausedByUser
<1>1. Init => PausedByUser
  BY DEF Init, PausedByUser
<1>2. CoreInv /\ PausedByUser /\ [Next]_vars => PausedByUser'
  BY PausedStep
<1> QED
  BY <1>1, <1>2, CoreInvariant, PTL DEF Spec

-----------------------------------------------------------------------------
(* Who holds which client. *)
HeldWasEnqueued == \A th \in Threads : Holding(th) => state[job[th]] # "New"
Custody == ClientCustody /\ HeldWasEnqueued

KeepsHolders ==
  \A th \in Threads :
    /\ Holding(th)' <=> Holding(th)
    /\ Holding(th) => job'[th] = job[th]

(* A step that moves no client changes nobody's holders.                    *)
LEMMA HoldersKept ==
  ASSUME KeepsHolders
  PROVE  \A t : Holders(t)' = Holders(t)
BY DEF KeepsHolders, Holders

(* What a step that moves no client must not do either. *)
LEMMA CustodyFrame ==
  ASSUME CoreInv, Custody, KeepsHolders,
         \A t \in Tasks : /\ t \in Listed' => (t \in Listed /\ home'[t] = home[t]) \/ (Holders(t) = {} /\ home'[t])
                          /\ home'[t] => t \in Listed'
                          /\ state'[t] = "New" => state[t] = "New"
  PROVE  Custody'
<1>1. ClientCustody'
  BY HoldersKept DEF Custody, ClientCustody
<1>2. HeldWasEnqueued'
  BY DEF KeepsHolders, Custody, HeldWasEnqueued, CoreInv, RolesOK
<1> QED
  BY <1>1, <1>2 DEF Custody

(* Clients move only in SchedulePicks (record to scheduler), Spawn (scheduler *)
(* to worker) and Finalize (worker to record).                              *)
LEMMA CustodyStep ==
  ASSUME CoreInv, Custody, [Next]_vars
  PROVE  Custody'
<1>e. \A t \in Tasks : state[t] = "New" => Holders(t) = {}
  BY DEF Custody, HeldWasEnqueued, Holders
<1>h. \A t \in Tasks : home[t] => t \in Listed
  BY DEF Custody, ClientCustody
<1> USE QueueAssumption
    DEF CoreInv, TypeOK, RolesOK, KeepsHolders, Holding, Listed,
        Live, Terminal, InState, UIPlaces, WorkerPlaces, Attempt, Threads, Go,
        recVars, schedVars, workVars
<1>1. ASSUME NEW t \in Tasks, Enqueue(t) PROVE Custody'
  BY <1>1, <1>e, <1>h, CustodyFrame DEF Enqueue
<1>2. ASSUME NEW t \in Tasks, PauseTask(t) PROVE Custody'
  BY <1>2, <1>h, CustodyFrame DEF PauseTask, MarkPaused, Op
<1>3. ASSUME NEW t \in Tasks, ResumeTask(t) PROVE Custody'
  BY <1>3, <1>h, CustodyFrame DEF ResumeTask, Requeue, Op
<1>4. ASSUME NEW S \in SUBSET Tasks, Cancel(S) PROVE Custody'
  BY <1>4, <1>h, CustodyFrame DEF Cancel, Op
<1>5. ASSUME NEW S \in SUBSET Tasks, Clear(S) PROVE Custody'
  BY <1>5, <1>h, CustodyFrame DEF Clear, Op
<1>6. ASSUME NEW S \in SUBSET Tasks, Retry(S) PROVE Custody'
  BY <1>6, <1>h, CustodyFrame DEF Retry, Requeue, Op
<1>7. CASE PauseAllStore
  BY <1>7, <1>h, CustodyFrame DEF PauseAllStore, Op
<1>8. CASE ResumeAllStore
  BY <1>8, <1>h, CustodyFrame DEF ResumeAllStore, Op
<1>9. CASE DropStore
  BY <1>9, <1>h, CustodyFrame DEF DropStore, Op
<1>10. ASSUME NEW n \in 1 .. MaxLimit, SetMaxConcurrent(n) PROVE Custody'
  BY <1>10, <1>h, CustodyFrame DEF SetMaxConcurrent, Op
<1>11. CASE PauseAllMark
  BY <1>11, <1>h, CustodyFrame DEF PauseAllMark, MarkPaused
<1>12. CASE ResumeAllMark
  BY <1>12, <1>h, CustodyFrame DEF ResumeAllMark, Requeue
<1>13. CASE DropMark
  BY <1>13, <1>h, CustodyFrame DEF DropMark
<1>14. ASSUME NEW th \in Threads, ScheduleReturns(th) PROVE Custody'
  BY <1>14, <1>h, CustodyFrame DEF ScheduleReturns, Resting
<1>15. ASSUME NEW th \in Threads, SchedulePicks(th) PROVE Custody'
  BY <1>15 DEF SchedulePicks, TakeClient, Custody, ClientCustody, HeldWasEnqueued,
     Holders, NextQueued, QueuedTasks
<1>16. ASSUME NEW th \in Threads, SchedulePanics(th) PROVE Custody'
  BY <1>16, <1>h, CustodyFrame DEF SchedulePanics, NextQueued, QueuedTasks
<1>17. ASSUME NEW th \in Threads, Spawn(th) PROVE Custody'
  <2>1. PICK w \in Workers :
          /\ pc[w] = "free"
          /\ pc' = [pc EXCEPT ![w] = "connect", ![th] = "sched"]
          /\ job' = [job EXCEPT ![w] = job[th], ![th] = NoTask]
    BY <1>17 DEF Spawn
  <2>2. \A a \in Threads \ {w, th} : (Holding(a)' <=> Holding(a)) /\ job'[a] = job[a]
    BY <2>1
  <2>3. Holding(th) /\ ~Holding(w) /\ Holding(w)' /\ ~Holding(th)' /\ job'[w] = job[th]
    BY <1>17, <2>1 DEF Spawn
  <2>4. \A t \in Tasks : Holders(t)' = IF t = job[th] THEN {w} ELSE Holders(t)
    BY <2>2, <2>3 DEF Custody, ClientCustody, Holders
  <2>5. UNCHANGED <<state, home>> /\ job[th] \in Tasks /\ th \in Holders(job[th])
    BY <1>17, <2>3 DEF Spawn, Holders
  <2>6. ClientCustody'
    <3>1. \A t \in Tasks : Holders(t)' = {} <=> Holders(t) = {}
      BY <2>4, <2>5
    <3>2. \A t \in Tasks : \A a, b \in Threads : a \in Holders(t)' /\ b \in Holders(t)' => a = b
      BY <2>4 DEF Custody, ClientCustody
    <3> QED
      BY <2>5, <3>1, <3>2 DEF Custody, ClientCustody
  <2>7. HeldWasEnqueued'
    BY <2>2, <2>3, <2>5 DEF Custody, HeldWasEnqueued
  <2> QED
    BY <2>6, <2>7 DEF Custody
<1>18. ASSUME NEW w \in Workers, RunOne(w) PROVE Custody'
  BY <1>18, AttemptFrame, <1>h, CustodyFrame
<1>19. ASSUME NEW w \in Workers, Finalize(w) PROVE Custody'
  BY <1>19, FinalStateType DEF Finalize, Custody, ClientCustody, HeldWasEnqueued, Holders
<1>20. ASSUME NEW w \in Workers, Retire(w) PROVE Custody'
  BY <1>20, <1>h, CustodyFrame DEF Retire
<1>21. CASE UNCHANGED vars
  BY <1>21, <1>h, CustodyFrame DEF vars, recVars, schedVars, workVars
<1> QED
  BY <1>1, <1>2, <1>3, <1>4, <1>5, <1>6, <1>7, <1>8, <1>9, <1>10, <1>11, <1>12,
     <1>13, <1>14, <1>15, <1>16, <1>17, <1>18, <1>19, <1>20, <1>21
     DEF Next, Operation, OperationEnds, Schedule, RunWorker, Scopes

(* Custody of the clients, with the fact that a held task was enqueued.     *)
THEOREM CustodyInvariant == Spec => []Custody
<1>1. Init => Custody
  BY QueueAssumption
  DEF Init, Custody, ClientCustody, HeldWasEnqueued, Holders, Holding, Listed, InState, Attempt,
      Resting, Threads, Live, Terminal
<1>2. CoreInv /\ Custody /\ [Next]_vars => Custody'
  BY CustodyStep
<1> QED
  BY <1>1, <1>2, CoreInvariant, PTL DEF Spec

(* A task's client is in its record or with exactly one thread: no two      *)
(* attempts at one task ever run side by side.                              *)
THEOREM ClientHeldOnce == Spec => []ClientCustody
BY CustodyInvariant, PTL DEF Custody

-----------------------------------------------------------------------------
(* A cancelled record, and who polls its flag. *)
CancelledIsFlagged == \A t \in Tasks : state[t] = "Cancelled" => cancelFlag[t]
HearsOrGone ==
  \A w \in Workers : pc[w] \in {"prompt", "copy"} => heard[w] \/ job[w] \notin Listed
CancelInv == CancelledIsFlagged /\ HearsOrGone

(* Every step keeps the worker's flag and the record's flag the same flag.  *)
LEMMA CancelStep ==
  ASSUME CoreInv, Custody, CancelInv, [Next]_vars
  PROVE  CancelInv'
<1>e. \A th \in Threads : Holding(th) => job[th] \in Tasks /\ state[job[th]] # "New"
  BY DEF Custody, HeldWasEnqueued, CoreInv, RolesOK
<1> USE QueueAssumption, <1>e
    DEF CoreInv, TypeOK, RolesOK, CancelInv, CancelledIsFlagged, HearsOrGone, Listed, Live, Terminal,
        InState, UIPlaces, WorkerPlaces, Attempt, Threads, Holding, Go,
        recVars, schedVars, workVars
<1>1. ASSUME NEW t \in Tasks, Enqueue(t) PROVE CancelInv'
  BY <1>1 DEF Enqueue
<1>2. ASSUME NEW t \in Tasks, PauseTask(t) PROVE CancelInv'
  BY <1>2 DEF PauseTask, MarkPaused, Op
<1>3. ASSUME NEW t \in Tasks, ResumeTask(t) PROVE CancelInv'
  BY <1>3 DEF ResumeTask, Requeue, Op
<1>4. ASSUME NEW S \in SUBSET Tasks, Cancel(S) PROVE CancelInv'
  BY <1>4 DEF Cancel, Op
<1>5. ASSUME NEW S \in SUBSET Tasks, Clear(S) PROVE CancelInv'
  BY <1>5 DEF Clear, Op
<1>6. ASSUME NEW S \in SUBSET Tasks, Retry(S) PROVE CancelInv'
  BY <1>6 DEF Retry, Requeue, Op
<1>7. CASE PauseAllStore
  BY <1>7 DEF PauseAllStore, Op
<1>8. CASE ResumeAllStore
  BY <1>8 DEF ResumeAllStore, Op
<1>9. CASE DropStore
  BY <1>9 DEF DropStore, Op
<1>10. ASSUME NEW n \in 1 .. MaxLimit, SetMaxConcurrent(n) PROVE CancelInv'
  BY <1>10 DEF SetMaxConcurrent, Op
<1>11. CASE PauseAllMark
  BY <1>11 DEF PauseAllMark, MarkPaused
<1>12. CASE ResumeAllMark
  BY <1>12 DEF ResumeAllMark, Requeue
<1>13. CASE DropMark
  BY <1>13 DEF DropMark
<1>14. ASSUME NEW th \in Threads, ScheduleReturns(th) PROVE CancelInv'
  BY <1>14 DEF ScheduleReturns, Resting
<1>15. ASSUME NEW th \in Threads, SchedulePicks(th) PROVE CancelInv'
  BY <1>15 DEF SchedulePicks, TakeClient, NextQueued, QueuedTasks
<1>16. ASSUME NEW th \in Threads, SchedulePanics(th) PROVE CancelInv'
  BY <1>16 DEF SchedulePanics, NextQueued, QueuedTasks
<1>17. ASSUME NEW th \in Threads, Spawn(th) PROVE CancelInv'
  BY <1>17 DEF Spawn
<1>18. ASSUME NEW w \in Workers, RunOne(w) PROVE CancelInv'
  <2>1. CASE UseOwnClient(w)
    BY <1>18, <2>1, AttemptFrame DEF UseOwnClient
  <2>2. CASE DialRefused(w)
    BY <1>18, <2>2, AttemptFrame DEF DialRefused, Concludes
  <2>3. CASE Dial(w)
    BY <1>18, <2>3, AttemptFrame DEF Dial, Concludes
  <2>4. CASE Precheck(w)
    BY <1>18, <2>4, AttemptFrame DEF Precheck, Concludes, HearsRecord, MustAsk
  <2>5. ASSUME NEW c \in Choices, Answer(w, c) PROVE CancelInv'
    BY <1>18, <2>5, AttemptFrame DEF Answer, Concludes
  <2>6. CASE CopyWrites(w)
    BY <1>18, <2>6, AttemptFrame DEF CopyWrites, Written
  <2>7. CASE CopyDone(w)
    BY <1>18, <2>7, AttemptFrame DEF CopyDone, Concludes, Written
  <2>8. CASE CopyStops(w)
    BY <1>18, <2>8, AttemptFrame DEF CopyStops, Concludes
  <2> QED
    BY <1>18, <2>1, <2>2, <2>3, <2>4, <2>5, <2>6, <2>7, <2>8 DEF RunOne
<1>19. ASSUME NEW w \in Workers, Finalize(w) PROVE CancelInv'
  BY <1>19 DEF Finalize, FinalState
<1>20. ASSUME NEW w \in Workers, Retire(w) PROVE CancelInv'
  BY <1>20 DEF Retire
<1>21. CASE UNCHANGED vars
  BY <1>21 DEF vars, recVars, schedVars, workVars
<1> QED
  BY <1>1, <1>2, <1>3, <1>4, <1>5, <1>6, <1>7, <1>8, <1>9, <1>10, <1>11, <1>12,
     <1>13, <1>14, <1>15, <1>16, <1>17, <1>18, <1>19, <1>20, <1>21
     DEF Next, Operation, OperationEnds, Schedule, RunWorker, Scopes

(* A Cancelled record has its flag set; a worker that asks or copies polls  *)
(* that flag, or its record is gone.                                        *)
THEOREM CancelInvariant == Spec => []CancelInv
<1>1. Init => CancelInv
  BY QueueAssumption DEF Init, CancelInv, CancelledIsFlagged, HearsOrGone, Resting, Threads
<1>2. CoreInv /\ Custody /\ CancelInv /\ [Next]_vars => CancelInv'
  BY CancelStep
<1> QED
  BY <1>1, <1>2, CoreInvariant, CustodyInvariant, PTL DEF Spec

(* A worker transferring for a record still listed as Cancelled sees it when *)
(* it next polls should_cancel, however the cancel was timed.               *)
THEOREM CancelIsSeen == Spec => []ListedCancelIsSeen
<1>1. CoreInv /\ CancelInv => ListedCancelIsSeen
  BY QueueAssumption
  DEF CoreInv, RolesOK, CancelInv, CancelledIsFlagged, HearsOrGone, ListedCancelIsSeen, ShouldCancel,
      Holding, Attempt, Threads, Listed, InState, Terminal
<1> QED
  BY <1>1, CoreInvariant, CancelInvariant, PTL

-----------------------------------------------------------------------------
(* Who may write over a foreign file. *)
ForeignIsResumed == \A w \in Workers : pc[w] = "copy" /\ dest[job[w]] = "foreign" => resume[w]
ResumeWasHinted ==
  \A th \in Threads : Holding(th) /\ resume[th] => job[th] \notin Listed \/ hint[job[th]]
NewIsUntouched == \A t \in Tasks : state[t] = "New" => dest[t] # "lost"
AskInv == FirstAttemptAsks /\ NewIsUntouched /\ ForeignIsResumed /\ ResumeWasHinted

(* Every step keeps the resume hint with the attempt made under it.         *)
LEMMA AskStep ==
  ASSUME CoreInv, Custody, AskInv, [Next]_vars
  PROVE  AskInv'
<1>e. \A th \in Threads : Holding(th) => job[th] \in Tasks /\ state[job[th]] # "New"
  BY DEF Custody, HeldWasEnqueued, CoreInv, RolesOK
<1> USE QueueAssumption, <1>e
    DEF CoreInv, TypeOK, RolesOK, AskInv, FirstAttemptAsks, NewIsUntouched, ForeignIsResumed, ResumeWasHinted,
        Listed, Live, Terminal, InState, UIPlaces, WorkerPlaces, Attempt, Threads, Holding, Go,
        DestStates, recVars, schedVars, workVars
<1>1. ASSUME NEW t \in Tasks, Enqueue(t) PROVE AskInv'
  BY <1>1 DEF Enqueue
<1>2. ASSUME NEW t \in Tasks, PauseTask(t) PROVE AskInv'
  BY <1>2 DEF PauseTask, MarkPaused, Op
<1>3. ASSUME NEW t \in Tasks, ResumeTask(t) PROVE AskInv'
  BY <1>3 DEF ResumeTask, Requeue, Op
<1>4. ASSUME NEW S \in SUBSET Tasks, Cancel(S) PROVE AskInv'
  BY <1>4 DEF Cancel, Op
<1>5. ASSUME NEW S \in SUBSET Tasks, Clear(S) PROVE AskInv'
  BY <1>5 DEF Clear, Op
<1>6. ASSUME NEW S \in SUBSET Tasks, Retry(S) PROVE AskInv'
  BY <1>6 DEF Retry, Requeue, Op
<1>7. CASE PauseAllStore
  BY <1>7 DEF PauseAllStore, Op
<1>8. CASE ResumeAllStore
  BY <1>8 DEF ResumeAllStore, Op
<1>9. CASE DropStore
  BY <1>9 DEF DropStore, Op
<1>10. ASSUME NEW n \in 1 .. MaxLimit, SetMaxConcurrent(n) PROVE AskInv'
  BY <1>10 DEF SetMaxConcurrent, Op
<1>11. CASE PauseAllMark
  BY <1>11 DEF PauseAllMark, MarkPaused
<1>12. CASE ResumeAllMark
  BY <1>12 DEF ResumeAllMark, Requeue
<1>13. CASE DropMark
  BY <1>13 DEF DropMark
<1>14. ASSUME NEW th \in Threads, ScheduleReturns(th) PROVE AskInv'
  BY <1>14 DEF ScheduleReturns, Resting
<1>15. ASSUME NEW th \in Threads, SchedulePicks(th) PROVE AskInv'
  BY <1>15 DEF SchedulePicks, TakeClient, NextQueued, QueuedTasks
<1>16. ASSUME NEW th \in Threads, SchedulePanics(th) PROVE AskInv'
  BY <1>16 DEF SchedulePanics, NextQueued, QueuedTasks
<1>17. ASSUME NEW th \in Threads, Spawn(th) PROVE AskInv'
  BY <1>17 DEF Spawn
<1>18. ASSUME NEW w \in Workers, RunOne(w) PROVE AskInv'
  <2>1. CASE UseOwnClient(w)
    BY <1>18, <2>1, AttemptFrame DEF UseOwnClient
  <2>2. CASE DialRefused(w)
    BY <1>18, <2>2, AttemptFrame DEF DialRefused, Concludes
  <2>3. CASE Dial(w)
    BY <1>18, <2>3, AttemptFrame DEF Dial, Concludes
  <2>4. CASE Precheck(w)
    BY <1>18, <2>4, AttemptFrame DEF Precheck, Concludes, HearsRecord, MustAsk
  <2>5. ASSUME NEW c \in Choices, Answer(w, c) PROVE AskInv'
    BY <1>18, <2>5, AttemptFrame DEF Answer, Concludes
  <2>6. CASE CopyWrites(w)
    BY <1>18, <2>6, AttemptFrame DEF CopyWrites, Written
  <2>7. CASE CopyDone(w)
    BY <1>18, <2>7, AttemptFrame DEF CopyDone, Concludes, Written
  <2>8. CASE CopyStops(w)
    BY <1>18, <2>8, AttemptFrame DEF CopyStops, Concludes
  <2> QED
    BY <1>18, <2>1, <2>2, <2>3, <2>4, <2>5, <2>6, <2>7, <2>8 DEF RunOne
<1>19. ASSUME NEW w \in Workers, Finalize(w) PROVE AskInv'
  BY <1>19, FinalStateType DEF Finalize
<1>20. ASSUME NEW w \in Workers, Retire(w) PROVE AskInv'
  BY <1>20 DEF Retire
<1>21. CASE UNCHANGED vars
  BY <1>21 DEF vars, recVars, schedVars, workVars
<1> QED
  BY <1>1, <1>2, <1>3, <1>4, <1>5, <1>6, <1>7, <1>8, <1>9, <1>10, <1>11, <1>12,
     <1>13, <1>14, <1>15, <1>16, <1>17, <1>18, <1>19, <1>20, <1>21
     DEF Next, Operation, OperationEnds, Schedule, RunWorker, Scopes

(* Only a resumed or retried task can overwrite a file without asking.      *)
THEOREM AskInvariant == Spec => []AskInv
<1>1. Init => AskInv
  BY QueueAssumption DEF Init, AskInv, FirstAttemptAsks, NewIsUntouched, ForeignIsResumed, ResumeWasHinted, Listed, InState, Resting, Threads, Holding, Attempt
<1>2. CoreInv /\ Custody /\ AskInv /\ [Next]_vars => AskInv'
  BY AskStep
<1> QED
  BY <1>1, <1>2, CoreInvariant, CustodyInvariant, PTL DEF Spec

(* A first attempt never writes over a file that was there before without   *)
(* the conflict prompt: only resumed and retried tasks can.                 *)
THEOREM FirstAttemptsAsk == Spec => []FirstAttemptAsks
BY AskInvariant, PTL DEF AskInv

-----------------------------------------------------------------------------
(* After Drop every listed record carries a set cancel flag. *)
GoneIsFlagged == pc[UI] = "gone" => \A t \in Listed : cancelFlag[t]
DropInv == DropEndsQueue /\ GoneIsFlagged

(* Every step after the drop leaves the records settled.                    *)
LEMMA DropStep ==
  ASSUME CoreInv, Custody, DropInv, [Next]_vars
  PROVE  DropInv'
<1>e. \A th \in Threads : Holding(th) => job[th] \in Tasks /\ state[job[th]] # "New"
  BY DEF Custody, HeldWasEnqueued, CoreInv, RolesOK
<1> USE QueueAssumption, <1>e
    DEF CoreInv, TypeOK, RolesOK, DropInv, DropEndsQueue, GoneIsFlagged, Listed, Live, Terminal,
        InState, UIPlaces, WorkerPlaces, Attempt, Threads, Holding, Go, recVars, schedVars, workVars
<1>1. ASSUME NEW t \in Tasks, Enqueue(t) PROVE DropInv'
  BY <1>1 DEF Enqueue
<1>2. ASSUME NEW t \in Tasks, PauseTask(t) PROVE DropInv'
  BY <1>2 DEF PauseTask, MarkPaused, Op
<1>3. ASSUME NEW t \in Tasks, ResumeTask(t) PROVE DropInv'
  BY <1>3 DEF ResumeTask, Requeue, Op
<1>4. ASSUME NEW S \in SUBSET Tasks, Cancel(S) PROVE DropInv'
  BY <1>4 DEF Cancel, Op
<1>5. ASSUME NEW S \in SUBSET Tasks, Clear(S) PROVE DropInv'
  BY <1>5 DEF Clear, Op
<1>6. ASSUME NEW S \in SUBSET Tasks, Retry(S) PROVE DropInv'
  BY <1>6 DEF Retry, Requeue, Op
<1>7. CASE PauseAllStore
  BY <1>7 DEF PauseAllStore, Op
<1>8. CASE ResumeAllStore
  BY <1>8 DEF ResumeAllStore, Op
<1>9. CASE DropStore
  BY <1>9 DEF DropStore, Op
<1>10. ASSUME NEW n \in 1 .. MaxLimit, SetMaxConcurrent(n) PROVE DropInv'
  BY <1>10 DEF SetMaxConcurrent, Op
<1>11. CASE PauseAllMark
  BY <1>11 DEF PauseAllMark, MarkPaused
<1>12. CASE ResumeAllMark
  BY <1>12 DEF ResumeAllMark, Requeue
<1>13. CASE DropMark
  <2>1. \A t \in Tasks : state'[t] = IF state[t] \in Live THEN "Cancelled" ELSE state[t]
    BY <1>13 DEF DropMark
  <2>2. \A t \in Tasks : t \in Listed => cancelFlag'[t]
    BY <1>13 DEF DropMark
  <2>3. DropEndsQueue'
    BY <2>1
  <2>4. GoneIsFlagged'
    BY <2>1, <2>2
  <2> QED
    BY <2>3, <2>4
<1>14. ASSUME NEW th \in Threads, ScheduleReturns(th) PROVE DropInv'
  BY <1>14 DEF ScheduleReturns, Resting
<1>15. ASSUME NEW th \in Threads, SchedulePicks(th) PROVE DropInv'
  BY <1>15 DEF SchedulePicks, TakeClient, NextQueued, QueuedTasks
<1>16. ASSUME NEW th \in Threads, SchedulePanics(th) PROVE DropInv'
  BY <1>16 DEF SchedulePanics, NextQueued, QueuedTasks
<1>17. ASSUME NEW th \in Threads, Spawn(th) PROVE DropInv'
  BY <1>17 DEF Spawn
<1>18. ASSUME NEW w \in Workers, RunOne(w) PROVE DropInv'
  BY <1>18, AttemptFrame
<1>19. ASSUME NEW w \in Workers, Finalize(w) PROVE DropInv'
  BY <1>19 DEF Finalize, FinalState
<1>20. ASSUME NEW w \in Workers, Retire(w) PROVE DropInv'
  BY <1>20 DEF Retire
<1>21. CASE UNCHANGED vars
  BY <1>21 DEF vars, recVars, schedVars, workVars
<1> QED
  BY <1>1, <1>2, <1>3, <1>4, <1>5, <1>6, <1>7, <1>8, <1>9, <1>10, <1>11, <1>12,
     <1>13, <1>14, <1>15, <1>16, <1>17, <1>18, <1>19, <1>20, <1>21
     DEF Next, Operation, OperationEnds, Schedule, RunWorker, Scopes

(* After the manager is dropped, no record becomes Queued, Active or Paused. *)
THEOREM DropInvariant == Spec => []DropInv
<1>1. Init => DropInv
  BY QueueAssumption DEF Init, DropInv, DropEndsQueue, GoneIsFlagged, Resting, Threads
<1>2. CoreInv /\ Custody /\ DropInv /\ [Next]_vars => DropInv'
  BY DropStep
<1> QED
  BY <1>1, <1>2, CoreInvariant, CustodyInvariant, PTL DEF Spec

(* Dropping the manager ends the queue for good.                            *)
THEOREM DropIsFinal == Spec => []DropEndsQueue
BY DropInvariant, PTL DEF DropInv

-----------------------------------------------------------------------------
(* A patient user: nothing Queued, or about to be requeued, is still held.  *)
QueuedIsHome == AwaitUnwind => \A t \in Tasks : state[t] = "Queued" => Holders(t) = {}
ResumingIsHome ==
  AwaitUnwind /\ pc[UI] = "resumeMark" => \A t \in Tasks : state[t] = "Paused" => Holders(t) = {}
PatienceInv == PatienceIsSafe /\ QueuedIsHome /\ ResumingIsHome

(* Every step of a patient user's queue keeps queued records whole.         *)
LEMMA PatienceStep ==
  ASSUME CoreInv, Custody, PatienceInv, [Next]_vars
  PROVE  PatienceInv'
<1>e. \A t \in Tasks : state[t] = "New" => Holders(t) = {}
  BY DEF Custody, HeldWasEnqueued, Holders
<1>h. \A t \in Tasks : state[t] = "Queued" /\ Holders(t) = {} => home[t]
  BY DEF Custody, ClientCustody, Listed, InState, Live
<1>n. \A th \in Threads : Holding(th) => job[th] \in Tasks
  BY DEF CoreInv, RolesOK
<1> USE QueueAssumption
    DEF CoreInv, TypeOK, RolesOK, PatienceInv, PatienceIsSafe, QueuedIsHome, ResumingIsHome,
        Holders, Holding, Unwound, InFlight, InState, UIPlaces, WorkerPlaces, Attempt, Threads, Go,
        recVars, schedVars, workVars
<1>1. ASSUME NEW t \in Tasks, Enqueue(t) PROVE PatienceInv'
  BY <1>1, <1>e DEF Enqueue
<1>2. ASSUME NEW t \in Tasks, PauseTask(t) PROVE PatienceInv'
  BY <1>2 DEF PauseTask, MarkPaused, Op
<1>3. ASSUME NEW t \in Tasks, ResumeTask(t) PROVE PatienceInv'
  BY <1>3 DEF ResumeTask, Requeue, Op
<1>4. ASSUME NEW S \in SUBSET Tasks, Cancel(S) PROVE PatienceInv'
  BY <1>4 DEF Cancel, Op
<1>5. ASSUME NEW S \in SUBSET Tasks, Clear(S) PROVE PatienceInv'
  BY <1>5 DEF Clear, Op
<1>6. ASSUME NEW S \in SUBSET Tasks, Retry(S) PROVE PatienceInv'
  BY <1>6 DEF Retry, Requeue, Op
<1>7. CASE PauseAllStore
  BY <1>7 DEF PauseAllStore, Op
<1>8. CASE ResumeAllStore
  BY <1>8 DEF ResumeAllStore, Op
<1>9. CASE DropStore
  BY <1>9 DEF DropStore, Op
<1>10. ASSUME NEW n \in 1 .. MaxLimit, SetMaxConcurrent(n) PROVE PatienceInv'
  BY <1>10 DEF SetMaxConcurrent, Op
<1>11. CASE PauseAllMark
  BY <1>11 DEF PauseAllMark, MarkPaused
<1>12. CASE ResumeAllMark
  BY <1>12 DEF ResumeAllMark, Requeue
<1>13. CASE DropMark
  BY <1>13 DEF DropMark
<1>14. ASSUME NEW th \in Threads, ScheduleReturns(th) PROVE PatienceInv'
  BY <1>14 DEF ScheduleReturns, Resting
<1>15. ASSUME NEW th \in Threads, SchedulePicks(th) PROVE PatienceInv'
  BY <1>15 DEF SchedulePicks, TakeClient, NextQueued, QueuedTasks
<1>16. ASSUME NEW th \in Threads, SchedulePanics(th) PROVE PatienceInv'
  BY <1>16, <1>h DEF SchedulePanics, NextQueued, QueuedTasks
<1>17. ASSUME NEW th \in Threads, Spawn(th) PROVE PatienceInv'
  BY <1>17 DEF Spawn
<1>18. ASSUME NEW w \in Workers, RunOne(w) PROVE PatienceInv'
  BY <1>18, AttemptFrame
<1>19. ASSUME NEW w \in Workers, Finalize(w) PROVE PatienceInv'
  <2>1. \A t \in Tasks : state'[t] # state[t] => t = job[w] /\ state'[t] # "Queued"
    BY <1>19 DEF Finalize, FinalState
  <2>2. \A th \in Threads : Holding(th)' => th # w /\ Holding(th) /\ job'[th] = job[th]
    BY <1>19 DEF Finalize
  <2>3. \A t \in Tasks : Holders(t)' \subseteq Holders(t)
    BY <2>2
  <2>4. \A t \in Tasks : t = job[w] => Holders(t)' = {}
    BY <1>19, <2>2, <1>n DEF Custody, ClientCustody, Finalize
  <2>5. UNCHANGED poisoned /\ pc'[UI] = pc[UI]
    BY <1>19 DEF Finalize
  <2> HIDE DEF Holders
  <2> QED
    BY <2>1, <2>3, <2>4, <2>5
<1>20. ASSUME NEW w \in Workers, Retire(w) PROVE PatienceInv'
  BY <1>20 DEF Retire
<1>21. CASE UNCHANGED vars
  BY <1>21 DEF vars, recVars, schedVars, workVars
<1> QED
  BY <1>1, <1>2, <1>3, <1>4, <1>5, <1>6, <1>7, <1>8, <1>9, <1>10, <1>11, <1>12,
     <1>13, <1>14, <1>15, <1>16, <1>17, <1>18, <1>19, <1>20, <1>21
     DEF Next, Operation, OperationEnds, Schedule, RunWorker, Scopes

(* If the user resumes and retries only what no worker holds any more,      *)
(* the expect() in schedule never fails.                                    *)
THEOREM PatienceInvariant == Spec => []PatienceInv
<1>1. Init => PatienceInv
  BY QueueAssumption DEF Init, PatienceInv, PatienceIsSafe, QueuedIsHome, ResumingIsHome, Resting, Threads
<1>2. CoreInv /\ Custody /\ PatienceInv /\ [Next]_vars => PatienceInv'
  BY PatienceStep
<1> QED
  BY <1>1, <1>2, CoreInvariant, CustodyInvariant, PTL DEF Spec

(* A user who waits for workers to unwind never meets the panic in schedule *)
(* that a queued record without a client causes.                            *)
THEOREM PatientUserIsSafe == Spec => []PatienceIsSafe
BY PatienceInvariant, PTL DEF PatienceInv

-----------------------------------------------------------------------------
(* The cancel and pause flags against the state of the record. *)
FlagsAgree ==
  \A t \in Tasks :
    /\ cancelFlag[t] => state[t] \in Terminal \cup {"Gone"}
    /\ pauseFlag[t] => state[t] \notin {"New", "Queued", "Active"}
HeldIsOpen ==
  \A t \in Tasks : Holders(t) # {} =>
    /\ state[t] \in {"Queued", "Active", "Paused", "Cancelled", "Gone"}
    /\ state[t] = "Paused" => pauseFlag[t]
FlagInv == FlagsAgree /\ HeldIsOpen

(* Every step keeps the flags and the states of the records in agreement.   *)
LEMMA FlagStep ==
  ASSUME CoreInv, Custody, FlagInv, [Next]_vars
  PROVE  FlagInv'
<1>e. \A t \in Tasks : state[t] = "New" => Holders(t) = {}
  BY DEF Custody, HeldWasEnqueued, Holders
<1>h. \A t \in Tasks : home[t] /\ t \in Listed => Holders(t) = {}
  BY DEF Custody, ClientCustody
<1>n. \A th \in Threads : Holding(th) => job[th] \in Tasks
  BY DEF CoreInv, RolesOK
<1> USE QueueAssumption
    DEF CoreInv, TypeOK, RolesOK, FlagInv, FlagsAgree, HeldIsOpen, Holders, Holding, InState,
        Listed, Live, Terminal, UIPlaces, WorkerPlaces, Attempt, Threads, Go, recVars, schedVars, workVars
<1>1. ASSUME NEW t \in Tasks, Enqueue(t) PROVE FlagInv'
  BY <1>1, <1>e DEF Enqueue
<1>2. ASSUME NEW t \in Tasks, PauseTask(t) PROVE FlagInv'
  BY <1>2 DEF PauseTask, MarkPaused, Op
<1>3. ASSUME NEW t \in Tasks, ResumeTask(t) PROVE FlagInv'
  BY <1>3 DEF ResumeTask, Requeue, Op
<1>4. ASSUME NEW S \in SUBSET Tasks, Cancel(S) PROVE FlagInv'
  BY <1>4 DEF Cancel, Op
<1>5. ASSUME NEW S \in SUBSET Tasks, Clear(S) PROVE FlagInv'
  BY <1>5 DEF Clear, Op
<1>6. ASSUME NEW S \in SUBSET Tasks, Retry(S) PROVE FlagInv'
  BY <1>6 DEF Retry, Requeue, Op
<1>7. CASE PauseAllStore
  BY <1>7 DEF PauseAllStore, Op
<1>8. CASE ResumeAllStore
  BY <1>8 DEF ResumeAllStore, Op
<1>9. CASE DropStore
  BY <1>9 DEF DropStore, Op
<1>10. ASSUME NEW n \in 1 .. MaxLimit, SetMaxConcurrent(n) PROVE FlagInv'
  BY <1>10 DEF SetMaxConcurrent, Op
<1>11. CASE PauseAllMark
  BY <1>11 DEF PauseAllMark, MarkPaused
<1>12. CASE ResumeAllMark
  BY <1>12 DEF ResumeAllMark, Requeue
<1>13. CASE DropMark
  BY <1>13 DEF DropMark
<1>14. ASSUME NEW th \in Threads, ScheduleReturns(th) PROVE FlagInv'
  BY <1>14 DEF ScheduleReturns, Resting
<1>15. ASSUME NEW th \in Threads, SchedulePicks(th) PROVE FlagInv'
  BY <1>15, <1>h DEF SchedulePicks, TakeClient, NextQueued, QueuedTasks
<1>16. ASSUME NEW th \in Threads, SchedulePanics(th) PROVE FlagInv'
  BY <1>16 DEF SchedulePanics, NextQueued, QueuedTasks
<1>17. ASSUME NEW th \in Threads, Spawn(th) PROVE FlagInv'
  BY <1>17 DEF Spawn
<1>18. ASSUME NEW w \in Workers, RunOne(w) PROVE FlagInv'
  BY <1>18, AttemptFrame
<1>19. ASSUME NEW w \in Workers, Finalize(w) PROVE FlagInv'
  <2>1. \A th \in Threads : Holding(th)' => th # w /\ Holding(th) /\ job'[th] = job[th]
    BY <1>19 DEF Finalize
  <2>2. \A t \in Tasks : Holders(t)' \subseteq Holders(t)
    BY <2>1
  <2>3. \A t \in Tasks : t = job[w] => Holders(t)' = {}
    BY <1>19, <2>1, <1>n DEF Custody, ClientCustody, Finalize
  <2>4. \A t \in Tasks : t # job[w] => state'[t] = state[t]
    BY <1>19 DEF Finalize
  <2>5. UNCHANGED <<cancelFlag, pauseFlag>>
    BY <1>19 DEF Finalize
  <2>6. FlagsAgree'
    BY <1>19 DEF Finalize, FinalState
  <2>7. HeldIsOpen'
    <3> HIDE DEF Holders
    <3> QED BY <2>2, <2>3, <2>4, <2>5
  <2> QED
    BY <2>6, <2>7
<1>20. ASSUME NEW w \in Workers, Retire(w) PROVE FlagInv'
  BY <1>20 DEF Retire
<1>21. CASE UNCHANGED vars
  BY <1>21 DEF vars, recVars, schedVars, workVars
<1> QED
  BY <1>1, <1>2, <1>3, <1>4, <1>5, <1>6, <1>7, <1>8, <1>9, <1>10, <1>11, <1>12,
     <1>13, <1>14, <1>15, <1>16, <1>17, <1>18, <1>19, <1>20, <1>21
     DEF Next, Operation, OperationEnds, Schedule, RunWorker, Scopes

(* The flags of a record agree with its state, and an attempt in flight     *)
(* belongs to a record that has not settled.                                *)
THEOREM FlagInvariant == Spec => []FlagInv
<1>1. Init => FlagInv
  BY QueueAssumption DEF Init, FlagInv, FlagsAgree, HeldIsOpen, Holders, Holding, Attempt, Resting, Threads
<1>2. CoreInv /\ Custody /\ FlagInv /\ [Next]_vars => FlagInv'
  BY FlagStep
<1> QED
  BY <1>1, <1>2, CoreInvariant, CustodyInvariant, PTL DEF Spec

-----------------------------------------------------------------------------
(* A step that moves no client leaves the same tasks in flight.             *)
LEMMA InFlightKept ==
  ASSUME KeepsHolders
  PROVE  InFlight' = InFlight
BY HoldersKept DEF InFlight

(* A task is launched: nobody held it, now the scheduling thread does. *)
LEMMA PickLaunches ==
  ASSUME CoreInv, Custody, NEW th \in Threads, SchedulePicks(th)
  PROVE  \E t \in Tasks : Lifecycle!Launch(t)
<1>1. PICK t \in NextQueued :
        /\ home[t]
        /\ state' = [state EXCEPT ![t] = "Active"]
        /\ job' = [job EXCEPT ![th] = t]
  BY DEF SchedulePicks
<1>2. /\ t \in Tasks
      /\ state[t] = "Queued"
      /\ Holders(t) = {}
  BY <1>1 DEF Custody, ClientCustody, NextQueued, QueuedTasks, InState, Listed, Live
<1>3. /\ pc' = [pc EXCEPT ![th] = "spawn"]
      /\ ~paused
      /\ UNCHANGED <<paused, poisoned>>
      /\ ~Holding(th)
  BY DEF SchedulePicks, MayLaunch, Go, Holding, Attempt
<1>4. \A u \in Tasks : Holders(u)' = IF u = t THEN {th} ELSE Holders(u)
  BY <1>1, <1>2, <1>3 DEF Holders, Holding, CoreInv, TypeOK
<1>5. InFlight' = InFlight \cup {t}
  BY <1>2, <1>4 DEF InFlight
<1>6. t \notin InFlight
  BY <1>2 DEF InFlight
<1>7. state' = [u \in Tasks |-> IF u \in {t} THEN "Active" ELSE state[u]]
  BY <1>1, <1>2 DEF CoreInv, TypeOK
<1> QED
  BY <1>2, <1>3, <1>5, <1>6, <1>7 DEF Lifecycle!Launch, Lifecycle!Become

(* The end of an attempt, whatever the user did meanwhile. *)
LEMMA FinalizeSettles ==
  ASSUME CoreInv, Custody, CancelInv, FlagInv, NEW w \in Workers, Finalize(w)
  PROVE  \E t \in Tasks : Lifecycle!Settle(t)
<1> DEFINE t == job[w]
<1>1. t \in Tasks /\ w \in Holders(t)
  BY DEF Finalize, CoreInv, RolesOK, Holders, Holding, Attempt, Threads
<1>2. \A th \in Threads : Holding(th)' <=> th # w /\ Holding(th)
  BY DEF Finalize, Go, Holding, Attempt, Threads, CoreInv, TypeOK
<1>3. \A th \in Threads : th # w => job'[th] = job[th]
  BY DEF Finalize, CoreInv, TypeOK
<1>4. ASSUME NEW u \in Tasks
      PROVE  Holders(u)' = IF u = t THEN {} ELSE Holders(u)
  BY <1>1, <1>2, <1>3 DEF Holders, Custody, ClientCustody
<1>5. InFlight' = InFlight \ {t} /\ t \in InFlight
  BY <1>1, <1>4 DEF InFlight
<1>6. UNCHANGED <<paused, poisoned>>
  BY DEF Finalize, schedVars
<1>7. \/ state[t] # "Gone" /\ state' = [u \in Tasks |-> IF u \in {t} THEN "Completed" ELSE state[u]]
      \/ state[t] = "Active" /\ state' = [u \in Tasks |-> IF u \in {t} THEN "Failed" ELSE state[u]]
      \/ /\ state[t] \in {"Active", "Queued"} /\ paused
         /\ state' = [u \in Tasks |-> IF u \in {t} THEN "Paused" ELSE state[u]]
      \/ state[t] # "Active" /\ state' = state
  <2>1. CASE t \notin Listed
    BY <2>1, <1>1 DEF Finalize, Listed, InState, Live
  <2>2. CASE t \in Listed
    <3>1. state' = [u \in Tasks |-> IF u \in {t} THEN FinalState(t, verdict[w]) ELSE state[u]]
      BY <2>2, <1>1 DEF Finalize, CoreInv, TypeOK
    <3>2. /\ state[t] \in {"Queued", "Active", "Paused", "Cancelled"}
          /\ state[t] = "Paused" => pauseFlag[t]
          /\ state[t] = "Cancelled" => cancelFlag[t]
          /\ cancelFlag[t] => state[t] = "Cancelled"
          /\ pauseFlag[t] => state[t] \notin {"Queued", "Active"}
      BY <1>1, <2>2 DEF CancelInv, CancelledIsFlagged, FlagInv, FlagsAgree, HeldIsOpen, Listed,
                        InState, Live, Terminal
    <3>3. \/ FinalState(t, verdict[w]) = "Completed"
          \/ FinalState(t, verdict[w]) = "Failed" /\ state[t] = "Active"
          \/ FinalState(t, verdict[w]) = "Paused" /\ paused /\ state[t] \in {"Active", "Queued"}
          \/ FinalState(t, verdict[w]) = state[t] /\ state[t] # "Active"
      BY <1>1, <3>2 DEF FinalState, CoreInv, TypeOK
    <3>4. FinalState(t, verdict[w]) = state[t] => state' = state
      BY <3>1 DEF CoreInv, TypeOK
    <3> HIDE DEF t
    <3> QED
      BY <3>1, <3>2, <3>3, <3>4
  <2> QED
    BY <2>1, <2>2
<1> HIDE DEF t
<1> QED
  BY <1>1, <1>5, <1>6, <1>7 DEF Lifecycle!Settle, Lifecycle!Become

(* Every step of the queue is a step or a stutter of the life cycle.        *)
LEMMA RefineStep ==
  ASSUME CoreInv, Custody, CancelInv, FlagInv, [Next]_vars
  PROVE  [Lifecycle!Next]_(Lifecycle!vars)
<1> DEFINE Same == UNCHANGED <<state, InFlight, paused, poisoned>>
           Keeps == KeepsHolders /\ UNCHANGED poisoned
<1>s. ASSUME Same PROVE UNCHANGED Lifecycle!vars
  BY <1>s DEF Lifecycle!vars
<1>n. \A th \in Threads : Holding(th) => job[th] \in Tasks
  BY DEF CoreInv, RolesOK
<1>k. ASSUME KeepsHolders PROVE InFlight' = InFlight
  BY <1>k, InFlightKept
<1> USE QueueAssumption
    DEF CoreInv, TypeOK, RolesOK, KeepsHolders, Holding, UIPlaces, WorkerPlaces, Attempt, Threads,
        Go, recVars, schedVars, workVars
<1>1. ASSUME NEW t \in Tasks, Enqueue(t) PROVE Lifecycle!Submit(t)
  <2>1. Keeps /\ UNCHANGED paused
    BY <1>1 DEF Enqueue
  <2>2. state[t] = "New" /\ state' = [u \in Tasks |-> IF u \in {t} THEN "Queued" ELSE state[u]]
    BY <1>1 DEF Enqueue
  <2> QED
    BY <1>k, <2>1, <2>2 DEF Lifecycle!Submit, Lifecycle!Become
<1>2. ASSUME NEW t \in Tasks, PauseTask(t) PROVE Lifecycle!Pause({t})
  <2>1. Keeps /\ UNCHANGED paused
    BY <1>2 DEF PauseTask, MarkPaused
  <2> QED
    BY <1>2, <1>k, <2>1
    DEF PauseTask, MarkPaused, Lifecycle!Pause, Lifecycle!Become, Lifecycle!AllIn
<1>3. ASSUME NEW t \in Tasks, ResumeTask(t) PROVE Lifecycle!Requeue({t})
  <2>1. Keeps /\ UNCHANGED paused
    BY <1>3 DEF ResumeTask, Requeue, Op
  <2> QED
    BY <1>3, <1>k, <2>1
    DEF ResumeTask, Requeue, Lifecycle!Requeue, Lifecycle!Become, Lifecycle!AllIn
<1>4. ASSUME NEW S \in SUBSET Tasks, Cancel(S) PROVE Lifecycle!Cancel(S \cap InState(Live))
  <2>1. Keeps /\ UNCHANGED paused
    BY <1>4 DEF Cancel
  <2> QED
    BY <1>4, <1>k, <2>1
    DEF Cancel, InState, Live, Lifecycle!Live, Lifecycle!Cancel, Lifecycle!Become, Lifecycle!AllIn
<1>5. ASSUME NEW S \in SUBSET Tasks, Clear(S) PROVE Lifecycle!Clear(S)
  <2>1. Keeps /\ UNCHANGED paused
    BY <1>5 DEF Clear
  <2> QED
    BY <1>5, <1>k, <2>1
    DEF Clear, InState, Terminal, Lifecycle!Terminal, Lifecycle!Clear, Lifecycle!Become,
        Lifecycle!AllIn
<1>6. ASSUME NEW S \in SUBSET Tasks, Retry(S) PROVE Lifecycle!Requeue(S)
  <2>1. Keeps /\ UNCHANGED paused
    BY <1>6 DEF Retry, Requeue, Op
  <2> QED
    BY <1>6, <1>k, <2>1
    DEF Retry, Requeue, InState, Lifecycle!Requeue, Lifecycle!Become, Lifecycle!AllIn
<1>7. ASSUME PauseAllStore \/ DropStore PROVE Lifecycle!Hold
  <2>1. Keeps
    BY <1>7 DEF PauseAllStore, DropStore, Op
  <2> QED
    BY <1>7, <1>k, <2>1 DEF PauseAllStore, DropStore, Lifecycle!Hold
<1>8. ASSUME ResumeAllStore PROVE Lifecycle!Release
  <2>1. Keeps
    BY <1>8 DEF ResumeAllStore, Op
  <2> QED
    BY <1>8, <1>k, <2>1 DEF ResumeAllStore, Lifecycle!Release
<1>9. ASSUME NEW n \in 1 .. MaxLimit, SetMaxConcurrent(n) PROVE Same
  <2>1. Keeps
    BY <1>9 DEF SetMaxConcurrent, Op
  <2> QED
    BY <1>9, <1>k, <2>1 DEF SetMaxConcurrent
<1>10. ASSUME PauseAllMark PROVE Lifecycle!Pause(InState({"Active"}))
  <2>1. Keeps /\ UNCHANGED paused
    BY <1>10 DEF PauseAllMark, MarkPaused
  <2> QED
    BY <1>10, <1>k, <2>1
    DEF PauseAllMark, MarkPaused, InState, Lifecycle!Pause, Lifecycle!Become, Lifecycle!AllIn
<1>11. ASSUME ResumeAllMark PROVE Lifecycle!Requeue(InState({"Paused"}))
  <2>1. Keeps /\ UNCHANGED paused
    BY <1>11 DEF ResumeAllMark, Requeue
  <2> QED
    BY <1>11, <1>k, <2>1
    DEF ResumeAllMark, Requeue, InState, Lifecycle!Requeue, Lifecycle!Become, Lifecycle!AllIn
<1>12. ASSUME DropMark PROVE Lifecycle!Cancel(InState(Live))
  <2>1. Keeps /\ UNCHANGED paused
    BY <1>12 DEF DropMark
  <2> QED
    BY <1>12, <1>k, <2>1
    DEF DropMark, InState, Live, Lifecycle!Live, Lifecycle!Cancel, Lifecycle!Become,
        Lifecycle!AllIn
<1>13. ASSUME NEW th \in Threads, ScheduleReturns(th) PROVE Same
  <2>1. Keeps
    BY <1>13 DEF ScheduleReturns, Resting
  <2> QED
    BY <1>13, <1>k, <2>1 DEF ScheduleReturns
<1>14. ASSUME NEW th \in Threads, SchedulePanics(th) PROVE \E t \in Tasks : Lifecycle!Halt(t)
  <2>1. PICK t \in NextQueued : ~home[t] /\ state' = [state EXCEPT ![t] = "Active"]
    BY <1>14 DEF SchedulePanics
  <2>2. t \in Tasks /\ state[t] = "Queued" /\ t \in InFlight
    BY <2>1 DEF NextQueued, QueuedTasks, InState, Custody, ClientCustody, InFlight, Listed, Live
  <2>3. KeepsHolders /\ UNCHANGED paused /\ ~paused /\ poisoned' = TRUE
    BY <1>14 DEF SchedulePanics, MayLaunch
  <2>4. state' = [u \in Tasks |-> IF u \in {t} THEN "Active" ELSE state[u]]
    BY <2>1, <2>2
  <2> QED
    BY <1>k, <2>2, <2>3, <2>4 DEF Lifecycle!Halt, Lifecycle!Become
<1>15. ASSUME NEW th \in Threads, Spawn(th) PROVE Same
  <2>1. PICK w \in Workers :
          /\ pc[w] = "free"
          /\ pc' = [pc EXCEPT ![w] = "connect", ![th] = "sched"]
          /\ job' = [job EXCEPT ![w] = job[th], ![th] = NoTask]
    BY <1>15 DEF Spawn
  <2>2. \A a \in Threads \ {w, th} : (Holding(a)' <=> Holding(a)) /\ job'[a] = job[a]
    BY <2>1
  <2>3. Holding(th) /\ ~Holding(w) /\ Holding(w)' /\ ~Holding(th)' /\ job'[w] = job[th]
    BY <1>15, <2>1 DEF Spawn
  <2>4. \A t \in Tasks : Holders(t)' # {} <=> Holders(t) # {}
    BY <2>2, <2>3 DEF Holders
  <2> QED
    BY <1>15, <2>4 DEF Spawn, InFlight
<1>16. ASSUME NEW w \in Workers, RunOne(w) PROVE Same
  <2>1. Keeps
    BY <1>16, AttemptFrame
  <2> QED
    BY <1>16, <1>k, <2>1, AttemptFrame
<1>17. ASSUME NEW w \in Workers, Retire(w) PROVE Same
  <2>1. Keeps
    BY <1>17 DEF Retire
  <2> QED
    BY <1>17, <1>k, <2>1 DEF Retire
<1>18. ASSUME UNCHANGED vars PROVE Same
  <2>1. Keeps
    BY <1>18 DEF vars
  <2> QED
    BY <1>18, <1>k, <2>1 DEF vars
<1> HIDE DEF Same
<1>19. CASE ~poisoned /\ Operation
  <2>1. ASSUME NEW S \in SUBSET Tasks, Cancel(S) PROVE Lifecycle!Next
    BY <1>4, <1>19, <2>1 DEF Lifecycle!Next, InState
  <2>2. ASSUME NEW S \in SUBSET Tasks, Clear(S) \/ Retry(S) PROVE Lifecycle!Next
    BY <1>5, <1>6, <1>19, <2>2 DEF Lifecycle!Next
  <2>3. ASSUME NEW t \in Tasks, Enqueue(t) \/ PauseTask(t) \/ ResumeTask(t) PROVE Lifecycle!Next
    <3>1. {t} \in SUBSET Tasks
      OBVIOUS
    <3>2. CASE Enqueue(t)
      BY <1>1, <1>19, <3>2 DEF Lifecycle!Next
    <3>3. CASE PauseTask(t)
      BY <1>2, <1>19, <3>1, <3>3 DEF Lifecycle!Next
    <3>4. CASE ResumeTask(t)
      BY <1>3, <1>19, <3>1, <3>4 DEF Lifecycle!Next
    <3> QED
      BY <2>3, <3>2, <3>3, <3>4
  <2>4. ASSUME PauseAllStore \/ ResumeAllStore \/ DropStore PROVE Lifecycle!Next
    BY <1>7, <1>8, <1>19, <2>4 DEF Lifecycle!Next
  <2> QED
    BY <1>9, <1>19, <1>s, <2>1, <2>2, <2>3, <2>4 DEF Operation, Scopes
<1>20. CASE ~poisoned /\ OperationEnds
  BY <1>10, <1>11, <1>12, <1>20 DEF OperationEnds, Lifecycle!Next, InState
<1>21. ASSUME ~poisoned, NEW th \in Threads, Schedule(th) PROVE Lifecycle!Next \/ Same
  BY <1>13, <1>14, <1>15, <1>21, PickLaunches DEF Schedule, Lifecycle!Next
<1>22. ASSUME ~poisoned, NEW w \in Workers, RunWorker(w) PROVE Lifecycle!Next \/ Same
  BY <1>16, <1>17, <1>22, FinalizeSettles DEF RunWorker, Lifecycle!Next
<1> QED
  BY <1>s, <1>18, <1>19, <1>20, <1>21, <1>22 DEF Next

(* The transfer queue implements the life of its tasks: every state its     *)
(* threads can reach, and every step they take, is one the abstract         *)
(* specification allows.                                                    *)
THEOREM QueueImplementsLifecycle == Spec => ImplementsLifecycle
<1>1. Init => Lifecycle!Init
  <2> SUFFICES ASSUME Init PROVE Lifecycle!Init
    OBVIOUS
  <2>1. \A t \in Tasks : Holders(t) = {}
    BY QueueAssumption DEF Init, Holders, Holding, Attempt, Resting, Threads
  <2>2. InFlight = {}
    BY <2>1 DEF InFlight
  <2> QED
    BY <2>2 DEF Init, Lifecycle!Init
<1>2. CoreInv /\ Custody /\ CancelInv /\ FlagInv /\ [Next]_vars
        => [Lifecycle!Next]_(Lifecycle!vars)
  BY RefineStep
<1> QED
  BY <1>1, <1>2, CoreInvariant, CustodyInvariant, CancelInvariant, FlagInvariant, PTL
  DEF Spec, ImplementsLifecycle, Lifecycle!Spec
=============================================================================
