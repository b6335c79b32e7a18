---------------------- MODULE MoveAfterTransferProofs ----------------------
(***************************************************************************)
(* Proofs about MoveAfterTransfer, for any selection of finitely many       *)
(* files, any records in the queue and any user.                            *)
(*                                                                          *)
(* The verdict counts records and looks at them; what makes it safe is that *)
(* the count can only be right when the record of every file is still       *)
(* there.  MoveInv says what that is worth in each place of the mover, and  *)
(* that a file with a completed record is finished for good: its record is  *)
(* never requeued, and no worker is at it.                                  *)
(***************************************************************************)
EXTENDS MoveAfterTransfer, FiniteSetTheorems, TLAPS

Finished(f) ==
  /\ phase[Task(f)] \in {"Completed", "Gone"}
  /\ Task(f) \notin inFlight
  /\ f \in delivered \cup Conflicts

RecordInv ==
  /\ \A f \in Files : phase[Task(f)] = "Completed" => Finished(f)
  /\ \A t \in inFlight : phase[t] # "New"
  /\ Earlier = {} => \A f \in Files : phase[<<"earlier", f>>] = "New"
  /\ "clear" \notin UserOps => \A t \in Tasks : phase[t] # "Gone"

MoverInv ==
  /\ ~CollectFails /\ mover # "collect" => collected = Files
  /\ mover \in {"watch", "verdict", "judge", "delete"} => \A f \in collected : phase[Task(f)] # "New"
  /\ Undisturbed /\ mover = "judge" =>
       /\ direction = "download"
       /\ \A f \in Files : phase[Task(f)] \notin {"New", "Gone"}
  /\ Undisturbed /\ mover = "delete" => \A f \in Files : Finished(f)
  /\ source # Files => mover = "done"
  /\ Undisturbed /\ source # Files => \A f \in Files : Finished(f)

MoveInv == TypeOK /\ RecordInv /\ MoverInv

-----------------------------------------------------------------------------
(* Counting. *)

(* When the records are counted and their number is right, the record of    *)
(* every file is among them: either none is ever cleared, or there are no   *)
(* others to be counted instead.                                            *)
LEMMA CountedAreAll ==
  ASSUME MoveInv, Undisturbed, mover \in {"verdict", "judge"}, Cardinality(Watched) >= Expected
  PROVE  \A f \in Files : Task(f) \in Watched
<1> DEFINE moved == {Task(f) : f \in Files}
<1>1. collected = Files /\ \A f \in Files : phase[Task(f)] # "New" /\ Task(f) \in Tasks
  BY DEF MoveInv, MoverInv, Undisturbed, Task, Tasks
<1>2. \A t \in Tasks : t[2] \in Files
  BY DEF Tasks
<1>3. Watched = Listed
  BY <1>2 DEF Watched, Listed
<1>4. CASE "clear" \notin UserOps
  BY <1>1, <1>3, <1>4 DEF Listed, MoveInv, RecordInv
<1>5. CASE Earlier = {}
  <2>1. Listed \subseteq moved
    <3> SUFFICES ASSUME NEW t \in Listed PROVE t \in moved
      OBVIOUS
    <3>1. t \in Tasks /\ phase[t] # "New"
      BY DEF Listed
    <3>2. PICK k \in {"earlier", "move"}, f \in Files : t = <<k, f>>
      BY <3>1 DEF Tasks
    <3>3. k # "earlier"
      BY <1>5, <3>1, <3>2 DEF MoveInv, RecordInv
    <3> QED BY <3>2, <3>3 DEF Task
  <2>2. IsFiniteSet(moved) /\ Cardinality(moved) = Cardinality(Files)
    <3> DEFINE g == [f \in Files |-> Task(f)]
    <3>1. g \in Bijection(Files, moved)
      BY DEF Bijection, Injection, Surjection, IsInjective, Task
    <3>2. ExistsBijection(Files, moved)
      BY <3>1 DEF ExistsBijection
    <3> QED BY <3>2, FS_Bijection, MoveAssumption
  <2>3. Cardinality(Listed) <= Cardinality(moved) /\ (Cardinality(moved) = Cardinality(Listed) => moved = Listed)
    BY <2>1, <2>2, FS_Subset
  <2>4. Cardinality(Listed) \in Nat /\ Cardinality(moved) \in Nat
    BY <2>1, <2>2, FS_Subset, FS_CardinalityType
  <2>5. moved = Listed
    BY <1>1, <1>3, <2>2, <2>3, <2>4 DEF Expected
  <2> QED BY <1>3, <2>5
<1> QED BY <1>4, <1>5 DEF Undisturbed

-----------------------------------------------------------------------------
(* Types. *)

(* What the queue does to its variables keeps their types. *)
LEMMA QueueTypes ==
  ASSUME TypeOK,
         \/ \E t \in Tasks : Queue!Submit(t) \/ Queue!Launch(t) \/ Queue!Settle(t) \/ Queue!Halt(t)
         \/ \E S \in SUBSET Tasks : Queue!Cancel(S) \/ Queue!Pause(S) \/ Queue!Requeue(S) \/ Queue!Clear(S)
         \/ Queue!Hold \/ Queue!Release
         \/ UNCHANGED queueVars
  PROVE  /\ phase' \in [Tasks -> Queue!Phases]
         /\ inFlight' \subseteq Tasks
         /\ held' \in BOOLEAN
         /\ halted' \in BOOLEAN
<1> USE DEF TypeOK, Queue!Phases, Queue!Live, Queue!Terminal
<1>1. \A S \in SUBSET Tasks, p \in Queue!Phases :
        Queue!Become(S, p) => phase' \in [Tasks -> Queue!Phases]
  BY DEF Queue!Become
<1>2. \A t \in Tasks, p \in Queue!Phases :
        Queue!Become({t}, p) => phase' \in [Tasks -> Queue!Phases]
  BY <1>1
<1>3. CASE \E t \in Tasks : Queue!Submit(t) \/ Queue!Launch(t) \/ Queue!Settle(t) \/ Queue!Halt(t)
  BY <1>2, <1>3 DEF Queue!Submit, Queue!Launch, Queue!Settle, Queue!Halt
<1>4. CASE \E S \in SUBSET Tasks : Queue!Cancel(S) \/ Queue!Pause(S) \/ Queue!Requeue(S) \/ Queue!Clear(S)
  BY <1>1, <1>4 DEF Queue!Cancel, Queue!Pause, Queue!Requeue, Queue!Clear
<1>5. CASE Queue!Hold \/ Queue!Release \/ UNCHANGED queueVars
  BY <1>5 DEF Queue!Hold, Queue!Release, queueVars
<1> QED BY <1>3, <1>4, <1>5

LEMMA TypeInit == Init => TypeOK
BY DEF Init, TypeOK, Tasks, MoverPlaces, Queue!Phases, Queue!Live, Queue!Terminal

LEMMA TypeStep == TypeOK /\ [Next]_vars => TypeOK'
<1> SUFFICES ASSUME TypeOK, [Next]_vars PROVE TypeOK'
  OBVIOUS
<1> USE DEF MoverPlaces
<1>1. CASE Collect
  <2>1. \A S \in SUBSET Selection : UNION S \subseteq Files
    BY DEF Files
  <2>2. collected' \subseteq Files
    BY <1>1, <2>1 DEF Collect
  <2> QED BY <1>1, <2>2, QueueTypes DEF Collect, TypeOK
<1>2. CASE Decline \/ StartWatch \/ Poll
  BY <1>2, QueueTypes DEF Decline, StartWatch, Poll, TypeOK
<1>3. CASE Verdict
  <2>1. mover' \in MoverPlaces
    BY <1>3 DEF Verdict, JudgeUpload, CountDownload, JudgeDownload
  <2> QED BY <1>3, <2>1, QueueTypes DEF Verdict, TypeOK
<1>4. CASE DeleteSources
  BY <1>4, QueueTypes DEF DeleteSources, TypeOK
<1>5. CASE \E f \in Files : QueueFile(f)
  <2>1. PICK f \in Files : QueueFile(f)
    BY <1>5
  <2>2. Task(f) \in Tasks
    BY DEF Task, Tasks
  <2> QED BY <2>1, <2>2, QueueTypes DEF QueueFile, moveVars, TypeOK
<1>6. CASE QueueWorks
  <2>1. PICK t \in Tasks : Launch(t) \/ Settle(t) \/ Halt(t)
    BY <1>6 DEF QueueWorks
  <2>2. t[2] \in Files
    BY DEF Tasks
  <2>3. Queue!Launch(t) \/ Queue!Settle(t) \/ Queue!Halt(t)
    BY <2>1 DEF Launch, Settle, Halt
  <2>4. /\ delivered' \subseteq Files
        /\ UNCHANGED <<direction, mover, collected, source>>
    BY <2>1, <2>2 DEF Launch, Settle, Halt, moveVars, TypeOK
  <2> QED BY <2>3, <2>4, QueueTypes DEF TypeOK
<1>7. CASE UserActs
  <2>1. UNCHANGED moveVars
    BY <1>7 DEF UserActs
  <2>2. \/ \E S \in SUBSET Tasks : Queue!Cancel(S) \/ Queue!Pause(S) \/ Queue!Requeue(S) \/ Queue!Clear(S)
        \/ Queue!Hold \/ Queue!Release
    BY <1>7 DEF UserActs
  <2> QED BY <2>1, <2>2, QueueTypes DEF TypeOK, moveVars
<1>8. CASE UNCHANGED vars
  BY <1>8, QueueTypes DEF vars, moveVars, TypeOK
<1> QED BY <1>1, <1>2, <1>3, <1>4, <1>5, <1>6, <1>7, <1>8 DEF Next, Move

(* Every variable keeps its type. *)
THEOREM TypeCorrect == Spec => []TypeOK
BY TypeInit, TypeStep, PTL DEF Spec

-----------------------------------------------------------------------------
(* The records. *)

(* A step of the queue, as far as one record is concerned: once finished it *)
(* stays so.                                                                *)
LEMMA FinishedStays ==
  ASSUME TypeOK, [Next]_vars, NEW f \in Files, Finished(f)
  PROVE  Finished(f)'
<1>1. Task(f) \in Tasks
  BY DEF Task, Tasks
<1> USE DEF Finished, TypeOK
<1>2. CASE UNCHANGED <<phase, inFlight>> /\ delivered' = delivered
  BY <1>2 DEF Task
<1>3. CASE \E g \in Files : QueueFile(g)
  <2>1. PICK g \in Files : QueueFile(g)
    BY <1>3
  <2>2. phase[Task(g)] = "New"
    BY <2>1 DEF QueueFile, Queue!Submit
  <2>3. phase'[Task(f)] = phase[Task(f)] /\ inFlight' = inFlight /\ delivered' = delivered
    BY <1>1, <2>1, <2>2 DEF QueueFile, Queue!Submit, Queue!Become, moveVars
  <2> QED BY <2>3 DEF Task
<1>4. CASE QueueWorks
  <2>1. PICK t \in Tasks : Launch(t) \/ Settle(t) \/ Halt(t)
    BY <1>4 DEF QueueWorks
  <2>2. t # Task(f)
    BY <2>1 DEF Launch, Settle, Halt, Queue!Launch, Queue!Settle, Queue!Halt
  <2>3. phase'[Task(f)] = phase[Task(f)]
    BY <1>1, <2>1, <2>2 DEF Launch, Settle, Halt, Queue!Launch, Queue!Settle, Queue!Halt, Queue!Become
  <2>4. Task(f) \notin inFlight' /\ delivered \subseteq delivered'
    BY <2>1, <2>2 DEF Launch, Settle, Halt, Queue!Launch, Queue!Settle, Queue!Halt, moveVars
  <2> QED BY <2>3, <2>4 DEF Task
<1>5. CASE UserActs
  <2>1. UNCHANGED <<inFlight, delivered>>
    BY <1>5 DEF UserActs, moveVars, Queue!Cancel, Queue!Pause, Queue!Requeue, Queue!Clear, Queue!Hold, Queue!Release
  <2>2. phase'[Task(f)] \in {phase[Task(f)], "Gone"}
    BY <1>1, <1>5 DEF UserActs, Queue!Cancel, Queue!Pause, Queue!Requeue, Queue!Clear, Queue!Hold, Queue!Release,
       Queue!Become, Queue!AllIn, Queue!Live
  <2> QED BY <2>1, <2>2 DEF Task
<1> QED BY <1>2, <1>3, <1>4, <1>5 DEF Next, Move, Collect, Decline, StartWatch, Poll, Verdict,
           DeleteSources, queueVars, vars, moveVars

LEMMA RecordInit == Init => RecordInv
<1> SUFFICES ASSUME Init PROVE RecordInv
  OBVIOUS
<1>1. \A f \in Files : phase[Task(f)] = "New" /\ Task(f) \in Tasks /\ <<"earlier", f>> \in Tasks
  BY DEF Init, Task, Tasks
<1>2. \A t \in Tasks : phase[t] \in {"New", "Completed"}
  BY DEF Init
<1>3. Earlier = {} => \A t \in Tasks : phase[t] = "New"
  BY DEF Init
<1> QED BY <1>1, <1>2, <1>3 DEF RecordInv, Init

LEMMA RecordStep == TypeOK /\ RecordInv /\ [Next]_vars => RecordInv'
<1> SUFFICES ASSUME TypeOK, RecordInv, [Next]_vars PROVE RecordInv'
  OBVIOUS
<1>1. \A f \in Files : Task(f) \in Tasks /\ <<"earlier", f>> \in Tasks
  BY DEF Task, Tasks
<1>2. CASE UNCHANGED <<phase, inFlight>> /\ delivered' = delivered
  BY <1>2 DEF RecordInv, Finished, Task
<1>3. CASE \E g \in Files : QueueFile(g)
  <2>1. PICK g \in Files : QueueFile(g)
    BY <1>3
  <2>2. inFlight' = inFlight /\ Queue!Become({Task(g)}, "Queued")
    BY <2>1 DEF QueueFile, Queue!Submit
  <2>3. \A t \in Tasks : phase'[t] = IF t = Task(g) THEN "Queued" ELSE phase[t]
    BY <2>2 DEF Queue!Become
  <2>4. \A f \in Files : phase'[Task(f)] = "Completed" => Finished(f)'
    BY <1>1, <2>3, FinishedStays DEF RecordInv, Task
  <2>5. \A f \in Files : <<"earlier", f>> # Task(g)
    BY DEF Task
  <2> QED BY <1>1, <2>2, <2>3, <2>4, <2>5 DEF RecordInv, TypeOK, Task
<1>4. CASE QueueWorks
  <2>1. PICK t \in Tasks : Launch(t) \/ Settle(t) \/ Halt(t)
    BY <1>4 DEF QueueWorks
  <2>2. \/ phase' = phase
        \/ Queue!Become({t}, phase'[t]) /\ phase'[t] \notin {"New", "Gone"}
    BY <2>1 DEF Launch, Settle, Halt, Queue!Launch, Queue!Settle, Queue!Halt, Queue!Become, TypeOK
  <2>3. \A u \in Tasks : u # t => phase'[u] = phase[u]
    BY <2>2 DEF Queue!Become
  <2>4. phase[t] # "New" /\ phase'[t] # "New"
    BY <2>1, <2>2 DEF Launch, Settle, Halt, Queue!Launch, Queue!Settle, Queue!Halt, RecordInv
  <2>5. inFlight' \subseteq inFlight \cup {t}
    BY <2>1 DEF Launch, Settle, Halt, Queue!Launch, Queue!Settle, Queue!Halt
  <2>6. \A u \in inFlight' : phase'[u] # "New"
    BY <2>3, <2>4, <2>5 DEF RecordInv, TypeOK
  <2>7. Earlier = {} => \A f \in Files : phase'[<<"earlier", f>>] = "New"
    BY <1>1, <2>3, <2>4 DEF RecordInv
  <2>8. "clear" \notin UserOps => \A u \in Tasks : phase'[u] # "Gone"
    BY <2>2, <2>3 DEF RecordInv
  <2>9. ASSUME NEW f \in Files, phase'[Task(f)] = "Completed" PROVE Finished(f)'
    <3>1. CASE phase[Task(f)] = "Completed"
      BY <3>1, FinishedStays DEF RecordInv
    <3>2. CASE phase[Task(f)] # "Completed"
      <4>1. t = Task(f)
        BY <1>1, <2>3, <2>9, <3>2
      <4>2. Settle(t)
        BY <2>1, <2>9, <4>1 DEF Launch, Halt, Queue!Launch, Queue!Halt, Queue!Become
      <4>3. Task(f) \notin inFlight'
        BY <4>1, <4>2 DEF Settle, Queue!Settle
      <4>4. f \in delivered' \cup Conflicts
        BY <2>9, <4>1, <4>2 DEF Settle, Task
      <4> QED BY <2>9, <4>3, <4>4 DEF Finished, Task
    <3> QED BY <3>1, <3>2
  <2> QED BY <2>6, <2>7, <2>8, <2>9 DEF RecordInv, Task
<1>5. CASE UserActs
  <2>1. inFlight' = inFlight
    BY <1>5 DEF UserActs, Queue!Cancel, Queue!Pause, Queue!Requeue, Queue!Clear, Queue!Hold, Queue!Release
  <2>2. PICK S \in SUBSET Tasks, p \in {"Cancelled", "Paused", "Queued", "Gone"} :
          /\ \A t \in Tasks : phase'[t] = IF t \in S THEN p ELSE phase[t]
          /\ \A t \in S : phase[t] # "New"
          /\ p = "Gone" => "clear" \in UserOps
    <3>1. CASE UNCHANGED phase
      <4>1. \A t \in Tasks : phase'[t] = IF t \in {} THEN "Paused" ELSE phase[t]
        BY <3>1
      <4>2. {} \in SUBSET Tasks
        OBVIOUS
      <4> QED BY <4>1, <4>2, Zenon
    <3>2. CASE \E S \in SUBSET Tasks : Queue!Cancel(S)
      BY <3>2, Zenon DEF Queue!Cancel, Queue!Become, Queue!AllIn, Queue!Live
    <3>3. CASE \E S \in SUBSET Tasks : Queue!Pause(S)
      BY <3>3, Zenon DEF Queue!Pause, Queue!Become, Queue!AllIn
    <3>4. CASE \E S \in SUBSET Tasks : Queue!Requeue(S)
      BY <3>4, Zenon DEF Queue!Requeue, Queue!Become, Queue!AllIn
    <3>5. CASE "clear" \in UserOps /\ \E S \in SUBSET Tasks : Queue!Clear(S)
      BY <3>5, Zenon DEF Queue!Clear, Queue!Become, Queue!AllIn, Queue!Terminal
    <3> QED BY <1>5, <3>1, <3>2, <3>3, <3>4, <3>5 DEF UserActs, Queue!Hold, Queue!Release
  <2>3. \A f \in Files : phase'[Task(f)] = "Completed" => Finished(f)'
    BY <1>1, <2>2, FinishedStays DEF RecordInv, Task
  <2>4. \A t \in inFlight' : phase'[t] # "New"
    BY <2>1, <2>2 DEF RecordInv, TypeOK
  <2>5. Earlier = {} => \A f \in Files : phase'[<<"earlier", f>>] = "New"
    BY <1>1, <2>2 DEF RecordInv
  <2>6. "clear" \notin UserOps => \A t \in Tasks : phase'[t] # "Gone"
    BY <2>2 DEF RecordInv
  <2> QED BY <2>3, <2>4, <2>5, <2>6 DEF RecordInv, Task
<1> QED BY <1>2, <1>3, <1>4, <1>5 DEF Next, Move, Collect, Decline, StartWatch, Poll, Verdict,
           DeleteSources, queueVars, vars, moveVars

-----------------------------------------------------------------------------
(* The mover. *)

(* A record that is in the list, or that once was, is never new again; and  *)
(* one that is in the list stays there unless the user clears it.           *)
LEMMA ListedStays ==
  ASSUME TypeOK, RecordInv, [Next]_vars, NEW t \in Tasks, phase[t] # "New"
  PROVE  /\ phase'[t] # "New"
         /\ Undisturbed /\ mover = "judge" /\ phase[t] # "Gone" => phase'[t] # "Gone"
<1>1. CASE UNCHANGED phase
  BY <1>1
<1>2. CASE \E g \in Files : QueueFile(g)
  <2>1. PICK g \in Files : QueueFile(g)
    BY <1>2
  <2> QED BY <2>1 DEF QueueFile, Queue!Submit, Queue!Become
<1>3. CASE QueueWorks
  BY <1>3 DEF QueueWorks, Launch, Settle, Halt, Queue!Launch, Queue!Settle, Queue!Halt, Queue!Become
<1>4. CASE UserActs
  BY <1>4 DEF UserActs, Undisturbed, Queue!Cancel, Queue!Pause, Queue!Requeue, Queue!Clear, Queue!Hold,
     Queue!Release, Queue!Become
<1> QED BY <1>1, <1>2, <1>3, <1>4 DEF Next, Move, Collect, Decline, StartWatch, Poll, Verdict,
           DeleteSources, queueVars, vars

LEMMA MoverInit == Init => MoverInv
BY DEF Init, MoverInv

(* A step that is not the mover's own leaves it where it is. *)
LEMMA MoverRests ==
  ASSUME MoveInv, [Next]_vars, UNCHANGED <<mover, collected, source, direction>>
  PROVE  MoverInv'
<1>1. \A f \in Files : Finished(f) => Finished(f)'
  BY FinishedStays DEF MoveInv
<1>2. \A f \in Files : Task(f) \in Tasks /\ Task(f)' = Task(f)
  BY DEF Task, Tasks
<1>3. mover \in {"watch", "verdict", "judge", "delete"} => \A f \in collected : phase'[Task(f)] # "New"
  BY <1>2, ListedStays DEF MoveInv, MoverInv, TypeOK
<1>4. Undisturbed /\ mover = "judge" => \A f \in Files : phase'[Task(f)] \notin {"New", "Gone"}
  BY <1>2, ListedStays DEF MoveInv, MoverInv
<1> QED BY <1>1, <1>2, <1>3, <1>4 DEF MoveInv, MoverInv, Undisturbed

LEMMA MoverStep == MoveInv /\ [Next]_vars => MoverInv'
<1> SUFFICES ASSUME MoveInv, [Next]_vars PROVE MoverInv'
  OBVIOUS
<1>1. CASE Collect
  <2>1. ~CollectFails => collected' = Files
    BY <1>1 DEF Collect, Files
  <2> QED BY <1>1, <2>1 DEF Collect, MoveInv, MoverInv, queueVars
<1>2. CASE Decline
  BY <1>2 DEF Decline, MoveInv, MoverInv, Finished, queueVars, Task
<1>3. CASE \E f \in Files : QueueFile(f)
  BY <1>3, MoverRests DEF QueueFile, moveVars
<1>4. CASE StartWatch
  BY <1>4 DEF StartWatch, MoveInv, MoverInv, Finished, queueVars, Task
<1>5. CASE Poll
  BY <1>5 DEF Poll, MoveInv, MoverInv, Finished, queueVars, Task
<1>6. CASE Verdict
  <2>0. UNCHANGED <<phase, inFlight, direction, collected, source, delivered>> /\ source = Files
    BY <1>6 DEF Verdict, JudgeUpload, CountDownload, JudgeDownload, queueVars, MoveInv, MoverInv
  <2>1. \A f \in Files : Finished(f)' = Finished(f)
    BY <2>0 DEF Finished, Task
  <2>2. \A f \in collected : phase'[Task(f)] # "New"
    BY <1>6, <2>0 DEF Verdict, JudgeUpload, CountDownload, JudgeDownload, MoveInv, MoverInv
  <2>3. ~CollectFails => collected = Files
    BY <1>6 DEF Verdict, JudgeUpload, CountDownload, JudgeDownload, MoveInv, MoverInv
  <2>4. Undisturbed /\ mover' = "judge" =>
          direction = "download" /\ \A f \in Files : phase[Task(f)] \notin {"New", "Gone"}
    <3> SUFFICES ASSUME Undisturbed, mover' = "judge"
                 PROVE  direction = "download" /\ \A f \in Files : phase[Task(f)] \notin {"New", "Gone"}
      OBVIOUS
    <3>1. direction = "download" /\ mover = "verdict" /\ Cardinality(Watched) >= Expected
      BY <1>6 DEF Verdict, JudgeUpload, CountDownload, JudgeDownload
    <3>2. \A f \in Files : Task(f) \in Watched
      BY <3>1, CountedAreAll
    <3> QED BY <3>1, <3>2 DEF Watched, Listed
  <2>5. Undisturbed /\ mover' = "delete" => \A f \in Files : Finished(f)
    <3> SUFFICES ASSUME Undisturbed, mover' = "delete"
                 PROVE  \A f \in Files : Finished(f)
      OBVIOUS
    <3>1. \A t \in Watched : phase[t] = "Completed"
      BY <1>6 DEF Verdict, JudgeUpload, CountDownload, JudgeDownload, AllCompleted
    <3>2. \A f \in Files : Task(f) \in Watched
      <4>1. CASE JudgeUpload
        BY <4>1, CountedAreAll DEF JudgeUpload, AllCompleted
      <4>2. CASE JudgeDownload
        BY <4>2 DEF JudgeDownload, Watched, Listed, MoveInv, MoverInv, Task, Tasks
      <4> QED BY <1>6, <4>1, <4>2 DEF Verdict, CountDownload
    <3> QED BY <3>1, <3>2 DEF MoveInv, RecordInv
  <2> QED BY <2>0, <2>1, <2>2, <2>3, <2>4, <2>5 DEF MoverInv, Undisturbed, Task
<1>7. CASE DeleteSources
  <2>1. \A f \in Files : Finished(f)' = Finished(f)
    BY <1>7 DEF DeleteSources, Finished, Task, queueVars
  <2> QED BY <1>7, <2>1 DEF DeleteSources, MoveInv, MoverInv, Undisturbed
<1>8. CASE QueueWorks \/ UserActs \/ UNCHANGED vars
  BY <1>8, MoverRests DEF QueueWorks, UserActs, Launch, Settle, Halt, vars, moveVars
<1> QED BY <1>1, <1>2, <1>3, <1>4, <1>5, <1>6, <1>7, <1>8 DEF Next, Move

(* The inductive invariant. *)
THEOREM MoveInvariant == Spec => []MoveInv
<1>1. Init => MoveInv
  BY TypeInit, RecordInit, MoverInit DEF MoveInv
<1>2. MoveInv /\ [Next]_vars => MoveInv'
  BY TypeStep, RecordStep, MoverStep DEF MoveInv
<1> QED BY <1>1, <1>2, PTL DEF Spec

-----------------------------------------------------------------------------
(* Results. *)

(* No file is lost by an undisturbed move: what is gone from the source has *)
(* arrived, or the user chose to skip it (watch_uploads_then_delete_local,  *)
(* watch_downloads_then_delete_remote).                                     *)
THEOREM MoveLosesNothing == Spec => []NothingLost
<1>1. MoveInv => NothingLost
  BY DEF MoveInv, MoverInv, NothingLost, Finished, TypeOK
<1> QED BY <1>1, MoveInvariant, PTL

(* No worker of the move is left reading a source that is deleted, although *)
(* the verdict looks at records and never at workers.                       *)
THEOREM MoveLeavesNoReader == Spec => []NoReaderLeft
<1>1. MoveInv => NoReaderLeft
  <2> SUFFICES ASSUME MoveInv, Undisturbed, NEW t \in inFlight, t[1] = "move", t[2] \notin source
               PROVE  FALSE
    BY DEF NoReaderLeft
  <2>1. t = Task(t[2]) /\ t[2] \in Files
    BY DEF MoveInv, TypeOK, Tasks, Task
  <2>2. Finished(t[2])
    BY <2>1 DEF MoveInv, MoverInv
  <2> QED BY <2>1, <2>2 DEF Finished
<1> QED BY <1>1, MoveInvariant, PTL

(* What the documentation of watch_uploads_then_delete_local promises holds *)
(* of an undisturbed move: sources go only when every file has arrived.     *)
THEOREM UndisturbedMoveIsWhole == Spec => [](Undisturbed => MoveOnlyOnSuccess)
<1>1. MoveInv => (Undisturbed => MoveOnlyOnSuccess)
  BY DEF MoveInv, MoverInv, MoveOnlyOnSuccess, Finished
<1> QED BY <1>1, MoveInvariant, PTL
=============================================================================
