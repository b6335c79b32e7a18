------------------------- MODULE MoveAfterTransfer -------------------------
(***************************************************************************)
(* Moving a selection between the panes (crates/freescp-app/src/main.rs):   *)
(* the files are collected, queued as ordinary transfers, and a task on the *)
(* tokio runtime polls the queue until it may delete the sources.           *)
(*                                                                          *)
(* The queue is the one TransferQueue implements, at the level of           *)
(* TransferLifecycle: the mover sees its records only through snapshots of  *)
(* mgr.tasks(), while workers and the user keep changing them.  A record is *)
(* a pair of an operation, "move" or an "earlier" copy of the same files to *)
(* somewhere else, and a file.                                              *)
(***************************************************************************)
EXTENDS Naturals, FiniteSets

CONSTANTS
  Selection,     \* the selected entries, each the set of the files below it
  Directions,    \* "upload" (local sources) and "download" (remote sources)
  Earlier,       \* files with a Completed record of an earlier operation in the queue
  Conflicts,     \* files the destination already has: the user may answer Skip
  CollectFails,  \* listing a selected entry may fail
  ClearBetween,  \* the user may clear records while a download's verdict is taken
  InRuntime,     \* the event-loop thread is inside a tokio runtime: in this program it is not
  UserOps        \* what the user does with the queue meanwhile

Files == UNION Selection
Tasks == {"earlier", "move"} \X Files

ASSUME MoveAssumption ==
  /\ IsFiniteSet(Files)
  /\ Directions \subseteq {"upload", "download"}
  /\ Earlier \subseteq Files
  /\ Conflicts \subseteq Files
  /\ CollectFails \in BOOLEAN
  /\ ClearBetween \in BOOLEAN
  /\ InRuntime \in BOOLEAN
  /\ UserOps \subseteq {"cancel", "pause", "requeue", "clear", "hold"}

VARIABLES
  phase, inFlight, held, halted,  \* the queue: see TransferLifecycle
  direction,
  mover,      \* where the operation is
  collected,  \* the files that were found; `expected` is their number
  source,     \* files that still exist where they came from
  delivered   \* files the move has brought to the destination

queueVars == <<phase, inFlight, held, halted>>
moveVars == <<direction, mover, collected, source, delivered>>
vars == <<queueVars, moveVars>>

Queue == INSTANCE TransferLifecycle

Listed == {t \in Tasks : phase[t] \notin {"New", "Gone"}}
Task(f) == <<"move", f>>
Expected == Cardinality(collected)

Init ==
  /\ phase = [t \in Tasks |-> IF t[1] = "earlier" /\ t[2] \in Earlier THEN "Completed" ELSE "New"]
  /\ inFlight = {}
  /\ held = FALSE
  /\ halted = FALSE
  /\ direction \in Directions
  /\ mover = "collect"
  /\ collected = {}
  /\ source = Files
  /\ delivered = {}

-----------------------------------------------------------------------------
(* The operation. *)

(* Mutant: the entries are queued instead of the files below them. *)
CollectEntries ==
  /\ mover = "collect"
  /\ collected' = Selection
  /\ mover' = "queue"
  /\ UNCHANGED <<queueVars, direction, source, delivered>>

(* An upload leaves out the entries it could not list; a download that      *)
(* cannot list one entry goes on with no file at all.                       *)
Collect ==
  /\ mover = "collect"
  /\ \E found \in IF ~CollectFails THEN {Selection}
                  ELSE IF direction = "upload" THEN SUBSET Selection
                  ELSE {Selection, {}} :
       collected' = UNION found
  /\ mover' = "queue"
  /\ UNCHANGED <<queueVars, direction, source, delivered>>

(* The user declines the confirmation of a large selection. *)
Decline ==
  /\ mover = "queue"
  /\ \A f \in collected : phase[Task(f)] = "New"
  /\ mover' = "done"
  /\ UNCHANGED <<queueVars, direction, collected, source, delivered>>

(* One event-loop callback queues every file; workers start meanwhile.      *)
QueueFile(f) ==
  /\ mover = "queue"
  /\ f \in collected
  /\ Queue!Submit(Task(f))
  /\ UNCHANGED moveVars

(* The watcher is spawned from the same callback, with Handle::current(),   *)
(* which panics on a thread outside a runtime.  The event loop's is one, so *)
(* the program ends here (InRuntime = FALSE); what comes after is what its  *)
(* watchers would do if they were spawned inside the runtime.               *)
StartWatch ==
  /\ mover = "queue"
  /\ \A f \in collected : phase[Task(f)] # "New"
  /\ mover' = IF InRuntime THEN "watch" ELSE "panicked"
  /\ UNCHANGED <<queueVars, direction, collected, source, delivered>>

(* The records a poll looks at.  For an upload those whose source lies in   *)
(* the selection, from whatever operation; for a download the whole queue.  *)
Watched == IF direction = "upload" THEN {t \in Listed : t[2] \in Files} ELSE Listed

(* Enough records, and every one has come to rest. *)
Settled ==
  /\ Cardinality(Watched) >= Expected
  /\ \A t \in Watched : phase[t] \in Queue!Terminal

Poll ==
  /\ mover = "watch"
  /\ ~halted
  /\ Settled
  /\ mover' = "verdict"
  /\ UNCHANGED <<queueVars, direction, collected, source, delivered>>

(* Mutants: the records are not counted again; cancelled is good enough. *)
AllCompletedUncounted == \A t \in Watched : phase[t] = "Completed"
AllCompletedOrCancelled ==
  /\ Cardinality(Watched) >= Expected
  /\ \A t \in Watched : phase[t] \in {"Completed", "Cancelled"}

AllCompleted ==
  /\ Cardinality(Watched) >= Expected
  /\ \A t \in Watched : phase[t] = "Completed"

(* The verdict on an upload is taken from a second snapshot. *)
JudgeUpload ==
  /\ mover = "verdict"
  /\ direction = "upload"
  /\ mover' = IF AllCompleted THEN "delete" ELSE "done"

(* The one on a download from two more: the first is counted, the second    *)
(* looked through.                                                          *)
CountDownload ==
  /\ mover = "verdict"
  /\ direction = "download"
  /\ mover' = IF Cardinality(Watched) >= Expected THEN "judge" ELSE "done"

JudgeDownload ==
  /\ mover = "judge"
  /\ mover' = IF \A t \in Watched : phase[t] = "Completed" THEN "delete" ELSE "done"

Verdict ==
  /\ ~halted
  /\ JudgeUpload \/ CountDownload \/ JudgeDownload
  /\ UNCHANGED <<queueVars, direction, collected, source, delivered>>

(* The selected entries are deleted with all that is below them, collected  *)
(* or not; a deletion may fail half-way and is only reported.               *)
DeleteSources ==
  /\ mover = "delete"
  /\ \E gone \in SUBSET Files : source' = source \ gone
  /\ mover' = "done"
  /\ UNCHANGED <<queueVars, direction, collected, delivered>>

-----------------------------------------------------------------------------
(* The queue meanwhile. *)

Launch(t) == Queue!Launch(t) /\ UNCHANGED moveVars

(* An attempt that completes has copied its file, unless the user skipped   *)
(* an existing destination: that is Done, too.                              *)
Settle(t) ==
  /\ Queue!Settle(t)
  /\ \/ /\ phase'[t] = "Completed"
        /\ \/ delivered' = delivered \cup (IF t[1] = "move" THEN {t[2]} ELSE {})
           \/ t[2] \in Conflicts /\ UNCHANGED delivered
     \/ phase'[t] # "Completed" /\ UNCHANGED delivered
  /\ UNCHANGED <<direction, mover, collected, source>>

(* The event loop runs one callback at a time. *)
UserActs ==
  /\ mover # "queue"
  /\ \/ "cancel" \in UserOps /\ \E S \in SUBSET Tasks : S # {} /\ Queue!Cancel(S)
     \/ "pause" \in UserOps /\ \E S \in SUBSET Tasks : S # {} /\ Queue!Pause(S)
     \/ "requeue" \in UserOps /\ \E S \in SUBSET Tasks : S # {} /\ Queue!Requeue(S)
     \/ "clear" \in UserOps /\ (mover = "judge" => ClearBetween) /\ \E S \in SUBSET Tasks : S # {} /\ Queue!Clear(S)
     \/ "hold" \in UserOps /\ (Queue!Hold \/ Queue!Release)
  /\ UNCHANGED moveVars

(* A retry of a task still in flight can bring the manager down. *)
Halt(t) == Queue!Halt(t) /\ UNCHANGED moveVars

Move ==
  \/ Collect \/ Decline \/ StartWatch \/ Poll \/ Verdict \/ DeleteSources
  \/ \E f \in Files : QueueFile(f)

(* Neither the event loop nor the queue has panicked. *)
Up == ~halted /\ mover # "panicked"

QueueWorks == Up /\ \E t \in Tasks : Launch(t) \/ Settle(t) \/ Halt(t)

Next == Move \/ QueueWorks \/ (Up /\ UserActs)

Spec == Init /\ [][Next]_vars

(* The runtime polls the mover, and every attempt ends. *)
FairSpec == Spec /\ WF_vars(Move) /\ WF_vars(QueueWorks)

-----------------------------------------------------------------------------
MoverPlaces == {"collect", "queue", "watch", "verdict", "judge", "delete", "done", "panicked"}

TypeOK ==
  /\ phase \in [Tasks -> Queue!Phases]
  /\ inFlight \subseteq Tasks
  /\ held \in BOOLEAN
  /\ halted \in BOOLEAN
  /\ direction \in Directions
  /\ mover \in MoverPlaces
  /\ collected \subseteq Files
  /\ source \subseteq Files
  /\ delivered \subseteq Files

(* A move nothing gets in the way of: every entry can be listed, no records *)
(* of other operations take the place of records the user clears, and none  *)
(* is cleared between counting the records and looking at them.             *)
Undisturbed ==
  /\ ~CollectFails
  /\ Earlier = {} \/ "clear" \notin UserOps
  /\ ~ClearBetween

(***************************************************************************)
(* No file is lost by a move: what is gone from the source has reached the  *)
(* destination, or the destination had a file of that name and the user     *)
(* chose to skip it, however the user cancels, retries and clears the tasks *)
(* between the polls of the mover.                                          *)
(***************************************************************************)
NothingLost == Undisturbed => Files \ source \subseteq delivered \cup Conflicts

(***************************************************************************)
(* The sources are not deleted under a worker that may still be reading     *)
(* them, although a cancelled task counts as settled before its worker has  *)
(* stopped.                                                                 *)
(***************************************************************************)
NoReaderLeft == Undisturbed => \A t \in inFlight : t[1] = "move" => t[2] \in source

(***************************************************************************)
(* A move whose transfers have all settled, and stay in the list, ends: it  *)
(* has gone on to delete the sources or has kept them.  It is what the      *)
(* documentation of watch_uploads_then_delete_local promises first,         *)
(* "Watches the upload queue", and holds only where the watcher is spawned  *)
(* inside a runtime.                                                        *)
(***************************************************************************)
MoveEnds ==
  <>[](~halted /\ \A f \in collected : phase[Task(f)] \in Queue!Terminal) => <>(mover = "done")

(***************************************************************************)
(* "removes the local sources once every enqueued task settles in           *)
(* `Completed` (partial failure keeps the files, ...)", the documentation   *)
(* of watch_uploads_then_delete_local: sources go only when all of them     *)
(* have arrived.                                                            *)
(***************************************************************************)
MoveOnlyOnSuccess == source # Files => Files \subseteq delivered \cup Conflicts
=============================================================================
