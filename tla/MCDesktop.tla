----------------------------- MODULE MCDesktop -----------------------------
(***************************************************************************)
(* Small instances of the modules about the window's tabs, dialogs and     *)
(* sessions, about the copies from one server to another, and about the    *)
(* dialog of the transfer queue.  They do not touch one another's state,   *)
(* so each behaviour plays one of them, its scene, while the others rest   *)
(* in one of their initial states.                                         *)
(***************************************************************************)
EXTENDS Desktop, RemoteCopies, QueueDialog, TLC

\* Two copies, queued one by one or as one batch.
CONSTANTS t1, t2
MCBatches == {{t1}, {t2}, {t1, t2}}

\* No part tells its dials, its copies, or its transfers apart.
Same == Permutations(Attempts) \cup Permutations(Copies) \cup Permutations(QueueTasks)

-----------------------------------------------------------------------------
VARIABLE scene
Init ==
  /\ scene \in {"window", "copies", "queue"}
  /\ DesktopInit /\ (scene = "window" \/ ~startPage)
  /\ CopyInit /\ (scene = "copies" \/ \A t \in Copies : target[t] = "absent")
  /\ QueueDialogInit

Next ==
  \/ scene = "window" /\ DesktopNext /\ UNCHANGED <<scene, copyVars, dialogVars>>
  \/ scene = "copies" /\ CopyNext /\ UNCHANGED <<scene, desktopVars, dialogVars>>
  \/ scene = "queue" /\ QueueDialogNext /\ UNCHANGED <<scene, desktopVars, copyVars>>

Spec == Init /\ [][Next]_<<scene, desktopVars, copyVars, dialogVars>>

\* Each part's types, while it plays.
AllTypesOK ==
  /\ scene = "window" => DesktopTypeOK
  /\ scene = "copies" => CopyTypeOK
  /\ scene = "queue" => QueueDialogTypeOK

\* The window loses track of nothing.  Whatever is clicked while dials,
\* operations and disconnects are under way, every session that is open has
\* exactly one tab, its client is lent at most once and comes back, and a tab
\* says it is connecting only while a dial for it may still end, unless its
\* dialog was closed by its frame (main.rs, connect.rs, state.rs).  And
\* whenever the queue dialog is opened and closed while transfers run, each
\* one that completes is announced once, what the dialog shows catches up, and
\* its settings stay (transfer.rs).
WindowKeepsTrack ==
  /\ scene = "window" => SessionsOwned /\ ClientAccounted /\ ConnectingReleased
  /\ scene = "queue" => CompletionsTold /\ NextPollShows /\ ChoicesKept

\* Two copies between servers never ask at once, leave no staging directory
\* behind, and replace only what the user let them replace (transfer.rs).
CopiesAreSafe ==
  scene = "copies" => OneDialog /\ StagingCleaned /\ OverwriteIsChosen
=============================================================================
