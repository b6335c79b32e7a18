---------------------------- MODULE RemoteCopies ----------------------------
(***************************************************************************)
(* Remote-to-remote copies and the overwrite prompt: freescp-app's         *)
(* transfer.rs (run_remote_to_remote) and main.rs (handle_tab_drop, the    *)
(* queueing of a batch, prompt_overwrite_choice).                          *)
(*                                                                         *)
(* A worker downloads the file into a staging directory of its own and     *)
(* uploads it from there; before that it asks, through a dialog of the UI  *)
(* thread, whether an existing file may be overwritten.  The question is   *)
(* serialized by a lock and given up after 120 seconds; an answer "to all" *)
(* is kept until the next batch.  Uploads and downloads ask the same way;  *)
(* their copying is in FileTransfer, the queue in TransferQueue.           *)
(***************************************************************************)
EXTENDS Integers, Sequences, FiniteSets

CONSTANTS
    Copies,        \* the tasks
    CopyBatches,   \* sets of tasks that are queued together
    AsksBefore,    \* the destination supports metadata: it can be asked
    MaxQueueings,  \* bound on the batches and retries
    MaxCrashes     \* bound on the restarts

VARIABLES
    copy,          \* per task: where its worker is, and how it ended
    choice,        \* per task: the decision on the existing file
    sticky,        \* the answer "to all", or "none"
    round,         \* per task: the queueing it runs for; names its dialog
    prompter,      \* who holds PROMPT_SERIAL
    posts,         \* closures posted to the UI thread: <<show | hide, dialog>>
    shown,         \* dialogs on screen
    reply,         \* per task: what its dialog sent
    staging,       \* per task: its staging directory
    target,        \* per task: the destination file
    stopping,      \* per task: cancelled, or the queue paused
    queueings, crashes,
    chosen,        \* history, per task: the answers it may use, given since it was queued
    unasked,       \* history: tasks whose check failed
    inherited      \* history: staging directories of an earlier process

copyVars == <<copy, choice, sticky, round, prompter, posts, shown, reply, staging, target, stopping,
              queueings, crashes, chosen, unasked, inherited>>
nobody == "nobody"
Dialog(t) == <<t, round[t]>>
\* "Resume" is an overwrite here: a staged copy starts over.
Answers == {"overwrite", "skip", "cancel"}

ASSUME CopiesAssumption ==
    /\ IsFiniteSet(Copies) /\ nobody \notin Copies /\ CopyBatches \subseteq SUBSET Copies
    /\ AsksBefore \in BOOLEAN /\ MaxQueueings \in Nat /\ MaxCrashes \in Nat

CopyInit ==
    /\ copy = [t \in Copies |-> "idle"]
    /\ choice = [t \in Copies |-> "none"]
    /\ round = [t \in Copies |-> 0]
    /\ sticky = "none" /\ prompter = nobody /\ posts = <<>> /\ shown = {}
    /\ reply = [t \in Copies |-> "none"]
    /\ staging = [t \in Copies |-> "absent"]
    /\ target \in [Copies -> {"absent", "old"}]
    /\ stopping = [t \in Copies |-> FALSE]
    /\ queueings = 0 /\ crashes = 0
    /\ chosen = [t \in Copies |-> {}]
    /\ unasked = {} /\ inherited = {}

Settled == {"idle", "done", "failed", "stopped"}

----------------------------------------------------------------------------
(* The user. *)

Queued(ts, allowed) ==
    /\ queueings < MaxQueueings /\ queueings' = queueings + 1
    /\ copy' = [t \in Copies |-> IF t \in ts THEN "queued" ELSE copy[t]]
    /\ choice' = [t \in Copies |-> IF t \in ts THEN "none" ELSE choice[t]]
    /\ reply' = [t \in Copies |-> IF t \in ts THEN "none" ELSE reply[t]]
    /\ stopping' = [t \in Copies |-> IF t \in ts THEN FALSE ELSE stopping[t]]
    /\ round' = [t \in Copies |-> IF t \in ts THEN queueings' ELSE round[t]]
    /\ chosen' = [t \in Copies |-> IF t \in ts THEN allowed ELSE chosen[t]]
    /\ unasked' = unasked \ ts
    /\ UNCHANGED <<prompter, posts, shown, staging, target, crashes, inherited>>

\* A batch is collected, confirmed, and queued on the UI thread.
StartBatch(ts) ==
    /\ \A t \in ts : copy[t] = "idle"
    /\ Queued(ts, {}) /\ sticky' = "none"

Retryable == {t \in Copies : copy[t] \in {"failed", "stopped"}}
RetryTask(t) == t \in Retryable /\ Queued({t}, {}) /\ sticky' = "none"

\* retry_failed, unlike retry_task, leaves the policy alone.
RetryFailed ==
    /\ Retryable # {}
    /\ Queued(Retryable, {sticky} \ {"none"}) /\ UNCHANGED sticky

Stop(t) ==
    /\ copy[t] \notin Settled /\ ~stopping[t]
    /\ stopping' = [stopping EXCEPT ![t] = TRUE]
    /\ copy' = IF copy[t] = "queued" THEN [copy EXCEPT ![t] = "stopped"] ELSE copy
    /\ UNCHANGED <<choice, sticky, round, prompter, posts, shown, reply, staging, target, queueings,
                   crashes, chosen, unasked, inherited>>

\* A button of the dialog; closing its window is a cancel.  An answer to all
\* is kept even if the worker no longer waits.
Click(d, a, all) ==
    /\ d \in shown /\ shown' = shown \ {d}
    /\ all => a \in {"overwrite", "skip"}
    /\ sticky' = IF all THEN a ELSE sticky
    /\ LET t == d[1]
           waits == copy[t] = "asking" /\ d = Dialog(t) IN
       /\ reply' = IF waits THEN [reply EXCEPT ![t] = a] ELSE reply
       /\ chosen' = [u \in Copies |-> IF (u = t /\ waits) \/ (all /\ copy[u] \notin Settled)
                                      THEN chosen[u] \cup {a} ELSE chosen[u]]
    /\ UNCHANGED <<copy, choice, round, prompter, posts, staging, target, stopping, queueings,
                   crashes, unasked, inherited>>

\* The UI thread runs a posted closure.
RunPost ==
    /\ posts # <<>>
    /\ LET p == Head(posts) IN
       shown' = IF p[1] = "show" THEN shown \cup {p[2]} ELSE shown \ {p[2]}
    /\ posts' = Tail(posts)
    /\ UNCHANGED <<copy, choice, sticky, round, prompter, reply, staging, target, stopping, queueings,
                   crashes, chosen, unasked, inherited>>

----------------------------------------------------------------------------
(* The worker of a task. *)

Goto(t, to) == copy' = [copy EXCEPT ![t] = to]
others == <<round, queueings, crashes, chosen, inherited>>
promptVars == <<choice, sticky, prompter, posts, shown, reply>>

\* Dialing either side fails, or the staging directory is made: it must not
\* exist.
Stage(t) ==
    /\ copy[t] = "queued"
    /\ \/ Goto(t, "failed") /\ UNCHANGED staging
       \/ /\ staging[t] = "absent" /\ Goto(t, "checking")
          /\ staging' = [staging EXCEPT ![t] = "empty"]
    /\ UNCHANGED <<promptVars, target, stopping, unasked, others>>

\* The precheck.  An error of the check counts as an absent file.
Check(t) ==
    /\ copy[t] = "checking"
    /\ \/ /\ AsksBefore /\ target[t] # "absent" /\ Goto(t, "waiting") /\ UNCHANGED unasked
       \/ /\ AsksBefore /\ target[t] = "absent" /\ Goto(t, "decided") /\ UNCHANGED unasked
       \/ Goto(t, "decided") /\ unasked' = unasked \cup {t}
    /\ UNCHANGED <<promptVars, staging, target, stopping, others>>

\* prompt_overwrite_choice: the lock, the policy, the dialog.
Prompt(t) ==
    /\ copy[t] = "waiting" /\ prompter = nobody
    /\ IF sticky # "none"
       THEN /\ choice' = [choice EXCEPT ![t] = sticky] /\ Goto(t, "decided")
            /\ UNCHANGED <<prompter, posts>>
       ELSE /\ prompter' = t /\ Goto(t, "asking") /\ posts' = Append(posts, <<"show", Dialog(t)>>)
            /\ UNCHANGED choice
    /\ UNCHANGED <<sticky, shown, reply, staging, target, stopping, unasked, others>>

Answered(t) ==
    /\ copy[t] = "asking" /\ reply[t] # "none"
    /\ choice' = [choice EXCEPT ![t] = reply[t]] /\ Goto(t, "decided")
    /\ prompter' = nobody
    /\ UNCHANGED <<sticky, posts, shown, reply, staging, target, stopping, unasked, others>>

\* Mutant: the dialog nobody answered stays.
TimesOutQuietly(t) ==
    /\ copy[t] = "asking" /\ reply[t] = "none"
    /\ choice' = [choice EXCEPT ![t] = "cancel"] /\ Goto(t, "decided")
    /\ prompter' = nobody
    /\ UNCHANGED <<sticky, posts, shown, reply, staging, target, stopping, unasked, others>>

\* 120 seconds without an answer.
TimesOut(t) ==
    /\ copy[t] = "asking" /\ reply[t] = "none"
    /\ choice' = [choice EXCEPT ![t] = "cancel"] /\ Goto(t, "decided")
    /\ prompter' = nobody
    /\ posts' = Append(posts, <<"hide", Dialog(t)>>)
    /\ UNCHANGED <<sticky, shown, reply, staging, target, stopping, unasked, others>>

\* finish: the staged copy is removed, in every outcome.
Finish(t, outcome) ==
    /\ Goto(t, outcome)
    /\ staging' = [staging EXCEPT ![t] = "absent"]

\* After the decision: stop, skip, or make the destination's directories.
Decide(t) ==
    /\ copy[t] = "decided"
    /\ \/ (choice[t] = "cancel" \/ stopping[t]) /\ Finish(t, "stopped")
       \/ choice[t] = "skip" /\ ~stopping[t] /\ Finish(t, "done")
       \/ choice[t] \notin {"cancel", "skip"} /\ ~stopping[t]
          /\ (Finish(t, "failed") \/ (Goto(t, "fetching") /\ UNCHANGED staging))
    /\ UNCHANGED <<promptVars, target, stopping, unasked, others>>

\* Phase 1, the download.
Fetch(t) ==
    /\ copy[t] = "fetching"
    /\ \/ Goto(t, "storing") /\ staging' = [staging EXCEPT ![t] = "whole"]
       \/ Goto(t, "receiving") /\ staging' = [staging EXCEPT ![t] = "part"]
       \/ Finish(t, "failed")
       \/ stopping[t] /\ Finish(t, "stopped")
    /\ UNCHANGED <<promptVars, target, stopping, unasked, others>>

Receive(t) ==
    /\ copy[t] = "receiving"
    /\ \/ Goto(t, "storing") /\ staging' = [staging EXCEPT ![t] = "whole"]
       \/ Finish(t, "failed")
       \/ stopping[t] /\ Finish(t, "stopped")
    /\ UNCHANGED <<promptVars, target, stopping, unasked, others>>

\* Phase 2, the upload: from the first write on the destination is in parts.
Store(t) ==
    /\ copy[t] = "storing"
    /\ \/ Finish(t, "done") /\ target' = [target EXCEPT ![t] = "new"]
       \/ target' = [target EXCEPT ![t] = "part"] /\ UNCHANGED <<copy, staging>>
       \/ Finish(t, "failed") /\ UNCHANGED target
       \/ stopping[t] /\ Finish(t, "stopped") /\ UNCHANGED target
    /\ UNCHANGED <<promptVars, stopping, unasked, others>>

\* The process ends.  The queue is not kept; the next process may have the
\* same process id, and then the same staging directories.
Crash ==
    /\ crashes < MaxCrashes /\ crashes' = crashes + 1
    /\ \E samePid \in BOOLEAN :
         LET left == {t \in Copies : staging[t] # "absent"} IN
         /\ inherited' = IF samePid THEN left ELSE {}
         /\ staging' = IF samePid THEN staging ELSE [t \in Copies |-> "absent"]
    /\ copy' = [t \in Copies |-> "idle"]
    /\ choice' = [t \in Copies |-> "none"] /\ reply' = [t \in Copies |-> "none"]
    /\ sticky' = "none" /\ prompter' = nobody /\ posts' = <<>> /\ shown' = {}
    /\ stopping' = [t \in Copies |-> FALSE]
    /\ chosen' = [t \in Copies |-> {}] /\ unasked' = {}
    /\ UNCHANGED <<round, target, queueings>>

CopyNext ==
    \/ \E ts \in CopyBatches : StartBatch(ts)
    \/ RetryFailed \/ RunPost \/ Crash
    \/ \E t \in Copies :
         \/ RetryTask(t) \/ Stop(t)
         \/ \E d \in shown, a \in Answers, all \in BOOLEAN : d[1] = t /\ Click(d, a, all)
         \/ Stage(t) \/ Check(t) \/ Prompt(t) \/ Answered(t) \/ TimesOut(t) \/ Decide(t)
         \/ Fetch(t) \/ Receive(t) \/ Store(t)

CopySpec == CopyInit /\ [][CopyNext]_copyVars

----------------------------------------------------------------------------
(* Properties. *)

\* Types of the state.
CopyTypeOK ==
    /\ copy \in [Copies -> Settled \cup {"queued", "checking", "waiting", "asking", "decided",
                                         "fetching", "receiving", "storing"}]
    /\ choice \in [Copies -> Answers \cup {"none"}]
    /\ sticky \in {"none", "overwrite", "skip"}
    /\ prompter \in Copies \cup {nobody}
    /\ round \in [Copies -> 0..MaxQueueings] /\ shown \subseteq Copies \X (1..MaxQueueings)
    /\ staging \in [Copies -> {"absent", "empty", "part", "whole"}]
    /\ target \in [Copies -> {"absent", "old", "part", "new"}]

\* "Serialize so two tasks never stack two dialogs" (main.rs:2248), although a
\* dialog outlives the wait of its worker.
OneDialog == Cardinality(shown) <= 1

\* A finished copy leaves nothing in the staging area, however it ended, but
\* what an earlier process with the same id left there.
StagingCleaned ==
    \A t \in Copies : copy[t] \in Settled => (staging[t] = "absent" \/ t \in inherited)

\* A file that was there is replaced only if the user allowed it since the
\* task was queued: in its own dialog, by an answer to all while the task was
\* in the queue, or by a policy retry_failed kept.  What escapes the question
\* is a file whose check failed.
OverwriteIsChosen ==
    \A t \in Copies :
        copy[t] \in {"fetching", "receiving", "storing"} /\ target[t] = "old" =>
            t \in unasked \/ (choice[t] = "overwrite" /\ "overwrite" \in chosen[t])
=============================================================================
