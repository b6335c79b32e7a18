-------------------------- MODULE BackendTransfers --------------------------
(***************************************************************************)
(* Downloads and uploads of the FTP, SMB and WebDAV backends               *)
(* (freescp-core/src/backends/ftp.rs, smb.rs, webdav.rs), which have no    *)
(* integrity check of their own (FileTransfer models the SFTP backend,     *)
(* which has).  One file is transferred again and again, each attempt from *)
(* scratch or resuming what an earlier one left, each ended at any point   *)
(* by the server, the user's cancellation or an interrupt.                 *)
(*                                                                         *)
(* A file is a sequence of blocks; the source's blocks are numbered, other *)
(* content is block 0.  A put's blocks pass through a pipe: the server     *)
(* stores them later, or never when the connection ends.                   *)
(***************************************************************************)
EXTENDS Naturals, Sequences, SequencesExt

CONSTANTS Backends,       \* subset of {"ftp", "smb", "webdav"}
          MaxBlocks,      \* length of the longest source
          MaxAttempts     \* attempts at the same transfer

ASSUME BlocksAssumption == MaxBlocks \in Nat /\ MaxAttempts \in Nat

VARIABLES backend, direction,  \* fixed: the protocol, "get" or "put"
          source,              \* the file that is copied; nothing else writes it
          target,              \* the copy: a sequence of blocks, empty when absent
          parents,             \* the directories above an upload's target exist
          at,                  \* where the attempt is
          resume,              \* the attempt's resume argument
          done,                \* blocks the attempt counts as transferred
          pos,                 \* position of the local file an upload reads from
          pipe,                \* blocks written to the server and not stored yet
          interrupted,         \* the backend's interrupt flag or signal
          cancelled,           \* should_cancel() answers true
          outcome,             \* of the last attempt: "ok", "error", "cancelled", "interrupted"
          prior,               \* the target when the attempt began
          attempts             \* attempts begun

fixed == <<backend, direction, source>>
counters == <<done, pos, pipe>>
request == <<resume, prior, attempts>>
transferVars == <<fixed, target, parents, at, counters, request, interrupted, cancelled, outcome>>

File(n) == [i \in 1..n |-> i]
Sources == {File(n) : n \in 0..MaxBlocks}
\* a part of the source, or foreign content of any length
Leftovers(s) == {SubSeq(s, 1, n) : n \in 0..Len(s)}
                \cup {[i \in 1..n |-> 0] : n \in 1..(MaxBlocks + 1)}

TransferTypeOK ==
    /\ backend \in Backends /\ direction \in {"get", "put"} /\ source \in Sources
    /\ target \in Seq(0..MaxBlocks) /\ pipe \in Seq(1..MaxBlocks)
    /\ {parents, resume, interrupted, cancelled} \subseteq BOOLEAN
    /\ at \in {"idle", "local", "plan", "start", "ranged", "stream", "body"}
    /\ {done, pos} \subseteq Nat /\ attempts \in 0..MaxAttempts
    /\ outcome \in {"none", "ok", "error", "cancelled", "interrupted"}

TransferInit ==
    /\ backend \in Backends /\ direction \in {"get", "put"} /\ source \in Sources
    /\ target \in Leftovers(source) /\ prior = target
    /\ parents \in BOOLEAN
    /\ at = "idle" /\ outcome = "none" /\ attempts = 0 /\ resume = FALSE
    /\ done = 0 /\ pos = 0 /\ pipe = <<>>
    /\ interrupted = FALSE /\ cancelled = FALSE

(***************************************************************************)
(* Ends of an attempt.  Blocks still in the pipe are lost with it.         *)
(***************************************************************************)
End(with) == /\ at' = "idle" /\ outcome' = with /\ pipe' = <<>>
             /\ UNCHANGED <<fixed, parents, done, pos, request, interrupted, cancelled>>

\* any call to the server or the file system may fail: the attempt returns its error
CallFails ==
    /\ at # "idle" /\ at # "body"
    /\ UNCHANGED target /\ End("error")

\* the checks before a block, and of "ranged" before its end: the interrupt flag first,
\* then the callback
Stopped == interrupted \/ cancelled
StopAtCheck ==
    /\ at \in {"ranged", "stream"} /\ Stopped
    /\ at = "stream" => done < Len(source)
    /\ UNCHANGED target
    /\ End(IF interrupted THEN "interrupted" ELSE "cancelled")

\* interrupt() and the cancel button: WebDAV's signal reaches registered transfers only,
\* the flags of FTP and SMB are cleared by the next attempt
Interrupt ==
    /\ ~interrupted /\ (backend = "webdav" => at # "idle")
    /\ interrupted' = TRUE
    /\ UNCHANGED <<fixed, target, parents, at, counters, request, cancelled, outcome>>

Cancel ==
    /\ ~cancelled /\ at # "idle"
    /\ cancelled' = TRUE
    /\ UNCHANGED <<fixed, target, parents, at, counters, request, interrupted, outcome>>

(***************************************************************************)
(* Beginning an attempt.                                                   *)
(***************************************************************************)
Begin(again) ==
    /\ at = "idle" /\ attempts < MaxAttempts
    /\ resume' = again /\ prior' = target /\ attempts' = attempts + 1
    /\ interrupted' = FALSE /\ cancelled' = FALSE
    /\ done' = 0 /\ pos' = 0
    /\ IF backend = "webdav" /\ direction = "put" /\ again
         THEN at' = "idle" /\ outcome' = "error"           \* resume is not supported
         ELSE at' = (IF backend = "webdav" THEN "start" ELSE "local") /\ outcome' = "none"
    /\ UNCHANGED <<fixed, target, parents, pipe>>

\* FTP and SMB open the local file once connected: a get that does not resume truncates it
OpenLocal ==
    /\ at = "local"
    /\ IF direction = "get"
         THEN /\ target' = IF resume THEN target ELSE <<>>
              /\ done' = Len(target')
         ELSE UNCHANGED <<target, done>>
    /\ at' = "plan"
    /\ UNCHANGED <<fixed, parents, pos, pipe, request, interrupted, cancelled, outcome>>

\* FTP: SIZE may fail, and the transfer goes on without a size
Sizes(known) == {known} \cup (IF backend = "ftp" THEN {0} ELSE {})

\* a resumed download longer than the remote file restarts, one as long is complete;
\* SMB streams from the start when nothing is there
PlanGet ==
    /\ at = "plan" /\ direction = "get"
    /\ \E size \in Sizes(Len(source)) :
         \/ /\ done > size
            /\ size > 0 \/ backend = "smb"
            /\ target' = <<>> /\ done' = 0 /\ at' = "ranged" /\ UNCHANGED outcome
         \/ /\ done = size /\ done > 0
            /\ at' = "idle" /\ outcome' = "ok" /\ UNCHANGED <<target, done>>
         \/ /\ done < size \/ done = 0 \/ (backend = "ftp" /\ size = 0)
            /\ at' = IF backend = "smb" /\ done = 0 THEN "stream" ELSE "ranged"
            /\ UNCHANGED <<target, done, outcome>>
    /\ UNCHANGED <<fixed, parents, pos, pipe, request, interrupted, cancelled>>

\* Mutant: the local file of a resumed upload is read from its start.
UploadFromUnsought(there) ==
    \/ /\ there = Len(source)
       /\ there > 0 \/ (backend = "smb" /\ resume)
       /\ at' = "idle" /\ outcome' = "ok" /\ UNCHANGED <<done, pos>>
    \/ /\ there # Len(source) \/ there = 0
       /\ done' = IF there < Len(source) THEN there ELSE 0
       /\ pos' = 0
       /\ at' = "start" /\ UNCHANGED outcome

\* a resumed upload goes on where the remote file ends; a longer remote file is written
\* over by FTP and refused by SMB
UploadFrom(there) ==
    \/ /\ there = Len(source)
       /\ there > 0 \/ (backend = "smb" /\ resume)
       /\ at' = "idle" /\ outcome' = "ok" /\ UNCHANGED <<done, pos>>
    \/ /\ there > Len(source) /\ backend = "smb"
       /\ at' = "idle" /\ outcome' = "error" /\ UNCHANGED <<done, pos>>
    \/ /\ there = 0 \/ there < Len(source) \/ (there > Len(source) /\ backend = "ftp")
       /\ done' = IF there < Len(source) THEN there ELSE 0
       /\ pos' = done'
       /\ at' = "start" /\ UNCHANGED outcome

PlanPut ==
    /\ at = "plan" /\ direction = "put"
    /\ \E there \in IF resume THEN Sizes(Len(target)) ELSE {0} : UploadFrom(there)
    /\ UNCHANGED <<fixed, target, parents, pipe, request, interrupted, cancelled>>

(***************************************************************************)
(* The blocks of an FTP or SMB transfer.                                   *)
(***************************************************************************)
\* STOR, or the SMB writer: from offset 0 it replaces what is there.  FTP creates
\* missing parents and asks once more; without them SMB's call fails (CallFails)
StartPut ==
    /\ at = "start" /\ direction = "put" /\ backend # "webdav"
    /\ parents \/ backend = "ftp"
    /\ parents' = TRUE
    /\ target' = IF done = 0 THEN <<>> ELSE target
    /\ at' = "ranged"
    /\ UNCHANGED <<fixed, counters, request, interrupted, cancelled, outcome>>

GetBlock ==
    /\ at \in {"ranged", "stream"} /\ direction = "get" /\ ~Stopped
    /\ done < Len(source)
    /\ target' = Append(target, source[done + 1])
    /\ done' = done + 1
    /\ UNCHANGED <<fixed, parents, at, pos, pipe, request, interrupted, cancelled, outcome>>

PutBlock ==
    /\ at = "ranged" /\ direction = "put" /\ ~Stopped
    /\ done < Len(source)
    /\ pipe' = Append(pipe, source[pos + 1])
    /\ done' = done + 1 /\ pos' = pos + 1
    /\ UNCHANGED <<fixed, target, parents, at, request, interrupted, cancelled, outcome>>

ServerStores ==
    /\ pipe # <<>>
    /\ target' = Append(target, Head(pipe)) /\ pipe' = Tail(pipe)
    /\ UNCHANGED <<fixed, parents, at, done, pos, request, interrupted, cancelled, outcome>>

\* the end of the data and the server's final word; SMB's stream is not checked after
\* its last chunk
Finish ==
    /\ at \in {"ranged", "stream"} /\ done >= Len(source) /\ pipe = <<>>
    /\ Stopped => at = "stream"
    /\ UNCHANGED target /\ End("ok")

(***************************************************************************)
(* WebDAV: one request carries the whole transfer.                         *)
(***************************************************************************)
\* a Range beyond the end is "complete" (416), one inside it is continued (206), and a
\* server that sends everything (200) restarts the file; a refusal leaves it (CallFails)
DavAnswers ==
    /\ at = "start" /\ direction = "get" /\ backend = "webdav"
    /\ LET offset == IF resume THEN Len(target) ELSE 0
       IN  \/ /\ offset > 0 /\ offset >= Len(source)
              /\ UNCHANGED <<target, done>> /\ at' = "idle" /\ outcome' = "ok"
           \/ /\ offset > 0 /\ offset < Len(source)
              /\ UNCHANGED <<target, outcome>> /\ done' = offset /\ at' = "body"
           \/ /\ target' = <<>> /\ done' = 0 /\ at' = "body" /\ UNCHANGED outcome
    /\ UNCHANGED <<fixed, parents, pos, pipe, request, interrupted, cancelled>>

\* the body is buffered whole, written, and only then is the cancellation looked at
DavBody ==
    /\ at = "body"
    /\ \/ /\ target' = target \o SubSeq(source, done + 1, Len(source))
          /\ End(IF Stopped THEN "cancelled" ELSE "ok")
       \/ /\ \E n \in done..Len(source) : target' = target \o SubSeq(source, done + 1, n)
          /\ End("error")
       \/ interrupted /\ UNCHANGED target /\ End("cancelled")

\* an interrupted request; the server may have begun to store an upload
DavInterrupted ==
    /\ at = "start" /\ backend = "webdav" /\ interrupted
    /\ \/ UNCHANGED target
       \/ direction = "put" /\ \E n \in 0..Len(source) : target' = SubSeq(source, 1, n)
    /\ End("cancelled")

\* an upload answered: stored, or failed after any part of it; should_cancel is not asked
DavPut ==
    /\ at = "start" /\ direction = "put" /\ backend = "webdav" /\ ~interrupted
    /\ \/ target' = source /\ End("ok")
       \/ (\E n \in 0..Len(source) : target' = SubSeq(source, 1, n)) /\ End("error")

TransferNext ==
    \/ \E again \in BOOLEAN : Begin(again)
    \/ OpenLocal \/ PlanGet \/ PlanPut \/ StartPut
    \/ GetBlock \/ PutBlock \/ ServerStores \/ Finish
    \/ DavAnswers \/ DavBody \/ DavInterrupted \/ DavPut
    \/ CallFails \/ StopAtCheck \/ Interrupt \/ Cancel

TransferSpec == TransferInit /\ [][TransferNext]_transferVars

(***************************************************************************)
(* Properties.                                                             *)
(***************************************************************************)
(* Whatever attempts ended before it and however, an attempt that reports  *)
(* success has delivered the source, when it did not resume or found a     *)
(* part of the source to resume; and no attempt leaves behind anything     *)
(* else than a part of the source there, so that the next one may resume   *)
(* (ftp.rs: download_transfer, upload_transfer; smb.rs: get, put;          *)
(* webdav.rs: download, put).                                              *)
RetriesDeliver ==
    /\ (outcome = "ok" /\ (resume => IsPrefix(prior, source))) => target = source
    /\ IsPrefix(prior, source) => IsPrefix(target, source)
=============================================================================
