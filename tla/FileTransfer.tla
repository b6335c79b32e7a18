---------------------------- MODULE FileTransfer ----------------------------
(***************************************************************************)
(* One file between this machine and an SFTP server, in as many attempts as *)
(* it takes (crates/freescp-core/src/backends/sftp/transfer.rs, integrity.rs):*)
(* where an attempt resumes, what it copies, and what its verification      *)
(* accepts.  The source may be changed by others at any moment; nobody else *)
(* writes the destination.                                                  *)
(*                                                                          *)
(* A file is a sequence of blocks, and a block is the version of the file   *)
(* that introduced it with its place there: two blocks are equal exactly    *)
(* when their bytes are.  A digest is the content it was taken of.          *)
(***************************************************************************)
EXTENDS Naturals, Sequences

CONSTANTS
  Directions,  \* "upload" and "download"
  Policies,    \* TransferIntegrityPolicy: "off", "optional", "required"
  BufBlocks,   \* blocks in a full buffer (BUF_SIZE); a read may return less
  MaxLen,      \* bound: blocks in a version of the source
  MaxTrouble   \* bound: edits, cancellations and failures

ASSUME TransferAssumption ==
  /\ Directions \subseteq {"upload", "download"}
  /\ Policies \subseteq {"off", "optional", "required"}
  /\ BufBlocks \in Nat \ {0}
  /\ MaxLen \in Nat
  /\ MaxTrouble \in Nat

VARIABLES
  dir, policy,
  source, dest,  \* the contents; an absent destination is <<>>
  pc,            \* where the attempt is, or how the last one ended
  total,         \* remote_len in get, local_len in put
  done,          \* bytes accounted for: where the next block is written
  pos,           \* position of the handle on the source
  size,          \* remote_size: {} for None
  remoteSum,     \* remote_sha: {} for None
  localSize,     \* what verify_integrity_async read of the local file
  trouble,
  \* History, for the properties only.
  seen,          \* what the source has been since the attempt began
  pure,          \* the partial was begun by us, from the source as it is now
  resumed,       \* an attempt has continued the partial since it was last truncated
  blind,         \* the local file could not be read for verification
  sizeRead       \* `size` is what the server said, not a substitute

files == <<source, dest>>
copying == <<total, done, pos>>
checking == <<size, remoteSum, localSize, blind, sizeRead>>
history == <<seen, pure, resumed>>
vars == <<dir, policy, files, pc, copying, checking, trouble, history>>

Resting == {"idle", "failed", "cancelled"}

\* The first `keep` blocks stay, the rest of a file of `len` blocks is version v's.
Version(v, keep, len) == [i \in 1..len |-> IF i <= keep THEN source[i] ELSE <<v, i>>]

\* The destination after `chunk` was written at offset `at`.
Written(at, chunk) ==
  LET end == at + Len(chunk)
  IN  [i \in 1..(IF end > Len(dest) THEN end ELSE Len(dest)) |->
         IF i \in at + 1..end THEN chunk[i - at] ELSE dest[i]]

Local == IF dir = "download" THEN dest ELSE source
Remote == IF dir = "download" THEN source ELSE dest

Init ==
  /\ dir \in Directions
  /\ policy \in Policies
  /\ \E n \in 0..MaxLen : source = [i \in 1..n |-> <<1, i>>]
  /\ \E n \in 0..MaxLen : dest = [i \in 1..n |-> <<0, i>>]  \* somebody else's file
  /\ pc = "idle"
  /\ total = 0 /\ done = 0 /\ pos = 0
  /\ size = {} /\ remoteSum = {} /\ localSize = 0
  /\ trouble = 0
  /\ seen = {source}
  /\ pure = (dest = <<>>)
  /\ resumed = FALSE
  /\ blind = FALSE
  /\ sizeRead = FALSE

-----------------------------------------------------------------------------
(* The attempt. *)

(* Mutant: a partial as long as the source is continued, too. *)
ResumesAtEnd(resume, partial, whole) == resume /\ partial > 0 /\ partial <= whole

\* Only a partial file that is strictly shorter than the source is continued.
Resumes(resume, partial, whole) == resume /\ partial > 0 /\ partial < whole

(* Mutant: `get` appends without moving the handle on the remote file. *)
SeekNothing(offset) == 0

\* Of a source whose handle was not moved, the copy begins at its first block: `get` moves
\* it to the resume offset, `put` moves only the handle on the remote file.
SeekSource(offset) == IF dir = "download" THEN offset ELSE 0

(* Mutant: a transfer that starts over opens its destination without truncating it. *)
KeepAlways(continues) == dest

\* What is left of the destination: an attempt that does not continue it truncates it.
Keep(continues) == IF continues THEN dest ELSE <<>>

\* Open both files and find the offset; `sized` is whether the server reports sizes.
Open(resume, sized) ==
  LET whole == IF dir = "download" /\ ~sized THEN 0 ELSE Len(source)
      partial == IF dir = "upload" /\ ~sized THEN 0 ELSE Len(dest)
      continues == Resumes(resume, partial, whole)
      offset == IF continues THEN partial ELSE 0
  IN
  /\ pc \in Resting
  /\ pc' = "copy"
  /\ total' = whole
  /\ dest' = Keep(continues)
  /\ done' = offset
  /\ pos' = SeekSource(offset)
  /\ size' = IF dir = "download" /\ sized THEN {whole} ELSE {}
  /\ remoteSum' = {}
  /\ blind' = FALSE
  /\ sizeRead' = sized
  /\ seen' = {source}
  /\ pure' = (pure \/ ~continues)
  /\ resumed' = continues
  /\ UNCHANGED <<dir, policy, source, localSize, trouble>>

\* `get` reads to the end of the file, `put` until it has counted local_len bytes.
Counting == dir = "download" \/ done < total

Copy(n) ==
  /\ pc = "copy"
  /\ Counting
  /\ pos + n <= Len(source)
  /\ dest' = Written(done, SubSeq(source, pos + 1, pos + n))
  /\ done' = done + n
  /\ pos' = pos + n
  /\ UNCHANGED <<dir, policy, source, pc, total, checking, trouble, history>>

CopyEnds ==
  /\ pc = "copy"
  /\ Counting => pos >= Len(source)
  /\ pc' = "flush"
  /\ UNCHANGED <<dir, policy, files, copying, checking, trouble, history>>

(* Mutant: `put` trusts its own count. *)
FinalSizeCounted(sized) == IF dir = "download" THEN size ELSE {total}

\* `put` asks for the size of what it wrote and falls back on local_len.
FinalSize(sized) ==
  IF dir = "download" THEN size ELSE IF sized THEN {Len(dest)} ELSE {total}

Flush(sized) ==
  /\ pc = "flush"
  /\ pc' = IF policy = "off" THEN "done" ELSE "hash"
  /\ size' = FinalSize(sized)
  /\ sizeRead' = IF dir = "download" THEN sizeRead ELSE sized
  /\ UNCHANGED <<dir, policy, files, copying, remoteSum, localSize, blind, trouble, history>>

-----------------------------------------------------------------------------
(* Verification. *)

HashRemote ==
  /\ pc = "hash"
  /\ pc' = "stat"
  /\ remoteSum' = {Remote}
  /\ UNCHANGED <<dir, policy, files, copying, size, localSize, blind, sizeRead, trouble, history>>

StatLocal ==
  /\ pc = "stat"
  /\ pc' = "judge"
  /\ localSize' = Len(Local)
  /\ UNCHANGED <<dir, policy, files, copying, size, remoteSum, blind, sizeRead, trouble, history>>

\* What cannot be verified passes under Optional only.
Unverifiable == IF policy = "optional" THEN "done" ELSE "failed"

(* Mutant: two files of one size are not compared. *)
JudgementBySize ==
  IF ~ size \subseteq {localSize} THEN "failed"
  ELSE IF remoteSum = {} THEN Unverifiable ELSE "done"

\* The size first; then the digest, if there is one.
Judgement ==
  IF ~ size \subseteq {localSize} THEN "failed"
  ELSE IF remoteSum = {} THEN Unverifiable
  ELSE IF remoteSum = {Local} THEN "done" ELSE "failed"

Judge ==
  /\ pc = "judge"
  /\ pc' = Judgement
  /\ UNCHANGED <<dir, policy, files, copying, checking, trouble, history>>

-----------------------------------------------------------------------------
(* What disturbs an attempt: `trouble` counts it, within its bound. *)

Disturbed == trouble < MaxTrouble /\ trouble' = trouble + 1

\* should_cancel is polled before each read and around the remote hash.
Cancel ==
  /\ Disturbed
  /\ \/ pc = "copy" /\ Counting
     \/ pc \in {"hash", "stat"}
  /\ pc' = "cancelled"
  /\ UNCHANGED <<dir, policy, files, copying, checking, history>>

\* A read, a write or the flush fails; what was written stays.
Fail ==
  /\ Disturbed
  /\ pc \in {"copy", "flush"}
  /\ pc' = "failed"
  /\ UNCHANGED <<dir, policy, files, copying, checking, history>>

\* remote_sha256_hex cannot open or read the remote file: None.
HashUnavailable ==
  /\ Disturbed
  /\ pc = "hash"
  /\ pc' = "stat"
  /\ UNCHANGED <<dir, policy, files, copying, checking, history>>

\* The local file cannot be read: its size, or, after the sizes agreed, its digest.
LocalUnreadable ==
  /\ Disturbed
  /\ \/ pc = "stat"
     \/ pc = "judge" /\ size \subseteq {localSize} /\ remoteSum # {}
  /\ pc' = Unverifiable
  /\ blind' = TRUE
  /\ UNCHANGED <<dir, policy, files, copying, size, remoteSum, localSize, sizeRead, history>>

\* Somebody edits, appends to, truncates or replaces the source.
Edit ==
  /\ Disturbed
  /\ pc # "done"
  /\ \E keep \in 0..Len(source), len \in 0..MaxLen :
       /\ keep <= len
       /\ source' = Version(trouble + 2, keep, len)
  /\ seen' = seen \cup {source'}
  /\ pure' = FALSE
  /\ UNCHANGED <<dir, policy, dest, pc, copying, checking, resumed>>

-----------------------------------------------------------------------------
Attempt ==
  \/ \E n \in 1..BufBlocks : Copy(n)
  \/ CopyEnds
  \/ \E sized \in BOOLEAN : Flush(sized)
  \/ HashRemote
  \/ StatLocal
  \/ Judge

Retry == \E resume, sized \in BOOLEAN : Open(resume, sized)

Trouble == Cancel \/ Fail \/ HashUnavailable \/ LocalUnreadable \/ Edit

Next == Attempt \/ Retry \/ Trouble

Spec == Init /\ [][Next]_vars

\* An attempt gets on with its work, and an unfinished transfer is tried again.
FairSpec == Spec /\ WF_vars(Attempt) /\ WF_vars(Retry)

-----------------------------------------------------------------------------
(* Properties. *)

\* Types; and while an attempt copies, what it has accounted for is what the destination
\* holds (put and get count `done` apart from the handles they write through).
TypeOK ==
  /\ dir \in Directions /\ policy \in Policies
  /\ source \in Seq(Nat \X Nat) /\ dest \in Seq(Nat \X Nat)
  /\ pc \in Resting \cup {"copy", "flush", "hash", "stat", "judge", "done"}
  /\ total \in Nat /\ done \in Nat /\ pos \in Nat
  /\ size \in SUBSET Nat
  /\ localSize \in Nat
  /\ trouble \in Nat
  /\ pure \in BOOLEAN /\ resumed \in BOOLEAN /\ blind \in BOOLEAN /\ sizeRead \in BOOLEAN
  /\ pc = "copy" => done = Len(dest)

\* Under any policy, Off included: a transfer that reports success has made the destination
\* equal to the source, if the source has not changed since the copy was begun and the copy
\* was not begun by somebody else.  Except for a resumed upload: see ResumeDelivers.
Delivers ==
  pc = "done" /\ pure /\ ~(dir = "upload" /\ resumed) => dest = source

\* The same without the exception, as the documentation of the module promises of put:
\* "seeks past the already-uploaded bytes" (transfer.rs:6-11).
ResumeDelivers == pc = "done" /\ pure => dest = source

\* A success that verification could see is one version of the source from end to end, a
\* version it had during the last attempt: never a mixture of an old partial and a new rest,
\* or of two versions.  Under Required there is no other success (integrity.rs:15-24).
DeliversAVersion ==
  (pc = "done" /\ \/ policy = "required"
                  \/ policy = "optional" /\ remoteSum # {} /\ ~blind)
  => dest \in seen

\* Under Optional, if the sizes of both files were read, then even without a digest the
\* destination has the length of a version the source had during the last attempt.
RightSize ==
  pc = "done" /\ policy = "optional" /\ ~blind /\ sizeRead =>
    \E version \in seen : Len(dest) = Len(version)

\* Whatever partial earlier attempts, edits and foreign files have left behind, trying
\* again succeeds: a copy that verification rejects is never one that the next attempt
\* takes for a partial to be continued, for ever.
RetriesDeliver == <>(pc = "done")
=============================================================================
