----------------------------- MODULE ScpTransfer -----------------------------
(***************************************************************************)
(* The SCP backend (freescp-core/src/backends/scp.rs): one get or put of a *)
(* file or a directory tree over the classic SCP protocol, spoken with a   *)
(* remote scp process, and the fallback to a fresh SFTP session.           *)
(*                                                                         *)
(* A tree is the sequence of the records its transfer sends: "C" a file    *)
(* with its size, a "data" record for each of its blocks, "nul" the byte   *)
(* that ends its data, "D" and "E" around a directory.  The remote process *)
(* is external; it sends and accepts records as the code expects, stops    *)
(* where it likes, and follows a file's data with a nul (as the code's own *)
(* upload does) or leaves it out.                                          *)
(***************************************************************************)
EXTENDS Naturals, Sequences, SequencesExt, FiniteSets, Subsequences

CONSTANTS Trees,          \* the trees that may be transferred
          Modes,          \* subset of {"auto", "scpOnly"}
          Terminates      \* does the remote source send a nul after a file's data?

C(name, size) == [is |-> "C", name |-> name, size |-> size]
Mark(is) == [is |-> is, name |-> "", size |-> 0]
D(name) == [is |-> "D", name |-> name, size |-> 0]
FileRecords(name, size) == <<C(name, size)>> \o [i \in 1..size |-> Mark("data")] \o <<Mark("nul")>>
DirRecords(name, body) == <<D(name)>> \o body \o <<Mark("E")>>

\* A tree is one file, or one directory: its first record opens a level, and only its
\* last one closes it.
Record == [is : {"C", "data", "nul", "D", "E"}, name : STRING, size : Nat]
Number(t, is, i) == Cardinality({j \in 1..i : t[j].is = is})
OneFile(t) == t[1].is = "C" /\ \A i \in 2..Len(t) : t[i].is \in {"data", "nul"}
OneDir(t) == t[1].is = "D" /\ \A i \in 1..Len(t) :
                                  Number(t, "D", i) > Number(t, "E", i) <=> i < Len(t)

ASSUME TreesAssumption == \A t \in Trees : t \in Seq(Record) /\ t # <<>> /\ (OneFile(t) \/ OneDir(t))

VARIABLES scpDirection,   \* "get" or "put"
          mode,           \* ScpTransferMode
          tree,           \* what is transferred
          sends,          \* does this remote source send nuls?
          records,        \* the records still to come
          phase,          \* where the transfer is
          depth,          \* directory levels entered
          file,           \* the file being received or sent
          remaining,      \* its blocks still to come
          copied,         \* files of the copy: name -> one of Fates
          interruptedScp, \* the connection's interrupt flag; it is never cleared
          cancelledScp,   \* should_cancel() answers true
          result          \* of the call

plan == <<scpDirection, mode, tree, sends>>
progress == <<records, depth, file, remaining>>
scpFlags == <<interruptedScp, cancelledScp>>
scpVars == <<plan, progress, phase, copied, scpFlags, result>>

\* A file is "unsure" when something went wrong with it and the transfer went on: it may be
\* there, there in part, missing, or in another directory.
Fates == {"absent", "partial", "whole", "unsure"}

Names(t) == {t[i].name : i \in {j \in DOMAIN t : t[j].is = "C"}}
\* what the remote source sends for a tree: all of it, or all but the nuls
Sent(t, nuls) == Keep(t, {i \in DOMAIN t : t[i].is # "nul" \/ nuls})

ScpTypeOK ==
    /\ tree \in Trees /\ mode \in Modes /\ scpDirection \in {"get", "put"}
    /\ phase \in {"open", "first", "level", "data", "nul", "ack", "last", "failed", "over"}
    /\ copied \in [Names(tree) -> Fates]
    /\ depth \in Nat /\ remaining \in Nat
    /\ result \in {"none", "ok", "cancelled", "local", "error"}

ScpInit ==
    /\ scpDirection \in {"get", "put"} /\ mode \in Modes /\ tree \in Trees
    /\ sends \in IF scpDirection = "get" THEN Terminates ELSE {TRUE}
    /\ records = Sent(tree, sends) /\ phase = "open" /\ depth = 0
    /\ file = "" /\ remaining = 0
    /\ copied = [n \in Names(tree) |-> "absent"]
    /\ interruptedScp = FALSE /\ cancelledScp = FALSE
    /\ result = "none"

(***************************************************************************)
(* Ends.  A failed get removes the file it was writing (download_data).    *)
(***************************************************************************)
Cleaned == [n \in DOMAIN copied |->
              IF scpDirection = "get" /\ phase = "data" /\ n = file THEN "absent" ELSE copied[n]]

Return(with) == /\ phase' = "over" /\ result' = with
                /\ UNCHANGED <<plan, progress, scpFlags>>

\* open, mid-stream and protocol failures may fall back, local ones and cancels may not
ChannelFails ==
    /\ phase' = "failed" /\ copied' = Cleaned
    /\ UNCHANGED <<plan, progress, scpFlags, result>>

Busy == phase \notin {"failed", "over"}

\* the channel breaks or the remote process reports an error or ends
RemoteFails ==
    /\ Busy /\ phase # "last"
    /\ (scpDirection = "get" /\ phase = "data") => remaining > 0
    /\ ChannelFails

\* a get makes directories and files as their records come, a put has looked at the
\* tree before it opens the channel, and reads the files
LocalFails ==
    /\ \/ phase = "data"
       \/ phase = "open" /\ scpDirection = "put"
       \/ phase \in {"first", "level"} /\ scpDirection = "get" /\ Head(records).is = "D"
    /\ copied' = Cleaned
    /\ Return("local")

CancelRequested == interruptedScp \/ cancelledScp

\* checked before each block and each entry of a directory, and by a get before its end
Level == phase = "level" /\ (scpDirection = "put" => Head(records).is # "E")
CancelNoticed ==
    /\ CancelRequested
    /\ Level \/ (phase = "data" /\ remaining > 0)
    /\ copied' = Cleaned
    /\ Return("cancelled")

\* a read or write under way when interrupt() fires; one that begins later is not woken
InterruptNoticed ==
    /\ interruptedScp /\ Busy /\ phase # "open"
    /\ (scpDirection = "get" /\ phase = "data") => remaining > 0
    /\ phase = "last" => scpDirection = "put"
    /\ copied' = Cleaned
    /\ Return("cancelled")

InterruptScp == /\ ~interruptedScp /\ phase # "over"
                /\ interruptedScp' = TRUE
                /\ UNCHANGED <<plan, progress, phase, copied, cancelledScp, result>>

CancelScp == /\ ~cancelledScp /\ phase # "over"
             /\ cancelledScp' = TRUE
             /\ UNCHANGED <<plan, progress, phase, copied, interruptedScp, result>>

(***************************************************************************)
(* Records, in the order both sides agree on.                              *)
(***************************************************************************)
Reads(r) == records # <<>> /\ Head(records).is = r /\ records' = Tail(records)

\* What the remote's answer to a record of an upload puts in doubt: nothing if it is 0, and
\* these files if it is 1, which expect_ack logs as a warning before it goes on.
Doubts(files) == IF scpDirection = "put" THEN {{}, files} ELSE {{}}

\* the copy when these files have come to this state, and those have come into doubt
Becomes(files, state, doubts) ==
    [n \in DOMAIN copied |-> IF n \in doubts \/ copied[n] = "unsure" THEN "unsure"
                             ELSE IF n \in files THEN state ELSE copied[n]]

\* after a file or a directory's end: the next record of the level, or the end of the whole
AfterEntry(level) == IF level = 0 \/ (scpDirection = "put" /\ records' = <<>>)
                     THEN "last" ELSE "level"

\* the command names the root of an uploaded directory: no record is sent for it
OpenChannel ==
    /\ phase = "open"
    /\ IF scpDirection = "put" /\ tree[1].is = "D"
         THEN /\ records' = SubSeq(records, 2, Len(records) - 1)
              /\ depth' = 1 /\ phase' = AfterEntry(1)
         ELSE phase' = "first" /\ UNCHANGED <<records, depth>>
    /\ UNCHANGED <<plan, file, remaining, copied, scpFlags, result>>

\* a C record, answered: the file is created, or truncated.  A remote that could not takes
\* the data that follow for records.
FileRecord ==
    /\ phase \in {"first", "level"} /\ (Level => ~CancelRequested)
    /\ Reads("C")
    /\ file' = Head(records).name /\ remaining' = Head(records).size
    /\ \E doubts \in Doubts({file'} \cup Names(records')) :
          copied' = Becomes({file'}, "partial", doubts)
    /\ phase' = "data"
    /\ UNCHANGED <<plan, depth, scpFlags, result>>

\* Mutant: the level a directory opens is not counted.
DirRecordUncounted ==
    /\ phase \in {"first", "level"} /\ (Level => ~CancelRequested)
    /\ Reads("D")
    /\ phase' = "level"
    /\ UNCHANGED <<plan, depth, file, remaining, copied, scpFlags, result>>

\* a D record: one level down, whether or not the remote has made the directory
DirRecord ==
    /\ phase \in {"first", "level"} /\ (Level => ~CancelRequested)
    /\ Reads("D")
    /\ \E doubts \in Doubts(Names(records')) : copied' = Becomes({}, "whole", doubts)
    /\ depth' = depth + 1 /\ phase' = "level"
    /\ UNCHANGED <<plan, file, remaining, scpFlags, result>>

\* an E record: the level is complete
EndRecord ==
    /\ phase = "level" /\ (Level => ~CancelRequested)
    /\ Reads("E")
    /\ \E doubts \in Doubts(Names(records')) : copied' = Becomes({}, "whole", doubts)
    /\ depth' = depth - 1 /\ phase' = AfterEntry(depth')
    /\ UNCHANGED <<plan, file, remaining, scpFlags, result>>

DataBlock ==
    /\ phase = "data" /\ remaining > 0 /\ ~CancelRequested
    /\ Reads("data")
    /\ remaining' = remaining - 1
    /\ UNCHANGED <<plan, depth, file, phase, copied, scpFlags, result>>

\* a received file is complete after its announced size, and is acknowledged; no nul is
\* read behind it.  The file is dropped without a flush: whether its last write, which is
\* under way then, succeeds is not seen.
ReceivedFile ==
    /\ scpDirection = "get" /\ phase = "data" /\ remaining = 0
    /\ \E doubts \in {{}, {file}} : copied' = Becomes({file}, "whole", doubts)
    /\ phase' = "ack"
    /\ UNCHANGED <<plan, progress, scpFlags, result>>

\* a byte that is no record ends the transfer as a failed one
AlienByte ==
    /\ scpDirection = "get" /\ phase = "level" /\ ~CancelRequested
    /\ Reads("nul")
    /\ phase' = "failed" /\ copied' = Cleaned
    /\ UNCHANGED <<plan, depth, file, remaining, scpFlags, result>>

\* a sent file ends with a nul, and the remote's word on it is awaited
SentFile ==
    /\ scpDirection = "put" /\ phase = "data" /\ remaining = 0
    /\ Reads("nul") /\ phase' = "ack"
    /\ UNCHANGED <<plan, depth, file, remaining, copied, scpFlags, result>>

\* the acknowledgement of a file is sent, or received: 0 says that the remote has stored it,
\* 1 that it has not
FileAcknowledged ==
    /\ phase = "ack"
    /\ UNCHANGED <<plan, progress, scpFlags, result>>
    /\ phase' = AfterEntry(depth)
    /\ \E doubts \in Doubts({file}) : copied' = Becomes({file}, "whole", doubts)

\* the last handshake: a get tolerates anything, a put everything but a rejection
Handshake ==
    /\ phase = "last"
    /\ UNCHANGED copied /\ Return("ok")

LastRejected == phase = "last" /\ scpDirection = "put" /\ ChannelFails

(***************************************************************************)
(* The fallback: a whole transfer over a fresh SFTP session, file or not.  *)
(***************************************************************************)
FallBack ==
    /\ phase = "failed" /\ mode = "auto" /\ ~CancelRequested
    /\ \/ /\ tree[1].is = "C"
          /\ copied' = [n \in DOMAIN copied |-> "whole"]
          /\ Return("ok")
       \/ /\ \/ UNCHANGED copied
             \/ tree[1].is = "C" /\ \E left \in {"absent", "partial"} :
                                       copied' = [n \in DOMAIN copied |-> left]
          /\ \E with \in {"error", "cancelled"} : Return(with)

NoFallBack ==
    /\ phase = "failed" /\ (mode = "scpOnly" \/ CancelRequested)
    /\ UNCHANGED copied
    /\ Return(IF mode = "auto" THEN "cancelled" ELSE "error")

ScpNext ==
    \/ OpenChannel \/ FileRecord \/ DirRecord \/ EndRecord \/ DataBlock
    \/ ReceivedFile \/ AlienByte \/ SentFile \/ FileAcknowledged
    \/ Handshake \/ LastRejected \/ RemoteFails \/ LocalFails
    \/ CancelNoticed \/ InterruptNoticed \/ InterruptScp \/ CancelScp
    \/ FallBack \/ NoFallBack

ScpSpec == ScpInit /\ [][ScpNext]_scpVars

(***************************************************************************)
(* Properties.                                                             *)
(***************************************************************************)
(* A call that reports success has copied every file of the tree, whichever *)
(* protocol carried it at the end and whatever the SCP attempt had left,   *)
(* but for files something was said or seen to be wrong with; and a get    *)
(* that ended within SCP leaves no partly written file behind (scp.rs:     *)
(* download_data's clean-up, upload_dir_level's acknowledgements,          *)
(* handle_get_failure).                                                    *)
ScpDelivers ==
    /\ result = "ok" => \A n \in Names(tree) : copied[n] \in {"whole", "unsure"}
    /\ (scpDirection = "get" /\ (result = "local" \/ phase = "failed"))
          => \A n \in Names(tree) : copied[n] # "partial"

(* No success leaves a file in doubt: "`\x01` error, `\x02` fatal error",  *)
(* as the module's documentation puts it (scp.rs:16).  It does not hold:   *)
(* an upload goes on after an answer of 1 (expect_ack), and a download     *)
(* does not wait for its last write (download_data).                       *)
ScpTellsErrors == result = "ok" => \A n \in Names(tree) : copied[n] # "unsure"
=============================================================================
