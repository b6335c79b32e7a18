------------------------------ MODULE LocalFiles ------------------------------
(***************************************************************************)
(* File operations of the local panes: freescp-app's local_fs.rs and the   *)
(* operations of main.rs that call it (run_local_copy_move, the drop of a  *)
(* selection, run_prompted_local_op, delete).                              *)
(*                                                                         *)
(* An operation takes a selection, one source after the other.  A copy or  *)
(* a move asks before it replaces what is at its destination; a move that  *)
(* crosses devices is a copy followed by a removal of the source.  Another *)
(* program writes to the same disk.  Any step of the file system may fail. *)
(***************************************************************************)
EXTENDS Integers, Sequences, SequencesExt, FiniteSets

CONSTANTS
    DiskPaths,     \* the paths short enough to exist: sequences of names
    Disks0,        \* what may be on the disk: functions from DiskPaths
    LinkTo,        \* the file every symbolic link points to
    Selections,    \* sequences of selected paths
    Folders,       \* the directories something is dropped on
    MaxJobs,       \* bound on the operations
    MaxWrites      \* bound on the writes of the other program

VARIABLES
    disk,          \* per path: "none", "dir", "link", or a file's content
    split,         \* the top-level directories are separate devices
    job,           \* the operation and its destination
    rest,          \* sources it has still to handle
    step,          \* "idle", or where in the handling of a source
    from, onto,    \* the source and the target of the current one
    jobTodo,          \* entries of the source the walk has found
    jobOutcome,       \* how the last source ended
    jobs, writes,
    before         \* history: the files of the source, when its copy began

localVars == <<disk, split, job, rest, step, from, onto, jobTodo, jobOutcome, jobs, writes, before>>

At(p) == IF p \in DiskPaths THEN disk[p] ELSE "none"
Real(p) == IF At(p) = "link" THEN LinkTo ELSE p
OnDisk(p) == At(Real(p)) # "none"
IsDiskFile(c) == c \notin {"none", "dir", "link"}
Parent(p) == Front(p)
Below(p) == {q \in DiskPaths : IsStrictPrefix(p, q)}
DiskChildren(d, p) == {q \in Below(p) : Len(q) = Len(p) + 1 /\ d[q] # "none"}
\* The place of the source's entry p in the target.
Rebased(p, a, b) == b \o SubSeq(p, Len(a) + 1, Len(p))
Onto(p) == Rebased(p, from, onto)

ASSUME DiskAssumption ==
    /\ DiskPaths \subseteq Seq(STRING) /\ <<>> \notin DiskPaths
    /\ \A p \in DiskPaths : Len(p) > 1 => Parent(p) \in DiskPaths
    /\ LinkTo \in DiskPaths /\ Selections \subseteq Seq(DiskPaths) /\ Folders \subseteq DiskPaths
    /\ MaxJobs \in Nat /\ MaxWrites \in Nat

\* Something is in a directory, or at the top.
HasParent(d, p) == Len(p) > 1 => d[Parent(p)] = "dir"
DiskContents == {"none", "dir", "link", "part", "empty", "new"} \cup UNION {{d[p] : p \in DiskPaths} : d \in Disks0}
\* A tree of directories: only a directory holds anything.
DiskTrees ==
    {d \in [DiskPaths -> DiskContents] : \A p \in DiskPaths : d[p] # "none" => HasParent(d, p)}
ASSUME DisksAssumption == Disks0 \subseteq DiskTrees

NoJob == [op |-> "none", dest |-> <<>>]

LocalInit ==
    /\ disk \in Disks0 /\ split \in BOOLEAN
    /\ job = NoJob /\ rest = <<>> /\ step = "idle" /\ from = <<>> /\ onto = <<>>
    /\ jobTodo = {} /\ jobOutcome = "none" /\ jobs = 0 /\ writes = 0 /\ before = {}

----------------------------------------------------------------------------
(* The file system: each call yields a set of results. *)

Result(ok, d) == [ok |-> ok, disk |-> d]
Fails(d) == {Result(FALSE, d)}

\* remove: a link is removed, never followed; a tree may go in part.
Removal(d, p) ==
    LET gone(ps) == [q \in DiskPaths |-> IF q \in ps THEN "none" ELSE d[q]] IN
    Fails(d) \cup
    (IF d[p] = "none" THEN {} ELSE {Result(TRUE, gone(Below(p) \cup {p})), Result(FALSE, gone(Below(p)))})

\* create_dir_all
DirsMade(d, p) ==
    IF /\ p \in DiskPaths \cup {<<>>}
       /\ \A q \in DiskPaths : IsPrefix(q, p) => d[q] \in {"none", "dir"}
    THEN {Result(TRUE, [q \in DiskPaths |-> IF IsPrefix(q, p) THEN "dir" ELSE d[q]])}
    ELSE Fails(d)

\* fs::rename, within a device and with room for the tree at its target; a file
\* or a link is replaced by what is no directory.
Renamed(d, p, q) ==
    LET mine == {r \in DiskPaths : IsPrefix(p, r) /\ d[r] # "none"}
        fits == \A r \in mine : Rebased(r, p, q) \in DiskPaths IN
    Fails(d) \cup
    (IF /\ mine # {} /\ ~IsPrefix(p, q) /\ fits /\ HasParent(d, q)
        /\ d[q] = "none" \/ (d[q] # "dir" /\ d[p] # "dir")
     THEN {Result(TRUE, [r \in DiskPaths |->
              IF IsPrefix(q, r) /\ Rebased(r, q, p) \in DiskPaths THEN d[Rebased(r, q, p)]
              ELSE IF IsPrefix(p, r) THEN "none" ELSE d[r]])}
     ELSE {})

\* copy_one_file makes the directory of its target; both ends follow links, and
\* a failure leaves what was written.
FileCopied(p, q) ==
    LET content == At(Real(p)) IN
    UNION {{Result(FALSE, m.disk)} \cup
           (IF /\ m.ok /\ IsDiskFile(content) /\ q \in DiskPaths
               /\ m.disk[Real(q)] # "dir" /\ HasParent(m.disk, Real(q))
            THEN {Result(TRUE, [m.disk EXCEPT ![Real(q)] = content]),
                  Result(FALSE, [m.disk EXCEPT ![Real(q)] = "part"])}
            ELSE {}) : m \in DirsMade(disk, Parent(q))}

----------------------------------------------------------------------------
(* The selection, source by source. *)

BeginJob(op, sources, dest) ==
    /\ step = "idle" /\ jobs < MaxJobs /\ jobs' = jobs + 1
    /\ job' = [op |-> op, dest |-> dest] /\ rest' = sources /\ step' = "next"
    /\ jobOutcome' = "none" /\ before' = {}
    /\ UNCHANGED <<disk, split, from, onto, jobTodo, writes>>

\* One source is counted: copied or moved, failed, skipped.
Count(how) ==
    /\ jobOutcome' = how /\ rest' = Tail(rest) /\ step' = "next" /\ jobTodo' = {}
    /\ UNCHANGED <<split, job, from, onto, jobs, writes, before>>

Copies == job.op \in {"copy", "move"}

\* The files a copy of p has to carry over.
FilesUnder(p) == {<<q, disk[q]>> : q \in {r \in DiskPaths : IsPrefix(p, r) /\ IsDiskFile(disk[r])}}

TakeSource ==
    /\ step = "next" /\ rest # <<>>
    /\ LET p == Head(rest)
           q == IF Copies THEN Append(job.dest, Last(p)) ELSE job.dest
           same == Real(p) = Real(q) IN
       /\ from' = p /\ onto' = q
       /\ before' = IF Copies THEN FilesUnder(p) ELSE {}
       /\ IF Copies /\ same
          THEN jobOutcome' = "skipped" /\ rest' = Tail(rest) /\ step' = "next"
          ELSE /\ step' = IF (Copies /\ OnDisk(q)) \/ (job.op = "newFile" /\ OnDisk(p)) THEN "ask" ELSE "act"
               /\ UNCHANGED <<jobOutcome, rest>>
    /\ UNCHANGED <<disk, split, job, jobTodo, jobs, writes>>

Overwrite(yes) ==
    /\ step = "ask" /\ UNCHANGED disk
    /\ IF yes
       THEN step' = "act" /\ UNCHANGED <<split, job, rest, from, onto, jobTodo, jobOutcome, jobs, writes, before>>
       ELSE Count("skipped")

JobEnds ==
    /\ step = "next" /\ rest = <<>> /\ step' = "idle"
    /\ UNCHANGED <<disk, split, job, rest, from, onto, jobTodo, jobOutcome, jobs, writes, before>>

Ended(r) == disk' = r.disk /\ Count(IF r.ok THEN "ok" ELSE "failed")

----------------------------------------------------------------------------
(* copy_local and move_local: overwrite is set, and nothing cancels them.  *)

\* Mutant: the source goes whether or not everything was copied.
CopiedOrNot(r) ==
    IF job.op = "copy" THEN Ended(r)
    ELSE \E g \in Removal(r.disk, from) : Ended(g)

\* The end of a copy; in a move across devices the source is then removed.
Copied(r) ==
    IF job.op = "copy" \/ ~r.ok THEN Ended(r)
    ELSE \E g \in Removal(r.disk, from) : Ended(g)

\* copy_local clears a directory's target, makes it and walks the source; a
\* single file is written over its target.
CopyLocal ==
    IF At(from) # "dir"
    THEN \E r \in FileCopied(from, onto) : Copied(r)
    ELSE \E r \in IF OnDisk(onto) THEN Removal(disk, onto) ELSE {Result(TRUE, disk)} :
            IF ~r.ok THEN Ended(r)
            ELSE \E m \in DirsMade(r.disk, onto) :
                    IF ~m.ok THEN Ended(m)
                    ELSE /\ disk' = m.disk /\ step' = "walk" /\ jobTodo' = {from}
                         /\ UNCHANGED <<split, job, rest, from, onto, jobOutcome, jobs, writes, before>>

ActCopy == step = "act" /\ job.op = "copy" /\ CopyLocal

Crosses == split /\ Head(from) # Head(onto)

\* move_local removes the target before it renames.
ActMove ==
    /\ step = "act" /\ job.op = "move"
    /\ IF OnDisk(onto)
       THEN \E r \in Removal(disk, onto) :
               IF ~r.ok THEN Ended(r)
               ELSE /\ disk' = r.disk /\ step' = "rename"
                    /\ UNCHANGED <<split, job, rest, from, onto, jobTodo, jobOutcome, jobs, writes, before>>
       ELSE /\ step' = "rename"
            /\ UNCHANGED <<disk, split, job, rest, from, onto, jobTodo, jobOutcome, jobs, writes, before>>

MoveRename ==
    /\ step = "rename"
    /\ IF Crosses /\ At(from) # "none" THEN CopyLocal
       ELSE \E r \in Renamed(disk, from, onto) : Ended(r)

\* WalkDir: an entry that is gone ends it, a link is passed over.
Walk ==
    /\ step = "walk"
    /\ IF jobTodo = {} THEN Copied(Result(TRUE, disk))
       ELSE \E p \in jobTodo :
          IF disk[p] = "none" THEN Ended(Result(FALSE, disk))
          ELSE \E r \in CASE disk[p] = "dir" -> DirsMade(disk, Onto(p))
                          [] disk[p] = "link" -> {Result(TRUE, disk)}
                          [] OTHER -> FileCopied(p, Onto(p)) :
                  IF ~r.ok THEN Copied(r)
                  ELSE /\ disk' = r.disk /\ jobTodo' = (jobTodo \ {p}) \cup (IF disk[p] = "dir" THEN DiskChildren(r.disk, p) ELSE {})
                       /\ UNCHANGED <<split, job, rest, step, from, onto, jobOutcome, jobs, writes, before>>

----------------------------------------------------------------------------
(* The other operations. *)

ActDelete ==
    /\ step = "act" /\ job.op = "delete"
    /\ \E r \in Removal(disk, from) : Ended(r)

\* rename, without overwrite.
ActRename ==
    /\ step = "act" /\ job.op = "rename"
    /\ \E r \in CASE from = onto -> {Result(TRUE, disk)}
                  [] from # onto /\ OnDisk(onto) -> Fails(disk)
                  [] OTHER -> Renamed(disk, from, onto) : Ended(r)

ActNewFolder ==
    /\ step = "act" /\ job.op = "newFolder"
    /\ \E r \in DirsMade(disk, from) \cup Fails(disk) : Ended(r)

\* create_file truncates what is there, through a link.
ActNewFile ==
    /\ step = "act" /\ job.op = "newFile"
    /\ \E r \in Fails(disk) \cup
             (IF HasParent(disk, Real(from)) /\ At(Real(from)) # "dir"
              THEN {Result(TRUE, [disk EXCEPT ![Real(from)] = "empty"])} ELSE {}) : Ended(r)

\* Another program saves a file where there was none.
OtherWrites(p) ==
    /\ writes < MaxWrites /\ writes' = writes + 1
    /\ At(p) = "none" /\ Len(p) > 1 /\ At(Parent(p)) = "dir"
    /\ disk' = [disk EXCEPT ![p] = "new"]
    /\ UNCHANGED <<split, job, rest, step, from, onto, jobTodo, jobOutcome, jobs, before>>

UserJob ==
    \/ \E s \in Selections, d \in Folders, op \in {"copy", "move"} : BeginJob(op, s, d)
    \/ \E s \in Selections : BeginJob("delete", s, <<>>)
    \/ \E s \in Selections, p \in DiskPaths :
          Len(s) = 1 /\ Len(p) > 1 /\ Parent(p) = Parent(s[1]) /\ BeginJob("rename", s, p)
    \/ \E p \in DiskPaths, op \in {"newFolder", "newFile"} :
          Len(p) > 1 /\ BeginJob(op, <<p>>, <<>>)

LocalNext ==
    \/ UserJob \/ TakeSource \/ JobEnds
    \/ \E yes \in BOOLEAN : Overwrite(yes)
    \/ ActCopy \/ ActMove \/ MoveRename \/ Walk
    \/ ActDelete \/ ActRename \/ ActNewFolder \/ ActNewFile
    \/ \E p \in DiskPaths : OtherWrites(p)

LocalSpec == LocalInit /\ [][LocalNext]_localVars

----------------------------------------------------------------------------

\* Every variable has its type.
LocalTypeOK ==
    /\ disk \in DiskTrees /\ split \in BOOLEAN
    /\ step \in {"idle", "next", "ask", "act", "rename", "walk"}
    /\ job.op \in {"none", "copy", "move", "delete", "rename", "newFolder", "newFile"}
    /\ \A i \in DOMAIN rest : rest[i] \in DiskPaths
    /\ jobTodo \subseteq DiskPaths
    /\ jobOutcome \in {"none", "ok", "failed", "skipped"}
    /\ jobs \in 0..MaxJobs /\ writes \in 0..MaxWrites

\* The source's files outside what the user agreed to replace.
Kept == {f \in before : ~IsPrefix(onto, f[1])}

\* A copy leaves every file of its source alone, and a move loses none: at
\* every moment, and after any failure, a file of the source is whole where
\* it was or, in a move, where it goes.  (local_fs.rs: copy_local, move_local)
SourceKept ==
    \A f \in Kept : disk[f[1]] = f[2] \/ (job.op = "move" /\ At(Real(Onto(f[1]))) = f[2])

\* What is counted as copied or moved is there: every file of the source is
\* whole in the target.  (main.rs: run_local_copy_move)
CountedIsThere ==
    Copies /\ step = "next" /\ jobOutcome = "ok" => \A f \in Kept : At(Real(Onto(f[1]))) = f[2]

FilesArrive == SourceKept /\ CountedIsThere
=============================================================================
