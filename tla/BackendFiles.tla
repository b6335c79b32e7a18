---------------------------- MODULE BackendFiles ----------------------------
(***************************************************************************)
(* The calls of SftpClient that look at or change the server's files, as   *)
(* the SFTP, FTP, SMB and WebDAV backends make them (freescp-core/src/     *)
(* backends/sftp.rs, ftp.rs, smb.rs, webdav.rs).  One call is several      *)
(* exchanges with the server, between which another client may write and   *)
(* each of which may fail, with or without having had its effect.          *)
(*                                                                         *)
(* A path is the sequence of its names; the tree maps it to "absent",      *)
(* "dir" or the content of a file.  What a call still has to do is a list  *)
(* of tasks; the order in which each backend extends the list is the       *)
(* traversal it makes of a directory it removes.                           *)
(***************************************************************************)
EXTENDS Naturals, Sequences, SequencesExt, FiniteSets, Subsequences

CONSTANTS FileBackends,   \* subset of {"sftp", "ftp", "smb", "webdav"}
          Paths,          \* the paths there are
          Trees0,         \* what the server may hold at first
          MaxRemoveDepth, \* MAX_REMOVE_DEPTH (128)
          MaxOthers,      \* files another client creates during a call
          MaxCalls        \* calls made

ASSUME PathsAssumption ==
    /\ IsFiniteSet(Paths) /\ Paths \subseteq Seq(STRING)
    /\ \A p \in Paths : Len(p) > 1 => Front(p) \in Paths

VARIABLES fbackend,       \* the backend
          linked,         \* it holds a connection, or the options to open one
          flagged,        \* what is_connected() answers
          node,           \* the server's tree
          call,           \* the call under way, or the last one
          todo,           \* tasks of the call, empty when it has returned
          reply,          \* how it returned
          was,            \* the tree as it would be without the call
          unheard,        \* a task had its effect and was reported as failed
          others, calls   \* files others created, calls made

session == <<linked, flagged>>
bounds == <<others, calls>>
fileVars == <<fbackend, session, node, call, todo, reply, was, unheard, bounds>>

NoPath == <<>>
Task(do, p, q) == [do |-> do, at |-> p, to |-> q]
One(do, p) == <<Task(do, p, NoPath)>>
Contents == {"one", "two", "three", "theirs"}
ServerTrees == [Paths -> {"absent", "dir"} \cup Contents]
ASSUME ServerAssumption == Trees0 \subseteq ServerTrees
IsFile(p) == node[p] \in Contents
Under(p, d) == IsPrefix(d, p)
Children(d) == {p \in Paths : Len(p) = Len(d) + 1 /\ Under(p, d) /\ node[p] # "absent"}

Calls == [op : {"list", "exists", "stat", "mkdir", "remove_file", "remove_dir",
                "chmod", "chown", "set_times"}, at : Paths, to : {NoPath}, over : {FALSE}]
         \cup [op : {"rename"}, at : Paths, to : Paths, over : BOOLEAN]
NoCall == [op |-> "none", at |-> NoPath, to |-> NoPath, over |-> FALSE]

FilesTypeOK ==
    /\ fbackend \in FileBackends /\ {linked, flagged, unheard} \subseteq BOOLEAN
    /\ {node, was} \subseteq ServerTrees
    /\ call \in Calls \cup {NoCall}
    /\ reply \in {"none", "ok", "there", "absent", "error", "unsupported"}
    /\ \A i \in DOMAIN todo : todo[i].at \in Paths

FilesInit ==
    /\ fbackend \in FileBackends /\ linked = FALSE /\ flagged = FALSE
    /\ node \in Trees0 /\ was = node
    /\ call = NoCall /\ todo = <<>> /\ reply = "none" /\ unheard = FALSE
    /\ others = 0 /\ calls = 0

Idle == todo = <<>>

(***************************************************************************)
(* The session.                                                            *)
(***************************************************************************)
\* the new session replaces the old one only when its probe succeeded; SFTP has
\* dropped the old one before, and a failure leaves what is_connected() answers
Connect ==
    /\ Idle /\ calls < MaxCalls
    /\ \/ linked' = TRUE /\ flagged' = TRUE
       \/ linked' = (linked /\ fbackend # "sftp") /\ UNCHANGED flagged
    /\ UNCHANGED <<fbackend, node, call, todo, reply, was, unheard, bounds>>

Disconnect ==
    /\ Idle /\ linked' = FALSE /\ flagged' = FALSE
    /\ UNCHANGED <<fbackend, node, call, todo, reply, was, unheard, bounds>>

(***************************************************************************)
(* Beginning a call.                                                       *)
(***************************************************************************)
Supported(op) ==
    CASE op \in {"chmod", "set_times"} -> fbackend \in {"sftp", "ftp"}
      [] op = "chown" -> fbackend = "sftp"
      [] OTHER -> TRUE

\* SFTP and SMB clear the target of an overwriting rename first, FTP looks before
\* a rename that must not overwrite, and WebDAV leaves both to the server
RenamePlan(c) ==
    LET move == <<Task("move", c.at, c.to)>>
    IN  CASE fbackend \in {"sftp", "smb"} /\ c.over -> One("look", c.to) \o move
          [] fbackend = "ftp" /\ c.over -> <<Task("tryMove", c.at, c.to)>>
          [] fbackend = "ftp" /\ ~c.over -> One("seek", c.to) \o move
          [] OTHER -> move

Plan(c) == CASE c.op = "rename" -> RenamePlan(c)
             [] c.op = "remove_dir" -> One("clear", c.at)
             [] c.op = "mkdir" -> One("mkdir", c.at)
                                  \o (IF fbackend = "sftp" THEN One("set", c.at) ELSE <<>>)
             [] c.op \in {"chmod", "chown", "set_times"} -> One("set", c.at)
             [] OTHER -> One(c.op, c.at)

\* renames of files; SMB refuses to leave the share before it asks the server
BeginCall(c) ==
    /\ Idle /\ calls < MaxCalls
    /\ c.op = "rename" => IsFile(c.at)
    /\ call' = c /\ was' = node /\ unheard' = FALSE /\ calls' = calls + 1
    /\ IF ~linked THEN todo' = <<>> /\ reply' = "error"
       ELSE IF ~Supported(c.op) THEN todo' = <<>> /\ reply' = "unsupported"
       ELSE IF c.op = "rename" /\ fbackend = "smb" /\ Head(c.at) # Head(c.to)
         THEN todo' = <<>> /\ reply' = "error"
       ELSE todo' = Plan(c) /\ reply' = "none"
    /\ UNCHANGED <<fbackend, session, node, others>>

(***************************************************************************)
(* The server: what it answers to a single request.                        *)
(***************************************************************************)
Now(do) == ~Idle /\ Head(todo).do = do
Here == Head(todo).at
There == Head(todo).to

\* the call goes on with these tasks, or has returned
GoOn(rest, with) ==
    /\ todo' = rest /\ reply' = (IF rest = <<>> THEN with ELSE "none")
    /\ UNCHANGED <<fbackend, session, call, was, bounds>>

Done == GoOn(Tail(todo), "ok") /\ UNCHANGED unheard
Looks == UNCHANGED <<node, unheard>>
Fail == GoOn(<<>>, "error")

Without(S) == [p \in Paths |-> IF p \in S THEN "absent" ELSE node[p]]

MakeDir ==
    /\ Now("mkdir") /\ Here # NoPath
    /\ Len(Here) > 1 => node[Front(Here)] = "dir"
    /\ \/ node[Here] = "absent" /\ node' = [node EXCEPT ![Here] = "dir"]
       \/ node[Here] = "dir" /\ fbackend = "webdav" /\ UNCHANGED node   \* 405 is success
    /\ Done

SetAttributes == Now("set") /\ node[Here] # "absent" /\ UNCHANGED node /\ Done

\* DELETE takes a whole collection, and 404 is success while a directory is removed
RemoveFile ==
    /\ Now("remove_file") \/ Now("rm")
    /\ \/ IsFile(Here) /\ node' = Without({Here})
       \/ fbackend = "webdav" /\ node[Here] = "dir" /\ node' = Without({p \in Paths : Under(p, Here)})
       \/ fbackend = "webdav" /\ Now("rm") /\ node[Here] = "absent" /\ UNCHANGED node
    /\ Done

RemoveEmpty ==
    /\ Now("rmdir")
    /\ \/ node[Here] = "dir" /\ Children(Here) = {} /\ node' = Without({Here})
       \/ fbackend = "webdav" /\ node' = Without({p \in Paths : Under(p, Here)})
    /\ Done

\* the listing; FTP's fallback drops lines it cannot read when it can read some
Listings(d) == {Children(d)} \cup (IF fbackend = "ftp" THEN SUBSET Children(d) \ {{}} ELSE {})

ListDir ==
    /\ Now("list") /\ Looks /\ GoOn(<<>>, "ok")
    /\ node[Here] = "dir" \/ (fbackend = "webdav" /\ node[Here] = "absent")

\* FTP asks in four ways, takes a failure for a no, and answers "absent" in the end
Exists ==
    /\ Now("exists") /\ Looks
    /\ \/ node[Here] # "absent" /\ GoOn(<<>>, "there")
       \/ (node[Here] = "absent" \/ fbackend = "ftp") /\ GoOn(<<>>, "absent")

Stat == Now("stat") /\ node[Here] # "absent" /\ Looks /\ GoOn(<<>>, "there")

(***************************************************************************)
(* Removing a directory.                                                   *)
(***************************************************************************)
Tasks(do, S) == SetToSeq({Task(do, p, NoPath) : p \in S})
Are(do, s) == Keep(s, {i \in DOMAIN s : s[i].do = do})

\* FTP and SMB descend into each directory in turn, and then remove it
EachInTurn(files, dirs, rest) ==
    Tasks("rm", files) \o Tasks("clear", dirs) \o One("rmdir", Here) \o rest

\* SFTP goes level by level and removes files as it meets them
LevelByLevel(files, dirs, rest) ==
    Tasks("rm", files) \o Are("clear", rest) \o Tasks("clear", dirs)
    \o One("rmdir", Here) \o Are("rmdir", rest)

\* WebDAV lists everything before it removes anything
ListedFirst(files, dirs, rest) ==
    Are("clear", rest) \o Tasks("clear", dirs) \o Are("rm", rest) \o Tasks("rm", files)
    \o One("rmdir", Here) \o Are("rmdir", rest)

Cleared(files, dirs, rest) ==
    CASE fbackend \in {"ftp", "smb"} -> EachInTurn(files, dirs, rest)
      [] fbackend = "sftp" -> LevelByLevel(files, dirs, rest)
      [] OTHER -> ListedFirst(files, dirs, rest)

ClearDir ==
    /\ Now("clear") /\ Looks
    /\ node[Here] = "dir" \/ (fbackend = "webdav" /\ node[Here] = "absent")
    /\ IF fbackend \in {"ftp", "smb"} /\ Len(Here) - Len(IF call.op = "rename" THEN call.to ELSE call.at)
                                           > MaxRemoveDepth
         THEN Fail
         ELSE \E seen \in Listings(Here) :
                LET dirs == {p \in seen : node[p] = "dir"}
                IN  GoOn(Cleared(seen \ dirs, dirs, Tail(todo)), "ok")

(***************************************************************************)
(* Renaming.                                                               *)
(***************************************************************************)
\* SMB clears a whole directory out of the way, SFTP an empty one
LookAtTarget ==
    /\ Now("look") /\ Looks
    /\ GoOn((CASE node[Here] = "absent" -> <<>>
               [] IsFile(Here) -> One("rm", Here)
               [] node[Here] = "dir" /\ fbackend = "smb" -> One("clear", Here)
               [] OTHER -> One("rmdir", Here)) \o Tail(todo), "ok")

\* FTP's exists() before a rename that must not overwrite
SeekTarget ==
    /\ Now("seek") /\ Looks
    /\ \/ node[Here] # "absent" /\ Fail
       \/ (node[Here] = "absent" \/ fbackend = "ftp") /\ GoOn(Tail(todo), "ok")

Moving == Now("move") \/ Now("tryMove")

\* an FTP server may replace a file, a WebDAV server does when it may overwrite
MayReplace == \/ fbackend = "ftp" /\ IsFile(There)
              \/ fbackend = "webdav" /\ call.over /\ ~Under(Here, There)
CanMove == /\ IsFile(Here) /\ ~Under(There, Here)
           /\ Len(There) > 1 => node[Front(There)] = "dir"
           /\ node[There] = "absent" \/ MayReplace
Moved == [p \in Paths |-> IF p = There THEN node[Here]
                          ELSE IF p = Here \/ Under(p, There) THEN "absent" ELSE node[p]]

Move == Moving /\ CanMove /\ node' = Moved /\ Done

\* FTP removes the target of a failed overwriting rename, if it can, and tries again
Retry(from, to) == One("tryRm", to) \o <<Task("move", from, to)>>

TryAgain ==
    /\ Now("tryMove") /\ GoOn(Retry(Here, There), "ok")
    /\ \/ UNCHANGED <<node, unheard>>
       \/ CanMove /\ node' = Moved /\ unheard' = TRUE

TryRemove ==
    /\ Now("tryRm") /\ Done
    /\ \/ IsFile(Here) /\ node' = Without({Here})
       \/ UNCHANGED node

(***************************************************************************)
(* Failures and the other client.                                          *)
(***************************************************************************)
\* a task fails: refused, or the connection broke, perhaps after it had its effect
TaskFails ==
    /\ ~Idle /\ ~Now("tryMove") /\ ~Now("tryRm") /\ Fail
    /\ \/ UNCHANGED <<node, unheard>>
       \/ Now("move") /\ CanMove /\ node' = Moved /\ unheard' = TRUE
       \/ Now("rm") /\ IsFile(Here) /\ node' = Without({Here}) /\ unheard' = TRUE

OtherCreates(p) ==
    /\ ~Idle /\ others < MaxOthers
    /\ node[p] = "absent"
    /\ Len(p) > 1 => node[Front(p)] = "dir"
    /\ node' = [node EXCEPT ![p] = "theirs"]
    /\ was' = [was EXCEPT ![p] = "theirs"]
    /\ others' = others + 1
    /\ UNCHANGED <<fbackend, session, call, todo, reply, unheard, calls>>

FilesNext ==
    \/ Connect \/ Disconnect
    \/ \E c \in Calls : BeginCall(c)
    \/ MakeDir \/ SetAttributes \/ RemoveFile \/ RemoveEmpty \/ ListDir \/ Exists \/ Stat
    \/ ClearDir \/ LookAtTarget \/ SeekTarget \/ Move \/ TryAgain \/ TryRemove
    \/ TaskFails
    \/ \E p \in Paths : OtherCreates(p)

FilesSpec == FilesInit /\ [][FilesNext]_fileVars

(***************************************************************************)
(* Properties.                                                             *)
(***************************************************************************)
(* A call changes nothing but what it was given: everything outside the    *)
(* paths it names stays as others left it, whatever it traverses, and a    *)
(* directory whose removal is reported as done is gone (the traversals of  *)
(* sftp_remove_dir_recursive, remove_dir_impl and WebDAV's remove_dir).    *)
CallsStayInPlace ==
    /\ \A p \in Paths : node[p] # was[p] =>
         Under(p, call.at) \/ (call.op = "rename" /\ Under(p, call.to))
    /\ (Idle /\ call.op = "remove_dir" /\ reply = "ok") => node[call.at] = "absent"

Survives == was[call.at] \in {node[call.at], node[call.to]}

(* Whatever fails on the way, a renamed file is at its old or at its new   *)
(* name, when the new name is neither the old one nor a directory above    *)
(* it, and when no reply was lost under FTP's second attempt (rename and   *)
(* rename_impl).                                                           *)
RenameKeepsSource ==
    (call.op = "rename" /\ ~Under(call.at, call.to) /\ ~(unheard /\ fbackend = "ftp"))
        => Survives

(* The same for every rename: replacing "an existing target" never costs   *)
(* the file that should replace it (client.rs:133-134).                    *)
SourceSurvives == call.op = "rename" => Survives
=============================================================================
