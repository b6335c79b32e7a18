------------------------------ MODULE RemoteFiles ------------------------------
(***************************************************************************)
(* File operations of the remote pane: freescp-app's remote.rs and the     *)
(* operations of main.rs that call it.                                     *)
(*                                                                         *)
(* Delete, permissions, new folder, new file, rename and the server-side   *)
(* move borrow the session's one client for their whole run and call it    *)
(* step by step; a recursive search has a connection of its own and runs   *)
(* beside them.  The server may refuse any call, and another client of it  *)
(* adds files.  What a call does on each protocol is in BackendFiles; here *)
(* it works or it does not, and protocols differ in whether asking what a  *)
(* path is follows symbolic links (SFTP does) and in what removing a       *)
(* directory that is not empty does.                                       *)
(***************************************************************************)
EXTENDS Integers, Sequences, SequencesExt, FiniteSets

CONSTANTS
    Places,        \* the paths of the server: sequences of names
    Servers0,      \* what may be there: functions from Places
    LinkedDir,     \* the directory every symbolic link points to
    Picks,         \* sequences of entries selected in the pane
    Matching,      \* the names a search looks for
    SearchDepth,   \* its max_depth
    MaxMatches,    \* its cap
    MaxOps,        \* bound on the operations
    MaxSearches,   \* bound on the searches
    MaxAdded       \* bound on the files another client adds

VARIABLES
    server,        \* per path: "none", "dir", "link", "file"
    perms,         \* per path: its permissions, "old" or "new"
    follows,       \* asking what a path is follows links
    lent,          \* the operation that holds the session's client, or "none"
    entries,       \* its selected entries still to handle
    frames,        \* the recursion of a delete or a chmod: its path, and the names left
    said,          \* what it will report: entries done, entries failed
    flow,          \* targets of the permissions dialog that is open
    scan, scanQueue, scanSeen, matches, flags, searchCancelled,   \* the search
    ops, searches, added,
    picked,        \* history: what the operation was started on
    firstServer,   \* history: the server when it began
    present        \* history: paths there since the search began

remoteVars == <<server, perms, follows, lent, entries, frames, said, flow, scan, scanQueue, scanSeen,
                matches, flags, searchCancelled, ops, searches, added, picked, firstServer,
                present>>
opVars == <<lent, entries, frames, said, picked, firstServer>>
searchVars == <<scan, scanQueue, scanSeen, matches, flags, searchCancelled, searches>>
Flags == {"canceled", "truncated", "errors"}

ASSUME PlacesAssumption ==
    /\ IsFiniteSet(Places) /\ Places \subseteq Seq(STRING) /\ <<>> \notin Places
    /\ \A p \in Places : Len(p) > 1 => Front(p) \in Places
    /\ LinkedDir \in Places /\ Picks \subseteq Seq(Places)
    /\ MaxOps \in Nat /\ MaxSearches \in Nat /\ MaxAdded \in Nat /\ SearchDepth \in Nat

\* A tree of directories: only a directory holds anything.
Kinds == {"none", "dir", "link", "file"}
RemoteTrees ==
    {s \in [Places -> Kinds] : \A p \in Places : Len(p) > 1 /\ s[p] # "none" => s[Front(p)] = "dir"}
ASSUME ServersAssumption == Servers0 \subseteq RemoteTrees

\* The server resolves a path that goes through a link.
Links(s, p) == {i \in 1..(Len(p) - 1) : SubSeq(p, 1, i) \in Places /\ s[SubSeq(p, 1, i)] = "link"}
ResolvedOn(s, p) ==
    IF Links(s, p) = {} THEN p
    ELSE LinkedDir \o SubSeq(p, (CHOOSE i \in Links(s, p) : TRUE) + 1, Len(p))
Resolved(p) == ResolvedOn(server, p)
Kind(p) == IF Resolved(p) \in Places THEN server[Resolved(p)] ELSE "none"

\* client.exists: "none", "dir" or "file".
Asked(p) ==
    CASE Kind(p) = "none" \/ (Kind(p) = "link" /\ follows /\ server[LinkedDir] = "none") -> "none"
      [] Kind(p) = "dir" \/ (Kind(p) = "link" /\ follows /\ server[LinkedDir] = "dir") -> "dir"
      [] OTHER -> "file"

\* client.list, of a directory or a link to one: the names.
Directory(p) == IF Kind(p) = "link" THEN LinkedDir ELSE Resolved(p)
Listed(p) ==
    LET d == Directory(p) IN
    {q[Len(q)] : q \in {r \in Places : Len(r) = Len(d) + 1 /\ IsPrefix(d, r) /\ server[r] # "none"}}

Set(p, k) == server' = [server EXCEPT ![Resolved(p)] = k]
Empty(p) == Listed(p) = {}

RemoteInit ==
    /\ server \in Servers0
    /\ follows \in {\E p \in Places : server[p] = "link", FALSE}
    /\ perms = [p \in Places |-> "old"]
    /\ lent = "none" /\ entries = <<>> /\ frames = <<>> /\ said = [done |-> 0, failed |-> 0] /\ flow = <<>>
    /\ scan = "idle" /\ scanQueue = <<>> /\ scanSeen = {} /\ matches = {} /\ flags = {} /\ searchCancelled = FALSE
    /\ ops = 0 /\ searches = 0 /\ added = 0
    /\ picked = <<>> /\ firstServer = server /\ present = {}

----------------------------------------------------------------------------
(* Borrowing the client. *)

\* take_active_client: an operation starts only while no other holds it.
Borrow(op, sel) ==
    /\ ops < MaxOps /\ ops' = ops + 1
    /\ lent = "none" /\ lent' = op /\ entries' = sel
    /\ frames' = <<>> /\ said' = [done |-> 0, failed |-> 0] /\ picked' = sel /\ firstServer' = server
    /\ UNCHANGED <<server, perms, follows, flow, searchVars, added, present>>

ReturnClientHome ==
    /\ lent # "none" /\ entries = <<>> /\ lent' = "none"
    /\ UNCHANGED <<server, perms, follows, entries, frames, said, flow, searchVars, ops, added, picked,
                   firstServer, present>>

\* One entry of the selection is counted.
Count1(how) ==
    /\ entries' = Tail(entries) /\ frames' = <<>>
    /\ said' = [said EXCEPT ![how] = @ + 1] /\ UNCHANGED lent

quiet == <<follows, flow, searchVars, ops, added, picked, firstServer>>
\* What is no longer there is not there throughout the search.
Watched == present' = {p \in present : server'[p] # "none"}

----------------------------------------------------------------------------
(* delete_one and its recursion, with skip_missing. *)

Visit(p) == [at |-> p, new |-> TRUE, kids |-> {}]

BeginEntry ==
    /\ lent \in {"delete", "chmod"} /\ entries # <<>> /\ frames = <<>>
    /\ frames' = <<Visit(Head(entries))>>
    /\ UNCHANGED <<server, perms, quiet, lent, entries, said, present>>

Top == frames[Len(frames)]
\* The names the top directory is left with.
Left(kids) == frames' = [frames EXCEPT ![Len(frames)] = [at |-> Top.at, new |-> FALSE, kids |-> kids]]
Descend == \E n \in Top.kids :
    frames' = Append([frames EXCEPT ![Len(frames)].kids = @ \ {n}], Visit(Append(Top.at, n)))
\* A frame is done: the one below goes on, or the entry is counted.
Popped == IF Len(frames) = 1 THEN Count1("done") ELSE frames' = Front(frames) /\ UNCHANGED <<lent, entries, said>>

\* Any call may fail: the error goes up through the whole recursion.
DeleteFails ==
    /\ lent = "delete" /\ frames # <<>> /\ Count1("failed")
    /\ UNCHANGED <<server, perms, quiet, present>>

\* exists, then list or remove_file.
DeleteAsks ==
    /\ lent = "delete" /\ frames # <<>> /\ Top.new
    /\ LET p == Top.at IN
       CASE Asked(p) = "none" -> Popped /\ UNCHANGED server
         [] Asked(p) = "dir" -> /\ Left(Listed(p))
                                /\ UNCHANGED <<server, lent, entries, said>>
         [] OTHER -> Popped /\ Set(p, "none")
    /\ Watched /\ UNCHANGED <<perms, quiet>>

DeleteDescends ==
    /\ lent = "delete" /\ frames # <<>> /\ Top.kids # {}
    /\ Descend
    /\ UNCHANGED <<server, perms, quiet, lent, entries, said, present>>

\* remove_dir is recursive in every backend that has it: it lists the directory
\* again and removes what has come meanwhile, what was listed first; listing
\* looks through a link.
RemovingDir == lent = "delete" /\ frames # <<>> /\ ~Top.new /\ Top.kids = {}
RemoveSweeps == \E q \in Places :
    /\ RemovingDir /\ Asked(Top.at) = "dir"
    /\ q # Directory(Top.at) /\ IsPrefix(Directory(Top.at), q) /\ server[q] # "none"
    /\ \A r \in Places : Len(r) = Len(q) + 1 /\ IsPrefix(q, r) => server[r] = "none"
    /\ server' = [server EXCEPT ![q] = "none"]
    /\ Watched /\ UNCHANGED <<perms, quiet, lent, entries, frames, said>>

\* A collection and all it holds.
Clear(d) == server' = [p \in Places |-> IF IsPrefix(d, p) THEN "none" ELSE server[p]]

\* Mutant: a directory that could not be removed counts as deleted.
RemoveDirUnchecked ==
    /\ RemovingDir
    /\ Popped
    /\ \/ Kind(Top.at) = "dir" /\ Empty(Top.at) /\ Set(Top.at, "none")
       \/ UNCHANGED server
    /\ Watched /\ UNCHANGED <<perms, quiet>>

\* Its last call is for the directory itself.  SFTP, FTP and SMB remove an empty
\* one, and not a link; WebDAV, where there are no links, removes whatever the
\* collection holds by then, and takes one that is gone for removed.
RemoveDir ==
    /\ RemovingDir
    /\ \/ Kind(Top.at) = "dir" /\ Empty(Top.at) /\ Popped /\ Set(Top.at, "none")
       \/ ~follows /\ Popped /\ Clear(Resolved(Top.at))
       \/ ~(Kind(Top.at) = "dir" /\ Empty(Top.at)) /\ Count1("failed") /\ UNCHANGED server
    /\ Watched /\ UNCHANGED <<perms, quiet>>

----------------------------------------------------------------------------
(* Permissions: the dialog is not modal, its answer is polled. *)

OpenPermissions(sel) ==
    /\ flow = <<>> /\ flow' = sel /\ ops < MaxOps
    /\ UNCHANGED <<server, perms, follows, opVars, searchVars, ops, added, present>>

\* poll_permission_flows: apply_permissions for each target; it takes the
\* client and returns without a word when it is out.
ApplyPermissions ==
    /\ flow # <<>> /\ flow' = <<>> /\ ops' = ops + 1
    /\ IF lent = "none"
       THEN /\ lent' = "chmod" /\ entries' = <<flow[1]>> /\ frames' = <<>>
            /\ said' = [done |-> 0, failed |-> 0] /\ picked' = <<flow[1]>> /\ firstServer' = server
       ELSE UNCHANGED opVars
    /\ UNCHANGED <<server, perms, follows, searchVars, added, present>>

DismissPermissions ==
    /\ flow # <<>> /\ flow' = <<>>
    /\ UNCHANGED <<server, perms, follows, opVars, searchVars, ops, added, present>>

Chmod(p) == perms' = [perms EXCEPT ![IF Kind(p) = "link" THEN LinkedDir ELSE Resolved(p)] = "new"]

\* stat and chmod of the target; recursively, of what list shows: a link is
\* listed as no directory, and chmod follows it.
ChmodVisits ==
    /\ lent = "chmod" /\ frames # <<>>
    /\ LET p == Top.at IN
       /\ IF Top.new
          THEN /\ Kind(p) # "none" /\ Chmod(p)
               /\ IF Kind(p) = "dir"
                  THEN Left(Listed(p)) /\ UNCHANGED <<lent, entries, said>>
                  ELSE Popped
          ELSE /\ UNCHANGED perms
               /\ IF Top.kids = {} THEN Popped ELSE Descend /\ UNCHANGED <<lent, entries, said>>
    /\ UNCHANGED <<server, quiet, present>>

ChmodFails ==
    /\ lent = "chmod" /\ frames # <<>> /\ Count1("failed")
    /\ UNCHANGED <<server, perms, quiet, present>>

----------------------------------------------------------------------------
(* Operations of one call. *)

OneCall(op) == lent = op /\ entries # <<>>

\* Something is made in a directory.
InDir(p) == Resolved(p) \in Places /\ server[Front(Resolved(p))] = "dir"

MakeFolder ==
    /\ OneCall("newFolder")
    /\ \/ /\ Kind(Head(entries)) = "none" /\ InDir(Head(entries))
          /\ Set(Head(entries), "dir") /\ Count1("done")
       \/ UNCHANGED server /\ Count1("failed")
    /\ UNCHANGED <<perms, quiet, present>>

\* on_new_file_right asks when exists answers Some(true), which is a directory,
\* and new_file puts an empty file there, also in the place of a file.
MakeFile ==
    /\ OneCall("newFile")
    /\ LET p == Head(entries) IN
       \/ UNCHANGED server /\ Count1("failed")
       \/ Asked(p) # "dir" /\ Kind(p) # "link" /\ InDir(p) /\ Set(p, "file") /\ Count1("done")
    /\ UNCHANGED <<perms, quiet, present>>

MovedTree(p, q) ==
    [r \in Places |->
        IF IsPrefix(q, r) /\ p \o SubSeq(r, Len(q) + 1, Len(r)) \in Places
        THEN server[p \o SubSeq(r, Len(q) + 1, Len(r))]
        ELSE IF IsPrefix(p, r) THEN "none" ELSE server[r]]

\* remote_move_renames keeps a folder out of itself.
Movable(p, d) == Append(d, Last(p)) # p /\ ~IsPrefix(p, Append(d, Last(p)))

\* rename_entry, and the server-side move of a selection: without overwrite.
RenameTo(q) ==
    /\ OneCall("rename")
    /\ LET p == Resolved(Head(entries)) IN
       /\ \/ UNCHANGED server /\ Count1("failed")
          \/ /\ p \in Places /\ server[p] # "none" /\ server[q] = "none" /\ Len(q) > 1 /\ server[Front(q)] = "dir"
             /\ Front(q) = Front(p) \/ (Last(q) = Last(p) /\ Movable(p, Front(q)))
             /\ \A r \in Places : IsPrefix(p, r) /\ server[r] # "none" => q \o SubSeq(r, Len(p) + 1, Len(r)) \in Places
             /\ server' = MovedTree(p, q) /\ Count1("done")
       /\ Watched
    /\ UNCHANGED <<perms, quiet>>

----------------------------------------------------------------------------
(* search_remote_recursive, over a connection of its own. *)

BeginSearch ==
    /\ scan = "idle" /\ searches < MaxSearches /\ searches' = searches + 1
    /\ scan' = "running" /\ scanQueue' = <<<<>>>> /\ scanSeen' = {} /\ matches' = {} /\ flags' = {}
    /\ searchCancelled' = FALSE /\ present' = {p \in Places : server[p] # "none"}
    /\ UNCHANGED <<server, perms, follows, opVars, flow, ops, added, firstServer>>

CancelSearch ==
    /\ scan = "running" /\ ~searchCancelled /\ searchCancelled' = TRUE
    /\ UNCHANGED <<server, perms, follows, opVars, flow, scan, scanQueue, scanSeen, matches, flags, searches,
                   ops, added, present>>

SearchEnds(f) == scan' = "shown" /\ flags' = flags \cup f /\ UNCHANGED <<scanQueue, scanSeen, matches>>
scanFrame == <<server, perms, follows, opVars, flow, searchCancelled, searches, ops, added, present>>

\* Mutant: a folder that cannot be listed is passed over.
FolderSkipped ==
    /\ scanQueue' = Tail(scanQueue) /\ scanSeen' = scanSeen \cup {Head(scanQueue)}
    /\ UNCHANGED <<scan, matches, flags>>

\* A folder that cannot be listed is counted.
FolderFails ==
    /\ scanQueue' = Tail(scanQueue) /\ scanSeen' = scanSeen \cup {Head(scanQueue)}
    /\ flags' = flags \cup {"errors"} /\ UNCHANGED <<scan, matches>>

\* process_entries: it stops within the listing when it is cancelled.
FolderListed(d) ==
    LET names == IF d = <<>> THEN {p[1] : p \in {q \in Places : Len(q) = 1 /\ server[q] # "none"}} ELSE Listed(d)
        hits(ns) == {Append(d, n) : n \in ns \cap Matching}
        subs(ns) == {Append(d, n) : n \in {m \in ns : Kind(Append(d, m)) = "dir"}} IN
    \E ns \in IF searchCancelled THEN SUBSET names ELSE {names} :
        /\ matches' = matches \cup hits(ns)
        /\ flags' = IF Cardinality(matches') >= MaxMatches THEN flags \cup {"truncated"} ELSE flags
        /\ scanSeen' = scanSeen \cup {d}
        /\ scanQueue' = Tail(scanQueue) \o (IF Len(d) + 1 < SearchDepth THEN SetToSeq(subs(ns)) ELSE <<>>)
        /\ UNCHANGED scan

SearchStep ==
    /\ scan = "running" /\ UNCHANGED scanFrame
    /\ CASE scanQueue = <<>> -> SearchEnds({})
         [] scanQueue # <<>> /\ searchCancelled -> SearchEnds({"canceled"}) \/ (Head(scanQueue) \notin scanSeen /\ FolderListed(Head(scanQueue)))
         [] scanQueue # <<>> /\ ~searchCancelled /\ "truncated" \in flags -> SearchEnds({})
         [] OTHER -> \/ FolderFails
                     \/ (Head(scanQueue) = <<>> \/ Kind(Head(scanQueue)) = "dir") /\ FolderListed(Head(scanQueue))

CloseSearch ==
    /\ scan = "shown" /\ scan' = "idle" /\ matches' = {} /\ flags' = {} /\ scanSeen' = {} /\ scanQueue' = <<>>
    /\ UNCHANGED scanFrame

----------------------------------------------------------------------------

OtherAdds(p) ==
    /\ added < MaxAdded /\ added' = added + 1
    /\ server[p] = "none" /\ Len(p) > 1 /\ server[Front(p)] = "dir"
    /\ server' = [server EXCEPT ![p] = "file"]
    /\ UNCHANGED <<perms, follows, opVars, flow, searchVars, ops, firstServer, present>>

RemoteNext ==
    \/ \E s \in Picks : Borrow("delete", s) \/ OpenPermissions(s)
    \/ \E p \in Places : Len(p) > 1 /\ (Borrow("newFolder", <<p>>) \/ Borrow("newFile", <<p>>))
    \/ \E s \in Picks : Borrow("rename", s)
    \/ BeginEntry \/ DeleteFails \/ DeleteAsks \/ DeleteDescends \/ RemoveSweeps \/ RemoveDir
    \/ ApplyPermissions \/ DismissPermissions \/ ChmodVisits \/ ChmodFails
    \/ MakeFolder \/ MakeFile \/ ReturnClientHome
    \/ \E q \in Places : RenameTo(q)
    \/ BeginSearch \/ CancelSearch \/ SearchStep \/ CloseSearch
    \/ \E p \in Places : OtherAdds(p)

RemoteSpec == RemoteInit /\ [][RemoteNext]_remoteVars

----------------------------------------------------------------------------

\* Every variable has its type.
RemoteTypeOK ==
    /\ server \in RemoteTrees
    /\ perms \in [Places -> {"old", "new"}] /\ follows \in BOOLEAN
    /\ lent \in {"none", "delete", "chmod", "newFolder", "newFile", "rename"}
    /\ \A i \in DOMAIN entries : entries[i] \in Places
    /\ \A i \in DOMAIN frames : frames[i].new \in BOOLEAN /\ (frames[i].new => frames[i].kids = {})
    /\ scan \in {"idle", "running", "shown"} /\ flags \subseteq Flags /\ searchCancelled \in BOOLEAN
    /\ present \subseteq Places

----------------------------------------------------------------------------

\* What the selected paths named when the operation began.
Selected(p) == \E i \in DOMAIN picked : IsPrefix(ResolvedOn(firstServer, picked[i]), p)

\* What a delete counts as deleted is gone, with all it held, whatever others
\* add to it meanwhile.  Over SFTP a link that leads nowhere is excepted: it is
\* taken for a missing entry, counted as deleted, and stays.
\* (remote.rs: delete_entries, delete_one; remove_dir of the backends)
DeletedIsGone ==
    [][lent = "delete" /\ said'.done > said.done =>
         \A p \in Places : IsPrefix(Head(entries), p) =>
            server'[p] = "none" \/ (follows /\ server'[p] = "link")]_remoteVars

\* What a link in the selection leads to, where asking looks through links.
ThroughLink(p) ==
    /\ follows /\ IsPrefix(LinkedDir, p) /\ p # LinkedDir
    /\ \E q \in Places : firstServer[q] = "link" /\ Selected(q)

\* A delete removes nothing outside the selection, but for what a link in it
\* leads to: SFTP's exists() looks through links, so that a delete empties the
\* directory a link points to.  (remote.rs: delete_one; sftp.rs: exists)
DeletesInside ==
    lent = "delete" =>
        \A p \in Places : firstServer[p] # "none" /\ server[p] = "none" => Selected(p) \/ ThroughLink(p)

\* A delete removes nothing outside the selection.  It does over SFTP, see
\* DeletesInside, although delete_one asks what each entry is so that nothing
\* wrong is done.  (remote.rs: delete_entries, lines 283 to 285)
DeletesOnlySelected ==
    lent = "delete" => \A p \in Places : firstServer[p] # "none" /\ server[p] = "none" => Selected(p)

\* A search that reports no error, no cap and no cancel found every match
\* that was there all along, down to its depth.
\* (remote.rs: search_remote_recursive)
SearchTells ==
    scan = "shown" /\ flags = {} /\ ~searchCancelled =>
        \A p \in present : /\ Last(p) \in Matching /\ Len(p) <= SearchDepth
                           /\ \A i \in 1..(Len(p) - 1) : server[SubSeq(p, 1, i)] = "dir"
                           => p \in matches
=============================================================================
