------------------------------ MODULE MCFiles ------------------------------
(***************************************************************************)
(* Small instances of the modules about single files and directories: the  *)
(* protocol backends' transfers and file operations, their listings, and   *)
(* the operations the window builds on them.  These parts do not touch one *)
(* another's state, so each behaviour plays one of them, its scene, while  *)
(* the others rest in one of their initial states.                         *)
(***************************************************************************)
EXTENDS BackendTransfers, ScpTransfer, BackendFiles, LocalFiles, RemoteFiles,
        RemoteListings, TLC

\* One file of at most two records, or a directory, or a nested one.
MCTrees == { FileRecords("f", 0), FileRecords("f", 2), DirRecords("d", <<>>),
             DirRecords("d", FileRecords("f", 1) \o DirRecords("e", FileRecords("g", 2))) }

\* A directory with an entry and a sub-directory with one, and a file beside it.
Tree(top, x, e, y, s) ==
  (<<"d">> :> top) @@ (<<"d", "x">> :> x) @@ (<<"d", "e">> :> e)
    @@ (<<"d", "e", "y">> :> y) @@ (<<"s">> :> s)
MCPaths == DOMAIN Tree("", "", "", "", "")
MCFirst == {Tree("dir", "one", "dir", "two", "three"),
            Tree("dir", "absent", "dir", "absent", "three"),
            Tree("dir", "one", "two", "absent", "absent"),
            Tree("dir", "absent", "dir", "dir", "absent")}

\* Two directories; a nested one to copy or move, with a link in its way.
MCDiskPaths == {<<"a">>, <<"b">>, <<"a","d">>, <<"a","x">>, <<"a","d","d">>,
                <<"a","d","x">>, <<"b","d">>, <<"b","x">>, <<"b","d","x">>, <<"b","d","d">>}
Filled0(paths, m) == [p \in paths |-> IF p \in DOMAIN m THEN m[p] ELSE "none"]
MCDisks ==
  {Filled0(DiskPaths, (<<"a">> :> "dir") @@ (<<"b">> :> "dir") @@ (<<"a","x">> :> "x1")
                        @@ (<<"a","d">> :> "dir") @@ (<<"a","d","x">> :> "x2") @@ m) :
     m \in {<<"b","x">> :> "link",
            (<<"a","d","d">> :> "link") @@ (<<"b","d">> :> "dir") @@ (<<"b","d","x">> :> "x3")}}
MCLinkTo == <<"a","x">>
MCSelections == {<<<<"a","d">>>>, <<<<"a","x">>, <<"a","d">>>>, <<<<"a","d","x">>>>}
MCFolders == {<<"b">>, <<"a">>, <<"a","d">>}

\* A remote directory with a file and a directory, or a link to another one.
MCPlaces == {<<"d">>, <<"d","f">>, <<"d","e">>, <<"d","e","f">>, <<"t">>, <<"t","f">>}
MCServers ==
  {Filled0(Places, (<<"d">> :> "dir") @@ (<<"t">> :> "dir") @@ (<<"d","f">> :> "file") @@ m) :
     m \in {(<<"d","e">> :> "dir") @@ (<<"d","e","f">> :> "file"),
            (<<"d","e">> :> "link") @@ (<<"t","f">> :> "file")}}
MCLinked == <<"t">>
MCPicks == {<<<<"d">>>>, <<<<"d","e">>, <<"d","f">>>>}

-----------------------------------------------------------------------------
VARIABLE scene
Scenes == {"transfer", "scp", "backend", "local", "remote", "listing"}
allVars == <<scene, transferVars, scpVars, fileVars, localVars, remoteVars, listingVars>>

\* The initial state in which a part rests while another plays.
TransferRests ==
  /\ backend = "ftp" /\ direction = "get" /\ parents = FALSE
  /\ source = (CHOOSE s \in Sources : TRUE) /\ target = (CHOOSE t \in Leftovers(source) : TRUE)
ScpRests ==
  /\ scpDirection = "get" /\ mode = "auto" /\ sends
  /\ tree = FileRecords("f", 0)
BackendRests == fbackend = "sftp" /\ node = Tree("dir", "one", "dir", "two", "three")
LocalRests == disk[<<"b","x">>] = "link" /\ split = FALSE
RemoteRests == server[<<"d","e">>] = "dir"
ListingRests ==
  /\ listed = [by |-> "webdav", has |-> {}, dirs |-> {}]
  /\ answers = (CHOOSE a \in DavAnswers0 \X {Refused} : TRUE)

Init ==
  /\ scene \in Scenes
  /\ TransferInit /\ (scene = "transfer" \/ TransferRests)
  /\ ScpInit /\ (scene = "scp" \/ ScpRests)
  /\ FilesInit /\ (scene = "backend" \/ BackendRests)
  /\ LocalInit /\ (scene = "local" \/ LocalRests)
  /\ RemoteInit /\ (scene = "remote" \/ RemoteRests)
  /\ ListingInit /\ (scene = "listing" \/ ListingRests)

Next ==
  \/ /\ scene = "transfer" /\ TransferNext
     /\ UNCHANGED <<scene, scpVars, fileVars, localVars, remoteVars, listingVars>>
  \/ /\ scene = "scp" /\ ScpNext
     /\ UNCHANGED <<scene, transferVars, fileVars, localVars, remoteVars, listingVars>>
  \/ /\ scene = "backend" /\ FilesNext
     /\ UNCHANGED <<scene, transferVars, scpVars, localVars, remoteVars, listingVars>>
  \/ /\ scene = "local" /\ LocalNext
     /\ UNCHANGED <<scene, transferVars, scpVars, fileVars, remoteVars, listingVars>>
  \/ /\ scene = "remote" /\ RemoteNext
     /\ UNCHANGED <<scene, transferVars, scpVars, fileVars, localVars, listingVars>>
  \/ /\ scene = "listing" /\ ListingNext
     /\ UNCHANGED <<scene, transferVars, scpVars, fileVars, localVars, remoteVars>>

Spec == Init /\ [][Next]_allVars

\* Each part's types, while it plays.
AllTypesOK ==
  /\ scene = "transfer" => TransferTypeOK
  /\ scene = "scp" => ScpTypeOK
  /\ scene = "backend" => FilesTypeOK
  /\ scene = "local" => LocalTypeOK
  /\ scene = "remote" => RemoteTypeOK
  /\ scene = "listing" => ListingTypeOK

\* A transfer that reports success has delivered what was to be copied: over
\* a resume of whatever earlier attempts left, record by record over SCP, or
\* over the fallback to SFTP; but for files that the remote scp has reported
\* with an error that is only logged, or whose last write has failed unseen
\* (ftp.rs, smb.rs, webdav.rs, scp.rs).
TransfersDeliver ==
  /\ scene = "transfer" => RetriesDeliver
  /\ scene = "scp" => ScpDelivers

\* No operation loses or touches a file it was not asked for: a failed rename
\* leaves the file at one of its names, a removal stays inside what it was
\* given and, over SFTP, what a link in it leads to, and a local copy or move
\* that reports no failure has brought every file
\* (ftp.rs, smb.rs, sftp.rs, webdav.rs, local_fs.rs, remote.rs, main.rs).
FilesSurvive ==
  /\ scene = "backend" => CallsStayInPlace /\ RenameKeepsSource
  /\ scene = "local" => FilesArrive
  /\ scene = "remote" => DeletesInside

\* What a listing shows is what the server answered for that directory, and a
\* search that says it is complete has seen all it could (ftp.rs, webdav.rs,
\* remote.rs).
ListingsAreWhole ==
  /\ scene = "listing" => ListingIsExact
  /\ scene = "remote" => SearchTells
=============================================================================
