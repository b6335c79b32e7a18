-------------------------------- MODULE Panes --------------------------------
(***************************************************************************)
(* What the two file panes of a tab show: freescp-app's main.rs            *)
(* (reload_local, reload_right_local, watch_local_dir, the navigation      *)
(* callbacks, request_remote_reload) and watcher.rs.                       *)
(*                                                                         *)
(* A pane has a path and rows.  A local pane is listed on the UI thread    *)
(* and then watched: changes wake a thread that reports them, once they    *)
(* have settled, through the UI event queue.  The right pane becomes       *)
(* remote while a session is connected: its rows then come from a task     *)
(* that borrows the session's client, and its path is set before that.     *)
(* Tabs, and who else holds the client, are in Desktop.                    *)
(***************************************************************************)
EXTENDS Integers, Sequences

CONSTANTS
    Dirs,          \* folder names, local and remote
    RootDir,       \* "/"
    MaxChanges,    \* bound on the changes other programs make to a folder
    MaxMoves,      \* bound on what the user does
    MaxEvents,     \* bound on the queue, for tasks off the UI thread
    MaxSessions    \* bound on the connects

VARIABLES
    path,          \* per pane: the folder it says it shows
    rows,          \* per pane: what its rows were read from, and when
    disk,          \* per local folder: how often it has changed
    watch,         \* per pane: the watcher, the folder it watches and reports
    awake,         \* per pane: a change was noticed and has not settled
    toWatch,       \* the pane that has been listed and is not watched yet
    uiEvents,      \* the UI event queue
    session,       \* 0 while the right pane is local
    tasks,         \* per session: what holds its client: a reload, an operation
    failed,        \* the error that covers the rows of the remote pane
    disturbed,     \* history, since the last refresh began: one for another folder was
                   \* refused, its error was wiped, or local rows were put in its place
    owed,          \* history: a refresh was refused over an operation
    moves, sessions

watchVars == <<watch, awake, toWatch>>
remoteVars == <<session, tasks, failed, disturbed, owed, sessions>>
paneVars == <<path, rows, disk, watchVars, uiEvents, remoteVars, moves>>

Sides == {"left", "right"}
LocalSides == IF session = 0 THEN Sides ELSE {"left"}
None == "none"

ASSUME PanesAssumption ==
    /\ RootDir \in Dirs /\ None \notin Dirs
    /\ MaxChanges \in Nat /\ MaxMoves \in Nat /\ MaxEvents \in Nat /\ MaxSessions \in Nat

NoWatcher == [looks |-> None, reports |-> None]
NoTask == [kind |-> "none", dir |-> RootDir, restoring |-> FALSE]
Rows(s, d, v) == [of |-> s, dir |-> d, seen |-> v]
\* A UI event; only reloadSession names a session.
UiEvent(k, p, d, s) == [kind |-> k, side |-> p, dir |-> d, of |-> s]

PanesInit ==
    /\ path = [p \in Sides |-> RootDir]
    /\ rows = [p \in Sides |-> Rows(0, RootDir, 0)]
    /\ disk = [d \in Dirs |-> 0]
    /\ watch = [p \in Sides |-> [looks |-> RootDir, reports |-> RootDir]]
    /\ awake = {} /\ toWatch = None /\ uiEvents = <<>>
    /\ session = 0 /\ tasks = [s \in 1..MaxSessions |-> NoTask] /\ failed = FALSE /\ disturbed = FALSE
    /\ owed = FALSE /\ moves = 0 /\ sessions = 0

----------------------------------------------------------------------------
(* Local panes. *)

\* reload_local, reload_right_local: the path and the rows are set at once,
\* the watcher after that.
ReloadLocal(p, d) ==
    /\ path' = [path EXCEPT ![p] = d]
    /\ rows' = [rows EXCEPT ![p] = Rows(0, d, disk[d])]
    /\ toWatch' = p

\* A callback of the user; the UI thread is not in the middle of another.
Click == toWatch = None /\ moves < MaxMoves /\ moves' = moves + 1

\* Up, home, the path field, a recent path, a folder row, refresh.
GoLocal(p, d) ==
    /\ Click /\ p \in LocalSides /\ ReloadLocal(p, d)
    /\ UNCHANGED <<disk, watch, awake, uiEvents, remoteVars>>

\* watch_local_dir: an existing watcher is pointed at the folder and goes on
\* reporting the folder it was made for; watching may fail.
PointWatcher ==
    /\ toWatch # None /\ toWatch' = None
    /\ LET p == toWatch  w == watch[p]  d == path[p] IN
       \/ watch' = [watch EXCEPT ![p] =
              IF w.reports = None THEN [looks |-> d, reports |-> d] ELSE [w EXCEPT !.looks = d]]
       \/ w.looks # d /\ UNCHANGED watch
       \/ w.looks # d /\ w.reports # None /\ watch' = [watch EXCEPT ![p].looks = None]
    /\ UNCHANGED <<path, rows, disk, awake, uiEvents, remoteVars, moves>>

\* Another program changes a folder, always the same one.
DirChanges(d) ==
    /\ disk[d] < MaxChanges /\ \A e \in Dirs \ {d} : disk[e] = 0
    /\ disk' = [disk EXCEPT ![d] = @ + 1]
    /\ awake' = awake \cup {p \in Sides : watch[p].looks = d}
    /\ UNCHANGED <<path, rows, watch, toWatch, uiEvents, remoteVars, moves>>

Changed(p, d) == UiEvent("localDirChanged", p, d, 0)

\* Mutant: what settled is not reported.
SettlesQuietly(p) ==
    /\ p \in awake /\ awake' = awake \ {p}
    /\ UNCHANGED <<path, rows, disk, watch, toWatch, uiEvents, remoteVars, moves>>

\* debounce_loop: no change for a while.
Settles(p) ==
    /\ p \in awake /\ awake' = awake \ {p}
    /\ uiEvents' = Append(uiEvents, Changed(p, watch[p].reports))
    /\ UNCHANGED <<path, rows, disk, watch, toWatch, remoteVars, moves>>

----------------------------------------------------------------------------
(* The remote pane. *)

ReloadOf(d, restoring) == [kind |-> "reload", dir |-> d, restoring |-> restoring]

\* request_remote_reload, for the path the pane shows; ts are the tasks.
Refresh(ts, d) ==
    IF session = 0 THEN tasks' = ts /\ UNCHANGED <<failed, disturbed, owed>>
    ELSE IF ts[session].kind = "none"
    THEN /\ tasks' = [ts EXCEPT ![session] = ReloadOf(d, FALSE)]
         /\ failed' = FALSE /\ disturbed' = FALSE /\ owed' = FALSE
    ELSE LET t == ts[session] IN
         /\ tasks' = ts /\ UNCHANGED failed
         /\ disturbed' = (disturbed \/ (t.kind = "reload" /\ t.dir # d))
         /\ owed' = (owed \/ t.kind = "operation")

GoRemote(d) ==
    /\ Click /\ session # 0
    /\ path' = [path EXCEPT !["right"] = d]
    /\ Refresh(tasks, d)
    /\ UNCHANGED <<rows, disk, watchVars, uiEvents, session, sessions>>

\* A prompted operation, a deletion: it asks for a refresh at its end, unless
\* it was given up.
StartOperation ==
    /\ Click /\ session # 0 /\ tasks[session].kind = "none"
    /\ tasks' = [tasks EXCEPT ![session].kind = "operation"]
    /\ UNCHANGED <<path, rows, disk, watchVars, uiEvents, session, failed, disturbed, owed, sessions>>

OperationEnds(s, asks) ==
    /\ tasks[s].kind = "operation" /\ tasks' = [tasks EXCEPT ![s] = NoTask]
    /\ uiEvents' = IF asks THEN Append(uiEvents, UiEvent("reloadSession", "right", RootDir, s)) ELSE uiEvents
    /\ disturbed' = (disturbed \/ (s = session /\ owed /\ ~asks))
    /\ owed' = (owed /\ s # session)
    /\ UNCHANGED <<path, rows, disk, watchVars, session, failed, sessions, moves>>

\* Mutant: the rows are written whatever session the pane is of by now.
ReloadEndsAnywhere(s, ok) ==
    /\ toWatch = None /\ tasks[s].kind = "reload" /\ ok
    /\ tasks' = [tasks EXCEPT ![s] = NoTask]
    /\ rows' = [rows EXCEPT !["right"] = Rows(s, tasks[s].dir, 0)]
    /\ failed' = FALSE
    /\ UNCHANGED <<path, disk, watchVars, uiEvents, session, disturbed, owed, sessions, moves>>

\* The client comes back and the rows are written, if the session is still
\* the one shown.  A restored path that cannot be listed is given up for the
\* root, in whatever pane is shown.
ReloadEnds(s, ok) ==
    /\ toWatch = None /\ tasks[s].kind = "reload"
    /\ LET returned == [tasks EXCEPT ![s] = NoTask]  t == tasks[s] IN
       CASE ok ->
              /\ tasks' = returned /\ failed' = FALSE /\ UNCHANGED <<path, owed>>
              /\ IF s = session
                 THEN rows' = [rows EXCEPT !["right"] = Rows(s, t.dir, 0)]
                 ELSE UNCHANGED rows
              /\ disturbed' = (disturbed \/ (failed /\ s # session))
         [] ~ok /\ t.restoring /\ t.dir # RootDir ->
              path' = [path EXCEPT !["right"] = RootDir] /\ Refresh(returned, RootDir) /\ UNCHANGED rows
         [] OTHER ->
              tasks' = returned /\ failed' = TRUE /\ UNCHANGED <<path, rows, disturbed, owed>>
    /\ UNCHANGED <<disk, watchVars, uiEvents, session, sessions, moves>>

\* A session is installed: the pane goes to the folder the server was left
\* in, its watcher is stopped, and the left pane is listed again.
Connected(d) ==
    /\ toWatch = None /\ session = 0 /\ sessions < MaxSessions
    /\ sessions' = sessions + 1 /\ session' = sessions + 1
    /\ path' = [path EXCEPT !["right"] = d]
    /\ tasks' = [tasks EXCEPT ![session'] = ReloadOf(d, TRUE)]
    /\ failed' = FALSE /\ disturbed' = FALSE /\ owed' = FALSE
    /\ watch' = [watch EXCEPT !["right"] = NoWatcher] /\ awake' = awake \ {"right"}
    /\ rows' = [rows EXCEPT !["left"] = Rows(0, path["left"], disk[path["left"]])]
    /\ toWatch' = "left"
    /\ UNCHANGED <<disk, uiEvents, moves>>

\* on_disconnect_requested, back to the last local folder: a task that has
\* the client keeps it.
Disconnect(d) ==
    /\ Click /\ session # 0
    /\ session' = 0 /\ ReloadLocal("right", d)
    /\ UNCHANGED <<disk, watch, awake, uiEvents, tasks, failed, disturbed, owed, sessions>>

----------------------------------------------------------------------------
(* The UI event queue. *)

\* A local operation of a pane ends, one begun before a session was connected
\* among them: the pane goes to its folder (ReloadLocal, ReloadRightLocal).
PostsReload(p, d) ==
    /\ Len(uiEvents) < MaxEvents /\ moves < MaxMoves /\ moves' = moves + 1
    /\ uiEvents' = Append(uiEvents, UiEvent("reloadLocal", p, d, 0))
    /\ UNCHANGED <<path, rows, disk, watchVars, remoteVars>>

\* A reported change is checked against the pane; the end of an operation is
\* not, and lists its folder into a right pane that is remote by now.
HandleEvent ==
    /\ toWatch = None /\ uiEvents # <<>> /\ uiEvents' = Tail(uiEvents)
    /\ LET ev == Head(uiEvents) IN
       CASE \/ ev.kind = "reloadLocal"
            \/ ev.kind = "localDirChanged" /\ ev.side \in LocalSides /\ path[ev.side] = ev.dir ->
              /\ ReloadLocal(ev.side, ev.dir)
              /\ disturbed' = (disturbed \/ ev.side \notin LocalSides)
              /\ UNCHANGED <<tasks, failed, owed>>
         [] ev.kind = "reloadSession" /\ ev.of = session ->
              Refresh(tasks, path["right"]) /\ UNCHANGED <<path, rows, toWatch>>
         [] OTHER -> UNCHANGED <<path, rows, toWatch, tasks, failed, disturbed, owed>>
    /\ UNCHANGED <<disk, watch, awake, session, sessions, moves>>

PanesNext ==
    \/ \E p \in Sides, d \in Dirs : GoLocal(p, d) \/ PostsReload(p, d)
    \/ PointWatcher \/ HandleEvent \/ StartOperation
    \/ \E d \in Dirs : DirChanges(d) \/ GoRemote(d) \/ Connected(d) \/ Disconnect(d)
    \/ \E p \in Sides : Settles(p)
    \/ \E s \in 1..MaxSessions, b \in BOOLEAN : OperationEnds(s, b) \/ ReloadEnds(s, b)

PanesSpec == PanesInit /\ [][PanesNext]_paneVars

\* The UI thread goes on with what it has begun and with its queue, and a
\* folder is quiet sooner or later (DirChanges is bounded).
PanesFairness ==
    /\ WF_paneVars(PointWatcher) /\ WF_paneVars(HandleEvent)
    /\ WF_paneVars(\E p \in Sides : Settles(p))
FairPanesSpec == PanesSpec /\ PanesFairness

----------------------------------------------------------------------------

\* Every variable has its type.
PanesTypeOK ==
    /\ path \in [Sides -> Dirs] /\ disk \in [Dirs -> 0..MaxChanges]
    /\ rows \in [Sides -> [of : 0..MaxSessions, dir : Dirs, seen : 0..MaxChanges]]
    /\ watch \in [Sides -> [looks : Dirs \cup {None}, reports : Dirs \cup {None}]]
    /\ awake \subseteq Sides /\ toWatch \in Sides \cup {None}
    /\ uiEvents \in Seq([kind : {"reloadLocal", "localDirChanged", "reloadSession"}, side : Sides,
                         dir : Dirs, of : 0..MaxSessions])
    /\ session \in 0..sessions /\ sessions \in 0..MaxSessions /\ moves \in 0..MaxMoves
    /\ tasks \in [1..MaxSessions -> [kind : {"none", "reload", "operation"}, dir : Dirs, restoring : BOOLEAN]]
    /\ failed \in BOOLEAN /\ disturbed \in BOOLEAN /\ owed \in BOOLEAN

\* A local pane never shows the rows of a server, nor a remote pane those of
\* a session before it, however late a listing comes in.  A remote pane at
\* rest shows the folder it names: a refresh that is refused because an
\* operation has the client is made up for by the one at its end, unless it
\* was given up; but see RemotePaneIsCurrent for what disturbs it.
\* (main.rs: request_remote_reload_inner)
AtRest == tasks[session].kind = "none" /\ ~failed /\ \A i \in DOMAIN uiEvents : uiEvents[i].of # session
RowsAreItsOwn ==
    /\ \A p \in LocalSides : rows[p].of = 0
    /\ session # 0 => rows["right"].of \in {0, session}
    /\ session # 0 /\ AtRest /\ ~disturbed => rows["right"] = Rows(session, path["right"], 0)

\* "that operation refreshes the pane when it finishes" (main.rs:739) and "the
\* local/local layout the C++ app keeps until a session connects" (main.rs:661)
\* do not hold: a folder entered while another is being listed is never listed
\* itself, an operation that is given up asks for nothing, the late listing of
\* a session that was closed wipes the error, and the end of a local operation
\* begun before the connect puts local rows into the remote pane.
RemotePaneIsCurrent ==
    session # 0 /\ AtRest => rows["right"] = Rows(session, path["right"], 0)

UpToDate(p) == rows[p].dir = path[p] /\ rows[p].seen = disk[path[p]]

\* While the pane is at the folder its watcher was made for, a change that was
\* noticed there is shown.  (main.rs: LocalDirChanged; watcher.rs)
NoticedAtFirstIsShown ==
    \A p \in Sides :
        (p \in awake /\ p \in LocalSides /\ watch[p].reports = path[p])
            ~> (p \notin LocalSides \/ watch[p].reports # path[p] \/ UpToDate(p))

\* "re-pointed on every navigation ... so external changes refresh the listing"
\* (main.rs:593, 598) does not hold at any other folder: the watcher that was
\* pointed at it reports the first one, which the UI thread then ignores.
NoticedIsShown ==
    \A p \in Sides, d \in Dirs :
        (p \in awake /\ p \in LocalSides /\ path[p] = d /\ watch[p].looks = d)
            ~> (p \notin LocalSides \/ path[p] # d \/ UpToDate(p))
=============================================================================
