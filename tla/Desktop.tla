------------------------------ MODULE Desktop -------------------------------
(***************************************************************************)
(* The main window: freescp-app's main.rs and state.rs, and the connection *)
(* dialog of connect.rs.                                                   *)
(*                                                                         *)
(* Everything here runs on the UI thread, one callback or event at a time. *)
(* The window has one set of panes; each tab keeps a copy of them for when *)
(* it is not shown.  A session's client is lent to one background task at  *)
(* a time; tasks and connect attempts answer through the event queue.      *)
(*                                                                         *)
(* Left out: the left pane, which is always local; sorting, selection and  *)
(* titles; tasks that panic; and what a console shows (module Console).    *)
(***************************************************************************)
EXTENDS Integers, Sequences, FiniteSets, SequencesExt

CONSTANTS
    Attempts,      \* connects: a dialog, or a preset of the Site Manager
    Dirs,          \* folder names, local and remote
    RootDir,       \* "/"
    MaxTabs,       \* bound on the tabs created
    MaxSessions,   \* bound on the sessions installed
    MaxEvents,     \* bound on the queue, for producers off the UI thread
    MaxClicks      \* bound on what the user does

VARIABLES
    tabs,          \* the tab bar, in order
    active,        \* active_tab (from 1)
    win,           \* the right pane on screen, and remote_connected
    sess,          \* per session: none, free, busy, closed
    ops,           \* per session: the task its client is lent to
    uiEvents,      \* the UI event channel
    dialogs,       \* per attempt: phase, tab, cancel flag, outcome
    inFlight,      \* CONNECT_IN_FLIGHT
    startPage,     \* the Start Page covers the panes
    localJobs,     \* folders that local operations and choosers will reload
    tabsMade,
    clicks,
    abandoned      \* history: tabs whose dialog was closed by its frame

desktopVars == <<tabs, active, win, sess, ops, uiEvents, dialogs, inFlight, startPage,
                 localJobs, tabsMade, clicks, abandoned>>

TabIds == 1..MaxTabs
SessionIds == 1..MaxSessions
NoTab == 0
NoSession == 0
LocalFiles == 0        \* what a listing is of, if not of a session
NoFiles == -1
NoOp == [kind |-> "none", path |-> RootDir, fallback |-> FALSE]

ASSUME DesktopAssumption ==
    /\ RootDir \in Dirs /\ IsFiniteSet(Attempts)
    /\ MaxTabs \in Nat \ {0} /\ MaxSessions \in Nat /\ MaxEvents \in Nat
    /\ MaxClicks \in Nat

BlankTab(id) == [id |-> id, session |-> NoSession, console |-> FALSE, connecting |-> FALSE,
                 rightLocal |-> TRUE, dirty |-> FALSE, path |-> RootDir,
                 listing |-> NoFiles]
IdleDialog == [phase |-> "idle", tab |-> NoTab, cancel |-> FALSE, outcome |-> "failed"]

HasActive == tabs # <<>>
ActiveTab == tabs[active]
ActiveSession == IF HasActive THEN ActiveTab.session ELSE NoSession
IsConnected(t) == (t.session # NoSession \/ t.console) /\ ~t.rightLocal
IsFree(t) == t.session = NoSession /\ ~t.console
IndexOf(id) == {i \in DOMAIN tabs : tabs[i].id = id}
OwnerOf(s) == {i \in DOMAIN tabs : tabs[i].session = s}

Event(kind, tab, s, path) == [kind |-> kind, tab |-> tab, session |-> s, path |-> path]
Room == Len(uiEvents) < MaxEvents

DesktopInit ==
    /\ tabs = <<>> /\ active = 1 /\ tabsMade = 0
    /\ win = [path |-> RootDir, listing |-> LocalFiles,
              connected |-> FALSE]
    /\ sess = [s \in SessionIds |-> "none"]
    /\ ops = [s \in SessionIds |-> NoOp]
    /\ uiEvents = <<>>
    /\ dialogs = [a \in Attempts |-> IdleDialog]
    /\ inFlight = FALSE
    /\ startPage \in BOOLEAN
    /\ localJobs = {} /\ abandoned = {} /\ clicks = 0

----------------------------------------------------------------------------
(* Panes. *)

Stashed == [tabs EXCEPT ![active].path = win.path, ![active].listing = win.listing]

\* load_tab_panes
Shown(t) == [path |-> t.path, listing |-> t.listing, connected |-> IsConnected(t)]

\* reload_right_local on pane w and tab bar ts, whose active tab is at i.
LocalPane(w, p) == [w EXCEPT !.path = p, !.listing = LocalFiles]
LocalTab(ts, i) == IF ts = <<>> THEN ts ELSE [ts EXCEPT ![i].rightLocal = TRUE]

\* request_remote_reload: lends the client of s, unless it is lent already.
Lend(s, op) ==
    IF s # NoSession /\ sess[s] = "free"
    THEN /\ sess' = [sess EXCEPT ![s] = "busy"]
         /\ ops' = [ops EXCEPT ![s] = op]
    ELSE UNCHANGED <<sess, ops>>
ReloadOp(p, fallback) == [kind |-> "reload", path |-> p, fallback |-> fallback]

\* The navigation callbacks of the right pane: path entry, recent path, up,
\* home, a folder row, refresh.
Navigate(p) ==
    /\ ~startPage
    /\ IF ~win.connected
       THEN /\ win' = LocalPane(win, p)
            /\ tabs' = LocalTab(tabs, active)
            /\ UNCHANGED <<sess, ops>>
       ELSE /\ win' = [win EXCEPT !.path = p]
            /\ Lend(ActiveSession, ReloadOp(p, FALSE))
            /\ UNCHANGED tabs
    /\ UNCHANGED <<active, uiEvents, dialogs, inFlight, startPage, localJobs, tabsMade, abandoned>>

\* A reload ends and is applied on the UI thread: the pane is written if the
\* session is the active one by then, whatever path the pane shows by then.
ReloadEnds(s, ok) ==
    /\ ops[s].kind = "reload"
    /\ LET back == IF sess[s] = "busy" THEN "free" ELSE sess[s]
           retry == ~ok /\ ops[s].fallback /\ ops[s].path # RootDir IN
       IF retry
       THEN \* the pane and the tab that are shown now go to the root
            /\ win' = [win EXCEPT !.path = RootDir]
            /\ tabs' = IF HasActive THEN [tabs EXCEPT ![active].path = RootDir] ELSE tabs
            /\ LET next == ActiveSession
                   free == next # NoSession /\ (sess[next] = "free" \/ (next = s /\ back = "free"))
                   given == [sess EXCEPT ![s] = back] IN
               /\ sess' = IF free THEN [given EXCEPT ![next] = "busy"] ELSE given
               /\ ops' = IF free THEN [ops EXCEPT ![s] = NoOp, ![next] = ReloadOp(RootDir, FALSE)]
                         ELSE [ops EXCEPT ![s] = NoOp]
       ELSE /\ sess' = [sess EXCEPT ![s] = back]
            /\ ops' = [ops EXCEPT ![s] = NoOp]
            /\ IF ~ok THEN UNCHANGED <<win, tabs>>
               ELSE IF ActiveSession = s
               THEN win' = [win EXCEPT !.listing = s] /\ UNCHANGED tabs
               ELSE tabs' = [i \in DOMAIN tabs |->
                                IF i \in OwnerOf(s) THEN [tabs[i] EXCEPT !.dirty = TRUE] ELSE tabs[i]]
                    /\ UNCHANGED win
    /\ UNCHANGED <<active, uiEvents, dialogs, inFlight, startPage, localJobs, tabsMade, abandoned>>

\* Prompted operations, deletions, transfers' listings, the health check.
StartRemoteOp ==
    /\ ~startPage /\ win.connected /\ ActiveSession # NoSession
    /\ sess[ActiveSession] = "free"
    /\ Lend(ActiveSession, [NoOp EXCEPT !.kind = "op"])
    /\ UNCHANGED <<tabs, active, win, uiEvents, dialogs, inFlight, startPage, localJobs, tabsMade, abandoned>>

\* return_client, then request_reload_session if the operation may have
\* changed something.
RemoteOpEnds(s, reload) ==
    /\ ops[s].kind = "op" /\ Room
    /\ ops' = [ops EXCEPT ![s] = NoOp]
    /\ uiEvents' = Append(uiEvents, Event("return", NoTab, s, RootDir)) \o
                   (IF reload THEN <<Event("reload", NoTab, s, RootDir)>> ELSE <<>>)
    /\ UNCHANGED <<tabs, active, win, sess, dialogs, inFlight, startPage, localJobs, tabsMade, abandoned>>

\* The refresh hook of the transfer queue.
TransferRefreshes(s) ==
    /\ sess[s] # "none" /\ Room
    /\ uiEvents' = Append(uiEvents, Event("reload", NoTab, s, RootDir))
    /\ UNCHANGED <<tabs, active, win, sess, ops, dialogs, inFlight, startPage, localJobs, tabsMade, abandoned>>

\* A local operation of the right pane, or the remote folder chooser: each
\* posts its event when its prompt is answered.
StartLocalJob ==
    /\ ~startPage /\ localJobs = {}
    /\ localJobs' = {[kind |-> IF win.connected THEN "navigate" ELSE "reloadLocal", path |-> win.path]}
    /\ UNCHANGED <<tabs, active, win, sess, ops, uiEvents, dialogs, inFlight, startPage, tabsMade, abandoned>>

LocalJobEnds ==
    /\ Room
    /\ \E j \in localJobs :
         /\ \E p \in Dirs : /\ j.kind = "reloadLocal" => p = j.path
                            /\ uiEvents' = Append(uiEvents, Event(j.kind, NoTab, NoSession, p))
         /\ localJobs' = localJobs \ {j}
    /\ UNCHANGED <<tabs, active, win, sess, ops, dialogs, inFlight, startPage, tabsMade, abandoned>>

\* The one-second timer.
IndicatorTick ==
    /\ win' = [win EXCEPT !.connected = HasActive /\ IsConnected(ActiveTab)]
    /\ UNCHANGED <<tabs, active, sess, ops, uiEvents, dialogs, inFlight, startPage, localJobs, tabsMade, abandoned>>

----------------------------------------------------------------------------
(* Tabs. *)

ActivateTab(i) ==
    /\ ~startPage /\ i \in DOMAIN tabs /\ i # active
    /\ LET t == tabs[i] IN
       /\ tabs' = [Stashed EXCEPT ![i].dirty = FALSE]
       /\ active' = i
       /\ win' = Shown(t)
       /\ IF t.dirty THEN Lend(t.session, ReloadOp(t.path, TRUE)) ELSE UNCHANGED <<sess, ops>>
    /\ UNCHANGED <<uiEvents, dialogs, inFlight, startPage, localJobs, tabsMade, abandoned>>

Close(s) == IF s = NoSession THEN sess ELSE [sess EXCEPT ![s] = "closed"]

\* The last tab is reset and the Start Page shown.
CloseLastTab ==
    /\ ~startPage /\ Len(tabs) = 1
    /\ sess' = Close(tabs[1].session)
    /\ tabs' = <<BlankTab(tabs[1].id)>>
    /\ active' = 1
    /\ win' = [LocalPane(win, RootDir) EXCEPT !.connected = FALSE]
    /\ startPage' = TRUE
    /\ UNCHANGED <<ops, uiEvents, dialogs, inFlight, localJobs, tabsMade, abandoned>>

\* Mutant: the active tab keeps its index when one before it is closed.
CloseTabKeepsIndex(i) ==
    /\ ~startPage /\ Len(tabs) > 1 /\ i \in DOMAIN tabs
    /\ sess' = Close(tabs[i].session)
    /\ LET rest == RemoveAt(tabs, i)
           now == IF i = active /\ active > Len(rest) THEN Len(rest) ELSE active IN
       /\ active' = now
       /\ IF i = active
          THEN LET w == Shown(rest[now]) IN
               IF IsConnected(rest[now]) THEN win' = w /\ tabs' = rest
               ELSE win' = LocalPane(w, w.path) /\ tabs' = LocalTab(rest, now)
          ELSE UNCHANGED win /\ tabs' = rest
    /\ UNCHANGED <<ops, uiEvents, dialogs, inFlight, startPage, localJobs, tabsMade, abandoned>>

CloseTab(i) ==
    /\ ~startPage /\ Len(tabs) > 1 /\ i \in DOMAIN tabs
    /\ sess' = Close(tabs[i].session)
    /\ LET rest == RemoveAt(tabs, i)
           now == IF active > Len(rest) THEN Len(rest)
                  ELSE IF i < active THEN active - 1 ELSE active IN
       /\ active' = now
       /\ IF i = active
          THEN LET w == Shown(rest[now]) IN
               IF IsConnected(rest[now]) THEN win' = w /\ tabs' = rest
               ELSE win' = LocalPane(w, w.path) /\ tabs' = LocalTab(rest, now)
          ELSE UNCHANGED win /\ tabs' = rest
    /\ UNCHANGED <<ops, uiEvents, dialogs, inFlight, startPage, localJobs, tabsMade, abandoned>>

\* Closes the session or the console of the active tab; the pane goes back to
\* the local folder it last showed.
Disconnect(p) ==
    /\ ~startPage /\ HasActive
    /\ sess' = Close(ActiveSession)
    /\ tabs' = [tabs EXCEPT ![active].session = NoSession, ![active].console = FALSE,
                            ![active].rightLocal = TRUE, ![active].dirty = FALSE,
                            ![active].path = p]
    /\ win' = [LocalPane(win, p) EXCEPT !.connected = FALSE]
    /\ UNCHANGED <<active, ops, uiEvents, dialogs, inFlight, startPage, localJobs, tabsMade, abandoned>>

ShowStartPage ==
    /\ ~startPage /\ startPage' = TRUE
    /\ UNCHANGED <<tabs, active, win, sess, ops, uiEvents, dialogs, inFlight, localJobs, tabsMade, abandoned>>

\* hide_start_page: the panes come back from the tab's copy, a blank tab is
\* made if there is none.
Unhidden ==
    LET ts == IF HasActive THEN tabs ELSE <<BlankTab(tabsMade + 1)>>
        t == ts[active]  w == Shown(t) IN
    IF ~startPage THEN [tabs |-> tabs, win |-> win, made |-> tabsMade]
    ELSE IF IsConnected(t) THEN [tabs |-> ts, win |-> w, made |-> tabsMade]
    ELSE [tabs |-> LocalTab(ts, active), win |-> LocalPane(w, w.path),
          made |-> IF HasActive THEN tabsMade ELSE tabsMade + 1]

DismissStartPage ==
    /\ startPage /\ (~HasActive => tabsMade < MaxTabs)
    /\ tabs' = Unhidden.tabs /\ win' = Unhidden.win /\ tabsMade' = Unhidden.made
    /\ startPage' = FALSE
    /\ UNCHANGED <<active, sess, ops, uiEvents, dialogs, inFlight, localJobs, abandoned>>

----------------------------------------------------------------------------
(* Connecting. *)

\* reserve_connect_tab: the active tab if it is idle, else a new one, which
\* becomes active.
Reserved(ts, made) ==
    IF ts # <<>> /\ IsFree(ts[active]) /\ ~ts[active].connecting
    THEN [tabs |-> [ts EXCEPT ![active].connecting = TRUE], at |-> active, made |-> made]
    ELSE [tabs |-> Append(ts, [BlankTab(made + 1) EXCEPT !.connecting = TRUE]),
          at |-> Len(ts) + 1, made |-> made + 1]

OpenDialog(a, tab) == dialogs' = [dialogs EXCEPT ![a] = [IdleDialog EXCEPT !.phase = "open", !.tab = tab]]

\* Connect and New terminal session hide the Start Page, its Quick Connect
\* does not.  Refused while an attempt is in flight.
Connect(a, hides) ==
    /\ dialogs[a].phase = "idle" /\ (~hides => startPage) /\ tabsMade + 2 <= MaxTabs
    /\ LET u == IF hides THEN Unhidden ELSE [tabs |-> tabs, win |-> win, made |-> tabsMade]
           r == Reserved(u.tabs, u.made) IN
       /\ win' = u.win
       /\ IF inFlight
          THEN tabs' = u.tabs /\ tabsMade' = u.made /\ UNCHANGED <<active, dialogs>>
          ELSE /\ tabs' = r.tabs /\ active' = r.at /\ tabsMade' = r.made
               /\ OpenDialog(a, r.tabs[r.at].id)
    /\ startPage' = (startPage /\ ~hides)
    /\ UNCHANGED <<sess, ops, uiEvents, inFlight, localJobs, abandoned>>

\* Open on the Start Page in terminal mode with nothing picked: a dialog with
\* no tab.
OpenTerminalPick(a) ==
    /\ startPage /\ dialogs[a].phase = "idle" /\ ~inFlight
    /\ OpenDialog(a, NoTab)
    /\ UNCHANGED <<tabs, active, win, sess, ops, uiEvents, inFlight, startPage, localJobs, tabsMade, abandoned>>

\* A preset of the Site Manager, the history or the Start Page: no dialog, no
\* tab, no check for another attempt.
ConnectPreset(a) ==
    /\ dialogs[a].phase = "idle"
    /\ dialogs' = [dialogs EXCEPT ![a] = [IdleDialog EXCEPT !.phase = "preset"]]
    /\ UNCHANGED <<tabs, active, win, sess, ops, uiEvents, inFlight, startPage, localJobs, tabsMade, abandoned>>

\* on_connect_requested, after its checks.
DialogConnects(a) ==
    /\ dialogs[a].phase = "open"
    /\ dialogs' = [dialogs EXCEPT ![a].phase = "running", ![a].cancel = FALSE]
    /\ inFlight' = TRUE
    /\ UNCHANGED <<tabs, active, win, sess, ops, uiEvents, startPage, localJobs, tabsMade, abandoned>>

DialogCancels(a) ==
    /\ dialogs[a].phase \in {"running", "returned"} /\ ~dialogs[a].cancel
    /\ dialogs' = [dialogs EXCEPT ![a].cancel = TRUE]
    /\ UNCHANGED <<tabs, active, win, sess, ops, uiEvents, inFlight, startPage, localJobs, tabsMade, abandoned>>

\* The Cancel button of a dialog that is not connecting.
DialogCloses(a) ==
    /\ dialogs[a].phase = "open" /\ Room
    /\ dialogs' = [dialogs EXCEPT ![a] = IdleDialog]
    /\ uiEvents' = Append(uiEvents, Event("failed", dialogs[a].tab, NoSession, RootDir))
    /\ UNCHANGED <<tabs, active, win, sess, ops, inFlight, startPage, localJobs, tabsMade, abandoned>>

\* The dialog's window is closed by its frame: no handler runs.
DialogWindowCloses(a) ==
    /\ dialogs[a].phase = "open"
    /\ dialogs' = [dialogs EXCEPT ![a] = IdleDialog]
    /\ abandoned' = abandoned \cup {dialogs[a].tab}
    /\ UNCHANGED <<tabs, active, win, sess, ops, uiEvents, inFlight, startPage, localJobs, tabsMade>>

\* The network task ends; it looks at the cancel flag one last time.
AttemptReturns(a, outcome) ==
    /\ dialogs[a].phase \in {"running", "preset"}
    /\ dialogs[a].cancel => outcome = "failed"
    /\ dialogs' = [dialogs EXCEPT
         ![a].phase = IF @ = "running" THEN "returned" ELSE "presetReturned",
         ![a].outcome = outcome]
    /\ UNCHANGED <<tabs, active, win, sess, ops, uiEvents, inFlight, startPage, localJobs, tabsMade, abandoned>>

\* The future on the UI thread continues.  A dialog whose attempt failed stays
\* open, for another try.
AttemptSettles(a) ==
    /\ dialogs[a].phase \in {"returned", "presetReturned"} /\ Room
    /\ uiEvents' = Append(uiEvents, Event(dialogs[a].outcome, dialogs[a].tab, NoSession, RootDir))
    /\ dialogs' = [dialogs EXCEPT ![a] =
         IF dialogs[a].phase = "returned" /\ dialogs[a].outcome = "failed"
         THEN [dialogs[a] EXCEPT !.phase = "open"] ELSE IdleDialog]
    /\ inFlight' = (inFlight /\ dialogs[a].phase = "presetReturned")
    /\ UNCHANGED <<tabs, active, win, sess, ops, startPage, localJobs, tabsMade, abandoned>>

----------------------------------------------------------------------------
(* The event loop. *)

\* Mutant: a console tab is taken for a free one.
PlaceForIgnoresConsole(tab) ==
    LET free(i) == tabs[i].session = NoSession
        named == {i \in IndexOf(tab) : free(i)} IN
    IF named # {} THEN CHOOSE i \in named : TRUE
    ELSE IF HasActive /\ free(active) THEN active ELSE Len(tabs) + 1

\* Where a session or console goes: its tab if that is free, else the active
\* tab if that is, else a new tab.
PlaceFor(tab) ==
    LET named == {i \in IndexOf(tab) : IsFree(tabs[i])} IN
    IF named # {} THEN CHOOSE i \in named : TRUE
    ELSE IF HasActive /\ IsFree(ActiveTab) THEN active ELSE Len(tabs) + 1

PlaceRoom(tab) == PlaceFor(tab) <= Len(tabs) \/ tabsMade < MaxTabs
WithPlace(tab) == IF PlaceFor(tab) <= Len(tabs) THEN tabs ELSE Append(tabs, BlankTab(tabsMade + 1))
MadeFor(tab) == IF PlaceFor(tab) <= Len(tabs) THEN tabsMade ELSE tabsMade + 1

\* UiEvent::Session.  The tab becomes the active one; the window follows only
\* if it was the active one already.
InstallSession(tab) ==
    /\ PlaceRoom(tab)
    /\ \E s \in SessionIds, p \in Dirs :
         LET i == PlaceFor(tab)  shown == (active = i)
             ts == [WithPlace(tab) EXCEPT
                     ![i].session = s, ![i].connecting = FALSE, ![i].rightLocal = FALSE,
                     ![i].path = p, ![i].listing = NoFiles,
                     ![i].dirty = (@ \/ ~shown)] IN
         /\ sess[s] = "none" /\ \A r \in SessionIds : r < s => sess[r] # "none"
         /\ tabs' = ts /\ active' = i /\ tabsMade' = MadeFor(tab)
         /\ IF shown
            THEN /\ win' = [win EXCEPT !.connected = TRUE, !.path = p]
                 /\ sess' = [sess EXCEPT ![s] = "busy"]
                 /\ ops' = [ops EXCEPT ![s] = ReloadOp(p, TRUE)]
            ELSE sess' = [sess EXCEPT ![s] = "free"] /\ UNCHANGED <<win, ops>>

\* UiEvent::ConsoleSession
InstallConsole(tab) ==
    /\ PlaceRoom(tab)
    /\ LET i == PlaceFor(tab) IN
       /\ tabs' = [WithPlace(tab) EXCEPT
                     ![i].console = TRUE, ![i].connecting = FALSE, ![i].rightLocal = FALSE,
                     ![i].dirty = FALSE, ![i].path = RootDir,
                     ![i].listing = NoFiles]
       /\ active' = i /\ tabsMade' = MadeFor(tab)
    /\ win' = [win EXCEPT !.connected = TRUE]
    /\ UNCHANGED <<sess, ops>>

ReleaseTab(tab) ==
    /\ tabs' = [i \in DOMAIN tabs |-> IF tabs[i].id = tab THEN [tabs[i] EXCEPT !.connecting = FALSE]
                                      ELSE tabs[i]]
    /\ UNCHANGED <<active, win, sess, ops, tabsMade>>

ReloadSession(s) ==
    /\ IF ActiveSession = s
       THEN Lend(s, ReloadOp(win.path, FALSE)) /\ UNCHANGED tabs
       ELSE /\ tabs' = [i \in DOMAIN tabs |-> IF i \in OwnerOf(s) THEN [tabs[i] EXCEPT !.dirty = TRUE]
                                              ELSE tabs[i]]
            /\ UNCHANGED <<sess, ops>>
    /\ UNCHANGED <<active, win, tabsMade>>

\* A session that was closed meanwhile drops its client.
ReturnClient(s) ==
    /\ sess' = IF sess[s] = "busy" THEN [sess EXCEPT ![s] = "free"] ELSE sess
    /\ UNCHANGED <<tabs, active, win, ops, tabsMade>>

\* ReloadRightLocal and NavigateRemote act on whatever tab is active by then.
ShowLocal(p) ==
    /\ win' = LocalPane(win, p) /\ tabs' = LocalTab(tabs, active)
    /\ UNCHANGED <<active, sess, ops, tabsMade>>
ShowRemote(p) ==
    /\ win' = [win EXCEPT !.path = p]
    /\ Lend(ActiveSession, ReloadOp(p, FALSE))
    /\ UNCHANGED <<tabs, active, tabsMade>>

HandleEvent ==
    /\ uiEvents # <<>>
    /\ LET e == Head(uiEvents) IN
       \/ e.kind = "session" /\ InstallSession(e.tab)
       \/ e.kind = "console" /\ InstallConsole(e.tab)
       \/ e.kind = "failed" /\ ReleaseTab(e.tab)
       \/ e.kind = "reload" /\ ReloadSession(e.session)
       \/ e.kind = "return" /\ ReturnClient(e.session)
       \/ e.kind = "reloadLocal" /\ ShowLocal(e.path)
       \/ e.kind = "navigate" /\ ShowRemote(e.path)
    /\ uiEvents' = Tail(uiEvents)
    /\ UNCHANGED <<dialogs, inFlight, startPage, localJobs, abandoned>>

PaneStep ==
    \/ \E p \in Dirs : Navigate(p) \/ Disconnect(p)
    \/ StartRemoteOp \/ StartLocalJob
    \/ \E i \in 1..MaxTabs : ActivateTab(i) \/ CloseTab(i)
    \/ CloseLastTab \/ ShowStartPage \/ DismissStartPage

DialogStep ==
    \E a \in Attempts :
       \/ \E b \in BOOLEAN : Connect(a, b)
       \/ OpenTerminalPick(a) \/ ConnectPreset(a) \/ DialogConnects(a) \/ DialogCancels(a)
       \/ DialogCloses(a) \/ DialogWindowCloses(a)

TaskStep ==
    \/ \E s \in SessionIds, b \in BOOLEAN : ReloadEnds(s, b) \/ RemoteOpEnds(s, b)
    \/ \E s \in SessionIds : TransferRefreshes(s)
    \/ LocalJobEnds \/ IndicatorTick
    \/ \E a \in Attempts :
         \/ AttemptSettles(a)
         \/ \E o \in {"session", "console", "failed"} : AttemptReturns(a, o)

DesktopNext ==
    \/ (PaneStep \/ DialogStep) /\ clicks < MaxClicks /\ clicks' = clicks + 1
    \/ (TaskStep \/ HandleEvent) /\ UNCHANGED clicks

DesktopSpec == DesktopInit /\ [][DesktopNext]_desktopVars

----------------------------------------------------------------------------
(* Properties. *)

Listings == SessionIds \cup {LocalFiles, NoFiles}

\* Types of the state; the active index is in the tab bar.
DesktopTypeOK ==
    /\ \A i \in DOMAIN tabs : tabs[i] \in
         [id : TabIds, session : SessionIds \cup {NoSession}, console : BOOLEAN, connecting : BOOLEAN,
          rightLocal : BOOLEAN, dirty : BOOLEAN, path : Dirs, listing : Listings]
    /\ active \in 1..MaxTabs /\ (tabs # <<>> => active \in DOMAIN tabs)
    /\ win \in [path : Dirs, listing : Listings, connected : BOOLEAN]
    /\ sess \in [SessionIds -> {"none", "free", "busy", "closed"}]

\* Every open session belongs to exactly one tab, and no tab hosts two things:
\* whatever attempts end in what order, in tabs that were closed, reused or
\* filled meanwhile (main.rs: "a tab never hosts two sessions").
SessionsOwned ==
    /\ \A s \in SessionIds : Cardinality(OwnerOf(s)) = IF sess[s] \in {"free", "busy"} THEN 1 ELSE 0
    /\ \A i \in DOMAIN tabs : ~(tabs[i].session # NoSession /\ tabs[i].console)

\* A session is busy exactly as long as one task has its client or the client
\* is on its way back: it can neither be lent twice nor stay lent.
ClientAccounted ==
    \A s \in SessionIds :
        LET back == Cardinality({i \in DOMAIN uiEvents : uiEvents[i].kind = "return" /\ uiEvents[i].session = s})
            out == (IF ops[s].kind = "none" THEN 0 ELSE 1) + back IN
        /\ sess[s] = "busy" => out = 1
        /\ sess[s] \in {"none", "free"} => out = 0
        /\ out <= 1

\* A tab says "Connecting" only while an attempt that reserved it can still
\* settle or its notice is queued, unless the dialog was closed by its frame,
\* which nobody handles.
ConnectingReleased ==
    \A i \in DOMAIN tabs : tabs[i].connecting =>
        \/ tabs[i].id \in abandoned
        \/ \E a \in Attempts : dialogs[a].tab = tabs[i].id /\ dialogs[a].phase # "idle"
        \/ \E k \in DOMAIN uiEvents : uiEvents[k].tab = tabs[i].id
=============================================================================
