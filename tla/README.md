# FreeSCP in TLA+

FreeSCP is a desktop and command-line file-transfer client (Rust, tokio, Slint). This directory
holds TLA+ models of its transfer queue, its protocol backends, its connecting and its window, TLC
configurations that check them on small instances, and TLAPS proofs for instances of any size.
Paths below are relative to `crates/` of the repository.

Run a model with `tlc -config Desktop.cfg MCDesktop` (the table under *Runs* pairs modules and
configurations), a proof with `tlapm ScreensProofs.tla`. `PROJECT.json` lists the components and
their status, the runs, the line ranges each definition was translated from (`map`), for each
property a plausible bug that breaks it (`mutants`), the places where something can go wrong that
a test would hardly reach (`hazards`), and where code and documentation disagree (`findings`).

## The system

| Component | State | Operations | What is hard | What makes it correct |
|---|---|---|---|---|
| **Transfer queue** `freescp-app/src/transfer.rs` | records, cursor and limit behind one mutex; atomics `paused` and `running` beside it; per record a client, two flags, a resume hint | enqueue, cancel, clear, pause, resume, retry, set limit, drop; `schedule()` on any thread; `run_worker` per attempt | the atomics are not under the lock; a worker outlives decisions about its task | one worker per task, exact slots, no lost wakeup, the user's last word counts |
| **Queue dialog** `transfer.rs` | component, thread-local entry, subscribers, settings file | open, close, refresh by timer and event, buttons | the entry outlives the component; events are announced to whoever listens | what is shown catches up; completions are told once |
| **Move after transfer** `main.rs` | a batch, a count | collect, confirm, queue, poll, judge, delete | decides on snapshots of a queue that goes on changing | no source deleted that did not arrive |
| **Remote copies, overwrite prompt** `transfer.rs`, `main.rs` | staging directories, sticky answer, one dialog | two legs, ask, clean up | timeout against late answer, crash | one dialog, nothing left, nothing overwritten unasked |
| **Integrity and resume** `freescp-core/src/integrity.rs`, `backends/sftp/transfer.rs` | partial files | offset, copy, verify | files that change meanwhile | a verified file is one version |
| **Other backends** `backends/{ftp,smb,webdav,scp}.rs` | a connection | get, put, list, delete, rename | partial effects, text formats | success means delivered; listings are exact |
| **Local and remote file operations** `local_fs.rs`, `remote.rs`, `main.rs` | the files | copy, move, delete, permissions, search | steps that fail, others who write | nothing lost, nothing miscounted |
| **Routes** `routing.rs`, `freescp-core/src/route.rs` | a cache file | probe, rank, fail over, record | whole-document writes over long waits | probes go with their routes, each is tried once |
| **SSH configuration** `freescp-core/src/ssh_config.rs` | nested files | parse, resolve | order of includes and blocks | the first value wins |
| **Host keys** `known_hosts.rs`, `ssh_transport.rs` | one file | look up, ask, save, remove | read-edit-replace without a lock | what was accepted is known |
| **Proxies** `proxy.rs`, `ftp.rs` | a stream | handshakes | lengths known from within | the stream starts at the peer's first byte |
| **Saved sites and secrets** `site_manager.rs`, `secrets.rs` | sites file, three stores of secrets | edit, import, merge, migrate, delete | missing ids, stores that come and go, torn files | an edit stays with its entry, the last secret is used |
| **Window** `main.rs`, `state.rs`, `connect.rs` | tabs, panes, sessions, the lent client | clicks and events of the UI thread | answers that come after the tab has changed | one owner per session; rows are those of the folder named |
| **Consoles** `console.rs`, `shell.rs`, `telnet/` | two tasks per session, a codec | type, resize, log in, negotiate, end | everything meets in one codec | order, size, an end that is noticed |
| **Command line** `freescp-cli/src/` | none across commands | one command per process | | |

The UI thread runs every callback of the interface, one at a time. It calls the transfer manager
directly; workers, which are tasks of the tokio runtime, call back through the conflict hook (a
blocking call), manager events and the refresh hook. The mover of a "move" is a task that only
reads `tasks()`. Connecting goes from a saved site through the SSH configuration and route
selection to the transport, which asks for host keys and may dial through a proxy or a jump host.
A session's client is lent by the window to one background task at a time, and tasks answer
through the event queue.

## Modules

| Module | What it is |
|---|---|
| `TransferLifecycle` | what the queue promises about its tasks: an abstract specification without threads, locks, flags or connections |
| `TransferQueue` | the transfer manager, one action per critical section or atomic access; implements `TransferLifecycle` |
| `MoveAfterTransfer` | the mover, over an instance of `TransferLifecycle` |
| `QueueDialog` | the queue dialog, over an instance of `TransferLifecycle` |
| `RemoteCopies` | the two legs of a copy between servers, and the overwrite prompt all transfers share |
| `FileTransfer` | one file over SFTP in as many attempts as it takes: offset, copy, verification |
| `BackendTransfers` | get and put of FTP, SMB and WebDAV |
| `ScpTransfer` | a file or tree over the SCP protocol, record by record, and the fallback to SFTP |
| `BackendFiles` | the other calls of SFTP, FTP, SMB and WebDAV (list, stat, mkdir, remove, rename), as sequences of exchanges |
| `RemoteListings` | how MLSD, two dialects of LIST, and PROPFIND are read |
| `LocalFiles`, `RemoteFiles` | the file operations of the two kinds of pane |
| `RouteSelection` | candidates, probes, the cache, ranking, back-off, fail-over, the warmer |
| `SshConfig` | the parser as a machine with one step per line, and the options of a connect |
| `SshConnect` | the known_hosts file under several connects and removals; methods of authentication |
| `ProxyDial` | SOCKS5 and HTTP CONNECT handshakes byte by byte |
| `SavedSites` | the sites file, the three stores of secrets, the Site Manager and its editor |
| `Desktop` | tabs, dialogs, dials, sessions and the lending of a client |
| `Panes`, `PaneRows` | what a pane shows and when; its rows, their order and their selection |
| `Console` | Telnet and shell sessions, their codec and auto-login, and the console of a tab |
| `Subsequences` | ordering a set and keeping part of a sequence, in a form proofs can use |
| `MC…` | instances for TLC |
| `TransferQueueProofs`, `MoveAfterTransferProofs`, `FileTransferProofs` | theorems about the modules they name |
| `DesktopProofs`, `ScreensProofs`, `ConnectingProofs`, `FilesProofs` | theorems about the parts and the specification of `MCDesktop`, `MCScreens`, `MCConnecting` and `MCFiles` |
| `PanesProofs` | theorems about `RemoteFiles` and `LocalFiles`, which `FilesProofs` builds on |

**Composition.** `TransferQueue` implements `TransferLifecycle` (checked and proved), and the
mover and the queue dialog run over `TransferLifecycle`: what they may rely on there they may rely
on in the code. `RemoteCopies` and `FileTransfer` are what happens inside one attempt.

**Scenes.** The components `MCFiles`, `MCConnecting`, `MCDesktop` and `MCScreens` instantiate
share no state. Each of these modules conjoins them, and each behaviour plays one, its `scene`,
while the others rest in a fixed initial state. A property of such a run is a conjunction of
implications `scene = … => …`; it says of each part what the part's own specification would, and
the state space is the sum of the parts' and not the product.

### The queue

A thread of `TransferQueue` is `UI` or a worker slot. A step is one `lock()`…unlock, or one load
or store of `paused` or `running`: the granularity at which the code can interleave.

* `pause_all`, `resume_all` and `Drop` store the atomic first and mark the records later: two
  actions each. `schedule()` is a loop: `SchedulePicks` is a critical section, `Spawn` the
  `fetch_add` after it. `SchedulePanics` is the `expect` that finds no client; the mutex is
  poisoned, and nothing moves any more.
* An attempt runs connect → precheck → prompt → copy → finish → retire. Its cancel flag is
  captured at precheck (`heard`): a record removed by then leaves it with a flag of its own.
* `dest` is a ghost of the destination, with as many values as `FirstAttemptAsks` needs.

`MoveAfterTransfer`: `mover` goes collect → queue → watch → verdict (→ judge, for a download,
whose verdict takes two snapshots) → delete → done. Records are pairs of an operation and a file,
so records of an `earlier` copy can be in the list when the mover counts. `InRuntime` says whether
the UI thread is inside a tokio runtime when the watcher is spawned with `Handle::current()`. In
the program it is not, and a move ends there: the callback panics with the files queued and no
source deleted (`move_panics`). With `InRuntime = TRUE` the module is what the watchers' code
would do if it ran; `move_safe` and the proofs are about that, and hold for the program as it is
for the reason only that nothing is deleted.

`QueueDialog`: workers change the queue at any time and announce it to `inbox`, the channel of the
pump of the dialog on the screen; the pump, a timer, and the user's clicks refresh. The component
lives while it is shown (Slint keeps a strong reference of a shown window, the program has weak
ones), the thread-local `entry` survives until the next dialog is made, and a new one is refreshed
for the first time with the entry of the one before. `for_selected` reads the queue once and then
calls the manager task by task (`acting`), with workers in between.

`RemoteCopies`: a worker's question is serialized by a lock, posted to the UI thread and given up
after 120 s, while closures posted to the UI thread still show or hide its dialog; a late click, a
sticky answer and the next batch meet it there. A crash loses everything but the disk.

### Files and protocols

Contents are sequences of blocks, so that a prefix, a mixture of versions and a shifted copy
differ. In `FileTransfer` `done` is the counter of the code and where the destination is written,
`pos` the handle on the source; version 0 is a file of somebody else's; `size` and `remoteSum` are
the options verification gets, empty sets for `None`. In `BackendTransfers`, a put's blocks pass a
pipe, and the server stores them later or never. In `ScpTransfer`, a tree is the sequence of the
records its transfer sends; the remote process is external and stops where it likes. In
`BackendFiles`, a call is a list of exchanges; each may fail with or without its effect, and
another client may write in between; what each backend does first and how it walks a directory it
removes is what differs. `LocalFiles` and `RemoteFiles` work through a selection; a move across
devices is a copy and a removal.

### Connecting

`RouteSelection` is cut where the code awaits: at probes and at attempts. Every save writes the
whole document that the connect has loaded. What the cache promises ends with the first save that
overwrites one its author has not seen, and the history `current` says who that is: those who
have read or written the file since its last save. Comparing documents would not do: a save may
revive an entry that another connect has pruned, although both hold the same entries otherwise.
`SshConnect` is cut between reading and replacing the
file. `SshConfig` keeps a stack of files, the blocks read so far and the files visited; the
candidates and options come from the parsed blocks in one step. `ProxyDial` reads a script of
bytes, each a record of what it stands for. In `SavedSites` each handler of the dialogs is one
step; the keyring goes and comes, and the program may die in a write. Ids are random numbers in
the code: here each is used once, and an action that needs one is not taken when none is left.

### The window

`Desktop` has one action per callback or event of the UI thread: opening and closing tabs, the
connection dialog, a dial's answer, operations that borrow the session's client, disconnecting.
`Panes` adds the watchers (the folder a watcher looks at and the one it reports), listings under
way and operations that hold the client meanwhile. Its history says when a refresh was refused:
over an operation, which will ask again (`owed`), or over the listing of another folder, which
nobody makes up for (`disturbed`; so are a given-up operation, an error wiped by a late listing,
and local rows put into a remote pane). `PaneRows` has rows and selection by row number, and as
history what the user means by each click: `meant` is computed from the row pointed at last
(`origin`) and never from what the code extends from. `misled` is set when the selection ceases
to tell that row, `astray` by a range drawn then. `Console` has a reader and a writer task
per session, their queues, the codec's options, and the automatic login.

## Runs

| Run | Module, configuration | Checks | Distinct states |
|---|---|---|---|
| `queue_safety` | `MCTransferQueue`, `TransferQueueSafety` | nine invariants and the refinement | 804,258 |
| `queue_liveness` | `MCTransferQueue`, `TransferQueueLiveness` | `QueuedIsServed`, `QueueSettles`, `PatienceIsSafe` | 198,246 |
| `move_safe` | `MCMoveAfterTransfer`, `MoveAfterTransferSafe` | `NothingLost`, `NoReaderLeft` (watchers inside the runtime) | 27,674 |
| `file_delivers` | `MCFileTransfer`, `FileTransferDelivers` | `Delivers`, `DeliversAVersion`, `RightSize`, `RetriesDeliver` | 286,057 |
| `files` | `MCFiles`, `Files` | `TransfersDeliver`, `FilesSurvive`, `ListingsAreWhole`, `DeletedIsGone` | 673,302 |
| `connecting` | `MCConnecting`, `Connecting` | `RoutesAreRanked`, `SessionIsAsConfigured`, `LastSavedIsUsed`, `OneSiteAtATime` | 595,221 |
| `desktop` | `MCDesktop`, `Desktop` | `WindowKeepsTrack`, `CopiesAreSafe` | 1,048,255 |
| `screens` | `MCScreens`, `Screens` | `PanesAreMeant`, `ConsoleInOrder`, `NoticedAtFirstIsShown`, `DeadIsShown` | 336,668 |
| `queue_client` | `MCTransferQueue`, `TransferQueueClient` | violated: `schedule()` panics on a task resumed while its worker unwinds | |
| `move_panics` | `MCMoveAfterTransfer`, `MoveAfterTransferPanics` | violated: the watcher of a move panics when it is spawned, and the move never ends | |
| `file_upload` | `MCFileTransfer`, `FileTransferUpload` | violated: a resumed upload corrupts the remote file | |
| `rename_source` | `MCFiles`, `FilesRenameSource` | violated: a file renamed to its own name is removed | |

**What the passing runs show.**

* *The queue.* `running` never leaks a slot although it is counted outside the lock; no wakeup is
  lost, because whoever changes a condition schedules afterwards; a finalizer that meets a cancel,
  a pause or a retry does what the user asked last; a paused queue is quiet; attempts at one task
  never overlap, because an attempt needs the client and there is one; the cursor prevents
  starvation; dropping the manager is final.
* *Files.* A verified file is one version of its source, even resumed from a partial of another;
  rejected copies are begun again. FTP, SMB and WebDAV deliver what they say they have, over any
  leftovers of earlier attempts; SCP leaves no file out, and none partly written but those it was
  told or could have seen something of (`unsure`). Failed renames leave the file at one of its
  names. A remote delete removes nothing outside the selection but, over SFTP, what a link in it
  leads to, and a path it counts as deleted is gone, whatever another client does, unless it is a
  link that dangles. What a local copy does not report as failed has arrived; a search that calls
  itself complete has seen all it could.
* *Connecting.* Routes are tried once each, those whose position in the list was probed on the LAN
  first (which is not the same as the routes on the LAN) and those in back-off last; the cache
  remembers what a connect learnt. A session's host key was in the file, was accepted, or its
  policy is Off, and an accepted one is known afterwards. An option has the first value of the
  block that begins first, which is the first value read where no `Include` is inside a block, and
  a route is dialled its own way but for a jump host the configuration adds. A proxy's reply
  leaves no byte in the stream and takes none of the peer's. Editing, merging and deleting a site
  leaves the others, and the secret saved last is the one used.
* *The window.* Sessions always have an owner or are disconnected, their clients are lent at most
  once and come back; the flag that keeps other connects away is lowered. A local pane never shows
  a server's rows nor a remote one those of an earlier session, and a remote pane at rest shows
  the folder it names unless its last refresh was disturbed. What is acted on is what was selected
  unless a range was drawn from a selection that does not tell its anchor. A change noticed in the
  folder a watcher was made for is shown, a dead session is said to be dead, the server knows the
  console's size. Completed transfers are announced once, and the queue dialog catches up.

Each *unless* and *but* is a place where the code does less than its comments say; the stronger
property is defined beside the one that holds, and listed under *Known deviations*.

**What the violated ones show** is in `PROJECT.json` under `findings`, each against the sentence
of the repository it contradicts. `queue_client` leaves the mutex poisoned and the queue dead
until restart; `PatienceIsSafe` shows that it is enough to wait until a worker has unwound.
`move_panics` needs nothing but a move; what the watchers would do is under *Known deviations*.
`file_upload`
needs two attempts: `put` moves the remote handle to the offset and leaves the local one at the
start; verification catches it, and without it the file is reported complete. `rename_source`
needs an overwriting rename to the file's own name.

## Bounds

* *Queue*: two tasks, two worker slots, `MaxLimit` 2; races are between one attempt and one
  operation, or two schedulers, and the second task makes cursor, limit and scopes matter.
  `queue_liveness` uses a limit of 1, so that tasks compete, and three slots, so that tasks do not
  wait for slots as they never do in tokio. `DialAttempts` is 3 in the code, 1 or 2 in passing
  runs.
* *Mover*: three files in two entries, one a directory, so that an entry may be partly done.
* *File transfer*: files of up to three blocks, a buffer of two: empty files, shorter and longer
  partials, short reads. Two disturbances are one that leaves a partial and one that makes it
  wrong.
* *Files*: two blocks and three attempts per backend; one call, job or operation at a time over a
  tree two levels deep with a link or a file in its way, and one write by someone else.
* *Connecting*: one connect and the warmer over three routes in two orders; two dials of two hosts
  with two keys; every configuration of four lines over six kinds of line and two files to
  include, nested twice; a proxy header of at most three bytes (`HeadLimit`, which a longer one
  must exceed), a banner of two; four steps in the Site Manager, one outage of the keyring and one
  torn write, after which `LastSavedIsUsed` promises nothing (`steady`).
* *Desktop*: two dials, three tabs, four clicks, one event of the server's; two copies, each
  queued twice, one crash; two transfers and four clicks in the queue dialog, two announcements
  waiting (`MaxPending`), two filters and two auto-clear modes.
* *Screens*: one session after another, two chunks of output, one thing typed; two folders, two
  moves, one change to a folder, one event waiting, two sessions; four clicks on rows.

Symmetry is used where no property is temporal: workers in `queue_safety`, dials, copies and
transfers in `desktop`. Deadlock is not checked: a settled queue nobody touches, a poisoned one, a
finished move, and a window in which nothing is left to click within the bounds really stop.

## Fairness

* `queue_liveness`: weak fairness of each thread that has something to run. The event loop
  finishes the callback it is in, tokio polls ready tasks, and dialing, prompting and socket reads
  have timeouts. Nothing obliges the user to act.
* `move_panics`: weak fairness of the mover and of the queue, so that the move does not end for
  want of a step.
* `file_delivers`: an attempt gets on with its work, and the user tries again until it succeeds;
  troubles are finitely many. It says that trying again is worth it.
* `screens`: `ConsoleFairness` (the two tasks of a session, the forwarder and the event loop) and
  `PanesFairness` (the watcher thread reports a change that has settled, the event loop handles
  events, and points the watcher after a listing). Users and servers need do nothing.

## Proofs

Assumed are only the named assumptions on the constants. Each argument is an inductive invariant,
which the leaves of the proof take one action at a time.

**`TransferQueueProofs`**: for any number of tasks and slots and any limit, every safety property
of the queue's passing runs, and the refinement. The invariants come in layers, each inductive
relative to those before:

* `CoreInv` is `TypeOK`, `RolesOK` (the places a kind of thread can be in) and `RunningCount`,
  which is a cardinality and needs the roles: a step of the UI thread is not a worker's.
* `PausedQueueIsQuiet`, `NoLostWakeup` and `PausedByUser` are inductive relative to it. For
  `NoLostWakeup`, every step that queues a task, frees a slot, raises the limit or lifts the pause
  leaves its thread in a place from which it will schedule.
* `Custody` says where a client is: one holder at most, and a record owns its client exactly when
  there is none. `ClientHeldOnce` follows, and with `AwaitUnwind` that `schedule()` finds it.
* `CancelInv` relates a cancelled record to its flag and the worker that heard it, `AskInv`
  follows the resume hint into the attempt that writes, `DropInv` says what flags look like after
  `Drop`, `FlagInv` ties flags to states.
* `QueueImplementsLifecycle` maps `state` to `phase`, `paused` to `held`, `poisoned` to `halted`,
  and the tasks whose client some thread holds to `inFlight`. Most steps stutter; `Finalize` is
  `Settle`, where `FlagInv` excludes what the abstract `Settle` has no case for.

**`FileTransferProofs`**: for files and buffers of any size. `TypeOK` contains that `done` is the
length of the destination, which makes a write an append; `CopyInv`, that an undisturbed partial
is a prefix of its source between attempts, too (`Delivers` talks of the end only and needs it);
`CheckInv`, that the digest and sizes verification holds are of a version in `seen` or of the
destination as it is.

**`MoveAfterTransferProofs`**: for any selection and any of the user's doings. The verdict is safe
because its count can only be right when the record of every file is still there. `RecordInv` says
that a file with a completed record is finished for good: delivered or skipped, never requeued,
and no worker at it. `MoverInv` says what the mover knows in each of its places.
`UndisturbedMoveIsWhole` says that the three disturbances are all there are.

**`DesktopProofs`**: every invariant of the run `desktop`, whose specification implements that of
each of its parts.

* *Window*, for any number of tabs, sessions and dials. `Owned` says that a session is open
  exactly while one tab has it; it needs `Distinct`, that tabs differ and that one which is
  connecting is free, or the tab an answer goes to could be another than the one that waits for
  it. `Accounted` is stated without counting: a client is with its session, with one task, or in
  one event. `Awaited` is `ConnectingReleased`: an event is for the tab its dial reserved, and who
  handles it takes the mark off that tab. `LentTypes` and `QueueTypes` say what an event may name.
* *Copies*, for any number of them, of batches and of restarts: `StagingInv` says whose worker may
  have a staging directory, and in which of its places; `ChoiceInv` follows an answer, sticky or
  not, from the click to the write; `DialogInv` says what the closures posted so far will do to
  the screen, which is what makes the dialogs exclude one another although each outlives the wait
  of its worker; `CopyBounds` of which queueing a question on its way may be.
* *Queue dialog*, for any number of transfers: `ToldInv` says that the transfers noted as seen are
  those announced and still listed; `WitnessInv`, that a completion the dialog witnessed and has
  not announced has an event on its way; `RowsInv`, that no row is remembered which an open dialog
  does not have; `UiInv`, that the dialog, the queue and the settings file agree on its mode and
  its filter; `DialogBounds`, that what is selected or acted on are transfers of the queue.

**`ScreensProofs`**: every invariant of the run `screens`.

* *Console*, for any number of sessions: `SizeFollows` relates two channels and a codec. The last
  size on its way (`Sizes`) is the console's, and where none is, the next one down the line has it
  already; a codec that has not agreed to tell the size has it all the same.
* *Panes*, for any number of sessions: `PaneInv` has four parts: what an event may name
  (`EventsInv`), that a session which has not been yet has no listing under way (`TasksInv`), that
  no pane shows rows of an earlier session (`OwnerInv`), and `RemoteInv`: a refresh is owed only
  while an operation has the client (`OwedInv`), and in a pane that is not disturbed what is being
  listed is the folder named, and so is what is on the screen when no refresh is owed or on its
  way (`ListedInv`).
* *Rows*, for listings of any size: `MeantInv` ties the picked numbers to the rows meant while the
  selection is not astray. `OriginInv` says that while the selection tells the row pointed at
  last, the code extends from it (`From`), through every click, span and sort: it is what makes
  two ways of finding a row agree, the user's and the code's.

**`ConnectingProofs`**: every property of the run `connecting`, whose specification implements
that of each of its five parts.

* *Host keys*: `KeptInv` puts an accepted key on a line whose names are its host's alone
  (`OwnLine`), so that neither the replacing nor the removing of another host's key takes it, and
  says the same of the text a save or a removal holds between reading and writing. `VouchInv` says
  of every text in memory, and of every connect past its check, that each key which matches was in
  the file at first or accepted.
* *Proxy*: `DialInv` says that what is to come is what is left of the current reply, whole later
  ones (`Sends`), and the target's greeting. The length of a reply follows from what has been read
  of it (`MethodReply`, `VerdictReply`, `HeadReply`), which is what makes reading stop at its end.
* *Saved sites*: `SitesInv` says that the sites of the file differ in their names and ids, that
  these ids are minted (so the next is new), and that the keyring holds under an id what was last
  saved for it. `Follows` says of every operation on the stores which keys it may change, and
  `OneAtMost` of every write of the file that it changes one site.
* *Configuration*: `BlocksInv` ties the blocks to the lines read so far (the history the property
  names): a block's value of a parameter is the first of its lines, so that the value found first
  is one of the block that begins first. Where no `Include` is inside a block, `ResolvedInv` says
  that it is the first of all lines, because by `ReadersOK` a reader is inside the last block or
  outside of any, and a line can only add to the last block. `RoutesInv` follows a candidate into
  the options and what is dialled.
* *Routes*: `RouteInv` says of every agent what it holds in each of its places (`Routed`,
  `CurrentOK`). An agent that is `current` holds the file's document but for entries old enough to
  be pruned, and `FileRemembers` says that an entry has the last success or none, and every
  failure still in back-off. `EntryOK` bounds the ages within an entry: without it an entry could
  be pruned with a failure still in back-off, which `RouteAssumption` excludes (the code keeps
  probes for a day at most, a back-off for a minute, and entries for thirty days). Ranking is
  taken apart into its steps (`RankProbes`, `AttemptOrder`): each keeps every route once (`Lists`)
  and has its say about which of two comes first.

**`FilesProofs`** and **`PanesProofs`**: every property of the run `files`, the action property
`DeletedIsGone` included; the specification of the run implements that of each of its six parts.

* *Transfers of FTP, SMB and WebDAV*, for files and leftovers of any length: in `TransferInv`,
  `CopiedSoFar` says that what is in the target and what is in the pipe behind it are together the
  first `done` blocks of the source. It can be said of an attempt only that did not resume, or
  found a part of the source to resume (`Delivering`). So a target that is a part of the source
  stays one through every cancel and failure, which is why trying again is safe.
* *SCP*, for trees of any shape and depth: `Closes` says of the records still to come that after
  the one that closes the last open directory there is no file, so a transfer that stops there has
  left none out; with it `NamesInv`, that a file is whole, under way, or its record is still to
  come. `TreesAssumption` says what the records of a file and of a directory are (`OneFile`,
  `OneDir`), counting opened and closed directories instead of recursing.
* *Calls*, for any set of paths: `Fits` says what a list of exchanges may hold. Of a removal, that
  everything is below what is removed, and its own removal last; of a rename, that all but the
  last exchange clears what is below the new name, and the last one moves. Then a file that is
  being renamed is as it was (`Renaming`) until the exchange that moves it, whichever of those
  before it failed.
* *Listings*, for any entries: `ListingInv` says that what the server has answered describes its
  directory in one of the styles. The rest is about operators: what each parser keeps of an answer
  (`Once`, `Shows`), for answers with any lines in between that are not entries.
* *Remote pane*, for any tree of places: in `RemoteInv`, `Chained` says that the frames of a
  delete descend from the selected entry one name at a time, and `Walked` that none it has looked
  into is a link. The backend's `remove_dir` sweeps what is in the directory again, recursively.
  What either can reach (`Removable`) is below the selection, or below what a selected link leads
  to where asking follows links (`ThroughLink`), which is `DeletesInside`. `SearchRuns` says that
  a name that is there to be found has been, or is below a folder in the queue, while nothing went
  amiss. `DeletedIsGone` is about one step, the last of the sweep: either the server refuses to
  remove what others have filled meanwhile, or it removes the collection with all that is in it.
* *Local pane*, for any disk: `LocalInv` says that while a source is handled its files stand
  (`Whole`), that what is replaced is not what is copied (`Apart`), and in a walk that each file
  of the source is in the target, or below an entry which the walk has found (`Walking`);
  `Settling` is what is left of it once the source is counted. The disk is a tree of directories
  (`DiskTrees`) and stays one. The files are those outside of what the user agreed to replace
  (`Kept`), and a link is none of them: see *Known deviations*.

The assumptions on the constants are those of a file system: paths come with those above them
(`PathsAssumption`, `PlacesAssumption`, `DiskAssumption`), only a directory holds anything
(`ServersAssumption`, `DisksAssumption`), and `.` and `..` are no names of
entries (`EntriesAssumption`). TLC evaluates each on the instance of the run.

Looking for these proofs has corrected the models where they let the world do what no file system
does, or said less than the code: a file or folder is made in a directory only, so that an insert
into a folder that has just gone fails; the remote delete's selection is resolved on the server
as it was when the delete began; whether a local copy counts as arrived looks through the links
it was written through; and cases of an overlapping `CASE`, which TLC resolves in order and logic
does not, are told apart by their conditions.

`LeastNat` (from the well-foundedness of the naturals) and the lemmas on `Ordered`, `Ascending`
and `Keep` take the place of induction over sequences: a sorted or filtered sequence is described
by the number of elements before each. The modules use these operators and `FirstOf` where the
code sorts, filters and searches, because `SortSeq`, `SelectSeq` and recursive functions are
opaque to the prover.

Only model-checked: what is temporal (`QueuedIsServed`, `QueueSettles`,
`RetriesDeliver` of `FileTransfer`, `NoticedAtFirstIsShown`, `DeadIsShown`, since fairness is out
of the prover's reach). Every invariant that a passing run checks, and every property of its
steps, is a theorem.

## Known deviations

What holds is often less than what a reader of the code expects. The exceptions the models make,
and properties defined in the modules that do not hold:

* *Queue.* `RunningWithinLimit` (two schedulers pass the check before either counts: one worker
  more than the limit), `CancelReachesWorker` (a record cleared or retried before its worker
  captured the flag leaves it copying), `ResumesOwnOutput` (the hint survives attempts that wrote
  nothing, and the next one overwrites a file that is not the task's), `PauseReachesWorker`
  (`pause_task` sets a flag `should_cancel` does not read). To see one, put it as the invariant
  into `TransferQueueClient.cfg`. `retry_failed` keeps the policy a record had.
* *Queue dialog.* A new dialog starts with rows set before its entry was made: if its filtered
  view empties before the next refresh, a row that is no longer there stays (`NextPollShows` is
  about the rows that are missing). A selected task that leaves the filter by itself can still be
  acted on. Completions are only noticed while the dialog is up. It does not survive being hidden,
  as its comments say it does, so each opening adds a subscriber, and its first drawing has the
  previous selection.
* *Copies and prompts.* Staging directories of a process that died stay. A confirmation on the UI
  thread and a dialog closed by its frame have no answer of their own (`connect.rs:1085`, `1950`).
* *Moves.* Were the watchers spawned inside the runtime, `MoveOnlyOnSuccess` ("removes the local
  sources once every enqueued task settles in `Completed`", `main.rs:2709`) would fail in three
  ways: a selected entry that cannot be listed is skipped, and deleted with the others
  (`main.rs:2618`); with `CollectFails = FALSE`, records of an earlier copy make up for a failed
  record the user cleared; with `Earlier = {}` too, a record is cleared between the two snapshots
  of a download. To see them, put it as the invariant into `MoveAfterTransferSafe.cfg` with these
  constants. `Undisturbed`, the precondition of `NothingLost` and `NoReaderLeft`, excludes these
  three alone (`UndisturbedMoveIsWhole`). With records cleared, the mover would poll for ever.
* *Transfers.* A cancelled get of SFTP finishes its last write in the background. SCP checks for
  an interrupt between records only, and a tree whose file data is followed by an unexpected
  control byte falls over to SFTP (`scp.rs:1103`). An answer of 1, which `scp.rs:16` calls an
  error, to a record of an upload or at the end of a download is logged, and the transfer goes on
  and reports success (`scp.rs:1252`, `1347`): a file the remote could not store counts as sent,
  and so may what follows a directory it could not make. A downloaded file is dropped without a
  flush (`scp.rs:931`), so that a failure of its last write is not seen. To see either, put
  `ScpTellsErrors` as an invariant into `Files.cfg` (guarded by the scene, as in `MCFiles`). FTP's
  second attempt at a rename whose reply was lost fails although the first has done it.
* *Local files.* A nested symbolic link is passed over by a copy and lost by a move across devices
  (`local_fs.rs:367`, `483`); a folder copied over an ancestor of the same name removes its source
  first (`local_fs.rs:350`). A new remote file overwrites one of that name unasked.
* *Remote deletes.* `delete_one` asks `exists` what an entry is, which over SFTP looks through
  links (`sftp.rs:328`): deleting a link to a directory empties that directory, wherever it is,
  and then fails at the link itself; a link that dangles counts as deleted and stays. Asking was
  meant to rule out "a wrong operation" (`remote.rs:285`). To see it, put `DeletesOnlySelected` as
  an invariant into `Files.cfg`.
* *Routes and configuration.* Saving a site, in the Site Manager, too, drops its alternate routes
  (`site_manager.rs:821`): `RoutesAreSaved` of `SavedSites` does not hold, and to see it, put it
  as the invariant into `Connecting.cfg`. So for the others here. "Direct routes must not pick up
  ProxyJump from the Host alias" (`routing.rs:213`) holds of a route as it is built
  (`RoutesKeepTransport`) but not as it is dialled (`DialledAsBuilt`): the configuration is
  applied again when the route is connected, to the host name the first time gave; one with a
  proxy of its own is then refused over SFTP. OpenSSH's first value wins (`ssh_config.rs:28`)
  except with an `Include` inside a block, whose file is read before the rest of the block while
  the block's own values win (`ssh_config.rs:192`): `FirstReadWins`. "Reachable LAN routes always
  rank ahead" (`route.rs:276`) holds of positions (`LanFirst`) and not of routes
  (`LanRoutesFirst`): the cache's key sorts the candidates (`routing.rs:351`), its entry is
  applied by position (`routing.rs:645`), and the user can reorder routes in between. The LAN
  order of a cached ranking may be old, too (`routing.rs:13`).
* *Host keys.* A line of the file with a key that cannot be read is replaced; deleting a site
  removes the entry another site shares; two saves at once keep one.
* *Sites and secrets.* A torn or unreadable sites file is empty, and the next save wipes it
  (`site_manager.rs:512`). A secret of the fallback file is not seen while a keyring is reachable;
  a legacy proxy password removed here is migrated back (`secrets.rs:183`). An entry without an id
  is refused as a duplicate of itself or gets a second entry when renamed. A merge deletes its
  source before the editor has saved. The index of an edited route may be stale
  (`site_manager.rs:1199`).
* *Panes.* A watcher reports the folder it was made for, wherever it has been pointed since
  (`main.rs:610`), and the UI thread ignores reports of another folder: after the first navigation
  changes are not shown, against `main.rs:593` and `598` (`NoticedIsShown`, a temporal property).
  "That operation refreshes the pane when it finishes" (`main.rs:739`) and the layout that is
  local "until a session connects" (`main.rs:661`) fail in four ways: a folder entered while
  another is being listed is never listed itself, an operation that is given up asks for nothing,
  a late listing of a closed session wipes the error, and the end of a local copy begun before the
  connect puts local rows into the remote pane (`main.rs:2046`, `4728`; it also marks the pane as
  local over a live session, `main.rs:694`): `RemotePaneIsCurrent`. Shift extends from the other
  end of the selection when the row toggled last is at one of its ends, against `main.rs:1595` and
  `1597`: `SpansStartAtAnchor`. To see one, put it into `Screens.cfg`, guarded by its scene.
* *Window.* A reload is refused while the client is lent (`main.rs:735`); after a reset of the
  selection the first row stays current (`main.rs:1769`); equal sizes keep the order they had.
  Batch permissions apply to the selection at confirmation (`main.rs:1345`).
* *Consoles.* The reader of a shell does not see that all handles were dropped; Telnet's writer
  waits for a stalled server; the terminal's answers to queries disarm the auto-login; the end of
  an earlier session closes the next one of its tab (`ConsoleClosed`).

## Not modelled, and why

* *Command line*: one sequential command per process over the core library; it adds arguments and
  output. *Preferences and transfer history*: one document each, written by one thread.
* *Terminal emulator*: a screen feeds back only answers to queries, which `Console` has.
* *Connecting of FTP, SMB and WebDAV* beyond the proxy: one request and its answer in a library.
* *Queue dialog*: speed limits and their prompt, opening a destination, copying a path, progress
  texts. No receiver is ever dropped, since the pump of a closed dialog keeps it, so the double
  `swap_remove` of `notify_subscribers` (two events, one dead receiver) is not reached.
* *Formatting, icons, titles, drag feedback, form validation*: text and layout.
* *Single-task pause*: what the dialog promises of it is written nowhere beyond `transfer.rs:40`;
  `PauseReachesWorker` states it, and no run spends itself on it.

## What is left

Progress and speed limits; a refinement from `RemoteCopies`
to an attempt of `TransferQueue`; the command line's recursive transfers, should they get more
than one connection.
