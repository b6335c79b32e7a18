------------------------------ MODULE Console -------------------------------
(***************************************************************************)
(* Terminal sessions: the Telnet transport (freescp-core's telnet) and the *)
(* SSH shell (shell.rs), the forwarder of freescp-app's main.rs, and the   *)
(* console that a tab keeps (console.rs).                                  *)
(*                                                                         *)
(* A session is two tasks.  Telnet: the reader owns the codec, takes what  *)
(* the user types and what the socket brings, and hands bytes to the       *)
(* writer.  Shell: the reader takes the channel's messages, the writer the *)
(* user's.  Both report to one event channel, which the forwarder copies   *)
(* to the UI's.                                                            *)
(*                                                                         *)
(* One tab; sessions follow one another in it.  What the server sends is   *)
(* a prompt, a request for the window's size, or text with a query that    *)
(* the terminal answers.  Rendering, scrollback and key encodings are left out.*)
(***************************************************************************)
EXTENDS Integers, Sequences, FiniteSets

CONSTANTS
    Transports,    \* a subset of {"telnet", "shell"}
    GridSizes,     \* window sizes
    FirstSize,     \* 80 x 24
    MaxConsoles,   \* bound on the sessions
    MaxChunks,     \* bound on what a server sends in one session
    MaxTyped       \* bound on what the user does in one session

VARIABLES
    con,           \* the tab's console
    gone,          \* per session: its handle was dropped
    kind,          \* per session: its transport; "none" before it exists
    link,          \* per session: the connection
    inbox,         \* per session: bytes on their way from the server
    heard,         \* per session: what the server got, and the size it knows
    cmds,          \* per session: the command channel
    toWire,        \* per session: the Telnet writer's channel
    reader, writer, forwarder,
    codec,         \* per session: the Telnet codec and the auto-login
    emitted,       \* per session: the terminal event was sent
    events,        \* per session: the event channel
    consoleEvents,      \* the UI event channel: <<session, event>>
    used           \* bounds: chunks and user actions, per session

consoleVars == <<con, gone, kind, link, inbox, heard, cmds, toWire, reader, writer, forwarder,
                 codec, emitted, events, consoleEvents, used>>

Sessions == 1..MaxConsoles
NoConsole == [session |-> 0, connected |-> FALSE, size |-> FirstSize]

ASSUME ConsoleAssumption ==
    /\ Transports \subseteq {"telnet", "shell"} /\ FirstSize \in GridSizes
    /\ MaxConsoles \in Nat /\ MaxChunks \in Nat /\ MaxTyped \in Nat

Data == {"query", "login", "password"}
\* What the terminal makes of a chunk: only a query is answered.
Shown(c) == IF c = "query" THEN c ELSE "text"
Chunks(s) == IF kind[s] = "telnet" THEN Data \cup {"naws"} ELSE {"query"}
Broken(s) == link[s] \in {"error", "deaf"}

ConsoleInit ==
    /\ con = NoConsole
    /\ gone = [s \in Sessions |-> FALSE]
    /\ kind = [s \in Sessions |-> "none"]
    /\ link = [s \in Sessions |-> "up"]
    /\ inbox = [s \in Sessions |-> <<>>]
    /\ heard = [s \in Sessions |-> [said |-> <<>>, size |-> FirstSize]]
    /\ cmds = [s \in Sessions |-> <<>>]
    /\ toWire = [s \in Sessions |-> <<>>]
    /\ reader = [s \in Sessions |-> "run"]
    /\ writer = [s \in Sessions |-> "run"]
    /\ forwarder = [s \in Sessions |-> "run"]
    /\ codec = [s \in Sessions |-> [size |-> FirstSize, naws |-> FALSE, armed |-> FALSE,
                                    sentUser |-> FALSE]]
    /\ emitted = [s \in Sessions |-> FALSE]
    /\ events = [s \in Sessions |-> <<>>]
    /\ consoleEvents = <<>>
    /\ used = [s \in Sessions |-> [chunks |-> 0, acts |-> 0]]

Alive(s) == kind[s] # "none"
consoleTasks == <<reader, writer, forwarder>>

----------------------------------------------------------------------------
(* The server. *)

ServerSends(s, c) ==
    /\ Alive(s) /\ link[s] = "up" /\ used[s].chunks < MaxChunks /\ c \in Chunks(s)
    /\ inbox' = [inbox EXCEPT ![s] = Append(@, c)]
    /\ used' = [used EXCEPT ![s].chunks = @ + 1]
    /\ UNCHANGED <<con, gone, kind, link, heard, cmds, toWire, consoleTasks, codec, emitted, events, consoleEvents>>

\* The connection ends, breaks, or breaks in a way that only a write notices.
ServerEnds(s, how) ==
    /\ Alive(s) /\ link[s] = "up"
    /\ link' = [link EXCEPT ![s] = how]
    /\ UNCHANGED <<con, gone, kind, inbox, heard, cmds, toWire, consoleTasks, codec, emitted, events, consoleEvents, used>>

----------------------------------------------------------------------------
(* The tasks of a session. *)

\* TerminalSignal::emit: the first one wins.
Emitted(s, e) == IF emitted[s] THEN events ELSE [events EXCEPT ![s] = Append(@, e)]

Ended(s) == reader' = [reader EXCEPT ![s] = "done"]
Running(s) == UNCHANGED reader

\* To the writer; the reader ends if the writer has.
Hand(s, bytes) ==
    IF bytes # <<>> /\ writer[s] = "done" THEN Ended(s) /\ UNCHANGED toWire
    ELSE Running(s) /\ toWire' = [toWire EXCEPT ![s] = @ \o bytes]

\* reader_loop of Telnet: a command.
TelnetTakes(s) ==
    /\ kind[s] = "telnet" /\ reader[s] = "run" /\ cmds[s] # <<>>
    /\ LET m == Head(cmds[s]) IN
       \/ /\ m.what = "input"
          /\ codec' = [codec EXCEPT ![s].armed = FALSE]
          /\ Hand(s, <<m>>)
       \/ /\ m.what = "size"
          /\ codec' = [codec EXCEPT ![s].size = m.size]
          /\ Hand(s, IF codec[s].naws THEN <<m>> ELSE <<>>)
       \/ m.what = "close" /\ Ended(s) /\ UNCHANGED <<codec, toWire>>
    /\ cmds' = [cmds EXCEPT ![s] = Tail(@)]
    /\ UNCHANGED <<con, gone, kind, link, inbox, heard, writer, forwarder, emitted, events, consoleEvents, used>>

\* Every handle is dropped.
TelnetDropped(s) ==
    /\ kind[s] = "telnet" /\ reader[s] = "run" /\ cmds[s] = <<>> /\ gone[s]
    /\ Ended(s)
    /\ UNCHANGED <<con, gone, kind, link, inbox, heard, cmds, toWire, writer, forwarder, codec,
                   emitted, events, consoleEvents, used>>

\* Mutant: what the user types does not disarm the auto-login.
LoginWhileTyping(s, c) ==
    IF c = "login" /\ ~codec[s].sentUser THEN <<[what |-> "name"]>>
    ELSE IF c = "password" /\ codec[s].sentUser THEN <<[what |-> "password"]>>
    ELSE <<>>

\* AutoLogin::feed
Login(s, c) ==
    IF codec[s].armed /\ c = "login" /\ ~codec[s].sentUser THEN <<[what |-> "name"]>>
    ELSE IF codec[s].armed /\ c = "password" /\ codec[s].sentUser THEN <<[what |-> "password"]>>
    ELSE <<>>

\* reader_loop of Telnet: bytes from the socket.  The option is answered once,
\* with the size.
TelnetReads(s) ==
    /\ kind[s] = "telnet" /\ reader[s] = "run" /\ inbox[s] # <<>> /\ link[s] # "error"
    /\ LET c == Head(inbox[s])
           reply == IF c = "naws"
                    THEN IF codec[s].naws THEN <<>>
                         ELSE <<[what |-> "size", size |-> codec[s].size]>>
                    ELSE Login(s, c)
           stuck == reply # <<>> /\ writer[s] = "done"
           unheard == c \in Data /\ forwarder[s] = "done" IN
       /\ codec' = [codec EXCEPT ![s].naws = (@ \/ c = "naws"),
                                 ![s].sentUser = (@ \/ reply = <<[what |-> "name"]>>),
                                 ![s].armed = (@ /\ reply # <<[what |-> "password"]>>)]
       /\ IF stuck \/ unheard THEN Ended(s) ELSE Running(s)
       /\ toWire' = IF stuck THEN toWire ELSE [toWire EXCEPT ![s] = @ \o reply]
       /\ events' = IF c \in Data /\ ~stuck /\ ~unheard
                    THEN [events EXCEPT ![s] = Append(@, Shown(c))] ELSE events
    /\ inbox' = [inbox EXCEPT ![s] = Tail(@)]
    /\ UNCHANGED <<con, gone, kind, link, heard, cmds, writer, forwarder, emitted, consoleEvents, used>>

\* The auto-login gives up 60 seconds after the connect.
LoginExpires(s) ==
    /\ codec[s].armed
    /\ codec' = [codec EXCEPT ![s].armed = FALSE]
    /\ UNCHANGED <<con, gone, kind, link, inbox, heard, cmds, toWire, consoleTasks, emitted, events, consoleEvents, used>>

\* The end of the stream, or its failure, whatever was still to be read.
ReaderEnds(s) ==
    /\ Alive(s) /\ reader[s] = "run"
    /\ link[s] = "error" \/ (link[s] = "eof" /\ inbox[s] = <<>>)
    /\ events' = Emitted(s, "end") /\ emitted' = [emitted EXCEPT ![s] = TRUE]
    /\ Ended(s)
    /\ UNCHANGED <<con, gone, kind, link, inbox, heard, cmds, toWire, writer, forwarder, codec, consoleEvents, used>>

\* reader_loop of a shell: a message of the channel.
ShellReads(s) ==
    /\ kind[s] = "shell" /\ reader[s] = "run" /\ inbox[s] # <<>> /\ link[s] # "error"
    /\ IF forwarder[s] = "done" THEN Ended(s) /\ UNCHANGED events
       ELSE Running(s) /\ events' = [events EXCEPT ![s] = Append(@, Head(inbox[s]))]
    /\ inbox' = [inbox EXCEPT ![s] = Tail(@)]
    /\ UNCHANGED <<con, gone, kind, link, heard, cmds, toWire, writer, forwarder, codec, emitted, consoleEvents, used>>

\* What the next write of the writer is, and where it comes from.
Source(s) == IF kind[s] = "telnet" THEN toWire[s] ELSE cmds[s]
Consumed(s) ==
    IF kind[s] = "telnet" THEN toWire' = [toWire EXCEPT ![s] = Tail(@)] /\ UNCHANGED cmds
    ELSE cmds' = [cmds EXCEPT ![s] = Tail(@)] /\ UNCHANGED toWire

WriterWrites(s) ==
    /\ Alive(s) /\ writer[s] = "run" /\ Source(s) # <<>> /\ ~Broken(s)
    /\ LET m == Head(Source(s)) IN
       /\ heard' = [heard EXCEPT ![s].said = IF m.what = "size" THEN @ ELSE Append(@, m.what),
                                 ![s].size = IF m.what = "size" THEN m.size ELSE @]
       /\ writer' = [writer EXCEPT ![s] = IF m.what = "close" THEN "done" ELSE @]
    /\ Consumed(s)
    /\ UNCHANGED <<con, gone, kind, link, inbox, reader, forwarder, codec, emitted, events, consoleEvents, used>>

\* Mutant: the writer leaves the report to the reader.
WriterFailsSilently(s) ==
    /\ Alive(s) /\ writer[s] = "run" /\ Source(s) # <<>> /\ link[s] # "up"
    /\ writer' = [writer EXCEPT ![s] = "done"]
    /\ Consumed(s)
    /\ UNCHANGED <<con, gone, kind, link, inbox, heard, reader, forwarder, codec, emitted, events, consoleEvents, used>>

\* A write fails.  A shell's close may also time out, and a failed resize of
\* a shell is ignored.
WriterFails(s) ==
    /\ Alive(s) /\ writer[s] = "run" /\ Source(s) # <<>>
    /\ LET m == Head(Source(s))
           mild == kind[s] = "shell" /\ m.what \in {"size", "close"} IN
       /\ link[s] # "up" \/ (kind[s] = "shell" /\ m.what = "close")
       /\ IF mild THEN UNCHANGED <<events, emitted>>
          ELSE events' = Emitted(s, "end") /\ emitted' = [emitted EXCEPT ![s] = TRUE]
       /\ writer' = [writer EXCEPT ![s] = IF mild /\ m.what = "size" THEN @ ELSE "done"]
    /\ Consumed(s)
    /\ UNCHANGED <<con, gone, kind, link, inbox, heard, reader, forwarder, codec, consoleEvents, used>>

\* The channel it reads is closed: by the reader (Telnet), by the handle.
WriterEnds(s) ==
    /\ Alive(s) /\ writer[s] = "run" /\ Source(s) = <<>>
    /\ IF kind[s] = "telnet" THEN reader[s] = "done" ELSE gone[s]
    /\ writer' = [writer EXCEPT ![s] = "done"]
    /\ UNCHANGED <<con, gone, kind, link, inbox, heard, cmds, toWire, reader, forwarder, codec,
                   emitted, events, consoleEvents, used>>

\* spawn_console_forwarder: ends at the first terminal event, or when both
\* tasks are gone.
Forward(s) ==
    /\ Alive(s) /\ forwarder[s] = "run"
    /\ \/ /\ events[s] # <<>>
          /\ consoleEvents' = Append(consoleEvents, <<s, Head(events[s])>>)
          /\ events' = [events EXCEPT ![s] = Tail(@)]
          /\ forwarder' = [forwarder EXCEPT ![s] = IF Head(events[s]) = "end" THEN "done" ELSE @]
       \/ /\ events[s] = <<>> /\ reader[s] = "done" /\ writer[s] = "done"
          /\ forwarder' = [forwarder EXCEPT ![s] = "done"]
          /\ UNCHANGED <<events, consoleEvents>>
    /\ UNCHANGED <<con, gone, kind, link, inbox, heard, cmds, toWire, reader, writer, codec, emitted, used>>

----------------------------------------------------------------------------
(* The UI thread. *)

\* A command is lost once the task that takes commands is gone.
Taker(s) == IF kind[s] = "telnet" THEN reader[s] ELSE writer[s]
Sent(s, m) == cmds' = [cmds EXCEPT ![s] = IF Taker(s) = "done" THEN @ ELSE Append(@, m)]

\* UiEvent::ConsoleSession into the tab: attach tells the session the size.
Install(k, size, auto) ==
    \E s \in Sessions :
        /\ con.session = 0 /\ kind[s] = "none" /\ \A r \in Sessions : r < s => kind[r] # "none"
        /\ kind' = [kind EXCEPT ![s] = k]
        /\ con' = [session |-> s, connected |-> TRUE, size |-> size]
        /\ cmds' = [cmds EXCEPT ![s] = <<[what |-> "size", size |-> size]>>]
        /\ codec' = [codec EXCEPT ![s].armed = auto /\ k = "telnet"]
        /\ UNCHANGED <<gone, link, inbox, heard, toWire, consoleTasks, emitted, events, consoleEvents, used>>

MayAct == con.session # 0 /\ used[con.session].acts < MaxTyped

\* key_text, special_key, paste; ConsoleState::send keeps what is typed
\* without a session.
Type ==
    /\ MayAct
    /\ IF con.connected THEN Sent(con.session, [what |-> "input"]) ELSE UNCHANGED cmds
    /\ used' = [used EXCEPT ![con.session].acts = @ + 1]
    /\ UNCHANGED <<con, gone, kind, link, inbox, heard, toWire, consoleTasks, codec, emitted, events, consoleEvents>>

\* ConsoleState::resize, from the view's grid.
Resize(size) ==
    /\ MayAct /\ size # con.size
    /\ con' = [con EXCEPT !.size = size]
    /\ IF con.connected THEN Sent(con.session, [what |-> "size", size |-> size]) ELSE UNCHANGED cmds
    /\ used' = [used EXCEPT ![con.session].acts = @ + 1]
    /\ UNCHANGED <<gone, kind, link, inbox, heard, toWire, consoleTasks, codec, emitted, events, consoleEvents>>

\* console::remove: close, then drop the handle; the tab may get another one.
CloseConsole ==
    /\ con.session # 0
    /\ con' = NoConsole
    /\ IF con.connected
       THEN Sent(con.session, [what |-> "close"]) /\ gone' = [gone EXCEPT ![con.session] = TRUE]
       ELSE UNCHANGED <<cmds, gone>>
    /\ UNCHANGED <<kind, link, inbox, heard, toWire, consoleTasks, codec, emitted, events, consoleEvents, used>>

\* UiEvent::ConsoleData and ConsoleClosed name the tab, not the session: they
\* are applied to the console the tab has by then.  A query is answered
\* through the same channel as typing.
HandleConsoleEvent ==
    /\ consoleEvents # <<>>
    /\ LET e == Head(consoleEvents)[2]  s == con.session IN
       IF s = 0 THEN UNCHANGED <<con, gone, cmds>>
       ELSE IF e = "end"
       THEN /\ con' = [con EXCEPT !.connected = FALSE]
            /\ gone' = [gone EXCEPT ![s] = TRUE]
            /\ UNCHANGED cmds
       ELSE /\ IF e = "query" /\ con.connected THEN Sent(s, [what |-> "input"]) ELSE UNCHANGED cmds
            /\ UNCHANGED <<con, gone>>
    /\ consoleEvents' = Tail(consoleEvents)
    /\ UNCHANGED <<kind, link, inbox, heard, toWire, consoleTasks, codec, emitted, events, used>>

ReaderStep(s) == TelnetTakes(s) \/ TelnetDropped(s) \/ TelnetReads(s) \/ ShellReads(s) \/ ReaderEnds(s)
WriterStep(s) == WriterWrites(s) \/ WriterFails(s) \/ WriterEnds(s)
UserStep ==
    \/ \E k \in Transports, g \in GridSizes, b \in BOOLEAN : Install(k, g, b)
    \/ Type \/ CloseConsole \/ \E g \in GridSizes : Resize(g)
ServerStep(s) ==
    \/ \E c \in Data \cup {"naws"} : ServerSends(s, c)
    \/ \E how \in {"eof", "error", "deaf"} : ServerEnds(s, how)

ConsoleNext ==
    \/ UserStep \/ HandleConsoleEvent
    \/ \E s \in Sessions : ReaderStep(s) \/ WriterStep(s) \/ Forward(s) \/ LoginExpires(s) \/ ServerStep(s)

ConsoleSpec == ConsoleInit /\ [][ConsoleNext]_consoleVars

\* The tasks run and the UI handles its events: what a server sends and a user
\* does is bounded, so a select! over two branches comes to each.
ConsoleFairness ==
    /\ WF_consoleVars(HandleConsoleEvent)
    /\ \A s \in Sessions : WF_consoleVars(ReaderStep(s)) /\ WF_consoleVars(WriterStep(s))
                            /\ WF_consoleVars(Forward(s))
FairConsoleSpec == ConsoleSpec /\ ConsoleFairness

----------------------------------------------------------------------------
(* Properties. *)

Msgs == [what : {"input", "name", "password", "close"}] \cup [what : {"size"}, size : GridSizes]

\* Types of the state.
ConsoleTypeOK ==
    /\ con \in [session : Sessions \cup {0}, connected : BOOLEAN, size : GridSizes]
    /\ gone \in [Sessions -> BOOLEAN]
    /\ kind \in [Sessions -> Transports \cup {"none"}]
    /\ link \in [Sessions -> {"up", "eof", "error", "deaf"}]
    /\ codec \in [Sessions -> [size : GridSizes, naws : BOOLEAN, armed : BOOLEAN, sentUser : BOOLEAN]]
    /\ \A s \in Sessions :
         /\ \A i \in DOMAIN cmds[s] : cmds[s][i] \in Msgs
         /\ \A i \in DOMAIN toWire[s] : toWire[s][i] \in Msgs
         /\ \A i \in DOMAIN inbox[s] : inbox[s][i] \in Data \cup {"naws"}

\* Once everything is delivered, a server that follows the window's size knows
\* the size of the console, however resizes, the attach and the negotiation
\* were interleaved.
SizeFollows ==
    LET s == con.session IN
    (s # 0 /\ con.connected /\ ~gone[s] /\ link[s] = "up"
       /\ cmds[s] = <<>> /\ toWire[s] = <<>> /\ reader[s] = "run" /\ writer[s] = "run"
       /\ (kind[s] = "telnet" => codec[s].naws))
    => heard[s].size = con.size

Said(s, what) == {i \in DOMAIN heard[s].said : heard[s].said[i] = what}

\* The auto-login says its name and its password at most once, in that order,
\* and nothing once something typed has gone out (telnet/mod.rs, "Auto-login").
LoginInOrder ==
    \A s \in Sessions :
        /\ Cardinality(Said(s, "name")) <= 1 /\ Cardinality(Said(s, "password")) <= 1
        /\ \A p \in Said(s, "password") : \E n \in Said(s, "name") : n < p
        /\ \A a \in Said(s, "name") \cup Said(s, "password") :
               ~\E i \in Said(s, "input") : i < a

\* A console over a dead connection says so, or is gone, in the end: once the
\* connection is over, or a write was due on it.
DeadIsShown ==
    \A s \in Sessions :
        (con.session = s /\ con.connected /\ (link[s] \in {"eof", "error"} \/ (Broken(s) /\ toWire[s] # <<>>)))
            ~> ~(con.session = s /\ con.connected)
=============================================================================
