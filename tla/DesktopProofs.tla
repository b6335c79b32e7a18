---------------------------- MODULE DesktopProofs ----------------------------
(***************************************************************************)
(* The theorems about what the window does: the invariants that the run of *)
(* MCDesktop checks hold for every value of the constants.                 *)
(*                                                                         *)
(* The composition plays the window, the copies from one server to         *)
(* another, or the queue dialog; a step of it is a step of one part and    *)
(* leaves the others alone.                                                *)
(*   - The window, for any number of tabs, sessions and attempts to        *)
(*     connect: what an event may name (TabTypes, LentTypes, QueueTypes);  *)
(*     a session is open exactly while one tab has it (Owned), a client is *)
(*     here, lent, or on its way back (Accounted), and a tab that is       *)
(*     connecting waits for someone (Awaited).                             *)
(*   - The copies: who may have a staging directory (StagingInv), where an *)
(*     answer to the question comes from (ChoiceInv), what the posted      *)
(*     closures will do to the screen (DialogInv), and which queueing a    *)
(*     posted dialog is of (CopyBounds).                                   *)
(*   - The queue dialog: seenNotified holds what was announced and is      *)
(*     listed (ToldInv), what is not announced yet has an event on its way *)
(*     (WitnessInv), the file, the manager and the component agree         *)
(*     (UiInv), the rows remembered are on the screen (RowsInv), and what  *)
(*     is selected or acted on are transfers of the queue (DialogBounds).  *)
(***************************************************************************)
EXTENDS MCDesktop, FiniteSetTheorems, SequenceTheorems, TLAPS

-----------------------------------------------------------------------------
(* The window.                                                             *)
OpenStates == {"free", "busy"}
Tab == [id : TabIds, session : SessionIds \cup {NoSession}, console : BOOLEAN, connecting : BOOLEAN,
        rightLocal : BOOLEAN, dirty : BOOLEAN, path : Dirs, listing : Listings]
Pane == [path : Dirs, listing : Listings, connected : BOOLEAN]
Task == [kind : {"none", "reload", "op"}, path : Dirs, fallback : BOOLEAN]
UiEvent == [kind : {"session", "console", "failed", "reload", "return", "reloadLocal", "navigate"},
            tab : TabIds \cup {NoTab}, session : SessionIds \cup {NoSession}, path : Dirs]
DialogState == [phase : {"idle", "open", "running", "returned", "preset", "presetReturned"},
                tab : TabIds \cup {NoTab}, cancel : BOOLEAN, outcome : {"session", "console", "failed"}]

TabTypes ==
  /\ tabs \in Seq(Tab) /\ win \in Pane
  /\ tabsMade \in 0..MaxTabs /\ Len(tabs) <= tabsMade
  /\ active \in Nat /\ IF tabs = <<>> THEN active = 1 ELSE active \in 1..Len(tabs)
LentTypes ==
  /\ sess \in [SessionIds -> {"none", "free", "busy", "closed"}]
  /\ ops \in [SessionIds -> Task]
EventOK(e) ==
  /\ e.tab # NoTab => e.kind \in {"session", "console", "failed"}
  /\ e.kind \in {"reload", "return"} => e.session \in SessionIds
QueueTypes ==
  /\ uiEvents \in Seq(UiEvent) /\ \A k \in DOMAIN uiEvents : EventOK(uiEvents[k])
  /\ dialogs \in [Attempts -> DialogState]
  /\ localJobs \subseteq [kind : {"navigate", "reloadLocal"}, path : Dirs]
WindowTypes == TabTypes /\ LentTypes /\ QueueTypes

Owned(ts, se) ==
  /\ \A s \in SessionIds : se[s] \in OpenStates => \E i \in 1..Len(ts) : ts[i].session = s
  /\ \A i \in 1..Len(ts) : ts[i].session # NoSession => se[ts[i].session] \in OpenStates
  /\ \A i, j \in 1..Len(ts) : ts[i].session = ts[j].session /\ ts[i].session # NoSession => i = j
  /\ \A i \in 1..Len(ts) : ~(ts[i].session # NoSession /\ ts[i].console)
Distinct(ts, made) ==
  /\ \A i, j \in 1..Len(ts) : ts[i].id = ts[j].id => i = j
  /\ \A i \in 1..Len(ts) : ts[i].id <= made
  /\ \A i \in 1..Len(ts) : ts[i].connecting => IsFree(ts[i])
OwnerInv == Owned(tabs, sess) /\ Distinct(tabs, tabsMade)

Returns(ev, s, k) == k \in DOMAIN ev /\ ev[k].kind = "return" /\ ev[k].session = s
Accounted(se, op, ev) ==
  \A s \in SessionIds :
    /\ op[s].kind # "none" => se[s] \in {"busy", "closed"} /\ \A k : ~Returns(ev, s, k)
    /\ \A k : Returns(ev, s, k) =>
         se[s] \in {"busy", "closed"} /\ \A l : Returns(ev, s, l) => k = l
    /\ se[s] = "busy" => op[s].kind # "none" \/ \E k : Returns(ev, s, k)
ClientInv == Accounted(sess, ops, uiEvents)

Awaited(ts, dl, ev, ab) ==
  \A i \in 1..Len(ts) : ts[i].connecting =>
    \/ ts[i].id \in ab
    \/ \E a \in Attempts : dl[a].tab = ts[i].id /\ dl[a].phase # "idle"
    \/ \E k \in DOMAIN ev : ev[k].tab = ts[i].id
AwaitInv == Awaited(tabs, dialogs, uiEvents, abandoned)

-----------------------------------------------------------------------------
(* Tab bars. *)

(* us is the tab bar ts with other paths, listings and marks. *)
SameTabs(ts, us) ==
  /\ us \in Seq(Tab) /\ Len(us) = Len(ts)
  /\ \A i \in 1..Len(ts) : /\ us[i].id = ts[i].id /\ us[i].session = ts[i].session
                           /\ us[i].console = ts[i].console /\ us[i].connecting = ts[i].connecting

LEMMA TabIs == ASSUME NEW ts \in Seq(Tab), NEW i \in 1..Len(ts)
               PROVE  ts[i] \in Tab /\ ts[i].session \in SessionIds \cup {NoSession}
<1>1. ts[i] \in Tab
  OBVIOUS
<1> QED BY <1>1 DEF Tab

LEMMA OwnedSame ==
  ASSUME NEW ts \in Seq(Tab), NEW us, SameTabs(ts, us), NEW se, NEW se2, NEW made,
         Owned(ts, se), Distinct(ts, made),
         \A s \in SessionIds : se2[s] \in OpenStates <=> se[s] \in OpenStates
  PROVE  Owned(us, se2) /\ Distinct(us, made)
<1>1. \A i \in 1..Len(ts) : ts[i].session \in SessionIds \cup {NoSession}
  BY TabIs
<1>2. Owned(us, se2)
  BY <1>1 DEF SameTabs, Owned
<1>3. Distinct(us, made)
  BY DEF SameTabs, Distinct, IsFree
<1> QED BY <1>2, <1>3

(* One tab is written. *)
LEMMA Written ==
  ASSUME NEW ts \in Seq(Tab), NEW i \in 1..Len(ts), NEW t \in Tab
  PROVE  /\ [ts EXCEPT ![i] = t] \in Seq(Tab) /\ Len([ts EXCEPT ![i] = t]) = Len(ts)
         /\ \A j \in 1..Len(ts) : [ts EXCEPT ![i] = t][j] = IF j = i THEN t ELSE ts[j]
OBVIOUS

LEMMA LocalTabIs ==
  ASSUME NEW ts \in Seq(Tab), NEW i, ts # <<>> => i \in 1..Len(ts)
  PROVE  SameTabs(ts, LocalTab(ts, i))
<1>1. CASE ts = <<>>
  BY <1>1 DEF LocalTab, SameTabs
<1>2. CASE ts # <<>>
  <2> DEFINE t == [ts[i] EXCEPT !.rightLocal = TRUE]
  <2>1. LocalTab(ts, i) = [ts EXCEPT ![i] = t]
    BY <1>2 DEF LocalTab
  <2>2. ts[i] \in Tab
    BY <1>2, TabIs
  <2>3. /\ t \in Tab /\ t.id = ts[i].id /\ t.session = ts[i].session
        /\ t.console = ts[i].console /\ t.connecting = ts[i].connecting
    BY <2>2 DEF Tab
  <2> HIDE DEF t
  <2> QED BY <1>2, <2>1, <2>3, Written DEF SameTabs
<1> QED BY <1>1, <1>2

LEMMA Removed ==
  ASSUME NEW ts \in Seq(Tab), NEW i \in 1..Len(ts)
  PROVE  /\ RemoveAt(ts, i) \in Seq(Tab) /\ Len(RemoveAt(ts, i)) = Len(ts) - 1
         /\ \A j \in 1..(Len(ts) - 1) : RemoveAt(ts, i)[j] = IF j < i THEN ts[j] ELSE ts[j + 1]
<1> DEFINE a == SubSeq(ts, 1, i - 1)  b == SubSeq(ts, i + 1, Len(ts))
<1>1. /\ a \in Seq(Tab) /\ Len(a) = i - 1
      /\ \A j \in 1..(i - 1) : a[j] = ts[j]
  BY SubSeqProperties
<1>2. /\ b \in Seq(Tab) /\ Len(b) = Len(ts) - i
      /\ \A j \in 1..(Len(ts) - i) : b[j] = ts[i + j]
  BY SubSeqProperties
<1> HIDE DEF a, b
<1> DEFINE n == Len(ts)
<1>3. n \in Nat /\ i \in 1..n
  OBVIOUS
<1> HIDE DEF n
<1>4. /\ a \o b \in Seq(Tab) /\ Len(a \o b) = Len(a) + Len(b)
      /\ \A j \in 1..(Len(a) + Len(b)) : (a \o b)[j] = IF j <= Len(a) THEN a[j] ELSE b[j - Len(a)]
  BY <1>1, <1>2, ConcatProperties
<1>5. Len(a) = i - 1 /\ Len(b) = n - i
  BY <1>1, <1>2 DEF n
<1>6. /\ a \o b \in Seq(Tab) /\ Len(a \o b) = n - 1
      /\ \A j \in 1..(n - 1) : (a \o b)[j] = IF j < i THEN a[j] ELSE b[j - i + 1]
  BY <1>3, <1>4, <1>5
<1>7. \A j \in 1..(Len(ts) - 1) : (a \o b)[j] = IF j < i THEN ts[j] ELSE ts[j + 1]
  BY <1>1, <1>2, <1>6, <1>3 DEF n
<1> QED BY <1>6, <1>7 DEF RemoveAt, a, b, n

LEMMA Added ==
  ASSUME NEW ts \in Seq(Tab), NEW t \in Tab
  PROVE  /\ Append(ts, t) \in Seq(Tab) /\ Len(Append(ts, t)) = Len(ts) + 1
         /\ \A j \in 1..Len(ts) : Append(ts, t)[j] = ts[j]
         /\ Append(ts, t)[Len(ts) + 1] = t
OBVIOUS

LEMMA BlankIs ==
  ASSUME NEW id \in TabIds
  PROVE  /\ BlankTab(id) \in Tab /\ BlankTab(id).id = id /\ BlankTab(id).session = NoSession
         /\ BlankTab(id).console = FALSE /\ BlankTab(id).connecting = FALSE
BY DesktopAssumption DEF BlankTab, Tab, NoSession, NoFiles, Listings
-----------------------------------------------------------------------------
(* Clients and where they are. *)

Sessions == [SessionIds -> {"none", "free", "busy", "closed"}]
Tasks == [SessionIds -> Task]
EventQueues == {ev \in Seq(UiEvent) : \A k \in DOMAIN ev : EventOK(ev[k])}
IsBack(st) == IF st = "busy" THEN "free" ELSE st

LEMMA Lent ==
  ASSUME NEW se \in Sessions, NEW op \in Tasks, NEW ev, Accounted(se, op, ev),
         NEW s \in SessionIds, se[s] = "free", NEW k \in Task, k.kind # "none"
  PROVE  /\ [se EXCEPT ![s] = "busy"] \in Sessions /\ [op EXCEPT ![s] = k] \in Tasks
         /\ Accounted([se EXCEPT ![s] = "busy"], [op EXCEPT ![s] = k], ev)
<1>1. op \in [SessionIds -> Task] /\ se \in [SessionIds -> {"none", "free", "busy", "closed"}]
  BY DEF Tasks, Sessions
<1>2. \A r \in SessionIds : /\ [se EXCEPT ![s] = "busy"][r] = IF r = s THEN "busy" ELSE se[r]
                            /\ [op EXCEPT ![s] = k][r] = IF r = s THEN k ELSE op[r]
  BY <1>1
<1> QED BY <1>1, <1>2 DEF Accounted, Tasks, Sessions

LEMMA NoOpIs == NoOp \in Task /\ NoOp.kind = "none"
BY DesktopAssumption DEF NoOp, Task

LEMMA TaskDone ==
  ASSUME NEW se \in Sessions, NEW op \in Tasks, NEW ev, Accounted(se, op, ev),
         NEW s \in SessionIds, op[s].kind # "none"
  PROVE  LET se2 == [se EXCEPT ![s] = IsBack(se[s])]  op2 == [op EXCEPT ![s] = NoOp] IN
         /\ se2 \in Sessions /\ op2 \in Tasks /\ Accounted(se2, op2, ev)
<1> DEFINE se2 == [se EXCEPT ![s] = IsBack(se[s])]  op2 == [op EXCEPT ![s] = NoOp]
<1>1. /\ op \in [SessionIds -> Task] /\ se \in [SessionIds -> {"none", "free", "busy", "closed"}]
      /\ IsBack(se[s]) \in {"none", "free", "closed"}
  BY DEF Tasks, Sessions, IsBack
<1>2. \A r \in SessionIds : /\ se2[r] = IF r = s THEN IsBack(se[s]) ELSE se[r]
                            /\ op2[r] = IF r = s THEN NoOp ELSE op[r]
  BY <1>1
<1>3. se2 \in Sessions /\ op2 \in Tasks
  BY <1>1, NoOpIs DEF Sessions, Tasks
<1> HIDE DEF se2, op2
<1>4. Accounted(se2, op2, ev)
  BY <1>1, <1>2, NoOpIs DEF Accounted, IsBack
<1> QED BY <1>3, <1>4 DEF se2, op2

LEMMA Closed ==
  ASSUME NEW se \in Sessions, NEW op \in Tasks, NEW ev, Accounted(se, op, ev),
         NEW s \in SessionIds, se[s] \in OpenStates
  PROVE  /\ [se EXCEPT ![s] = "closed"] \in Sessions
         /\ Accounted([se EXCEPT ![s] = "closed"], op, ev)
<1>1. /\ [se EXCEPT ![s] = "closed"] \in Sessions
      /\ \A r \in SessionIds : [se EXCEPT ![s] = "closed"][r] = IF r = s THEN "closed" ELSE se[r]
  BY DEF Sessions
<1> QED BY <1>1 DEF Accounted, OpenStates

LEMMA EventPosted ==
  ASSUME NEW ev \in EventQueues, NEW e \in UiEvent, EventOK(e)
  PROVE  /\ Append(ev, e) \in EventQueues
         /\ DOMAIN Append(ev, e) = DOMAIN ev \cup {Len(ev) + 1} /\ Len(ev) + 1 \notin DOMAIN ev
         /\ \A k \in DOMAIN ev : Append(ev, e)[k] = ev[k]
         /\ Append(ev, e)[Len(ev) + 1] = e
<1>1. ev \in Seq(UiEvent) /\ \A k \in DOMAIN ev : EventOK(ev[k])
  BY DEF EventQueues
<1>2. /\ Append(ev, e) \in Seq(UiEvent)
      /\ DOMAIN Append(ev, e) = DOMAIN ev \cup {Len(ev) + 1} /\ Len(ev) + 1 \notin DOMAIN ev
      /\ \A k \in DOMAIN ev : Append(ev, e)[k] = ev[k]
      /\ Append(ev, e)[Len(ev) + 1] = e
  BY <1>1
<1>3. \A k \in DOMAIN Append(ev, e) : EventOK(Append(ev, e)[k])
  BY <1>1, <1>2
<1> QED BY <1>2, <1>3 DEF EventQueues

LEMMA Notice ==
  ASSUME NEW ev \in EventQueues, NEW e \in UiEvent, EventOK(e), e.kind # "return",
         NEW se, NEW op, Accounted(se, op, ev)
  PROVE  Accounted(se, op, Append(ev, e))
<1>1. \A s, k : Returns(Append(ev, e), s, k) <=> Returns(ev, s, k)
  BY EventPosted DEF Returns
<1> QED BY <1>1 DEF Accounted

LEMMA SentBack ==
  ASSUME NEW ev \in EventQueues, NEW e \in UiEvent, EventOK(e), e.kind = "return",
         NEW se \in Sessions, NEW op \in Tasks, Accounted(se, op, ev), op[e.session].kind # "none"
  PROVE  /\ [op EXCEPT ![e.session] = NoOp] \in Tasks
         /\ Accounted(se, [op EXCEPT ![e.session] = NoOp], Append(ev, e))
<1> DEFINE op2 == [op EXCEPT ![e.session] = NoOp]
<1>1. e.session \in SessionIds
  BY DEF EventOK
<1>2. op2 \in Tasks /\ \A r \in SessionIds : op2[r] = IF r = e.session THEN NoOp ELSE op[r]
  BY NoOpIs DEF Tasks
<1>3. \A s, k : Returns(Append(ev, e), s, k) <=> Returns(ev, s, k) \/ (s = e.session /\ k = Len(ev) + 1)
  BY EventPosted DEF Returns
<1> HIDE DEF op2
<1>4. Accounted(se, op2, Append(ev, e))
  BY <1>1, <1>2, <1>3, NoOpIs DEF Accounted
<1> QED BY <1>2, <1>4 DEF op2

LEMMA Taken ==
  ASSUME NEW ev \in EventQueues, ev # <<>>
  PROVE  /\ Tail(ev) \in EventQueues /\ Head(ev) \in UiEvent /\ EventOK(Head(ev)) /\ Head(ev) = ev[1]
         /\ \A k \in DOMAIN Tail(ev) : k + 1 \in DOMAIN ev /\ Tail(ev)[k] = ev[k + 1]
         /\ \A k \in DOMAIN ev : k # 1 => k - 1 \in DOMAIN Tail(ev) /\ Tail(ev)[k - 1] = ev[k]
         /\ 1 \in DOMAIN ev /\ DOMAIN Tail(ev) \subseteq Nat /\ DOMAIN ev \subseteq Nat
<1>1. ev \in Seq(UiEvent) /\ \A k \in DOMAIN ev : EventOK(ev[k])
  BY DEF EventQueues
<1>2. /\ Tail(ev) \in Seq(UiEvent) /\ Head(ev) = ev[1]
      /\ DOMAIN ev = 1..Len(ev) /\ DOMAIN Tail(ev) = 1..(Len(ev) - 1) /\ Len(ev) \in Nat \ {0}
      /\ \A k \in 1..(Len(ev) - 1) : Tail(ev)[k] = ev[k + 1]
  BY <1>1
<1>3. /\ \A k \in DOMAIN Tail(ev) : k + 1 \in DOMAIN ev /\ Tail(ev)[k] = ev[k + 1]
      /\ \A k \in DOMAIN ev : k # 1 => k - 1 \in DOMAIN Tail(ev) /\ Tail(ev)[k - 1] = ev[k]
      /\ 1 \in DOMAIN ev /\ DOMAIN Tail(ev) \subseteq Nat /\ DOMAIN ev \subseteq Nat
  BY <1>2
<1>4. Head(ev) \in UiEvent /\ EventOK(Head(ev))
  BY <1>1, <1>2, <1>3
<1>5. \A k \in DOMAIN Tail(ev) : EventOK(Tail(ev)[k])
  BY <1>1, <1>3
<1> QED BY <1>2, <1>3, <1>4, <1>5 DEF EventQueues

LEMMA NoticeTaken ==
  ASSUME NEW ev \in EventQueues, ev # <<>>, Head(ev).kind # "return", NEW se, NEW op, Accounted(se, op, ev)
  PROVE  Accounted(se, op, Tail(ev))
<1>1. \A s : /\ \A k : Returns(Tail(ev), s, k) => Returns(ev, s, k + 1) /\ k \in Nat
             /\ \A k : Returns(ev, s, k) => Returns(Tail(ev), s, k - 1) /\ k \in Nat
  BY Taken DEF Returns
<1> QED BY <1>1 DEF Accounted

LEMMA ClientTaken ==
  ASSUME NEW ev \in EventQueues, ev # <<>>, Head(ev).kind = "return",
         NEW se \in Sessions, NEW op, Accounted(se, op, ev)
  PROVE  LET s == Head(ev).session IN
         /\ [se EXCEPT ![s] = IsBack(se[s])] \in Sessions
         /\ Accounted([se EXCEPT ![s] = IsBack(se[s])], op, Tail(ev))
<1> DEFINE s == Head(ev).session  se2 == [se EXCEPT ![s] = IsBack(se[s])]
<1>1. s \in SessionIds
  BY Taken DEF EventOK
<1>2. /\ se2 \in Sessions
      /\ \A r \in SessionIds : se2[r] = IF r = s THEN IsBack(se[s]) ELSE se[r]
  BY DEF Sessions, IsBack
<1>3. \A r : /\ \A k : Returns(Tail(ev), r, k) => Returns(ev, r, k + 1) /\ k \in Nat /\ k + 1 # 1
             /\ \A k : Returns(ev, r, k) /\ k # 1 => Returns(Tail(ev), r, k - 1) /\ k \in Nat
  BY Taken DEF Returns
<1>4. \A r : Returns(ev, r, 1) <=> r = s
  BY Taken DEF Returns
<1> HIDE DEF s, se2
<1>5. \A r \in SessionIds :
        /\ op[r].kind # "none" => se2[r] \in {"busy", "closed"} /\ \A k : ~Returns(Tail(ev), r, k)
        /\ \A k : Returns(Tail(ev), r, k) =>
             se2[r] \in {"busy", "closed"} /\ \A l : Returns(Tail(ev), r, l) => k = l
        /\ se2[r] = "busy" => op[r].kind # "none" \/ \E k : Returns(Tail(ev), r, k)
  <2> TAKE r \in SessionIds
  <2>1. CASE r = s
    <3>1. \A k : ~Returns(Tail(ev), r, k)
      <4>1. \A k, l : Returns(ev, r, k) /\ Returns(ev, r, l) => k = l
        BY DEF Accounted
      <4>2. Returns(ev, r, 1)
        BY <1>4, <2>1
      <4> QED BY <1>3, <4>1, <4>2
    <3>2. se2[r] # "busy" /\ op[r].kind = "none"
      BY <1>1, <1>2, <1>4, <2>1 DEF Accounted, IsBack
    <3> QED BY <3>1, <3>2
  <2>2. CASE r # s
    BY <1>2, <1>3, <1>4, <2>2 DEF Accounted
  <2> QED BY <2>1, <2>2
<1>6. Accounted(se2, op, Tail(ev))
  BY <1>5 DEF Accounted
<1> QED BY <1>2, <1>6 DEF se2, s
-----------------------------------------------------------------------------
(* Tabs and what they own. *)

\* us is ts with another tab at i.
OtherAt(ts, us, i) ==
  /\ us \in Seq(Tab) /\ Len(us) = Len(ts) /\ us[i].id = ts[i].id
  /\ \A j \in 1..Len(ts) : j # i =>
       /\ us[j].id = ts[j].id /\ us[j].session = ts[j].session
       /\ us[j].console = ts[j].console /\ us[j].connecting = ts[j].connecting
CloseIn(se, s) == IF s = NoSession THEN se ELSE [se EXCEPT ![s] = "closed"]

LEMMA CloseIs ==
  ASSUME NEW ts \in Seq(Tab), NEW se \in Sessions, NEW op \in Tasks, NEW ev, Owned(ts, se),
         NEW i \in 1..Len(ts), Accounted(se, op, ev)
  PROVE  LET se2 == CloseIn(se, ts[i].session) IN
         /\ se2 \in Sessions /\ Accounted(se2, op, ev)
         /\ \A s \in SessionIds : se2[s] \in OpenStates <=> se[s] \in OpenStates /\ s # ts[i].session
<1>1. ts[i].session \in SessionIds \cup {NoSession} /\ \A s \in SessionIds : s # NoSession
  BY TabIs DEF SessionIds, NoSession
<1>2. CASE ts[i].session = NoSession
  BY <1>1, <1>2 DEF CloseIn
<1>3. CASE ts[i].session # NoSession
  <2>1. se[ts[i].session] \in OpenStates /\ ts[i].session \in SessionIds
    BY <1>1, <1>3 DEF Owned
  <2> QED BY <1>3, <2>1, Closed DEF CloseIn, Sessions, OpenStates
<1> QED BY <1>2, <1>3

LEMMA DistinctOther ==
  ASSUME NEW ts \in Seq(Tab), NEW us, NEW made, NEW i \in 1..Len(ts), OtherAt(ts, us, i),
         Distinct(ts, made), us[i].connecting => IsFree(us[i])
  PROVE  Distinct(us, made)
<1>1. \A j \in 1..Len(ts) : us[j].id = ts[j].id
  BY DEF OtherAt
<1>2. \A j \in 1..Len(ts) : us[j].connecting => IsFree(us[j])
  BY DEF OtherAt, Distinct, IsFree
<1> QED BY <1>1, <1>2 DEF OtherAt, Distinct

LEMMA OwnedReset ==
  ASSUME NEW ts \in Seq(Tab), NEW us, NEW se, NEW se2, NEW made, NEW i \in 1..Len(ts),
         Owned(ts, se), Distinct(ts, made), OtherAt(ts, us, i),
         us[i].session = NoSession, us[i].console = FALSE,
         \A s \in SessionIds : se2[s] \in OpenStates <=> se[s] \in OpenStates /\ s # ts[i].session
  PROVE  Owned(us, se2) /\ Distinct(us, made)
<1>1. \A j \in 1..Len(ts) : ts[j].session \in SessionIds \cup {NoSession}
  BY TabIs
<1>2. Owned(us, se2)
  <2>1. /\ Len(us) = Len(ts)
        /\ \A j \in 1..Len(ts) : j # i => us[j].session = ts[j].session /\ us[j].console = ts[j].console
    BY DEF OtherAt
  <2>2. ASSUME NEW s \in SessionIds, se2[s] \in OpenStates PROVE \E j \in 1..Len(us) : us[j].session = s
    <3>1. se[s] \in OpenStates /\ s # ts[i].session
      BY <2>2
    <3>2. PICK j \in 1..Len(ts) : ts[j].session = s
      BY <3>1 DEF Owned
    <3> QED BY <2>1, <3>1, <3>2
  <2>3. \A j \in 1..Len(us) : us[j].session # NoSession => se2[us[j].session] \in OpenStates
    <3>1. ASSUME NEW j \in 1..Len(ts), j # i, ts[j].session # NoSession
          PROVE  ts[j].session \in SessionIds /\ ts[j].session # ts[i].session /\ se[ts[j].session] \in OpenStates
      BY <1>1, <3>1 DEF Owned
    <3> QED BY <2>1, <3>1
  <2>4. \A j, k \in 1..Len(us) : us[j].session = us[k].session /\ us[j].session # NoSession => j = k
    BY <2>1 DEF Owned
  <2>5. \A j \in 1..Len(us) : ~(us[j].session # NoSession /\ us[j].console)
    BY <2>1 DEF Owned
  <2> QED BY <2>2, <2>3, <2>4, <2>5 DEF Owned
<1>3. Distinct(us, made)
  BY DistinctOther DEF IsFree
<1> QED BY <1>2, <1>3

LEMMA OwnedRemoved ==
  ASSUME NEW ts \in Seq(Tab), NEW se, NEW se2, NEW made, NEW i \in 1..Len(ts),
         Owned(ts, se), Distinct(ts, made),
         \A s \in SessionIds : se2[s] \in OpenStates <=> se[s] \in OpenStates /\ s # ts[i].session
  PROVE  Owned(RemoveAt(ts, i), se2) /\ Distinct(RemoveAt(ts, i), made)
<1> DEFINE us == RemoveAt(ts, i)  n == Len(ts)
           from(j) == IF j < i THEN j ELSE j + 1
           to(j) == IF j < i THEN j ELSE j - 1
<1>1. n \in Nat /\ i \in 1..n /\ Len(us) = n - 1
      /\ \A j \in 1..(n - 1) : us[j] = ts[from(j)]
  BY Removed
<1>2. \A j \in 1..n : ts[j].session \in SessionIds \cup {NoSession}
  BY TabIs
<1> HIDE DEF us
<1>3. /\ \A j \in 1..(n - 1) : from(j) \in 1..n /\ from(j) # i
      /\ \A j, k \in 1..(n - 1) : from(j) = from(k) => j = k
      /\ \A j \in 1..n : j # i => to(j) \in 1..(n - 1) /\ from(to(j)) = j
  BY <1>1
<1> HIDE DEF from, to, n
<1>4. Owned(us, se2)
  <2>1. ASSUME NEW s \in SessionIds, se2[s] \in OpenStates PROVE \E j \in 1..(n - 1) : us[j].session = s
    <3>1. PICK j \in 1..n : ts[j].session = s
      BY <2>1 DEF Owned, n
    <3>2. j # i
      BY <2>1, <3>1
    <3> QED BY <1>1, <1>3, <3>1, <3>2
  <2>2. \A j \in 1..(n - 1) : us[j].session # NoSession => se2[us[j].session] \in OpenStates
    BY <1>1, <1>2, <1>3 DEF Owned, n
  <2>3. \A j, k \in 1..(n - 1) : us[j].session = us[k].session /\ us[j].session # NoSession => j = k
    BY <1>1, <1>3 DEF Owned, n
  <2>4. \A j \in 1..(n - 1) : ~(us[j].session # NoSession /\ us[j].console)
    BY <1>1, <1>3 DEF Owned, n
  <2> QED BY <1>1, <2>1, <2>2, <2>3, <2>4 DEF Owned
<1>5. Distinct(us, made)
  <2>1. \A j, k \in 1..(n - 1) : us[j].id = us[k].id => j = k
    BY <1>1, <1>3 DEF Distinct, n
  <2>2. \A j \in 1..(n - 1) : us[j].id <= made /\ (us[j].connecting => IsFree(us[j]))
    BY <1>1, <1>3 DEF Distinct, n
  <2> QED BY <1>1, <2>1, <2>2 DEF Distinct
<1> QED BY <1>4, <1>5 DEF us

LEMMA OwnedAppended ==
  ASSUME NEW ts \in Seq(Tab), NEW se, NEW made \in Nat, NEW t \in Tab, t.id = made + 1,
         t.session = NoSession, t.console = FALSE, Owned(ts, se), Distinct(ts, made)
  PROVE  Owned(Append(ts, t), se) /\ Distinct(Append(ts, t), made + 1)
<1> DEFINE us == Append(ts, t)  n == Len(ts)
<1>1. /\ n \in Nat /\ Len(us) = n + 1 /\ us[n + 1] = t
      /\ \A j \in 1..n : us[j] = ts[j]
  BY Added
<1>2. \A j \in 1..n : ts[j].id \in Nat
  <2>1. \A j \in 1..n : ts[j] \in Tab
    BY TabIs
  <2> QED BY <2>1 DEF Tab, TabIds
<1>3. \A j \in 1..(n + 1) : j \in 1..n \/ j = n + 1
  BY <1>1
<1>4. \A j \in 1..n : j \in 1..(n + 1)
  BY <1>1
<1> HIDE DEF us
<1>5. Owned(us, se)
  BY <1>1, <1>3, <1>4 DEF Owned, n
<1>6. Distinct(us, made + 1)
  <2>1. /\ \A j, k \in 1..n : ts[j].id = ts[k].id => j = k
        /\ \A j \in 1..n : ts[j].id <= made /\ (ts[j].connecting => IsFree(ts[j]))
    BY DEF Distinct, n
  <2>2. us[n + 1].id = made + 1 /\ \A j \in 1..n : us[j].id = ts[j].id /\ us[j].id <= made
    BY <1>1, <2>1
  <2>3. \A j \in 1..n : us[j].id # us[n + 1].id
    BY <1>2, <2>2
  <2>4. \A j, k \in 1..(n + 1) : us[j].id = us[k].id => j = k
    BY <1>3, <2>1, <2>2, <2>3
  <2>5. \A j \in 1..(n + 1) : us[j].id <= made + 1
    <3>1. \A j \in 1..n : us[j].id <= made + 1
      BY <1>2, <2>2
    <3> QED BY <1>3, <2>2, <3>1
  <2>6. \A j \in 1..(n + 1) : us[j].connecting => IsFree(us[j])
    BY <1>1, <1>3, <2>1 DEF IsFree
  <2> QED BY <1>1, <2>4, <2>5, <2>6 DEF Distinct
<1> QED BY <1>5, <1>6 DEF us
-----------------------------------------------------------------------------
(* Whom a tab that is connecting waits for. *)

LEMMA AwaitedKept ==
  ASSUME NEW ts, NEW dl, NEW ev, NEW ab, Awaited(ts, dl, ev, ab), NEW us, NEW dl2, NEW ev2, NEW ab2,
         \A i \in 1..Len(us) : us[i].connecting =>
           \E j \in 1..Len(ts) : ts[j].connecting /\ ts[j].id = us[i].id,
         ab \subseteq ab2,
         \A a \in Attempts : dl[a].phase # "idle" =>
           \/ dl2[a].phase # "idle" /\ dl2[a].tab = dl[a].tab
           \/ dl[a].tab \in ab2
           \/ \E k \in DOMAIN ev2 : ev2[k].tab = dl[a].tab,
         \A k \in DOMAIN ev : \E l \in DOMAIN ev2 : ev2[l].tab = ev[k].tab
  PROVE  Awaited(us, dl2, ev2, ab2)
<1> SUFFICES ASSUME NEW i \in 1..Len(us), us[i].connecting
    PROVE  \/ us[i].id \in ab2
           \/ \E a \in Attempts : dl2[a].tab = us[i].id /\ dl2[a].phase # "idle"
           \/ \E k \in DOMAIN ev2 : ev2[k].tab = us[i].id
  BY DEF Awaited
<1>1. PICK j \in 1..Len(ts) : ts[j].connecting /\ ts[j].id = us[i].id
  OBVIOUS
<1>2. CASE ts[j].id \in ab
  BY <1>1, <1>2
<1>3. ASSUME NEW a \in Attempts, dl[a].tab = ts[j].id, dl[a].phase # "idle"
      PROVE  \/ us[i].id \in ab2
             \/ \E b \in Attempts : dl2[b].tab = us[i].id /\ dl2[b].phase # "idle"
             \/ \E k \in DOMAIN ev2 : ev2[k].tab = us[i].id
  BY <1>1, <1>3
<1>4. ASSUME NEW k \in DOMAIN ev, ev[k].tab = ts[j].id
      PROVE  \E l \in DOMAIN ev2 : ev2[l].tab = us[i].id
  BY <1>1, <1>4
<1> QED BY <1>1, <1>2, <1>3, <1>4 DEF Awaited

(* An event is handled: the tab it is for, if any, does not wait any more. *)
LEMMA AwaitedTaken ==
  ASSUME NEW ev \in EventQueues, ev # <<>>, NEW ts, NEW us, NEW dl, NEW ab, Awaited(ts, dl, ev, ab),
         \A i \in 1..Len(us) : us[i].connecting =>
           us[i].id # Head(ev).tab /\ \E j \in 1..Len(ts) : ts[j].connecting /\ ts[j].id = us[i].id
  PROVE  Awaited(us, dl, Tail(ev), ab)
<1> SUFFICES ASSUME NEW i \in 1..Len(us), us[i].connecting
    PROVE  \/ us[i].id \in ab
           \/ \E a \in Attempts : dl[a].tab = us[i].id /\ dl[a].phase # "idle"
           \/ \E k \in DOMAIN Tail(ev) : Tail(ev)[k].tab = us[i].id
  BY DEF Awaited
<1>1. PICK j \in 1..Len(ts) : ts[j].connecting /\ ts[j].id = us[i].id
  OBVIOUS
<1>2. ASSUME NEW k \in DOMAIN ev, ev[k].tab = ts[j].id
      PROVE  \E l \in DOMAIN Tail(ev) : Tail(ev)[l].tab = us[i].id
  <2>1. k # 1
    BY <1>1, <1>2, Taken
  <2>2. k - 1 \in DOMAIN Tail(ev) /\ Tail(ev)[k - 1] = ev[k]
    BY <1>2, <2>1, Taken
  <2> QED BY <1>1, <1>2, <2>2
<1> QED BY <1>1, <1>2 DEF Awaited

-----------------------------------------------------------------------------
(* Kinds of steps. *)

WindowInv == WindowTypes /\ OwnerInv /\ ClientInv /\ AwaitInv
AtTab(ts, i) == i \in Nat /\ IF ts = <<>> THEN i = 1 ELSE i \in 1..Len(ts)
KeepsTabs ==
  /\ SameTabs(tabs, tabs') /\ tabsMade' = tabsMade /\ win' \in Pane /\ AtTab(tabs, active')
\* What is lent next, from these sessions and tasks.
Lending(se, op) ==
  \/ sess' = se /\ ops' = op
  \/ \E r \in SessionIds, k \in Task :
       /\ se[r] = "free" /\ k.kind # "none"
       /\ sess' = [se EXCEPT ![r] = "busy"] /\ ops' = [op EXCEPT ![r] = k]
LendsOne == Lending(sess, ops)

LEMMA InvParts ==
  WindowInv <=>
    /\ tabs \in Seq(Tab) /\ win \in Pane /\ tabsMade \in 0..MaxTabs /\ Len(tabs) <= tabsMade
    /\ AtTab(tabs, active) /\ sess \in Sessions /\ ops \in Tasks
    /\ uiEvents \in EventQueues /\ dialogs \in [Attempts -> DialogState]
    /\ localJobs \subseteq [kind : {"navigate", "reloadLocal"}, path : Dirs]
    /\ Owned(tabs, sess) /\ Distinct(tabs, tabsMade)
    /\ Accounted(sess, ops, uiEvents) /\ Awaited(tabs, dialogs, uiEvents, abandoned)
BY DEF WindowInv, WindowTypes, TabTypes, LentTypes, QueueTypes, OwnerInv, ClientInv, AwaitInv,
       AtTab, Sessions, Tasks, EventQueues

LEMMA InvNext ==
  ASSUME tabs' \in Seq(Tab), win' \in Pane, tabsMade' \in 0..MaxTabs, Len(tabs') <= tabsMade',
         AtTab(tabs', active'), sess' \in Sessions, ops' \in Tasks,
         uiEvents' \in EventQueues, dialogs' \in [Attempts -> DialogState],
         localJobs' \subseteq [kind : {"navigate", "reloadLocal"}, path : Dirs],
         Owned(tabs', sess'), Distinct(tabs', tabsMade'),
         Accounted(sess', ops', uiEvents'), Awaited(tabs', dialogs', uiEvents', abandoned')
  PROVE  WindowInv'
BY DEF WindowInv, WindowTypes, TabTypes, LentTypes, QueueTypes, OwnerInv, ClientInv, AwaitInv,
       AtTab, Sessions, Tasks, EventQueues

LEMMA LendsKeep ==
  ASSUME WindowInv, LendsOne
  PROVE  /\ sess' \in Sessions /\ ops' \in Tasks /\ Accounted(sess', ops', uiEvents)
         /\ \A s \in SessionIds : sess'[s] \in OpenStates <=> sess[s] \in OpenStates
<1>1. CASE sess' = sess /\ ops' = ops
  BY <1>1, InvParts
<1>2. ASSUME NEW s \in SessionIds, NEW k \in Task, sess[s] = "free", k.kind # "none",
             sess' = [sess EXCEPT ![s] = "busy"], ops' = [ops EXCEPT ![s] = k]
      PROVE  /\ sess' \in Sessions /\ ops' \in Tasks /\ Accounted(sess', ops', uiEvents)
             /\ \A r \in SessionIds : sess'[r] \in OpenStates <=> sess[r] \in OpenStates
  BY <1>2, InvParts, Lent DEF OpenStates, Sessions
<1> QED BY <1>1, <1>2 DEF LendsOne, Lending

LEMMA PaneOnly ==
  ASSUME WindowInv, KeepsTabs, LendsOne, UNCHANGED <<uiEvents, dialogs, abandoned>>,
         localJobs' \subseteq [kind : {"navigate", "reloadLocal"}, path : Dirs]
  PROVE  WindowInv'
<1>1. /\ sess' \in Sessions /\ ops' \in Tasks /\ Accounted(sess', ops', uiEvents)
      /\ \A s \in SessionIds : sess'[s] \in OpenStates <=> sess[s] \in OpenStates
  BY LendsKeep
<1>2. Owned(tabs', sess') /\ Distinct(tabs', tabsMade')
  BY <1>1, InvParts, OwnedSame DEF KeepsTabs
<1>3. tabs' \in Seq(Tab) /\ Len(tabs') = Len(tabs)
      /\ \A i \in 1..Len(tabs) : tabs'[i].connecting = tabs[i].connecting /\ tabs'[i].id = tabs[i].id
  BY DEF KeepsTabs, SameTabs
<1>4. Awaited(tabs', dialogs', uiEvents', abandoned')
  BY <1>3, InvParts, AwaitedKept
<1>5. AtTab(tabs', active') /\ Len(tabs') <= tabsMade'
  BY <1>3, InvParts DEF KeepsTabs, AtTab
<1> QED BY <1>1, <1>2, <1>3, <1>4, <1>5, InvParts, InvNext DEF KeepsTabs

LEMMA NoticeOnly ==
  ASSUME WindowInv, NEW e \in UiEvent, EventOK(e), e.kind # "return", uiEvents' = Append(uiEvents, e),
         UNCHANGED <<tabs, active, win, sess, ops, dialogs, tabsMade, abandoned>>,
         localJobs' \subseteq localJobs
  PROVE  WindowInv'
<1>1. uiEvents' \in EventQueues /\ \A k \in DOMAIN uiEvents : k \in DOMAIN uiEvents' /\ uiEvents'[k] = uiEvents[k]
  BY InvParts, EventPosted
<1>2. Accounted(sess', ops', uiEvents')
  BY InvParts, Notice
<1>3. Awaited(tabs', dialogs', uiEvents', abandoned')
  <2>1. Awaited(tabs, dialogs, uiEvents, abandoned)
    BY InvParts
  <2> SUFFICES ASSUME NEW i \in 1..Len(tabs), tabs[i].connecting
      PROVE  \/ tabs[i].id \in abandoned
             \/ \E a \in Attempts : dialogs[a].tab = tabs[i].id /\ dialogs[a].phase # "idle"
             \/ \E k \in DOMAIN uiEvents' : uiEvents'[k].tab = tabs[i].id
    BY DEF Awaited
  <2> QED BY <1>1, <2>1 DEF Awaited
<1> QED BY <1>1, <1>2, <1>3, InvParts, InvNext
-----------------------------------------------------------------------------
(* Steps of the panes. *)

LEMMA Touched ==
  ASSUME NEW ts \in Seq(Tab), NEW i \in 1..Len(ts), NEW t \in Tab,
         t.id = ts[i].id, t.session = ts[i].session, t.console = ts[i].console,
         t.connecting = ts[i].connecting
  PROVE  SameTabs(ts, [ts EXCEPT ![i] = t])
BY Written DEF SameTabs

LEMMA SameTwice ==
  ASSUME NEW ts, NEW us, NEW vs, SameTabs(ts, us), SameTabs(us, vs)
  PROVE  SameTabs(ts, vs)
BY DEF SameTabs

LEMMA SameItself == ASSUME NEW ts \in Seq(Tab) PROVE SameTabs(ts, ts)
BY DEF SameTabs

LEMMA PaneIs ==
  ASSUME NEW w \in Pane, NEW p \in Dirs
  PROVE  /\ LocalPane(w, p) \in Pane /\ [w EXCEPT !.path = p] \in Pane
         /\ \A b \in BOOLEAN : [w EXCEPT !.connected = b] \in Pane
         /\ \A b \in BOOLEAN : [LocalPane(w, p) EXCEPT !.connected = b] \in Pane
         /\ \A l \in Listings : [w EXCEPT !.listing = l] \in Pane
BY DEF LocalPane, Pane, Listings

LEMMA ShownIs == ASSUME NEW t \in Tab PROVE Shown(t) \in Pane /\ Shown(t).path = t.path
BY DEF Shown, IsConnected, Tab, Pane

LEMMA ReloadOpIs ==
  ASSUME NEW p \in Dirs, NEW b \in BOOLEAN
  PROVE  ReloadOp(p, b) \in Task /\ ReloadOp(p, b).kind = "reload"
BY DEF ReloadOp, Task

LEMMA LendIs ==
  ASSUME WindowInv, NEW s \in SessionIds \cup {NoSession}, NEW k \in Task, k.kind # "none", Lend(s, k)
  PROVE  LendsOne
BY DEF Lend, LendsOne, Lending

LEMMA ActiveIs ==
  ASSUME WindowInv
  PROVE  /\ ActiveSession \in SessionIds \cup {NoSession}
         /\ HasActive => active \in 1..Len(tabs) /\ ActiveTab = tabs[active] /\ tabs[active] \in Tab
         /\ IsConnected(ActiveTab) \in BOOLEAN
<1>1. HasActive => active \in 1..Len(tabs)
  BY InvParts DEF HasActive, AtTab
<1>2. HasActive => tabs[active] \in Tab /\ tabs[active].session \in SessionIds \cup {NoSession}
  BY <1>1, InvParts, TabIs
<1> QED BY <1>1, <1>2 DEF ActiveSession, ActiveTab, IsConnected

LEMMA Staying ==
  ASSUME WindowInv
  PROVE  /\ SameTabs(tabs, tabs) /\ AtTab(tabs, active) /\ SameTabs(tabs, LocalTab(tabs, active))
         /\ win \in Pane
         /\ localJobs \subseteq [kind : {"navigate", "reloadLocal"}, path : Dirs]
BY InvParts, SameItself, LocalTabIs DEF AtTab

LEMMA NavigateKeeps == ASSUME WindowInv, NEW p \in Dirs, Navigate(p) PROVE WindowInv'
<1>1. CASE ~win.connected
  <2>1. /\ win' = LocalPane(win, p) /\ tabs' = LocalTab(tabs, active)
        /\ UNCHANGED <<active, sess, ops, uiEvents, dialogs, localJobs, tabsMade, abandoned>>
    BY <1>1 DEF Navigate
  <2> QED BY <2>1, PaneOnly, Staying, PaneIs DEF KeepsTabs, LendsOne, Lending
<1>2. CASE win.connected
  <2>1. /\ win' = [win EXCEPT !.path = p] /\ Lend(ActiveSession, ReloadOp(p, FALSE))
        /\ UNCHANGED <<tabs, active, uiEvents, dialogs, localJobs, tabsMade, abandoned>>
    BY <1>2 DEF Navigate
  <2>2. LendsOne
    BY <2>1, ActiveIs, LendIs, ReloadOpIs
  <2> QED BY <2>1, <2>2, PaneOnly, Staying, PaneIs DEF KeepsTabs
<1> QED BY <1>1, <1>2

LEMMA StartOpKeeps == ASSUME WindowInv, StartRemoteOp PROVE WindowInv'
<1>1. [NoOp EXCEPT !.kind = "op"] \in Task /\ [NoOp EXCEPT !.kind = "op"].kind # "none"
  BY DesktopAssumption DEF NoOp, Task
<1>2. LendsOne
  BY <1>1, ActiveIs, LendIs DEF StartRemoteOp
<1> QED BY <1>2, PaneOnly, Staying DEF StartRemoteOp, KeepsTabs

LEMMA LocalJobKeeps == ASSUME WindowInv, StartLocalJob PROVE WindowInv'
<1>1. win.path \in Dirs
  BY Staying DEF Pane
<1>2. localJobs' \subseteq [kind : {"navigate", "reloadLocal"}, path : Dirs]
  BY <1>1 DEF StartLocalJob
<1> QED BY <1>2, PaneOnly, Staying DEF StartLocalJob, KeepsTabs, LendsOne, Lending

LEMMA TickKeeps == ASSUME WindowInv, IndicatorTick PROVE WindowInv'
<1> DEFINE b == HasActive /\ IsConnected(ActiveTab)
<1>1. win' \in Pane
  <2>1. b \in BOOLEAN /\ win' = [win EXCEPT !.connected = b]
    BY DEF IndicatorTick
  <2> HIDE DEF b
  <2> QED BY <2>1, Staying, PaneIs, DesktopAssumption
<1> QED BY <1>1, PaneOnly, Staying DEF IndicatorTick, KeepsTabs, LendsOne, Lending

LEMMA ActivateKeeps == ASSUME WindowInv, NEW i, ActivateTab(i) PROVE WindowInv'
<1> DEFINE t == [tabs[active] EXCEPT !.path = win.path, !.listing = win.listing]
           us == [tabs EXCEPT ![active] = t]
           u == [us[i] EXCEPT !.dirty = FALSE]
<1>1. i \in 1..Len(tabs) /\ HasActive
  BY InvParts DEF ActivateTab, HasActive
<1>2. /\ i \in 1..Len(tabs) /\ i # active /\ HasActive
      /\ tabs' = [Stashed EXCEPT ![i].dirty = FALSE] /\ active' = i /\ win' = Shown(tabs[i])
      /\ \/ Lend(tabs[i].session, ReloadOp(tabs[i].path, TRUE))
         \/ UNCHANGED <<sess, ops>>
      /\ UNCHANGED <<uiEvents, dialogs, localJobs, tabsMade, abandoned>>
  BY <1>1 DEF ActivateTab
<1>3. /\ active \in 1..Len(tabs) /\ tabs[active] \in Tab /\ tabs[i] \in Tab
      /\ win.path \in Dirs /\ win.listing \in Listings /\ tabs \in Seq(Tab)
  BY <1>2, ActiveIs, InvParts, TabIs DEF Pane
<1>4. /\ t \in Tab /\ t.id = tabs[active].id /\ t.session = tabs[active].session
      /\ t.console = tabs[active].console /\ t.connecting = tabs[active].connecting
  BY <1>3 DEF Tab
<1>5. Stashed = us
  BY <1>3 DEF Stashed
<1> HIDE DEF t
<1>6. SameTabs(tabs, us) /\ us \in Seq(Tab) /\ Len(us) = Len(tabs)
  BY <1>3, <1>4, Touched, Written
<1> HIDE DEF us
<1>7. us[i] \in Tab
  BY <1>2, <1>6, TabIs
<1>8. /\ u \in Tab /\ u.id = us[i].id /\ u.session = us[i].session
      /\ u.console = us[i].console /\ u.connecting = us[i].connecting
  BY <1>7 DEF Tab
<1>9. tabs' = [us EXCEPT ![i] = u]
  BY <1>2, <1>5
<1> HIDE DEF u
<1>10. SameTabs(tabs, tabs')
  BY <1>2, <1>6, <1>8, <1>9, Touched, SameTwice
<1>11. LendsOne
  <2>1. tabs[i].path \in Dirs /\ tabs[i].session \in SessionIds \cup {NoSession}
    BY <1>3 DEF Tab
  <2> QED BY <1>2, <2>1, LendIs, ReloadOpIs DEF LendsOne, Lending
<1>12. win' \in Pane /\ AtTab(tabs, active')
  BY <1>2, <1>3, ShownIs DEF AtTab, HasActive
<1> QED BY <1>2, <1>10, <1>11, <1>12, PaneOnly, Staying DEF KeepsTabs
-----------------------------------------------------------------------------
(* Steps that close a session. *)

LEMMA CloseInIs == \A s : Close(s) = CloseIn(sess, s)
BY DEF Close, CloseIn

LEMMA ClosesOne ==
  ASSUME WindowInv, NEW i \in 1..Len(tabs), sess' = CloseIn(sess, tabs[i].session), win' \in Pane,
         UNCHANGED <<ops, uiEvents, dialogs, localJobs, tabsMade, abandoned>>,
         tabs' \in Seq(Tab), Len(tabs') <= Len(tabs), AtTab(tabs', active'),
         \/ SameTabs(RemoveAt(tabs, i), tabs')
         \/ /\ OtherAt(tabs, tabs', i) /\ tabs'[i].session = NoSession /\ tabs'[i].console = FALSE
            /\ tabs'[i].connecting => tabs[i].connecting
  PROVE  WindowInv'
<1>1. /\ sess' \in Sessions /\ Accounted(sess', ops', uiEvents')
      /\ \A s \in SessionIds : sess'[s] \in OpenStates <=> sess[s] \in OpenStates /\ s # tabs[i].session
  BY InvParts, CloseIs
<1>2. /\ Owned(tabs', sess') /\ Distinct(tabs', tabsMade')
      /\ \A j \in 1..Len(tabs') : tabs'[j].connecting =>
           \E k \in 1..Len(tabs) : tabs[k].connecting /\ tabs[k].id = tabs'[j].id
  <2>1. tabs \in Seq(Tab) /\ Len(tabs) \in Nat /\ Owned(tabs, sess) /\ Distinct(tabs, tabsMade)
    BY InvParts
  <2>2. CASE SameTabs(RemoveAt(tabs, i), tabs')
    <3> DEFINE us == RemoveAt(tabs, i)
    <3>1. /\ us \in Seq(Tab) /\ Len(us) = Len(tabs) - 1
          /\ \A j \in 1..(Len(tabs) - 1) : us[j] = IF j < i THEN tabs[j] ELSE tabs[j + 1]
      BY <2>1, Removed
    <3>2. Owned(us, sess') /\ Distinct(us, tabsMade)
      BY <1>1, <2>1, OwnedRemoved
    <3>3. SameTabs(us, tabs')
      BY <2>2
    <3> HIDE DEF us
    <3>4. Owned(tabs', sess') /\ Distinct(tabs', tabsMade)
      <4>1. Owned(tabs', sess')
        BY <3>2, <3>3 DEF SameTabs, Owned
      <4>2. Distinct(tabs', tabsMade)
        BY <3>2, <3>3 DEF SameTabs, Distinct, IsFree
      <4> QED BY <4>1, <4>2
    <3>5. \A j \in 1..(Len(tabs) - 1) : \E k \in 1..Len(tabs) : us[j] = tabs[k]
      BY <2>1, <3>1
    <3>6. /\ Len(tabs') = Len(tabs) - 1
          /\ \A j \in 1..(Len(tabs) - 1) : tabs'[j].connecting = us[j].connecting /\ tabs'[j].id = us[j].id
      BY <3>1, <3>3 DEF SameTabs
    <3> QED BY <3>4, <3>5, <3>6
  <2>3. CASE /\ OtherAt(tabs, tabs', i) /\ tabs'[i].session = NoSession /\ tabs'[i].console = FALSE
             /\ tabs'[i].connecting => tabs[i].connecting
    <3>1. Owned(tabs', sess') /\ Distinct(tabs', tabsMade)
      BY <1>1, <2>1, <2>3, OwnedReset, ZenonT(30)
    <3> QED BY <2>3, <3>1 DEF OtherAt
  <2> QED BY <2>2, <2>3
<1>3. Awaited(tabs', dialogs', uiEvents', abandoned')
  BY <1>2, InvParts, AwaitedKept
<1>4. Len(tabs) \in Nat /\ Len(tabs') \in Nat
  BY InvParts
<1> QED BY <1>1, <1>2, <1>3, <1>4, InvParts, InvNext

LEMMA WrittenOther ==
  ASSUME NEW ts \in Seq(Tab), NEW i \in 1..Len(ts), NEW t \in Tab, t.id = ts[i].id
  PROVE  OtherAt(ts, [ts EXCEPT ![i] = t], i) /\ [ts EXCEPT ![i] = t][i] = t
BY Written DEF OtherAt

LEMMA DisconnectKeeps == ASSUME WindowInv, NEW p \in Dirs, Disconnect(p) PROVE WindowInv'
<1> DEFINE t == [tabs[active] EXCEPT !.session = NoSession, !.console = FALSE, !.rightLocal = TRUE,
                                     !.dirty = FALSE, !.path = p]
<1>1. active \in 1..Len(tabs) /\ tabs[active] \in Tab /\ HasActive /\ ActiveSession = tabs[active].session
  BY ActiveIs DEF Disconnect, ActiveSession
<1>2. tabs' = [tabs EXCEPT ![active] = t]
  BY <1>1, InvParts DEF Disconnect
<1>3. /\ t \in Tab /\ t.id = tabs[active].id /\ t.session = NoSession /\ t.console = FALSE
      /\ t.connecting = tabs[active].connecting
  BY <1>1 DEF Tab
<1> HIDE DEF t
<1>4. OtherAt(tabs, tabs', active) /\ tabs'[active] = t
  BY <1>1, <1>2, <1>3, InvParts, WrittenOther
<1>5. sess' = CloseIn(sess, tabs[active].session)
  BY <1>1, CloseInIs DEF Disconnect
<1>6. win' \in Pane
  BY Staying, PaneIs DEF Disconnect
<1>7. AtTab(tabs', active')
  BY <1>1, <1>4, InvParts DEF Disconnect, AtTab, OtherAt, HasActive
<1>8. tabs' \in Seq(Tab) /\ Len(tabs') <= Len(tabs)
  BY <1>4, InvParts DEF OtherAt
<1> QED BY <1>1, <1>3, <1>4, <1>5, <1>6, <1>7, <1>8, ClosesOne DEF Disconnect

LEMMA CloseLastKeeps == ASSUME WindowInv, CloseLastTab PROVE WindowInv'
<1>1. /\ 1 \in 1..Len(tabs) /\ tabs \in Seq(Tab) /\ Len(tabs) = 1 /\ tabs[1] \in Tab
      /\ tabs[1].id \in TabIds
  <2>1. 1 \in 1..Len(tabs) /\ tabs \in Seq(Tab) /\ Len(tabs) = 1
    BY InvParts DEF CloseLastTab
  <2> QED BY <2>1, TabIs DEF Tab
<1>2. /\ tabs' = <<BlankTab(tabs[1].id)>> /\ active' = 1 /\ sess' = CloseIn(sess, tabs[1].session)
      /\ win' = [LocalPane(win, RootDir) EXCEPT !.connected = FALSE]
      /\ UNCHANGED <<ops, uiEvents, dialogs, localJobs, tabsMade, abandoned>>
  BY CloseInIs DEF CloseLastTab
<1> DEFINE t == BlankTab(tabs[1].id)
<1>3. /\ t \in Tab /\ t.id = tabs[1].id /\ t.session = NoSession /\ t.console = FALSE
      /\ t.connecting = FALSE
  BY <1>1, BlankIs
<1> HIDE DEF t
<1>4. tabs' \in Seq(Tab) /\ Len(tabs') = 1 /\ tabs'[1] = t /\ tabs' # <<>>
  BY <1>2, <1>3 DEF t
<1>5. OtherAt(tabs, tabs', 1)
  BY <1>1, <1>3, <1>4 DEF OtherAt
<1>6. win' \in Pane
  BY <1>2, Staying, PaneIs, DesktopAssumption
<1>7. AtTab(tabs', active')
  BY <1>2, <1>4 DEF AtTab
<1>8. /\ tabs'[1].session = NoSession /\ tabs'[1].console = FALSE
      /\ tabs'[1].connecting => tabs[1].connecting
  BY <1>3, <1>4
<1>9. Len(tabs') <= Len(tabs)
  BY <1>1, <1>4
<1> QED BY <1>1, <1>2, <1>4, <1>5, <1>6, <1>7, <1>8, <1>9, ClosesOne

LEMMA CloseTabKeeps == ASSUME WindowInv, NEW i, CloseTab(i) PROVE WindowInv'
<1> DEFINE rest == RemoveAt(tabs, i)
           now == IF active > Len(rest) THEN Len(rest) ELSE IF i < active THEN active - 1 ELSE active
<1>1. i \in 1..Len(tabs) /\ tabs \in Seq(Tab) /\ Len(tabs) > 1
  BY InvParts DEF CloseTab
<1>2. rest \in Seq(Tab) /\ Len(rest) = Len(tabs) - 1 /\ Len(tabs) \in Nat
  BY <1>1, Removed
<1>3. /\ sess' = CloseIn(sess, tabs[i].session) /\ active' = now
      /\ \/ win' = Shown(rest[now]) /\ tabs' = rest
         \/ win' = LocalPane(Shown(rest[now]), Shown(rest[now]).path) /\ tabs' = LocalTab(rest, now)
         \/ win' = win /\ tabs' = rest
      /\ UNCHANGED <<ops, uiEvents, dialogs, localJobs, tabsMade, abandoned>>
  BY CloseInIs DEF CloseTab
<1>4. active \in 1..Len(tabs)
  BY <1>1, InvParts DEF AtTab
<1> HIDE DEF rest
<1>5. now \in 1..Len(rest) /\ rest # <<>>
  BY <1>1, <1>2, <1>4
<1> HIDE DEF now
<1>6. rest[now] \in Tab /\ rest[now].path \in Dirs
  <2>1. rest[now] \in Tab
    BY <1>2, <1>5, TabIs
  <2> QED BY <2>1 DEF Tab
<1>7. SameTabs(rest, tabs') /\ win' \in Pane
  <2>1. Shown(rest[now]) \in Pane /\ Shown(rest[now]).path \in Dirs
    BY <1>6, ShownIs
  <2>2. SameTabs(rest, rest) /\ SameTabs(rest, LocalTab(rest, now))
    BY <1>2, <1>5, SameItself, LocalTabIs
  <2>3. LocalPane(Shown(rest[now]), Shown(rest[now]).path) \in Pane
    BY <2>1, PaneIs
  <2> QED BY <1>3, <2>1, <2>2, <2>3, Staying
<1>8. tabs' \in Seq(Tab) /\ Len(tabs') <= Len(tabs) /\ AtTab(tabs', active')
  BY <1>2, <1>3, <1>5, <1>7 DEF SameTabs, AtTab
<1> QED BY <1>1, <1>3, <1>7, <1>8, ClosesOne DEF rest
-----------------------------------------------------------------------------
(* The Start Page. *)

\* ts, with made tabs made so far, can take the place of the tab bar.
GoodBar(ts, made) ==
  /\ ts \in Seq(Tab) /\ made \in 0..MaxTabs /\ Len(ts) <= made
  /\ Owned(ts, sess) /\ Distinct(ts, made) /\ Awaited(ts, dialogs, uiEvents, abandoned)

LEMMA BarIs == ASSUME WindowInv PROVE GoodBar(tabs, tabsMade) /\ AtTab(tabs, active)
BY InvParts DEF GoodBar

LEMMA SameBar ==
  ASSUME NEW ts, NEW made, GoodBar(ts, made), NEW us, SameTabs(ts, us)
  PROVE  GoodBar(us, made)
<1>1. Owned(us, sess) /\ Distinct(us, made)
  BY OwnedSame DEF GoodBar
<1>2. Awaited(us, dialogs, uiEvents, abandoned)
  BY AwaitedKept DEF GoodBar, SameTabs
<1> QED BY <1>1, <1>2 DEF GoodBar, SameTabs

LEMMA LongerBar ==
  ASSUME NEW ts, NEW made, GoodBar(ts, made), made + 1 <= MaxTabs
  PROVE  GoodBar(Append(ts, BlankTab(made + 1)), made + 1)
<1> DEFINE t == BlankTab(made + 1)  us == Append(ts, t)
<1>1. made \in Nat /\ made + 1 \in TabIds /\ ts \in Seq(Tab) /\ made + 1 \in 0..MaxTabs
  BY DesktopAssumption DEF GoodBar, TabIds
<1>2. /\ t \in Tab /\ t.id = made + 1 /\ t.session = NoSession /\ t.console = FALSE
      /\ t.connecting = FALSE
  BY <1>1, BlankIs
<1> HIDE DEF t
<1>3. /\ us \in Seq(Tab) /\ Len(us) = Len(ts) + 1 /\ us[Len(ts) + 1] = t /\ Len(ts) \in Nat
      /\ \A j \in 1..Len(ts) : us[j] = ts[j]
  BY <1>1, <1>2, Added
<1>4. Owned(us, sess) /\ Distinct(us, made + 1)
  BY <1>1, <1>2, OwnedAppended DEF GoodBar
<1> HIDE DEF us
<1>5. \A j \in 1..Len(us) : us[j].connecting => j \in 1..Len(ts) /\ us[j] = ts[j]
  BY <1>2, <1>3
<1>6. Awaited(us, dialogs, uiEvents, abandoned)
  BY <1>5, AwaitedKept DEF GoodBar
<1> QED BY <1>1, <1>3, <1>4, <1>6 DEF GoodBar, us, t

LEMMA UnhiddenIs ==
  ASSUME WindowInv, startPage /\ ~HasActive => tabsMade < MaxTabs
  PROVE  /\ GoodBar(Unhidden.tabs, Unhidden.made) /\ AtTab(Unhidden.tabs, active)
         /\ Unhidden.win \in Pane /\ Unhidden.made <= tabsMade + 1
<1>1. CASE ~startPage
  <2>1. Unhidden.tabs = tabs /\ Unhidden.made = tabsMade /\ Unhidden.win = win
    BY <1>1 DEF Unhidden
  <2> QED BY <2>1, BarIs, InvParts
<1>2. CASE startPage
  <2> DEFINE ts == IF HasActive THEN tabs ELSE <<BlankTab(tabsMade + 1)>>
             made == IF HasActive THEN tabsMade ELSE tabsMade + 1
             w == Shown(ts[active])
  <2>1. GoodBar(ts, made) /\ active \in 1..Len(ts) /\ ts # <<>> /\ made <= tabsMade + 1
    <3>1. CASE HasActive
      BY <3>1, BarIs, InvParts DEF HasActive, AtTab
    <3>2. CASE ~HasActive
      <4>1. tabs = <<>> /\ active = 1 /\ tabsMade \in 0..MaxTabs /\ tabsMade < MaxTabs
        BY <1>2, <3>2, InvParts DEF HasActive, AtTab
      <4>2. ts = Append(tabs, BlankTab(tabsMade + 1))
        BY <3>2, <4>1
      <4>3. made = tabsMade + 1 /\ tabsMade + 1 <= MaxTabs
        BY <3>2, <4>1, DesktopAssumption
      <4>4. GoodBar(Append(tabs, BlankTab(tabsMade + 1)), tabsMade + 1)
        BY <4>3, BarIs, LongerBar
      <4> QED BY <3>2, <4>1, <4>2, <4>3, <4>4
    <3> QED BY <3>1, <3>2
  <2>2. ~HasActive => ~IsConnected(ts[active])
    BY <1>2, InvParts DEF HasActive, AtTab, IsConnected, BlankTab
  <2>3. /\ IsConnected(ts[active]) =>
              Unhidden.tabs = ts /\ Unhidden.win = w /\ Unhidden.made = made
        /\ ~IsConnected(ts[active]) =>
              Unhidden.tabs = LocalTab(ts, active) /\ Unhidden.win = LocalPane(w, w.path) /\ Unhidden.made = made
    BY <1>2, <2>2 DEF Unhidden
  <2> HIDE DEF ts, made
  <2>4. ts \in Seq(Tab) /\ SameTabs(ts, LocalTab(ts, active))
    BY <2>1, LocalTabIs DEF GoodBar
  <2>5. GoodBar(LocalTab(ts, active), made) /\ AtTab(LocalTab(ts, active), active) /\ AtTab(ts, active)
    BY <2>1, <2>4, SameBar DEF SameTabs, AtTab
  <2>6. ts[active] \in Tab /\ ts[active].path \in Dirs
    <3>1. ts[active] \in Tab
      BY <2>1, <2>4, TabIs
    <3> QED BY <3>1 DEF Tab
  <2>7. w \in Pane /\ LocalPane(w, w.path) \in Pane
    BY <2>6, ShownIs, PaneIs
  <2> HIDE DEF w
  <2> QED BY <2>1, <2>3, <2>5, <2>7
<1>3. startPage \/ ~startPage
  OBVIOUS
<1> QED BY <1>1, <1>2, <1>3

LEMMA ShowPageKeeps == ASSUME WindowInv, ShowStartPage PROVE WindowInv'
BY PaneOnly, Staying DEF ShowStartPage, KeepsTabs, LendsOne, Lending

LEMMA NewBar ==
  ASSUME WindowInv, GoodBar(tabs', tabsMade'), AtTab(tabs', active'), win' \in Pane,
         UNCHANGED <<sess, ops, uiEvents, dialogs, localJobs, abandoned>>
  PROVE  WindowInv'
BY InvParts, InvNext DEF GoodBar

LEMMA DismissKeeps == ASSUME WindowInv, DismissStartPage PROVE WindowInv'
BY UnhiddenIs, NewBar DEF DismissStartPage
-----------------------------------------------------------------------------
(* Tasks that end. *)

LEMMA SessIs ==
  ASSUME WindowInv, NEW s \in SessionIds
  PROVE  /\ sess[s] \in {"none", "free", "busy", "closed"} /\ ops[s] \in Task
         /\ IsBack(sess[s]) = IF sess[s] = "busy" THEN "free" ELSE sess[s]
         /\ ops[s].kind # "none" => sess[s] \in {"busy", "closed"}
BY InvParts DEF Sessions, Tasks, IsBack, Accounted

GivenBack(s) == [sess EXCEPT ![s] = IsBack(sess[s])]
TaskOver(s) == [ops EXCEPT ![s] = NoOp]

LEMMA EndsOne ==
  ASSUME WindowInv, NEW s \in SessionIds, ops[s].kind # "none",
         Lending(GivenBack(s), TaskOver(s)),
         KeepsTabs, UNCHANGED <<uiEvents, dialogs, localJobs, abandoned>>
  PROVE  WindowInv'
<1> DEFINE given == GivenBack(s)  done == TaskOver(s)
<1>1. given \in Sessions /\ done \in Tasks /\ Accounted(given, done, uiEvents)
  BY InvParts, TaskDone DEF GivenBack, TaskOver
<1>2. \A r \in SessionIds : given[r] \in OpenStates <=> sess[r] \in OpenStates
  BY InvParts DEF OpenStates, Sessions, IsBack, GivenBack
<1> HIDE DEF given, done
<1>3. /\ sess' \in Sessions /\ ops' \in Tasks /\ Accounted(sess', ops', uiEvents')
      /\ \A r \in SessionIds : sess'[r] \in OpenStates <=> sess[r] \in OpenStates
  <2>1. CASE sess' = given /\ ops' = done
    BY <1>1, <1>2, <2>1
  <2>2. ASSUME NEW r \in SessionIds, NEW k \in Task, given[r] = "free", k.kind # "none",
               sess' = [given EXCEPT ![r] = "busy"], ops' = [done EXCEPT ![r] = k]
        PROVE  /\ sess' \in Sessions /\ ops' \in Tasks /\ Accounted(sess', ops', uiEvents')
               /\ \A q \in SessionIds : sess'[q] \in OpenStates <=> sess[q] \in OpenStates
    <3>1. sess' \in Sessions /\ ops' \in Tasks /\ Accounted(sess', ops', uiEvents')
      BY <1>1, <2>2, Lent
    <3>2. \A q \in SessionIds : sess'[q] \in OpenStates <=> given[q] \in OpenStates
      BY <1>1, <2>2 DEF OpenStates, Sessions
    <3> QED BY <1>2, <3>1, <3>2
  <2> QED BY <2>1, <2>2 DEF given, done, Lending
<1>4. Owned(tabs', sess') /\ Distinct(tabs', tabsMade')
  BY <1>3, InvParts, OwnedSame DEF KeepsTabs
<1>5. tabs' \in Seq(Tab) /\ Len(tabs') = Len(tabs)
      /\ \A i \in 1..Len(tabs) : tabs'[i].connecting = tabs[i].connecting /\ tabs'[i].id = tabs[i].id
  BY DEF KeepsTabs, SameTabs
<1>6. Awaited(tabs', dialogs', uiEvents', abandoned')
  BY <1>5, InvParts, AwaitedKept
<1>7. AtTab(tabs', active') /\ Len(tabs') <= tabsMade'
  BY <1>5, InvParts DEF KeepsTabs, AtTab
<1> QED BY <1>3, <1>4, <1>5, <1>6, <1>7, InvParts, InvNext DEF KeepsTabs

(* A tab's mark, and the path of the one that is shown. *)
LEMMA MarkedIs ==
  ASSUME NEW ts \in Seq(Tab), NEW I
  PROVE  SameTabs(ts, [i \in DOMAIN ts |-> IF i \in I THEN [ts[i] EXCEPT !.dirty = TRUE] ELSE ts[i]])
<1> DEFINE us == [i \in DOMAIN ts |-> IF i \in I THEN [ts[i] EXCEPT !.dirty = TRUE] ELSE ts[i]]
<1>1. \A i \in 1..Len(ts) : ts[i] \in Tab
  BY TabIs
<1>2. \A t \in Tab : LET u == [t EXCEPT !.dirty = TRUE] IN
        u \in Tab /\ u.id = t.id /\ u.session = t.session /\ u.console = t.console
        /\ u.connecting = t.connecting
  BY DEF Tab
<1>3. \A i \in 1..Len(ts) : /\ us[i] \in Tab /\ us[i].id = ts[i].id /\ us[i].session = ts[i].session
                            /\ us[i].console = ts[i].console /\ us[i].connecting = ts[i].connecting
  BY <1>1, <1>2
<1>4. us \in Seq(Tab) /\ Len(us) = Len(ts)
  <2>1. Len(ts) \in Nat /\ us = [i \in 1..Len(ts) |-> us[i]]
    OBVIOUS
  <2> HIDE DEF us
  <2> QED BY <1>3, <2>1
<1> QED BY <1>3, <1>4 DEF SameTabs

LEMMA PathTabIs ==
  ASSUME NEW ts \in Seq(Tab), NEW i \in 1..Len(ts), NEW p \in Dirs
  PROVE  SameTabs(ts, [ts EXCEPT ![i].path = p])
<1> DEFINE t == [ts[i] EXCEPT !.path = p]
<1>1. ts[i] \in Tab
  BY TabIs
<1>2. /\ t \in Tab /\ t.id = ts[i].id /\ t.session = ts[i].session
      /\ t.console = ts[i].console /\ t.connecting = ts[i].connecting
  BY <1>1 DEF Tab
<1>3. [ts EXCEPT ![i].path = p] = [ts EXCEPT ![i] = t]
  OBVIOUS
<1> HIDE DEF t
<1> QED BY <1>2, <1>3, Touched

LEMMA ReloadEndsKeeps ==
  ASSUME WindowInv, NEW s \in SessionIds, NEW ok, ReloadEnds(s, ok) PROVE WindowInv'
<1> DEFINE given == GivenBack(s)  done == TaskOver(s)
           retry == ~ok /\ ops[s].fallback /\ ops[s].path # RootDir
<1>1. /\ ops[s].kind # "none" /\ sess[s] \in {"busy", "closed"}
      /\ UNCHANGED <<active, uiEvents, dialogs, localJobs, tabsMade, abandoned>>
  BY SessIs DEF ReloadEnds
<1>2. sess \in [SessionIds -> {"none", "free", "busy", "closed"}] /\ ops \in [SessionIds -> Task]
  BY InvParts DEF Sessions, Tasks
<1>3. CASE retry
  <2> DEFINE next == ActiveSession
             free == next # NoSession /\ (sess[next] = "free" \/ (next = s /\ IsBack(sess[s]) = "free"))
  <2>1. /\ win' = [win EXCEPT !.path = RootDir]
        /\ tabs' = IF HasActive THEN [tabs EXCEPT ![active].path = RootDir] ELSE tabs
        /\ sess' = IF free THEN [given EXCEPT ![next] = "busy"] ELSE given
        /\ ops' = IF free THEN [ops EXCEPT ![s] = NoOp, ![next] = ReloadOp(RootDir, FALSE)] ELSE done
    BY <1>3 DEF ReloadEnds, IsBack, GivenBack, TaskOver
  <2>2. KeepsTabs
    <3>1. SameTabs(tabs, tabs')
      BY <2>1, ActiveIs, InvParts, PathTabIs, Staying, DesktopAssumption
    <3>2. win' \in Pane
      BY <2>1, Staying, PaneIs, DesktopAssumption
    <3> QED BY <1>1, <3>1, <3>2, Staying DEF KeepsTabs
  <2>3. free => next \in SessionIds /\ given[next] = "free"
    BY <1>1, <1>2, ActiveIs DEF GivenBack
  <2>4. [ops EXCEPT ![s] = NoOp, ![next] = ReloadOp(RootDir, FALSE)]
          = [done EXCEPT ![next] = ReloadOp(RootDir, FALSE)]
    BY DEF TaskOver
  <2>5. ReloadOp(RootDir, FALSE) \in Task /\ ReloadOp(RootDir, FALSE).kind # "none"
    BY ReloadOpIs, DesktopAssumption
  <2> HIDE DEF free, next
  <2>6. Lending(given, done)
    BY <2>1, <2>3, <2>4, <2>5 DEF Lending
  <2> QED BY <1>1, <2>2, <2>6, EndsOne
<1>4. CASE ~retry
  <2>1. sess' = given /\ ops' = done
    BY <1>4 DEF ReloadEnds, IsBack, GivenBack, TaskOver
  <2>2. /\ win' = win \/ win' = [win EXCEPT !.listing = s]
        /\ \/ tabs' = tabs
           \/ tabs' = [i \in DOMAIN tabs |->
                         IF i \in OwnerOf(s) THEN [tabs[i] EXCEPT !.dirty = TRUE] ELSE tabs[i]]
    BY <1>4 DEF ReloadEnds
  <2>3. KeepsTabs
    <3>1. SameTabs(tabs, tabs')
      <4>1. tabs \in Seq(Tab)
        BY InvParts
      <4>2. SameTabs(tabs, [i \in DOMAIN tabs |->
              IF i \in OwnerOf(s) THEN [tabs[i] EXCEPT !.dirty = TRUE] ELSE tabs[i]])
        BY <4>1, MarkedIs
      <4> QED BY <2>2, <4>2, Staying
    <3>2. win' \in Pane
      <4>1. s \in Listings /\ RootDir \in Dirs
        BY DesktopAssumption DEF Listings
      <4>2. [win EXCEPT !.listing = s] \in Pane
        BY <4>1, Staying, PaneIs
      <4> QED BY <2>2, <4>2, Staying
    <3> QED BY <1>1, <3>1, <3>2, Staying DEF KeepsTabs
  <2> QED BY <1>1, <2>1, <2>3, EndsOne DEF Lending
<1> QED BY <1>3, <1>4

LEMMA OpEndsKeeps ==
  ASSUME WindowInv, NEW s \in SessionIds, NEW reload, RemoteOpEnds(s, reload) PROVE WindowInv'
<1> DEFINE e == Event("return", NoTab, s, RootDir)  f == Event("reload", NoTab, s, RootDir)
<1>1. e \in UiEvent /\ EventOK(e) /\ e.kind = "return" /\ e.session = s
  BY DesktopAssumption DEF Event, UiEvent, EventOK, NoTab
<1>2. f \in UiEvent /\ EventOK(f) /\ f.kind # "return"
  BY DesktopAssumption DEF Event, UiEvent, EventOK, NoTab
<1>3. /\ ops[s].kind # "none" /\ ops' = [ops EXCEPT ![s] = NoOp]
      /\ \/ uiEvents' = Append(uiEvents, e) \o <<f>>
         \/ uiEvents' = Append(uiEvents, e) \o <<>>
      /\ UNCHANGED <<tabs, active, win, sess, dialogs, localJobs, tabsMade, abandoned>>
  BY DEF RemoteOpEnds
<1> HIDE DEF e, f
<1>4. uiEvents \in EventQueues /\ ops \in Tasks /\ sess \in Sessions /\ Accounted(sess, ops, uiEvents)
  BY InvParts
<1> DEFINE ev == Append(uiEvents, e)
<1>5. ev \in EventQueues /\ \A k \in DOMAIN uiEvents : k \in DOMAIN ev /\ ev[k] = uiEvents[k]
  BY <1>1, <1>4, EventPosted
<1>6. ops' \in Tasks /\ Accounted(sess, ops', ev)
  BY <1>1, <1>3, <1>4, SentBack
<1>7. uiEvents' = Append(ev, f) \/ uiEvents' = ev
  BY <1>1, <1>2, <1>3, <1>5 DEF EventQueues
<1> HIDE DEF ev
<1>8. uiEvents' \in EventQueues /\ \A k \in DOMAIN ev : k \in DOMAIN uiEvents' /\ uiEvents'[k] = ev[k]
  <2>1. CASE uiEvents' = Append(ev, f)
    BY <1>2, <1>5, <2>1, EventPosted
  <2>2. CASE uiEvents' = ev
    BY <1>5, <2>2
  <2> QED BY <1>7, <2>1, <2>2
<1>9. Accounted(sess, ops', uiEvents')
  BY <1>2, <1>5, <1>6, <1>7, Notice
<1>10. Awaited(tabs', dialogs', uiEvents', abandoned')
  <2>1. \A k \in DOMAIN uiEvents : \E l \in DOMAIN uiEvents' : uiEvents'[l].tab = uiEvents[k].tab
    BY <1>5, <1>8
  <2> QED BY <1>3, <2>1, InvParts, AwaitedKept
<1> QED BY <1>3, <1>6, <1>8, <1>9, <1>10, InvParts, InvNext

LEMMA RefreshKeeps == ASSUME WindowInv, NEW s \in SessionIds, TransferRefreshes(s) PROVE WindowInv'
<1>1. Event("reload", NoTab, s, RootDir) \in UiEvent /\ EventOK(Event("reload", NoTab, s, RootDir))
      /\ Event("reload", NoTab, s, RootDir).kind # "return"
  BY DesktopAssumption DEF Event, UiEvent, EventOK, NoTab
<1> QED BY <1>1, NoticeOnly DEF TransferRefreshes

LEMMA JobEndsKeeps == ASSUME WindowInv, LocalJobEnds PROVE WindowInv'
<1>1. PICK j \in localJobs, p \in Dirs : uiEvents' = Append(uiEvents, Event(j.kind, NoTab, NoSession, p))
  BY DEF LocalJobEnds
<1>2. j.kind \in {"navigate", "reloadLocal"}
  BY Staying
<1>3. LET e == Event(j.kind, NoTab, NoSession, p) IN e \in UiEvent /\ EventOK(e) /\ e.kind # "return"
  BY <1>2 DEF Event, UiEvent, EventOK, NoTab, NoSession
<1> QED BY <1>1, <1>3, NoticeOnly DEF LocalJobEnds
-----------------------------------------------------------------------------
(* Steps of the connect dialogs. *)

LEMMA DialogMoves ==
  ASSUME WindowInv, NEW a \in Attempts, NEW d \in DialogState, dialogs' = [dialogs EXCEPT ![a] = d],
         UNCHANGED <<tabs, active, win, sess, ops, uiEvents, localJobs, tabsMade>>,
         abandoned \subseteq abandoned',
         \/ dialogs[a].phase = "idle" \/ dialogs[a].tab \in abandoned'
         \/ d.phase # "idle" /\ d.tab = dialogs[a].tab
  PROVE  WindowInv'
<1>1. dialogs \in [Attempts -> DialogState]
  BY InvParts
<1>2. /\ dialogs' \in [Attempts -> DialogState]
      /\ \A b \in Attempts : dialogs'[b] = IF b = a THEN d ELSE dialogs[b]
  BY <1>1
<1>3. Awaited(tabs', dialogs', uiEvents', abandoned')
  <2>1. Awaited(tabs, dialogs, uiEvents, abandoned)
    BY InvParts
  <2>2. \A b \in Attempts : dialogs[b].phase # "idle" =>
          \/ dialogs'[b].phase # "idle" /\ dialogs'[b].tab = dialogs[b].tab
          \/ dialogs[b].tab \in abandoned'
    BY <1>2
  <2> QED BY <2>1, <2>2, AwaitedKept
<1> QED BY <1>2, <1>3, InvParts, InvNext

LEMMA DialogPosts ==
  ASSUME WindowInv, NEW a \in Attempts, NEW d \in DialogState, dialogs' = [dialogs EXCEPT ![a] = d],
         NEW k \in {"session", "console", "failed"},
         uiEvents' = Append(uiEvents, Event(k, dialogs[a].tab, NoSession, RootDir)),
         UNCHANGED <<tabs, active, win, sess, ops, localJobs, tabsMade, abandoned>>
  PROVE  WindowInv'
<1> DEFINE e == Event(k, dialogs[a].tab, NoSession, RootDir)
<1>1. dialogs \in [Attempts -> DialogState] /\ dialogs[a].tab \in TabIds \cup {NoTab}
  BY InvParts DEF DialogState
<1>2. /\ dialogs' \in [Attempts -> DialogState]
      /\ \A b \in Attempts : dialogs'[b] = IF b = a THEN d ELSE dialogs[b]
  BY <1>1
<1>3. e \in UiEvent /\ EventOK(e) /\ e.kind # "return" /\ e.tab = dialogs[a].tab
  BY <1>1, DesktopAssumption DEF Event, UiEvent, EventOK
<1> HIDE DEF e
<1>4. uiEvents' = Append(uiEvents, e)
  BY DEF e
<1>5. /\ uiEvents' \in EventQueues /\ Accounted(sess, ops, uiEvents')
      /\ \A l \in DOMAIN uiEvents : l \in DOMAIN uiEvents' /\ uiEvents'[l] = uiEvents[l]
      /\ \E l \in DOMAIN uiEvents' : uiEvents'[l] = e
  BY <1>3, <1>4, InvParts, EventPosted, Notice
<1>6. Awaited(tabs', dialogs', uiEvents', abandoned')
  <2>1. Awaited(tabs, dialogs, uiEvents, abandoned)
    BY InvParts
  <2>2. \A b \in Attempts : dialogs[b].phase # "idle" =>
          \/ dialogs'[b].phase # "idle" /\ dialogs'[b].tab = dialogs[b].tab
          \/ \E l \in DOMAIN uiEvents' : uiEvents'[l].tab = dialogs[b].tab
    BY <1>2, <1>3, <1>5
  <2>3. \A l \in DOMAIN uiEvents : \E m \in DOMAIN uiEvents' : uiEvents'[m].tab = uiEvents[l].tab
    BY <1>5
  <2>4. tabs' = tabs /\ abandoned' = abandoned
    OBVIOUS
  <2> QED BY <2>1, <2>2, <2>3, <2>4 DEF Awaited
<1> QED BY <1>2, <1>5, <1>6, InvParts, InvNext

LEMMA DialogIs ==
  ASSUME WindowInv, NEW a \in Attempts
  PROVE  dialogs[a] \in DialogState /\ IdleDialog \in DialogState
<1>1. dialogs \in [Attempts -> DialogState]
  BY InvParts
<1>2. IdleDialog \in DialogState
  BY DEF DialogState, IdleDialog, NoTab
<1> QED BY <1>1, <1>2

LEMMA PickKeeps == ASSUME WindowInv, NEW a \in Attempts, OpenTerminalPick(a) PROVE WindowInv'
<1>1. [IdleDialog EXCEPT !.phase = "open", !.tab = NoTab] \in DialogState
  BY DEF DialogState, IdleDialog, NoTab
<1> QED BY <1>1, DialogMoves DEF OpenTerminalPick, OpenDialog

LEMMA PresetKeeps == ASSUME WindowInv, NEW a \in Attempts, ConnectPreset(a) PROVE WindowInv'
<1>1. [IdleDialog EXCEPT !.phase = "preset"] \in DialogState
  BY DEF DialogState, IdleDialog
<1> QED BY <1>1, DialogMoves DEF ConnectPreset

LEMMA ConnectsKeeps == ASSUME WindowInv, NEW a \in Attempts, DialogConnects(a) PROVE WindowInv'
<1> DEFINE d == [dialogs[a] EXCEPT !.phase = "running", !.cancel = FALSE]
<1>1. d \in DialogState /\ d.phase = "running" /\ d.tab = dialogs[a].tab
  <2>1. dialogs[a] \in DialogState
    BY DialogIs
  <2> QED BY <2>1 DEF DialogState
<1>2. dialogs' = [dialogs EXCEPT ![a] = d]
  BY InvParts DEF DialogConnects
<1> HIDE DEF d
<1> QED BY <1>1, <1>2, DialogMoves DEF DialogConnects

LEMMA CancelsKeeps == ASSUME WindowInv, NEW a \in Attempts, DialogCancels(a) PROVE WindowInv'
<1> DEFINE d == [dialogs[a] EXCEPT !.cancel = TRUE]
<1>1. d \in DialogState /\ d.phase = dialogs[a].phase /\ d.tab = dialogs[a].tab
  <2>1. dialogs[a] \in DialogState
    BY DialogIs
  <2> QED BY <2>1 DEF DialogState
<1>2. dialogs' = [dialogs EXCEPT ![a] = d]
  BY InvParts DEF DialogCancels
<1> HIDE DEF d
<1> QED BY <1>1, <1>2, DialogMoves DEF DialogCancels

LEMMA ClosesKeeps == ASSUME WindowInv, NEW a \in Attempts, DialogCloses(a) PROVE WindowInv'
BY DialogIs, DialogPosts DEF DialogCloses

LEMMA FrameKeeps == ASSUME WindowInv, NEW a \in Attempts, DialogWindowCloses(a) PROVE WindowInv'
BY DialogIs, DialogMoves DEF DialogWindowCloses

LEMMA ReturnsKeeps ==
  ASSUME WindowInv, NEW a \in Attempts, NEW o \in {"session", "console", "failed"}, AttemptReturns(a, o)
  PROVE  WindowInv'
<1> DEFINE q == IF dialogs[a].phase = "running" THEN "returned" ELSE "presetReturned"
           d == [dialogs[a] EXCEPT !.phase = q, !.outcome = o]
<1>1. d \in DialogState /\ d.phase # "idle" /\ d.tab = dialogs[a].tab
  <2>1. dialogs[a] \in DialogState
    BY DialogIs
  <2> QED BY <2>1 DEF DialogState
<1>2. dialogs' = [dialogs EXCEPT ![a] = d]
  BY InvParts DEF AttemptReturns
<1> HIDE DEF d
<1> QED BY <1>1, <1>2, DialogMoves DEF AttemptReturns

LEMMA SettlesKeeps == ASSUME WindowInv, NEW a \in Attempts, AttemptSettles(a) PROVE WindowInv'
<1>1. dialogs[a].outcome \in {"session", "console", "failed"} /\ [dialogs[a] EXCEPT !.phase = "open"] \in DialogState
  <2>1. dialogs[a] \in DialogState
    BY DialogIs
  <2> QED BY <2>1 DEF DialogState
<1> QED BY <1>1, DialogIs, DialogPosts DEF AttemptSettles
(* The tab a connect reserves is free, and is the one its dialog names. *)
LEMMA ReservedIs ==
  ASSUME NEW ts, NEW made, GoodBar(ts, made), AtTab(ts, active), made + 1 <= MaxTabs
  PROVE  LET r == Reserved(ts, made) IN
         /\ r.tabs \in Seq(Tab) /\ r.made \in 0..MaxTabs /\ Len(r.tabs) <= r.made
         /\ r.at \in 1..Len(r.tabs) /\ Owned(r.tabs, sess) /\ Distinct(r.tabs, r.made)
         /\ \A i \in 1..Len(r.tabs) : r.tabs[i].connecting /\ i # r.at =>
              \E j \in 1..Len(ts) : ts[j].connecting /\ ts[j].id = r.tabs[i].id
<1> DEFINE r == Reserved(ts, made)
           taken == ts # <<>> /\ IsFree(ts[active]) /\ ~ts[active].connecting
<1>1. ts \in Seq(Tab) /\ made \in 0..MaxTabs /\ Len(ts) <= made /\ Owned(ts, sess) /\ Distinct(ts, made)
  BY DEF GoodBar
<1>2. CASE taken
  <2> DEFINE t == [ts[active] EXCEPT !.connecting = TRUE]  us == [ts EXCEPT ![active] = t]
  <2>1. active \in 1..Len(ts) /\ ts[active] \in Tab
    BY <1>1, <1>2, TabIs DEF AtTab
  <2>2. /\ t \in Tab /\ t.id = ts[active].id /\ t.session = ts[active].session
        /\ t.console = ts[active].console
    BY <2>1 DEF Tab
  <2>3. r.tabs = us /\ r.at = active /\ r.made = made
    BY <1>2 DEF Reserved
  <2>4. IsFree(t)
    BY <1>2, <2>2 DEF IsFree
  <2> HIDE DEF t, r, taken
  <2>5. /\ us \in Seq(Tab) /\ Len(us) = Len(ts)
        /\ \A i \in 1..Len(ts) : us[i] = IF i = active THEN t ELSE ts[i]
    BY <1>1, <2>1, <2>2, Written
  <2> HIDE DEF us
  <2>6. Owned(us, sess)
    <3>1. \A i \in 1..Len(ts) : us[i].session = ts[i].session /\ us[i].console = ts[i].console
      BY <2>2, <2>5
    <3> QED BY <1>1, <2>5, <3>1 DEF Owned
  <2>7. OtherAt(ts, us, active) /\ us[active] = t
    BY <2>1, <2>2, <2>5 DEF OtherAt
  <2>8. Distinct(us, made)
    BY <1>1, <2>1, <2>4, <2>7, DistinctOther
  <2> QED BY <1>1, <2>1, <2>3, <2>5, <2>6, <2>8 DEF r
<1>3. CASE ~taken
  <2> DEFINE t == [BlankTab(made + 1) EXCEPT !.connecting = TRUE]  us == Append(ts, t)
  <2>1. made \in Nat /\ made + 1 \in TabIds /\ made + 1 \in 0..MaxTabs /\ Len(ts) \in Nat
    BY <1>1, DesktopAssumption DEF TabIds
  <2>2. t \in Tab /\ t.id = made + 1 /\ t.session = NoSession /\ t.console = FALSE
    <3>1. /\ BlankTab(made + 1) \in Tab /\ BlankTab(made + 1).id = made + 1
          /\ BlankTab(made + 1).session = NoSession /\ BlankTab(made + 1).console = FALSE
      BY <2>1, BlankIs
    <3> QED BY <3>1 DEF Tab
  <2>3. r.tabs = us /\ r.at = Len(ts) + 1 /\ r.made = made + 1
    BY <1>3 DEF Reserved
  <2> HIDE DEF t, r, taken
  <2>4. /\ us \in Seq(Tab) /\ Len(us) = Len(ts) + 1
        /\ \A j \in 1..Len(ts) : us[j] = ts[j]
    BY <1>1, <2>2, Added
  <2>5. Owned(us, sess) /\ Distinct(us, made + 1)
    BY <1>1, <2>1, <2>2, OwnedAppended
  <2> HIDE DEF us
  <2>6. \A i \in 1..Len(us) : i # Len(ts) + 1 => i \in 1..Len(ts) /\ us[i] = ts[i]
    BY <2>1, <2>4
  <2>7. Len(us) <= made + 1 /\ Len(ts) + 1 \in 1..Len(us)
    BY <1>1, <2>1, <2>4
  <2> QED BY <2>1, <2>3, <2>4, <2>5, <2>6, <2>7 DEF r
<1> QED BY <1>2, <1>3

LEMMA ConnectKeeps ==
  ASSUME WindowInv, NEW a \in Attempts, NEW hides, Connect(a, hides) PROVE WindowInv'
<1> DEFINE u == IF hides THEN Unhidden ELSE [tabs |-> tabs, win |-> win, made |-> tabsMade]
           r == Reserved(u.tabs, u.made)
<1>1. /\ dialogs[a].phase = "idle" /\ tabsMade + 2 <= MaxTabs /\ win' = u.win
      /\ \/ tabs' = u.tabs /\ tabsMade' = u.made /\ UNCHANGED <<active, dialogs>>
         \/ /\ tabs' = r.tabs /\ active' = r.at /\ tabsMade' = r.made
            /\ dialogs' = [dialogs EXCEPT ![a] = [IdleDialog EXCEPT !.phase = "open", !.tab = r.tabs[r.at].id]]
      /\ UNCHANGED <<sess, ops, uiEvents, localJobs, abandoned>>
  BY DEF Connect, OpenDialog
<1>2. tabsMade \in 0..MaxTabs /\ tabsMade < MaxTabs
  BY <1>1, InvParts, DesktopAssumption
<1>3. /\ GoodBar(u.tabs, u.made) /\ AtTab(u.tabs, active) /\ u.win \in Pane /\ u.made <= tabsMade + 1
  <2>1. CASE hides
    BY <1>2, <2>1, UnhiddenIs
  <2>2. CASE ~hides
    BY <1>2, <2>2, BarIs, Staying
  <2> QED BY <2>1, <2>2
<1> HIDE DEF u
<1>4. CASE tabs' = u.tabs /\ tabsMade' = u.made /\ UNCHANGED <<active, dialogs>>
  BY <1>1, <1>3, <1>4, NewBar
<1>5. ASSUME tabs' = r.tabs, active' = r.at, tabsMade' = r.made,
             dialogs' = [dialogs EXCEPT ![a] = [IdleDialog EXCEPT !.phase = "open", !.tab = r.tabs[r.at].id]]
      PROVE  WindowInv'
  <2> DEFINE d == [IdleDialog EXCEPT !.phase = "open", !.tab = r.tabs[r.at].id]
  <2>1. u.made + 1 <= MaxTabs
    BY <1>1, <1>2, <1>3, DesktopAssumption DEF GoodBar
  <2>2. /\ r.tabs \in Seq(Tab) /\ r.made \in 0..MaxTabs /\ Len(r.tabs) <= r.made
        /\ r.at \in 1..Len(r.tabs) /\ Owned(r.tabs, sess) /\ Distinct(r.tabs, r.made)
        /\ \A i \in 1..Len(r.tabs) : r.tabs[i].connecting /\ i # r.at =>
             \E j \in 1..Len(u.tabs) : u.tabs[j].connecting /\ u.tabs[j].id = r.tabs[i].id
    BY <1>3, <2>1, ReservedIs
  <2> HIDE DEF r
  <2>3. r.tabs[r.at].id \in TabIds
    <3>1. r.tabs[r.at] \in Tab
      BY <2>2, TabIs
    <3> QED BY <3>1 DEF Tab
  <2>4. d \in DialogState /\ d.phase = "open" /\ d.tab = r.tabs[r.at].id
    BY <2>3 DEF DialogState, IdleDialog
  <2> HIDE DEF d
  <2>5. dialogs' = [dialogs EXCEPT ![a] = d] /\ dialogs \in [Attempts -> DialogState]
    BY <1>5, InvParts DEF d
  <2>6. /\ dialogs' \in [Attempts -> DialogState]
        /\ \A b \in Attempts : dialogs'[b] = IF b = a THEN d ELSE dialogs[b]
    BY <2>4, <2>5
  <2>7. Awaited(tabs', dialogs', uiEvents', abandoned')
    <3> SUFFICES ASSUME NEW i \in 1..Len(r.tabs), r.tabs[i].connecting
        PROVE  \/ r.tabs[i].id \in abandoned
               \/ \E b \in Attempts : dialogs'[b].tab = r.tabs[i].id /\ dialogs'[b].phase # "idle"
               \/ \E k \in DOMAIN uiEvents : uiEvents[k].tab = r.tabs[i].id
      BY <1>1, <1>5 DEF Awaited
    <3>1. CASE i = r.at
      BY <2>4, <2>6, <3>1
    <3>2. CASE i # r.at
      <4>1. PICK j \in 1..Len(u.tabs) : u.tabs[j].connecting /\ u.tabs[j].id = r.tabs[i].id
        BY <2>2, <3>2
      <4>2. \/ r.tabs[i].id \in abandoned
            \/ \E b \in Attempts : dialogs[b].tab = r.tabs[i].id /\ dialogs[b].phase # "idle"
            \/ \E k \in DOMAIN uiEvents : uiEvents[k].tab = r.tabs[i].id
        BY <1>3, <4>1 DEF GoodBar, Awaited
      <4> QED BY <1>1, <2>6, <4>2
    <3> QED BY <3>1, <3>2
  <2>8. AtTab(tabs', active')
    BY <1>5, <2>2 DEF AtTab
  <2> QED BY <1>1, <1>3, <1>5, <2>2, <2>6, <2>7, <2>8, InvParts, InvNext
<1> HIDE DEF r
<1> QED BY <1>1, <1>4, <1>5
-----------------------------------------------------------------------------
(* The event loop. *)

LEMMA Handled ==
  ASSUME WindowInv, uiEvents # <<>>, uiEvents' = Tail(uiEvents), UNCHANGED <<dialogs, localJobs, abandoned>>,
         tabs' \in Seq(Tab), win' \in Pane, tabsMade' \in 0..MaxTabs, Len(tabs') <= tabsMade',
         AtTab(tabs', active'), sess' \in Sessions, ops' \in Tasks,
         Owned(tabs', sess'), Distinct(tabs', tabsMade'), Accounted(sess', ops', Tail(uiEvents)),
         \A i \in 1..Len(tabs') : tabs'[i].connecting =>
           tabs'[i].id # Head(uiEvents).tab /\ \E j \in 1..Len(tabs) : tabs[j].connecting /\ tabs[j].id = tabs'[i].id
  PROVE  WindowInv'
<1>1. uiEvents \in EventQueues /\ Awaited(tabs, dialogs, uiEvents, abandoned)
  BY InvParts
<1>2. Awaited(tabs', dialogs', uiEvents', abandoned')
  BY <1>1, AwaitedTaken
<1>3. uiEvents' \in EventQueues
  BY <1>1, Taken
<1> QED BY <1>2, <1>3, InvParts, InvNext

\* Events that are for no tab, and do not change what tabs have.
LEMMA HandledQuietly ==
  ASSUME WindowInv, uiEvents # <<>>, uiEvents' = Tail(uiEvents), UNCHANGED <<dialogs, localJobs, abandoned>>,
         KeepsTabs, Head(uiEvents).tab = NoTab, sess' \in Sessions, ops' \in Tasks,
         \A s \in SessionIds : sess'[s] \in OpenStates <=> sess[s] \in OpenStates,
         Accounted(sess', ops', Tail(uiEvents))
  PROVE  WindowInv'
<1>1. /\ tabs \in Seq(Tab) /\ tabsMade \in 0..MaxTabs /\ Len(tabs) <= tabsMade
      /\ Owned(tabs, sess) /\ Distinct(tabs, tabsMade)
  BY InvParts
<1>2. Owned(tabs', sess') /\ Distinct(tabs', tabsMade')
  BY <1>1, OwnedSame DEF KeepsTabs
<1>3. tabs' \in Seq(Tab) /\ Len(tabs') = Len(tabs)
      /\ \A i \in 1..Len(tabs) : tabs'[i].connecting = tabs[i].connecting /\ tabs'[i].id = tabs[i].id
  BY DEF KeepsTabs, SameTabs
<1>4. \A i \in 1..Len(tabs) : tabs[i].id # NoTab
  <2>1. \A i \in 1..Len(tabs) : tabs[i] \in Tab
    BY <1>1, TabIs
  <2> QED BY <2>1 DEF Tab, TabIds, NoTab
<1>5. AtTab(tabs', active')
  BY <1>1, <1>3 DEF KeepsTabs, AtTab
<1>6. \A i \in 1..Len(tabs') : tabs'[i].connecting =>
        tabs'[i].id # Head(uiEvents).tab /\ \E j \in 1..Len(tabs) : tabs[j].connecting /\ tabs[j].id = tabs'[i].id
  BY <1>3, <1>4
<1>7. win' \in Pane /\ tabsMade' = tabsMade
  BY DEF KeepsTabs
<1> QED BY <1>1, <1>2, <1>3, <1>5, <1>6, <1>7, Handled

LEMMA HandledLending ==
  ASSUME WindowInv, uiEvents # <<>>, uiEvents' = Tail(uiEvents), UNCHANGED <<dialogs, localJobs, abandoned>>,
         KeepsTabs, LendsOne, Head(uiEvents).kind \in {"reload", "reloadLocal", "navigate"}
  PROVE  WindowInv'
<1>1. uiEvents \in EventQueues /\ Head(uiEvents).tab = NoTab /\ Head(uiEvents).kind # "return"
  BY InvParts, Taken DEF EventOK
<1>2. /\ sess' \in Sessions /\ ops' \in Tasks /\ Accounted(sess', ops', uiEvents)
      /\ \A s \in SessionIds : sess'[s] \in OpenStates <=> sess[s] \in OpenStates
  BY LendsKeep
<1>3. Accounted(sess', ops', Tail(uiEvents))
  BY <1>1, <1>2, NoticeTaken
<1> QED BY <1>1, <1>2, <1>3, HandledQuietly

LEMMA HeadIs ==
  ASSUME WindowInv, uiEvents # <<>>
  PROVE  /\ Head(uiEvents).path \in Dirs /\ EventOK(Head(uiEvents))
         /\ Head(uiEvents).kind \in {"reload", "return"} => Head(uiEvents).session \in SessionIds
<1>1. uiEvents \in EventQueues
  BY InvParts
<1>2. Head(uiEvents) \in UiEvent /\ EventOK(Head(uiEvents))
  BY <1>1, Taken
<1> QED BY <1>2 DEF UiEvent, EventOK

Handles(k) ==
  /\ uiEvents # <<>> /\ Head(uiEvents).kind = k /\ uiEvents' = Tail(uiEvents)
  /\ UNCHANGED <<dialogs, inFlight, startPage, localJobs, abandoned>>

LEMMA ShowLocalKeeps ==
  ASSUME WindowInv, Handles("reloadLocal"), ShowLocal(Head(uiEvents).path) PROVE WindowInv'
<1>1. LendsOne
  BY DEF ShowLocal, LendsOne, Lending
<1>2. KeepsTabs
  BY HeadIs, Staying, PaneIs DEF ShowLocal, KeepsTabs, Handles
<1> QED BY <1>1, <1>2, HandledLending DEF Handles

LEMMA ShowRemoteKeeps ==
  ASSUME WindowInv, Handles("navigate"), ShowRemote(Head(uiEvents).path) PROVE WindowInv'
<1>1. Head(uiEvents).path \in Dirs
  BY HeadIs DEF Handles
<1>2. LendsOne
  BY <1>1, ActiveIs, LendIs, ReloadOpIs DEF ShowRemote
<1>3. KeepsTabs
  BY <1>1, Staying, PaneIs DEF ShowRemote, KeepsTabs
<1> QED BY <1>2, <1>3, HandledLending DEF Handles

LEMMA ReloadKeeps ==
  ASSUME WindowInv, Handles("reload"), ReloadSession(Head(uiEvents).session) PROVE WindowInv'
<1> DEFINE s == Head(uiEvents).session
           marked == [i \in DOMAIN tabs |-> IF i \in OwnerOf(s) THEN [tabs[i] EXCEPT !.dirty = TRUE] ELSE tabs[i]]
<1>1. s \in SessionIds /\ win.path \in Dirs /\ tabs \in Seq(Tab)
  BY HeadIs, InvParts DEF Handles, Pane
<1>2. /\ \/ Lend(s, ReloadOp(win.path, FALSE)) /\ tabs' = tabs
         \/ tabs' = marked /\ UNCHANGED <<sess, ops>>
      /\ UNCHANGED <<active, win, tabsMade>>
  BY DEF ReloadSession
<1>3. SameTabs(tabs, marked)
  BY <1>1, MarkedIs
<1> HIDE DEF marked, s
<1>4. LendsOne
  <2>1. CASE Lend(s, ReloadOp(win.path, FALSE))
    BY <1>1, <2>1, LendIs, ReloadOpIs
  <2>2. CASE UNCHANGED <<sess, ops>>
    BY <2>2 DEF LendsOne, Lending
  <2> QED BY <1>2, <2>1, <2>2
<1>5. KeepsTabs
  BY <1>2, <1>3, Staying DEF KeepsTabs
<1> QED BY <1>4, <1>5, HandledLending DEF Handles

LEMMA ReturnKeeps ==
  ASSUME WindowInv, Handles("return"), ReturnClient(Head(uiEvents).session) PROVE WindowInv'
<1> DEFINE s == Head(uiEvents).session
<1>1. /\ s \in SessionIds /\ uiEvents \in EventQueues /\ uiEvents # <<>> /\ Head(uiEvents).kind = "return"
      /\ Head(uiEvents).tab = NoTab /\ sess \in Sessions /\ ops \in Tasks /\ Accounted(sess, ops, uiEvents)
  BY HeadIs, InvParts DEF Handles, EventOK
<1>2. sess' = [sess EXCEPT ![s] = IsBack(sess[s])] /\ UNCHANGED <<tabs, active, win, ops, tabsMade>>
  BY <1>1 DEF ReturnClient, IsBack, Sessions
<1>3. sess' \in Sessions /\ Accounted(sess', ops', Tail(uiEvents))
  BY <1>1, <1>2, ClientTaken
<1>4. \A r \in SessionIds : sess'[r] \in OpenStates <=> sess[r] \in OpenStates
  BY <1>1, <1>2 DEF OpenStates, IsBack, Sessions
<1>5. KeepsTabs
  BY <1>2, Staying DEF KeepsTabs
<1> QED BY <1>1, <1>2, <1>3, <1>4, <1>5, HandledQuietly DEF Handles

(* Some tabs are not connecting any more. *)
LEMMA Lowered ==
  ASSUME NEW ts \in Seq(Tab), NEW us \in Seq(Tab), Len(us) = Len(ts), NEW se, NEW made,
         Owned(ts, se), Distinct(ts, made),
         \A i \in 1..Len(ts) : /\ us[i].id = ts[i].id /\ us[i].session = ts[i].session
                               /\ us[i].console = ts[i].console
                               /\ us[i].connecting => ts[i].connecting
  PROVE  Owned(us, se) /\ Distinct(us, made)
<1>1. \A i \in 1..Len(ts) : ts[i].session \in SessionIds \cup {NoSession}
  BY TabIs
<1>2. Owned(us, se)
  BY <1>1 DEF Owned
<1>3. Distinct(us, made)
  BY DEF Distinct, IsFree
<1> QED BY <1>2, <1>3

LEMMA ReleaseKeeps ==
  ASSUME WindowInv, Handles("failed"), ReleaseTab(Head(uiEvents).tab) PROVE WindowInv'
<1> DEFINE tab == Head(uiEvents).tab
           free(t) == IF t.id = tab THEN [t EXCEPT !.connecting = FALSE] ELSE t
<1>1. /\ tabs \in Seq(Tab) /\ tabsMade \in 0..MaxTabs /\ Len(tabs) <= tabsMade
      /\ Owned(tabs, sess) /\ Distinct(tabs, tabsMade) /\ uiEvents \in EventQueues
      /\ sess \in Sessions /\ ops \in Tasks /\ Accounted(sess, ops, uiEvents) /\ win \in Pane
      /\ AtTab(tabs, active)
  BY InvParts
<1>2. \A t \in Tab : /\ free(t) \in Tab /\ free(t).id = t.id /\ free(t).session = t.session
                     /\ free(t).console = t.console
                     /\ free(t).connecting => t.connecting /\ t.id # tab
  BY DEF Tab
<1>3. tabs' = [i \in DOMAIN tabs |-> free(tabs[i])] /\ UNCHANGED <<active, win, sess, ops, tabsMade>>
  BY DEF ReleaseTab
<1>4. \A i \in 1..Len(tabs) : tabs[i] \in Tab
  BY <1>1, TabIs
<1> HIDE DEF free, tab
<1>5. Len(tabs) \in Nat /\ tabs' = [i \in 1..Len(tabs) |-> free(tabs[i])]
  BY <1>1, <1>3
<1>6. /\ tabs' \in Seq(Tab) /\ Len(tabs') = Len(tabs)
      /\ \A i \in 1..Len(tabs) : tabs'[i] = free(tabs[i])
  <2>1. \A i \in 1..Len(tabs) : free(tabs[i]) \in Tab
    BY <1>2, <1>4
  <2> QED BY <1>5, <2>1
<1>7. \A i \in 1..Len(tabs) : /\ tabs'[i].id = tabs[i].id
                              /\ tabs'[i].connecting => tabs[i].connecting /\ tabs[i].id # tab
                              /\ tabs'[i].session = tabs[i].session /\ tabs'[i].console = tabs[i].console
  BY <1>2, <1>4, <1>6
<1>8. Owned(tabs', sess') /\ Distinct(tabs', tabsMade')
  <2> DEFINE us == tabs'
  <2>1. us \in Seq(Tab) /\ Len(us) = Len(tabs)
    BY <1>6
  <2>2. \A i \in 1..Len(tabs) : /\ us[i].id = tabs[i].id /\ us[i].session = tabs[i].session
                                /\ us[i].console = tabs[i].console
                                /\ us[i].connecting => tabs[i].connecting
    BY <1>7
  <2> HIDE DEF us
  <2>3. Owned(us, sess) /\ Distinct(us, tabsMade)
    BY <1>1, <2>1, <2>2, Lowered
  <2> QED BY <1>3, <2>3 DEF us
<1>9. Accounted(sess', ops', Tail(uiEvents))
  <2>1. Head(uiEvents).kind # "return" /\ uiEvents # <<>>
    BY DEF Handles
  <2> QED BY <1>1, <1>3, <2>1, NoticeTaken
<1>10. AtTab(tabs', active')
  BY <1>1, <1>3, <1>6 DEF AtTab
<1>11. \A i \in 1..Len(tabs') : tabs'[i].connecting =>
         tabs'[i].id # Head(uiEvents).tab /\ \E j \in 1..Len(tabs) : tabs[j].connecting /\ tabs[j].id = tabs'[i].id
  BY <1>6, <1>7 DEF tab
<1> QED BY <1>1, <1>3, <1>6, <1>8, <1>9, <1>10, <1>11, Handled DEF Handles

(* Where a session or console goes is free, and is the tab that waits for it. *)
LEMMA PlaceIs ==
  ASSUME WindowInv, NEW tab, PlaceRoom(tab)
  PROVE  /\ GoodBar(WithPlace(tab), MadeFor(tab)) /\ PlaceFor(tab) \in 1..Len(WithPlace(tab))
         /\ IsFree(WithPlace(tab)[PlaceFor(tab)])
         /\ \A j \in 1..Len(WithPlace(tab)) : WithPlace(tab)[j].connecting =>
              /\ WithPlace(tab)[j].id = tab => j = PlaceFor(tab)
              /\ \E k \in 1..Len(tabs) : tabs[k].connecting /\ tabs[k].id = WithPlace(tab)[j].id
<1> DEFINE named == {i \in IndexOf(tab) : IsFree(tabs[i])}  p == PlaceFor(tab)
<1>1. /\ tabs \in Seq(Tab) /\ tabsMade \in 0..MaxTabs /\ Distinct(tabs, tabsMade) /\ AtTab(tabs, active)
      /\ GoodBar(tabs, tabsMade) /\ Len(tabs) \in Nat /\ DOMAIN tabs = 1..Len(tabs)
  BY InvParts, BarIs
<1>2. named = {i \in 1..Len(tabs) : tabs[i].id = tab /\ IsFree(tabs[i])}
  BY <1>1 DEF IndexOf
<1>3. /\ named # {} => p \in named
      /\ named = {} => \/ p = active /\ HasActive /\ IsFree(tabs[active])
                       \/ p = Len(tabs) + 1
  BY DEF PlaceFor, ActiveTab
<1> HIDE DEF named, p
<1>4. /\ p \in 1..(Len(tabs) + 1)
      /\ p <= Len(tabs) => p \in 1..Len(tabs) /\ IsFree(tabs[p])
  BY <1>1, <1>2, <1>3 DEF AtTab, HasActive
<1>5. \A j \in 1..Len(tabs) : tabs[j].connecting /\ tabs[j].id = tab => j = p
  BY <1>1, <1>2, <1>3 DEF Distinct
<1>6. CASE p <= Len(tabs)
  <2>1. WithPlace(tab) = tabs /\ MadeFor(tab) = tabsMade
    BY <1>6 DEF WithPlace, MadeFor, p
  <2> QED BY <1>1, <1>4, <1>5, <1>6, <2>1 DEF p
<1>7. CASE ~(p <= Len(tabs))
  <2> DEFINE t == BlankTab(tabsMade + 1)  us == Append(tabs, t)
  <2>1. WithPlace(tab) = us /\ MadeFor(tab) = tabsMade + 1 /\ tabsMade < MaxTabs
    BY <1>7 DEF WithPlace, MadeFor, PlaceRoom, p
  <2>2. tabsMade + 1 <= MaxTabs /\ tabsMade + 1 \in TabIds /\ p = Len(tabs) + 1
    BY <1>1, <1>4, <1>7, <2>1, DesktopAssumption DEF TabIds
  <2>3. GoodBar(us, tabsMade + 1)
    BY <1>1, <2>2, LongerBar
  <2>4. t \in Tab /\ t.session = NoSession /\ t.console = FALSE /\ t.connecting = FALSE
    BY <2>2, BlankIs
  <2> HIDE DEF t
  <2>5. /\ Len(us) = Len(tabs) + 1 /\ us[Len(tabs) + 1] = t
        /\ \A j \in 1..Len(tabs) : us[j] = tabs[j]
    BY <1>1, <2>4, Added
  <2> HIDE DEF us
  <2>6. IsFree(us[p]) /\ p \in 1..Len(us)
    BY <1>1, <2>2, <2>4, <2>5 DEF IsFree
  <2>7. \A j \in 1..Len(us) : us[j].connecting => j \in 1..Len(tabs) /\ us[j] = tabs[j]
    BY <1>1, <2>4, <2>5
  <2> QED BY <1>5, <2>1, <2>3, <2>6, <2>7 DEF p
<1> QED BY <1>6, <1>7

(* A session or a console, tab t, comes to the free tab at i. *)
Placing(ts, us, se, se2, made, i, t) ==
  /\ ts \in Seq(Tab) /\ i \in 1..Len(ts) /\ t \in Tab /\ us = [ts EXCEPT ![i] = t]
  /\ Owned(ts, se) /\ Distinct(ts, made) /\ IsFree(ts[i])
  /\ t.id = ts[i].id /\ t.connecting = FALSE /\ (t.session = NoSession \/ ~t.console)
  /\ t.session # NoSession => se[t.session] \notin OpenStates
  /\ \A s \in SessionIds : se2[s] \in OpenStates <=> se[s] \in OpenStates \/ s = t.session

LEMMA PlacedBar ==
  ASSUME NEW ts, NEW us, NEW se, NEW se2, NEW made, NEW i, NEW t, Placing(ts, us, se, se2, made, i, t)
  PROVE  /\ us \in Seq(Tab) /\ Len(us) = Len(ts) /\ us # <<>>
         /\ Owned(us, se2) /\ Distinct(us, made)
         /\ \A j \in 1..Len(us) : us[j].connecting =>
              j # i /\ us[j].id = ts[j].id /\ ts[j].connecting
<1>1. /\ ts \in Seq(Tab) /\ i \in 1..Len(ts) /\ t \in Tab /\ us = [ts EXCEPT ![i] = t]
      /\ t.id = ts[i].id
  BY DEF Placing
<1>2. OtherAt(ts, us, i) /\ us[i] = t /\ i \in 1..Len(ts)
  BY <1>1, WrittenOther
<1>3. /\ ts \in Seq(Tab) /\ t \in Tab /\ Owned(ts, se) /\ Distinct(ts, made) /\ IsFree(ts[i])
      /\ t.connecting = FALSE /\ (t.session = NoSession \/ ~t.console)
      /\ t.session # NoSession => se[t.session] \notin OpenStates
      /\ \A s \in SessionIds : se2[s] \in OpenStates <=> se[s] \in OpenStates \/ s = t.session
  BY DEF Placing
<1>4. t.session \in SessionIds \cup {NoSession}
  BY <1>3 DEF Tab
<1>5. Owned(us, se2) /\ Distinct(us, made)
  <2>1. \A j \in 1..Len(ts) : ts[j].session \in SessionIds \cup {NoSession}
    BY <1>3, TabIs
  <2>2. ts[i].session = NoSession /\ \A s \in SessionIds : s # NoSession
    BY <1>3 DEF IsFree, SessionIds, NoSession
  <2>3. Owned(us, se2)
    <3>1. ASSUME NEW s \in SessionIds, se2[s] \in OpenStates PROVE \E j \in 1..Len(ts) : us[j].session = s
      BY <1>2, <1>3, <2>2, <3>1 DEF OtherAt, Owned
    <3>2. \A j \in 1..Len(ts) : us[j].session # NoSession => se2[us[j].session] \in OpenStates
      BY <1>2, <1>3, <1>4, <2>1 DEF OtherAt, Owned
    <3>3. \A j \in 1..Len(ts) : us[j].session = us[i].session /\ us[j].session # NoSession => i = j
      BY <1>2, <1>3, <2>1 DEF OtherAt, Owned
    <3>4. \A j, k \in 1..Len(ts) : us[j].session = us[k].session /\ us[j].session # NoSession => j = k
      BY <1>2, <1>3, <3>3 DEF OtherAt, Owned
    <3>5. \A j \in 1..Len(ts) : ~(us[j].session # NoSession /\ us[j].console)
      BY <1>2, <1>3 DEF OtherAt, Owned
    <3> QED BY <1>2, <1>3, <3>1, <3>2, <3>4, <3>5 DEF OtherAt, Owned
  <2>4. Distinct(us, made)
    BY <1>2, <1>3, DistinctOther
  <2> QED BY <2>3, <2>4
<1>6. us \in Seq(Tab) /\ Len(us) = Len(ts) /\ us # <<>>
  BY <1>2, <1>3 DEF OtherAt
<1>7. \A j \in 1..Len(us) : us[j].connecting =>
        j # i /\ us[j].id = ts[j].id /\ ts[j].connecting
  BY <1>2, <1>3 DEF OtherAt
<1> QED BY <1>5, <1>6, <1>7

LEMMA PlacedKeeps ==
  ASSUME WindowInv, uiEvents # <<>>, Head(uiEvents).kind # "return", uiEvents' = Tail(uiEvents),
         UNCHANGED <<dialogs, localJobs, abandoned>>, NEW tab, tab = Head(uiEvents).tab,
         PlaceRoom(tab), NEW t \in Tab, t.id = WithPlace(tab)[PlaceFor(tab)].id, t.connecting = FALSE,
         t.session = NoSession \/ ~t.console,
         t.session # NoSession => sess[t.session] \notin OpenStates,
         tabs' = [WithPlace(tab) EXCEPT ![PlaceFor(tab)] = t], active' = PlaceFor(tab),
         tabsMade' = MadeFor(tab), win' \in Pane, sess' \in Sessions, ops' \in Tasks,
         Accounted(sess', ops', uiEvents),
         \A s \in SessionIds : sess'[s] \in OpenStates <=> sess[s] \in OpenStates \/ s = t.session
  PROVE  WindowInv'
<1> DEFINE ts == WithPlace(tab)  i == PlaceFor(tab)  made == MadeFor(tab)
<1>1. tabs' = [ts EXCEPT ![i] = t] /\ active' = i /\ tabsMade' = made /\ t.id = ts[i].id
  OBVIOUS
<1>2. /\ ts \in Seq(Tab) /\ made \in 0..MaxTabs /\ Len(ts) <= made
      /\ Owned(ts, sess) /\ Distinct(ts, made) /\ i \in 1..Len(ts) /\ IsFree(ts[i])
      /\ \A j \in 1..Len(ts) : ts[j].connecting =>
           /\ ts[j].id = tab => j = i
           /\ \E k \in 1..Len(tabs) : tabs[k].connecting /\ tabs[k].id = ts[j].id
  BY PlaceIs DEF GoodBar
<1> HIDE DEF ts, i, made
<1>3. /\ tabs' \in Seq(Tab) /\ Len(tabs') = Len(ts) /\ tabs' # <<>>
      /\ Owned(tabs', sess') /\ Distinct(tabs', made)
      /\ \A j \in 1..Len(tabs') : tabs'[j].connecting =>
           j # i /\ tabs'[j].id = ts[j].id /\ ts[j].connecting
  <2> DEFINE us == tabs'  se2 == sess'
  <2>1. Placing(ts, us, sess, se2, made, i, t)
    BY <1>1, <1>2 DEF Placing
  <2> HIDE DEF us, se2
  <2>2. /\ us \in Seq(Tab) /\ Len(us) = Len(ts) /\ us # <<>>
        /\ Owned(us, se2) /\ Distinct(us, made)
        /\ \A j \in 1..Len(us) : us[j].connecting =>
             j # i /\ us[j].id = ts[j].id /\ ts[j].connecting
    BY <2>1, PlacedBar
  <2> QED BY <2>2 DEF us, se2
<1>4. uiEvents \in EventQueues
  BY InvParts
<1>5. Accounted(sess', ops', Tail(uiEvents))
  BY <1>4, NoticeTaken
<1>6. \A j \in 1..Len(tabs') : tabs'[j].connecting =>
        /\ tabs'[j].id # Head(uiEvents).tab
        /\ \E k \in 1..Len(tabs) : tabs[k].connecting /\ tabs[k].id = tabs'[j].id
  BY <1>2, <1>3
<1>7. AtTab(tabs', active')
  BY <1>1, <1>2, <1>3 DEF AtTab
<1>8. tabsMade' \in 0..MaxTabs /\ Len(tabs') <= tabsMade' /\ Distinct(tabs', tabsMade')
  BY <1>1, <1>2, <1>3
<1> QED BY <1>3, <1>5, <1>6, <1>7, <1>8, Handled

LEMMA Opened ==
  ASSUME NEW se \in Sessions, NEW op \in Tasks, NEW ev, Accounted(se, op, ev),
         NEW s \in SessionIds, se[s] = "none"
  PROVE  /\ [se EXCEPT ![s] = "free"] \in Sessions /\ Accounted([se EXCEPT ![s] = "free"], op, ev)
         /\ [se EXCEPT ![s] = "free"][s] = "free"
<1>1. /\ [se EXCEPT ![s] = "free"] \in Sessions
      /\ \A r \in SessionIds : [se EXCEPT ![s] = "free"][r] = IF r = s THEN "free" ELSE se[r]
  BY DEF Sessions
<1> QED BY <1>1 DEF Accounted

LEMMA FreeTabIs ==
  ASSUME WindowInv, NEW tab, PlaceRoom(tab)
  PROVE  /\ WithPlace(tab)[PlaceFor(tab)] \in Tab /\ WithPlace(tab) \in Seq(Tab)
         /\ WithPlace(tab)[PlaceFor(tab)].session = NoSession
         /\ WithPlace(tab)[PlaceFor(tab)].console = FALSE
<1>1. /\ WithPlace(tab) \in Seq(Tab) /\ PlaceFor(tab) \in 1..Len(WithPlace(tab))
      /\ IsFree(WithPlace(tab)[PlaceFor(tab)])
  BY PlaceIs DEF GoodBar
<1>2. WithPlace(tab)[PlaceFor(tab)] \in Tab
  BY <1>1, TabIs
<1> QED BY <1>1, <1>2 DEF IsFree, Tab

LEMMA ConsoleKeeps ==
  ASSUME WindowInv, Handles("console"), InstallConsole(Head(uiEvents).tab) PROVE WindowInv'
<1> DEFINE tab == Head(uiEvents).tab  ts == WithPlace(tab)  i == PlaceFor(tab)
           t == [ts[i] EXCEPT !.console = TRUE, !.connecting = FALSE, !.rightLocal = FALSE,
                              !.dirty = FALSE, !.path = RootDir, !.listing = NoFiles]
<1>1. /\ PlaceRoom(tab) /\ active' = i /\ tabsMade' = MadeFor(tab)
      /\ win' = [win EXCEPT !.connected = TRUE] /\ sess' = sess /\ ops' = ops
      /\ tabs' = [ts EXCEPT ![i].console = TRUE, ![i].connecting = FALSE, ![i].rightLocal = FALSE,
                            ![i].dirty = FALSE, ![i].path = RootDir, ![i].listing = NoFiles]
  BY DEF InstallConsole
<1> HIDE DEF tab
<1>2. ts[i] \in Tab /\ ts \in Seq(Tab) /\ ts[i].session = NoSession
  BY <1>1, FreeTabIs
<1> HIDE DEF ts, i
<1>3. t \in Tab /\ t.id = ts[i].id /\ t.connecting = FALSE /\ t.session = NoSession
  BY <1>2, DesktopAssumption DEF Tab, NoFiles, Listings
<1>4. tabs' = [ts EXCEPT ![i] = t]
  BY <1>1, <1>2
<1> HIDE DEF t
<1>5. win' \in Pane
  BY <1>1, Staying, PaneIs, DesktopAssumption
<1>6. sess' \in Sessions /\ ops' \in Tasks /\ Accounted(sess', ops', uiEvents)
  BY <1>1, InvParts
<1>7. \A s \in SessionIds : sess'[s] \in OpenStates <=> sess[s] \in OpenStates \/ s = t.session
  BY <1>1, <1>3 DEF SessionIds, NoSession
<1>8. Head(uiEvents).kind # "return" /\ uiEvents # <<>> /\ tab = Head(uiEvents).tab
  BY DEF Handles, tab
<1>9. uiEvents' = Tail(uiEvents) /\ UNCHANGED <<dialogs, localJobs, abandoned>>
  BY DEF Handles
<1> QED BY <1>1, <1>3, <1>4, <1>5, <1>6, <1>7, <1>8, <1>9, PlacedKeeps DEF ts, i

LEMMA SessionKeeps ==
  ASSUME WindowInv, Handles("session"), InstallSession(Head(uiEvents).tab) PROVE WindowInv'
<1> DEFINE tab == Head(uiEvents).tab  ts == WithPlace(tab)  i == PlaceFor(tab)  onScreen == (active = i)
<1>1. PICK s \in SessionIds, p \in Dirs :
        /\ sess[s] = "none" /\ active' = i /\ tabsMade' = MadeFor(tab)
        /\ tabs' = [ts EXCEPT ![i].session = s, ![i].connecting = FALSE, ![i].rightLocal = FALSE,
                              ![i].path = p, ![i].listing = NoFiles, ![i].dirty = (@ \/ ~onScreen)]
        /\ IF onScreen
           THEN /\ win' = [win EXCEPT !.connected = TRUE, !.path = p]
                /\ sess' = [sess EXCEPT ![s] = "busy"]
                /\ ops' = [ops EXCEPT ![s] = ReloadOp(p, TRUE)]
           ELSE sess' = [sess EXCEPT ![s] = "free"] /\ UNCHANGED <<win, ops>>
  BY DEF InstallSession
<1> DEFINE t == [ts[i] EXCEPT !.session = s, !.connecting = FALSE, !.rightLocal = FALSE,
                              !.path = p, !.listing = NoFiles, !.dirty = (@ \/ ~onScreen)]
<1>2. PlaceRoom(tab)
  BY DEF InstallSession
<1> HIDE DEF tab
<1>3. ts[i] \in Tab /\ ts \in Seq(Tab) /\ ts[i].console = FALSE
  BY <1>2, FreeTabIs
<1> HIDE DEF ts, i, onScreen
<1>4. t \in Tab /\ t.id = ts[i].id /\ t.connecting = FALSE /\ t.session = s /\ t.console = FALSE
  <2>1. (ts[i].dirty \/ ~onScreen) \in BOOLEAN
    OBVIOUS
  <2> QED BY <1>3, <2>1 DEF Tab, NoFiles, Listings
<1>5. tabs' = [ts EXCEPT ![i] = t]
  BY <1>1, <1>3
<1> HIDE DEF t
<1>6. win' \in Pane /\ sess' \in Sessions /\ ops' \in Tasks /\ Accounted(sess', ops', uiEvents)
      /\ \A r \in SessionIds : sess'[r] \in OpenStates <=> sess[r] \in OpenStates \/ r = s
  <2> DEFINE opened == [sess EXCEPT ![s] = "free"]
  <2>1. sess \in Sessions /\ ops \in Tasks /\ Accounted(sess, ops, uiEvents) /\ win \in Pane
    BY InvParts
  <2>2. opened \in Sessions /\ Accounted(opened, ops, uiEvents) /\ opened[s] = "free"
    BY <1>1, <2>1, Opened
  <2>3. [sess EXCEPT ![s] = "busy"] = [opened EXCEPT ![s] = "busy"]
    BY <2>1 DEF Sessions
  <2>4. \A r \in SessionIds : /\ [sess EXCEPT ![s] = "busy"][r] = IF r = s THEN "busy" ELSE sess[r]
                              /\ opened[r] = IF r = s THEN "free" ELSE sess[r]
    BY <2>1 DEF Sessions
  <2> HIDE DEF opened
  <2>5. CASE onScreen
    <3> DEFINE k == ReloadOp(p, TRUE)
    <3>1. sess' = [opened EXCEPT ![s] = "busy"] /\ ops' = [ops EXCEPT ![s] = k]
          /\ win' = [win EXCEPT !.connected = TRUE, !.path = p] /\ sess' = [sess EXCEPT ![s] = "busy"]
      BY <1>1, <2>3, <2>5
    <3>2. k \in Task /\ k.kind # "none"
      BY <1>1, ReloadOpIs
    <3> HIDE DEF k
    <3>3. /\ [opened EXCEPT ![s] = "busy"] \in Sessions /\ [ops EXCEPT ![s] = k] \in Tasks
          /\ Accounted([opened EXCEPT ![s] = "busy"], [ops EXCEPT ![s] = k], uiEvents)
      BY <1>1, <2>1, <2>2, <3>2, Lent
    <3>4. win' \in Pane
      BY <1>1, <2>1, <3>1 DEF Pane
    <3>5. \A r \in SessionIds : sess'[r] \in OpenStates <=> sess[r] \in OpenStates \/ r = s
      BY <2>4, <3>1 DEF OpenStates
    <3> QED BY <3>1, <3>3, <3>4, <3>5
  <2>6. CASE ~onScreen
    <3>1. sess' = opened /\ ops' = ops /\ win' = win
      BY <1>1, <2>6 DEF opened
    <3>2. \A r \in SessionIds : opened[r] \in OpenStates <=> sess[r] \in OpenStates \/ r = s
      BY <2>4 DEF OpenStates
    <3> QED BY <2>1, <2>2, <3>1, <3>2
  <2> QED BY <2>5, <2>6
<1>7. sess[t.session] \notin OpenStates
  BY <1>1, <1>4 DEF OpenStates
<1>8. Head(uiEvents).kind # "return" /\ uiEvents # <<>> /\ tab = Head(uiEvents).tab
  BY DEF Handles, tab
<1>9. uiEvents' = Tail(uiEvents) /\ UNCHANGED <<dialogs, localJobs, abandoned>>
  BY DEF Handles
<1>10. active' = i /\ tabsMade' = MadeFor(tab)
  BY <1>1
<1> QED BY <1>2, <1>4, <1>5, <1>6, <1>7, <1>8, <1>9, <1>10, PlacedKeeps DEF ts, i

LEMMA EventKeeps == ASSUME WindowInv, HandleEvent PROVE WindowInv'
<1> DEFINE e == Head(uiEvents)
<1>1. CASE e.kind = "session" /\ InstallSession(e.tab)
  BY <1>1, SessionKeeps DEF HandleEvent, Handles
<1>2. CASE e.kind = "console" /\ InstallConsole(e.tab)
  BY <1>2, ConsoleKeeps DEF HandleEvent, Handles
<1>3. CASE e.kind = "failed" /\ ReleaseTab(e.tab)
  BY <1>3, ReleaseKeeps DEF HandleEvent, Handles
<1>4. CASE e.kind = "reload" /\ ReloadSession(e.session)
  BY <1>4, ReloadKeeps DEF HandleEvent, Handles
<1>5. CASE e.kind = "return" /\ ReturnClient(e.session)
  BY <1>5, ReturnKeeps DEF HandleEvent, Handles
<1>6. CASE e.kind = "reloadLocal" /\ ShowLocal(e.path)
  BY <1>6, ShowLocalKeeps DEF HandleEvent, Handles
<1>7. CASE e.kind = "navigate" /\ ShowRemote(e.path)
  BY <1>7, ShowRemoteKeeps DEF HandleEvent, Handles
<1> QED BY <1>1, <1>2, <1>3, <1>4, <1>5, <1>6, <1>7 DEF HandleEvent
-----------------------------------------------------------------------------
(* The invariant, and what it says. *)

LEMMA WindowStarts == ASSUME DesktopInit PROVE WindowInv
<1>1. /\ tabs = <<>> /\ active = 1 /\ tabsMade = 0 /\ uiEvents = <<>> /\ localJobs = {}
      /\ win = [path |-> RootDir, listing |-> LocalFiles, connected |-> FALSE]
      /\ sess = [s \in SessionIds |-> "none"] /\ ops = [s \in SessionIds |-> NoOp]
      /\ dialogs = [a \in Attempts |-> IdleDialog]
  BY DEF DesktopInit
<1>2. tabs \in Seq(Tab) /\ tabsMade \in 0..MaxTabs /\ Len(tabs) <= tabsMade /\ AtTab(tabs, active)
  BY <1>1, DesktopAssumption DEF AtTab
<1>3. win \in Pane
  BY <1>1, DesktopAssumption DEF Pane, Listings, LocalFiles
<1>4. sess \in Sessions /\ ops \in Tasks
  BY <1>1, NoOpIs DEF Sessions, Tasks
<1>5. uiEvents \in EventQueues /\ \A k : k \notin DOMAIN uiEvents
  BY <1>1 DEF EventQueues
<1>6. dialogs \in [Attempts -> DialogState]
  BY <1>1 DEF IdleDialog, DialogState, NoTab
<1>7. Owned(tabs, sess) /\ Distinct(tabs, tabsMade)
  BY <1>1 DEF Owned, Distinct, OpenStates
<1>8. Accounted(sess, ops, uiEvents)
  BY <1>1, <1>5, NoOpIs DEF Accounted, Returns
<1>9. Awaited(tabs, dialogs, uiEvents, abandoned)
  BY <1>1 DEF Awaited
<1>10. localJobs \subseteq [kind : {"navigate", "reloadLocal"}, path : Dirs]
  BY <1>1
<1> QED BY <1>2, <1>3, <1>4, <1>5, <1>6, <1>7, <1>8, <1>9, <1>10, InvParts

LEMMA WindowSteps == ASSUME WindowInv, [DesktopNext]_desktopVars PROVE WindowInv'
<1>1. CASE UNCHANGED desktopVars
  BY <1>1, InvParts, InvNext DEF desktopVars
<1>2. CASE PaneStep
  BY <1>2, NavigateKeeps, DisconnectKeeps, StartOpKeeps, LocalJobKeeps, ActivateKeeps, CloseTabKeeps,
     CloseLastKeeps, ShowPageKeeps, DismissKeeps DEF PaneStep
<1>3. CASE DialogStep
  BY <1>3, ConnectKeeps, PickKeeps, PresetKeeps, ConnectsKeeps, CancelsKeeps, ClosesKeeps, FrameKeeps
     DEF DialogStep
<1>4. CASE TaskStep
  BY <1>4, ReloadEndsKeeps, OpEndsKeeps, RefreshKeeps, JobEndsKeeps, TickKeeps, SettlesKeeps, ReturnsKeeps
     DEF TaskStep
<1>5. CASE HandleEvent
  BY <1>5, EventKeeps
<1> QED BY <1>1, <1>2, <1>3, <1>4, <1>5 DEF DesktopNext

LEMMA InvOwns == ASSUME WindowInv PROVE SessionsOwned
<1>1. tabs \in Seq(Tab) /\ Owned(tabs, sess) /\ DOMAIN tabs = 1..Len(tabs)
  BY InvParts
<1>2. ASSUME NEW s \in SessionIds
      PROVE  Cardinality(OwnerOf(s)) = IF sess[s] \in {"free", "busy"} THEN 1 ELSE 0
  <2>1. s # NoSession
    BY DEF SessionIds, NoSession
  <2>2. CASE sess[s] \in OpenStates
    <3>1. PICK i \in 1..Len(tabs) : tabs[i].session = s
      BY <1>1, <2>2 DEF Owned
    <3>2. OwnerOf(s) = {i}
      BY <1>1, <2>1, <3>1 DEF Owned, OwnerOf
    <3> QED BY <2>2, <3>2, FS_Singleton DEF OpenStates
  <2>3. CASE sess[s] \notin OpenStates
    <3>1. OwnerOf(s) = {}
      BY <1>1, <2>1, <2>3 DEF Owned, OwnerOf
    <3> QED BY <2>3, <3>1, FS_EmptySet DEF OpenStates
  <2> QED BY <2>2, <2>3
<1>3. \A i \in DOMAIN tabs : ~(tabs[i].session # NoSession /\ tabs[i].console)
  BY <1>1 DEF Owned
<1> QED BY <1>2, <1>3 DEF SessionsOwned

LEMMA InvAccounts == ASSUME WindowInv PROVE ClientAccounted
<1> SUFFICES ASSUME NEW s \in SessionIds
    PROVE  LET back == Cardinality({i \in DOMAIN uiEvents :
                                      uiEvents[i].kind = "return" /\ uiEvents[i].session = s})
               out == (IF ops[s].kind = "none" THEN 0 ELSE 1) + back IN
           /\ sess[s] = "busy" => out = 1
           /\ sess[s] \in {"none", "free"} => out = 0
           /\ out <= 1
  BY DEF ClientAccounted
<1> DEFINE Back == {i \in DOMAIN uiEvents : uiEvents[i].kind = "return" /\ uiEvents[i].session = s}
<1>1. /\ Accounted(sess, ops, uiEvents) /\ sess[s] \in {"none", "free", "busy", "closed"}
      /\ \A k : k \in Back <=> Returns(uiEvents, s, k)
  BY InvParts DEF Sessions, Returns
<1> HIDE DEF Back
<1>2. CASE Back = {}
  <2>1. Cardinality(Back) = 0
    BY <1>2, FS_EmptySet
  <2>2. sess[s] = "busy" <=> ops[s].kind # "none" /\ sess[s] # "closed"
    BY <1>1, <1>2 DEF Accounted
  <2> QED BY <1>1, <2>1, <2>2 DEF Back
<1>3. CASE Back # {}
  <2>1. PICK k : k \in Back
    BY <1>3
  <2>2. Back = {k} /\ sess[s] \in {"busy", "closed"} /\ ops[s].kind = "none"
    BY <1>1, <2>1 DEF Accounted
  <2>3. Cardinality(Back) = 1
    BY <2>2, FS_Singleton
  <2> QED BY <2>2, <2>3 DEF Back
<1> QED BY <1>2, <1>3

LEMMA InvReleases == ASSUME WindowInv PROVE ConnectingReleased
<1>1. Awaited(tabs, dialogs, uiEvents, abandoned) /\ DOMAIN tabs = 1..Len(tabs)
  BY InvParts
<1> QED BY <1>1 DEF Awaited, ConnectingReleased

LEMMA InvTyped == ASSUME WindowInv PROVE DesktopTypeOK
<1>1. /\ tabs \in Seq(Tab) /\ win \in Pane /\ sess \in Sessions /\ AtTab(tabs, active)
      /\ tabsMade \in 0..MaxTabs /\ Len(tabs) <= tabsMade /\ Len(tabs) \in Nat
  BY InvParts
<1>2. \A i \in DOMAIN tabs : tabs[i] \in Tab
  BY <1>1
<1>3. active \in 1..MaxTabs /\ (tabs # <<>> => active \in DOMAIN tabs)
  BY <1>1, DesktopAssumption DEF AtTab
<1> QED BY <1>1, <1>2, <1>3 DEF DesktopTypeOK, Tab, Pane, Sessions

\* Whatever tabs are opened, closed and reused while attempts to connect and
\* background tasks are under way (main.rs, connect.rs, state.rs): every open
\* session has exactly one tab and no tab hosts two things; a session is busy
\* exactly while one task has its client or the client is on its way back; and
\* a tab says it is connecting only while an attempt for it can still settle,
\* unless its dialog was closed by its frame.
THEOREM WindowStaysSound ==
  DesktopSpec => [](DesktopTypeOK /\ SessionsOwned /\ ClientAccounted /\ ConnectingReleased)
<1>1. DesktopInit => WindowInv
  BY WindowStarts
<1>2. WindowInv /\ [DesktopNext]_desktopVars => WindowInv'
  BY WindowSteps
<1>3. WindowInv => DesktopTypeOK /\ SessionsOwned /\ ClientAccounted /\ ConnectingReleased
  BY InvTyped, InvOwns, InvAccounts, InvReleases
<1> QED BY <1>1, <1>2, <1>3, PTL DEF DesktopSpec

-----------------------------------------------------------------------------
(* The copies from one server to another.                                  *)

Working == {"checking", "waiting", "asking", "decided", "fetching", "receiving", "storing"}

-----------------------------------------------------------------------------
(* Types. *)

CopyTypes ==
  /\ copy \in [Copies -> Settled \cup {"queued"} \cup Working]
  /\ choice \in [Copies -> Answers \cup {"none"}]
  /\ sticky \in {"none", "overwrite", "skip"}
  /\ round \in [Copies -> Nat]
  /\ reply \in [Copies -> Answers \cup {"none"}]
  /\ posts \in Seq({"show", "hide"} \X (Copies \X Nat))
  /\ shown \subseteq Copies \X Nat
  /\ prompter \in Copies \cup {nobody}
  /\ staging \in [Copies -> {"absent", "empty", "part", "whole"}]
  /\ target \in [Copies -> {"absent", "old", "part", "new"}]
  /\ stopping \in [Copies -> BOOLEAN]
  /\ chosen \in [Copies -> SUBSET Answers]
  /\ queueings \in Nat
  /\ unasked \subseteq Copies

Workers(t) ==
  \/ Stage(t) \/ Check(t) \/ Prompt(t) \/ Answered(t) \/ TimesOut(t) \/ Decide(t)
  \/ Fetch(t) \/ Receive(t) \/ Store(t)

Clicks(t) == \E d \in shown, a \in Answers, all \in BOOLEAN : d[1] = t /\ Click(d, a, all)

Queueings ==
  \/ \E ts \in CopyBatches : StartBatch(ts)
  \/ RetryFailed
  \/ \E t \in Copies : RetryTask(t)

LEMMA Steps ==
  ASSUME [CopyNext]_copyVars
  PROVE  \/ Queueings \/ RunPost \/ Crash \/ UNCHANGED copyVars
         \/ \E t \in Copies : Stop(t) \/ Clicks(t) \/ Workers(t)
BY Zenon DEF CopyNext, Queueings, Clicks, Workers

(* Every way of queueing is one: tasks that have settled are queued afresh. *)
LEMMA QueueingIsQueued ==
  ASSUME CopyTypes, Queueings
  PROVE  \E ts \in SUBSET Copies, allowed \in SUBSET Answers :
           /\ Queued(ts, allowed)
           /\ \A t \in ts : copy[t] \in {"idle", "failed", "stopped"}
           /\ sticky' \in {"none", sticky}
           /\ sticky' # "none" => sticky \in allowed
<1>1. CASE \E ts \in CopyBatches : StartBatch(ts)
  <2>1. PICK ts \in CopyBatches : StartBatch(ts)
    BY <1>1
  <2>2. ts \in SUBSET Copies /\ {} \in SUBSET Answers
    BY CopiesAssumption
  <2> QED BY <2>1, <2>2 DEF StartBatch
<1>2. CASE RetryFailed
  <2>1. Retryable \in SUBSET Copies /\ {sticky} \ {"none"} \in SUBSET Answers
    BY DEF Retryable, CopyTypes, Answers
  <2> QED BY <1>2, <2>1 DEF RetryFailed, Retryable
<1>3. CASE \E t \in Copies : RetryTask(t)
  <2>1. PICK t \in Copies : RetryTask(t)
    BY <1>3
  <2>2. {t} \in SUBSET Copies /\ {} \in SUBSET Answers
    OBVIOUS
  <2> QED BY <2>1, <2>2 DEF RetryTask, Retryable
<1> QED BY <1>1, <1>2, <1>3 DEF Queueings

LEMMA Posted ==
  ASSUME NEW D, NEW s \in Seq(D), NEW d \in D
  PROVE  Append(s, d) \in Seq(D)
OBVIOUS

LEMMA CopyTypesInit == CopyInit => CopyTypes
BY DEF CopyInit, CopyTypes, Settled, Working, Answers

LEMMA CopyTypesStep == CopyTypes /\ [CopyNext]_copyVars => CopyTypes'
<1> SUFFICES ASSUME CopyTypes, [CopyNext]_copyVars PROVE CopyTypes'
  OBVIOUS
<1> USE DEF CopyTypes, Settled, Working, Answers
<1>1. CASE Queueings
  <2>1. PICK ts \in SUBSET Copies, allowed \in SUBSET Answers : Queued(ts, allowed) /\ sticky' \in {"none", sticky}
    BY <1>1, QueueingIsQueued, Zenon
  <2>2. /\ copy' \in [Copies -> Settled \cup {"queued"} \cup Working]
        /\ choice' \in [Copies -> Answers \cup {"none"}]
        /\ reply' \in [Copies -> Answers \cup {"none"}]
        /\ stopping' \in [Copies -> BOOLEAN]
    BY <2>1 DEF Queued
  <2>3. queueings' \in Nat /\ round' \in [Copies -> Nat]
    BY <2>1 DEF Queued
  <2>4. chosen' \in [Copies -> SUBSET Answers] /\ unasked' \subseteq Copies
    BY <2>1 DEF Queued
  <2>5. sticky' \in {"none", "overwrite", "skip"} /\ UNCHANGED <<prompter, posts, shown, staging, target>>
    BY <2>1 DEF Queued
  <2> QED BY <2>2, <2>3, <2>4, <2>5
<1>2. CASE RunPost
  <2>1. posts # <<>> /\ Head(posts) \in {"show", "hide"} \X (Copies \X Nat)
    BY <1>2 DEF RunPost
  <2> QED BY <1>2, <2>1 DEF RunPost
<1>3. CASE Crash
  BY <1>3 DEF Crash
<1>4. CASE UNCHANGED copyVars
  BY <1>4 DEF copyVars
<1>5. ASSUME NEW t \in Copies, Stop(t) PROVE CopyTypes'
  BY <1>5 DEF Stop
<1>6. ASSUME NEW t \in Copies, Clicks(t) PROVE CopyTypes'
  <2>1. PICK d \in shown, a \in Answers, all \in BOOLEAN : d[1] = t /\ Click(d, a, all)
    BY <1>6, Zenon DEF Clicks
  <2>2. sticky' \in {"none", "overwrite", "skip"} /\ shown' \subseteq Copies \X Nat
    BY <2>1 DEF Click
  <2>3. reply' = [reply EXCEPT ![t] = a] \/ reply' = reply
    BY <2>1, Zenon DEF Click
  <2>4. reply' \in [Copies -> Answers \cup {"none"}]
    BY <2>3
  <2>5. chosen' \in [Copies -> SUBSET Answers]
    BY <2>1 DEF Click
  <2>6. UNCHANGED <<copy, choice, round, prompter, posts, staging, target, stopping, queueings, unasked>>
    BY <2>1, Zenon DEF Click
  <2> QED BY <2>2, <2>4, <2>5, <2>6
<1>7. ASSUME NEW t \in Copies, Workers(t) PROVE CopyTypes'
  <2> USE DEF Goto, promptVars, others, Finish
  <2>1. CASE Stage(t) \/ Check(t)
    <3>1. CASE Stage(t)
      BY <3>1 DEF Stage
    <3>2. CASE Check(t)
      BY <3>2 DEF Check
    <3> QED BY <2>1, <3>1, <3>2
  <2>2. CASE Prompt(t) \/ TimesOut(t)
    <3>1. <<"show", Dialog(t)>> \in {"show", "hide"} \X (Copies \X Nat)
          /\ <<"hide", Dialog(t)>> \in {"show", "hide"} \X (Copies \X Nat)
      BY DEF Dialog
    <3>2. \/ posts' = posts
          \/ posts' = Append(posts, <<"show", Dialog(t)>>)
          \/ posts' = Append(posts, <<"hide", Dialog(t)>>)
      BY <2>2, Zenon DEF Prompt, TimesOut
    <3>3. posts' \in Seq({"show", "hide"} \X (Copies \X Nat))
      <4> DEFINE postings == {"show", "hide"} \X (Copies \X Nat)
      <4>1. posts \in Seq(postings)
        OBVIOUS
      <4>2. <<"show", Dialog(t)>> \in postings /\ <<"hide", Dialog(t)>> \in postings
        BY <3>1
      <4> HIDE DEF postings
      <4>3. posts' \in Seq(postings)
        <5>1. CASE posts' = posts
          BY <4>1, <5>1
        <5>2. CASE posts' = Append(posts, <<"show", Dialog(t)>>)
          BY <4>1, <4>2, <5>2, Posted, Zenon
        <5>3. CASE posts' = Append(posts, <<"hide", Dialog(t)>>)
          BY <4>1, <4>2, <5>3, Posted, Zenon
        <5> QED BY <3>2, <5>1, <5>2, <5>3, Zenon
      <4> QED BY <4>3 DEF postings
    <3>4. copy' \in [Copies -> Settled \cup {"queued"} \cup Working]
      <4>1. \E to \in {"asking", "decided"} : copy' = [copy EXCEPT ![t] = to]
        BY <2>2 DEF Prompt, TimesOut
      <4> QED BY <4>1
    <3>5. choice' \in [Copies -> Answers \cup {"none"}]
      BY <2>2 DEF Prompt, TimesOut
    <3>6. prompter' \in Copies \cup {nobody}
      BY <2>2 DEF Prompt, TimesOut
    <3>7. UNCHANGED <<sticky, shown, reply, staging, target, stopping, unasked, others>>
      BY <2>2 DEF Prompt, TimesOut
    <3> QED BY <3>3, <3>4, <3>5, <3>6, <3>7
  <2>3. CASE Answered(t)
    BY <2>3 DEF Answered
  <2>4. CASE Decide(t) \/ Fetch(t) \/ Receive(t) \/ Store(t)
    <3>1. UNCHANGED <<promptVars, stopping, unasked, others>>
      BY <2>4, Zenon DEF Decide, Fetch, Receive, Store
    <3>2. /\ \/ copy' = copy
             \/ \E to \in Settled \cup Working : copy' = [copy EXCEPT ![t] = to]
          /\ \/ staging' = staging
             \/ \E kept \in {"absent", "part", "whole"} : staging' = [staging EXCEPT ![t] = kept]
          /\ \/ target' = target
             \/ \E kept \in {"part", "new"} : target' = [target EXCEPT ![t] = kept]
      <4>1. CASE Decide(t)
        BY <4>1 DEF Decide
      <4>2. CASE Fetch(t)
        BY <4>2 DEF Fetch
      <4>3. CASE Receive(t)
        BY <4>3 DEF Receive
      <4>4. CASE Store(t)
        BY <4>4 DEF Store
      <4> QED BY <2>4, <4>1, <4>2, <4>3, <4>4
    <3>3. copy' \in [Copies -> Settled \cup {"queued"} \cup Working]
      BY <3>2
    <3>4. staging' \in [Copies -> {"absent", "empty", "part", "whole"}]
      BY <3>2
    <3>5. target' \in [Copies -> {"absent", "old", "part", "new"}]
      BY <3>2
    <3> QED BY <3>1, <3>3, <3>4, <3>5
  <2> QED BY <1>7, <2>1, <2>2, <2>3, <2>4 DEF Workers
<1> QED BY <1>1, <1>2, <1>3, <1>4, <1>5, <1>6, <1>7, Steps

-----------------------------------------------------------------------------
(* The staging directories. *)

StagingInv == \A t \in Copies : staging[t] # "absent" => copy[t] \in Working \/ t \in inherited

LEMMA StagingInit == CopyInit => StagingInv
BY DEF CopyInit, StagingInv

LEMMA StagingStep == CopyTypes /\ StagingInv /\ [CopyNext]_copyVars => StagingInv'
<1> SUFFICES ASSUME CopyTypes, StagingInv, [CopyNext]_copyVars PROVE StagingInv'
  OBVIOUS
<1> USE DEF StagingInv
<1>1. CASE Queueings
  <2>1. PICK ts \in SUBSET Copies, allowed \in SUBSET Answers :
          Queued(ts, allowed) /\ \A t \in ts : copy[t] \in {"idle", "failed", "stopped"}
    BY <1>1, QueueingIsQueued, Zenon
  <2>2. \A t \in Copies : copy'[t] = IF t \in ts THEN "queued" ELSE copy[t]
    BY <2>1 DEF Queued
  <2>3. UNCHANGED <<staging, inherited>>
    BY <2>1 DEF Queued
  <2> QED BY <2>1, <2>2, <2>3 DEF Working
<1>2. CASE RunPost
  BY <1>2 DEF RunPost
<1>3. CASE Crash
  <2>1. PICK samePid \in BOOLEAN :
          /\ inherited' = IF samePid THEN {t \in Copies : staging[t] # "absent"} ELSE {}
          /\ staging' = IF samePid THEN staging ELSE [t \in Copies |-> "absent"]
    BY <1>3, Zenon DEF Crash
  <2> QED BY <2>1
<1>4. CASE UNCHANGED copyVars
  BY <1>4 DEF copyVars
<1>5. ASSUME NEW u \in Copies, Stop(u) PROVE StagingInv'
  BY <1>5 DEF Stop, CopyTypes, Working
<1>6. ASSUME NEW u \in Copies, Clicks(u) PROVE StagingInv'
  BY <1>6 DEF Clicks, Click
<1>7. ASSUME NEW u \in Copies, Workers(u) PROVE StagingInv'
  <2>1. UNCHANGED inherited
    BY <1>7 DEF Workers, Stage, Check, Prompt, Answered, TimesOut, Decide, Fetch, Receive, Store, others
  <2>2. \A t \in Copies \ {u} : copy'[t] = copy[t] /\ staging'[t] = staging[t]
    BY <1>7 DEF Workers, Stage, Check, Prompt, Answered, TimesOut, Decide, Fetch, Receive, Store, Goto, Finish,
       CopyTypes
  <2>3. staging'[u] # "absent" => copy'[u] \in Working \/ u \in inherited
    <3> USE DEF Goto, Finish, CopyTypes, Working
    <3>1. CASE Stage(u) \/ Check(u)
      BY <3>1 DEF Stage, Check
    <3>2. CASE Prompt(u) \/ Answered(u) \/ TimesOut(u)
      BY <3>2 DEF Prompt, Answered, TimesOut
    <3>3. CASE Decide(u)
      BY <3>3 DEF Decide
    <3>4. CASE Fetch(u) \/ Receive(u)
      BY <3>4 DEF Fetch, Receive
    <3>5. CASE Store(u)
      BY <3>5 DEF Store
    <3> QED BY <1>7, <3>1, <3>2, <3>3, <3>4, <3>5 DEF Workers
  <2> QED BY <2>1, <2>2, <2>3
<1> QED BY <1>1, <1>2, <1>3, <1>4, <1>5, <1>6, <1>7, Steps

(* However a copy between servers ends, it leaves nothing in the staging    *)
(* area but what an earlier process with its id left there                  *)
(* (run_remote_to_remote, end_run_staged).                                  *)
THEOREM StagingIsCleaned == CopySpec => []StagingCleaned
<1>1. CopyInit => CopyTypes /\ StagingInv
  BY CopyTypesInit, StagingInit
<1>2. CopyTypes /\ StagingInv /\ [CopyNext]_copyVars => (CopyTypes /\ StagingInv)'
  BY CopyTypesStep, StagingStep
<1>3. CopyTypes /\ StagingInv => StagingCleaned
  BY DEF StagingInv, StagingCleaned, Working, Settled
<1> QED BY <1>1, <1>2, <1>3, PTL DEF CopySpec

-----------------------------------------------------------------------------
(* The answers. *)

Undecided == {"queued", "checking", "waiting"}

ChoiceInv ==
  /\ \A t \in Copies : reply[t] = "overwrite" => "overwrite" \in chosen[t]
  /\ \A t \in Copies : copy[t] \notin Settled /\ sticky # "none" => sticky \in chosen[t]
  /\ \A t \in Copies : copy[t] = "decided" /\ target[t] = "old" /\ t \notin unasked =>
       choice[t] # "none" /\ (choice[t] = "overwrite" => "overwrite" \in chosen[t])
  /\ OverwriteIsChosen

LEMMA ChoiceInit == CopyInit => ChoiceInv
BY DEF CopyInit, ChoiceInv, OverwriteIsChosen, Settled

(* A step of one worker leaves every other task as it is. *)
LEMMA WorkersApart ==
  ASSUME CopyTypes, NEW u \in Copies, Workers(u)
  PROVE  /\ UNCHANGED <<sticky, reply, chosen, shown, stopping, round, queueings>>
         /\ \A t \in Copies \ {u} :
              /\ copy'[t] = copy[t] /\ target'[t] = target[t] /\ choice'[t] = choice[t]
              /\ t \in unasked' <=> t \in unasked
<1> USE DEF Goto, Finish, CopyTypes, promptVars, others
<1>1. CASE Stage(u) \/ Check(u)
  BY <1>1 DEF Stage, Check
<1>2. CASE Prompt(u)
  BY <1>2 DEF Prompt
<1>3. CASE Answered(u) \/ TimesOut(u)
  BY <1>3 DEF Answered, TimesOut
<1>4. CASE Decide(u) \/ Fetch(u) \/ Receive(u)
  BY <1>4 DEF Decide, Fetch, Receive
<1>5. CASE Store(u)
  BY <1>5 DEF Store
<1> QED BY <1>1, <1>2, <1>3, <1>4, <1>5 DEF Workers

LEMMA ChoiceStep == CopyTypes /\ ChoiceInv /\ [CopyNext]_copyVars => ChoiceInv'
<1> SUFFICES ASSUME CopyTypes, ChoiceInv, [CopyNext]_copyVars PROVE ChoiceInv'
  OBVIOUS
<1> USE DEF ChoiceInv, OverwriteIsChosen
<1>1. CASE Queueings
  <2>1. PICK ts \in SUBSET Copies, allowed \in SUBSET Answers :
          /\ Queued(ts, allowed)
          /\ sticky' \in {"none", sticky}
          /\ sticky' # "none" => sticky \in allowed
    BY <1>1, QueueingIsQueued, Zenon
  <2>2. \A t \in Copies : IF t \in ts
          THEN copy'[t] = "queued" /\ reply'[t] = "none" /\ chosen'[t] = allowed
          ELSE copy'[t] = copy[t] /\ reply'[t] = reply[t] /\ chosen'[t] = chosen[t] /\ choice'[t] = choice[t]
               /\ (t \in unasked' <=> t \in unasked)
    BY <2>1 DEF Queued
  <2>3. target' = target
    BY <2>1 DEF Queued
  <2> QED BY <2>1, <2>2, <2>3
<1>2. CASE RunPost
  BY <1>2 DEF RunPost
<1>3. CASE Crash
  BY <1>3 DEF Crash, Settled
<1>4. CASE UNCHANGED copyVars
  BY <1>4 DEF copyVars
<1>5. ASSUME NEW u \in Copies, Stop(u) PROVE ChoiceInv'
  BY <1>5 DEF Stop, CopyTypes, Settled
<1>6. ASSUME NEW u \in Copies, Clicks(u) PROVE ChoiceInv'
  <2>1. PICK d \in shown, a \in Answers, all \in BOOLEAN : d[1] = u /\ Click(d, a, all)
    BY <1>6 DEF Clicks
  <2>2. UNCHANGED <<copy, choice, target, unasked>> /\ sticky' = IF all THEN a ELSE sticky
    BY <2>1 DEF Click
  <2>3. \A t \in Copies : chosen[t] \subseteq chosen'[t]
    BY <2>1 DEF Click
  <2>4. all => \A t \in Copies : copy[t] \notin Settled => a \in chosen'[t]
    BY <2>1 DEF Click
  <2>5. \A t \in Copies : reply'[t] = reply[t] \/ (reply'[t] = a /\ a \in chosen'[t])
    BY <2>1 DEF Click, CopyTypes
  <2> QED BY <2>2, <2>3, <2>4, <2>5
<1>7. ASSUME NEW u \in Copies, Workers(u) PROVE ChoiceInv'
  <2>1. UNCHANGED <<sticky, reply, chosen>>
    BY <1>7, WorkersApart
  <2>2. \A t \in Copies \ {u} :
              /\ copy'[t] = copy[t] /\ target'[t] = target[t] /\ choice'[t] = choice[t]
              /\ t \in unasked' <=> t \in unasked
    BY <1>7, WorkersApart
  <2>3. copy[u] \notin Settled
    BY <1>7 DEF Workers, Stage, Check, Prompt, Answered, TimesOut, Decide, Fetch, Receive, Store, Settled
  <2>4. copy'[u] = "decided" /\ target'[u] = "old" /\ u \notin unasked' =>
          choice'[u] # "none" /\ (choice'[u] = "overwrite" => "overwrite" \in chosen[u])
    <3> USE DEF Goto, Finish, CopyTypes, promptVars
    <3>1. CASE Stage(u)
      BY <3>1 DEF Stage
    <3>2. CASE Check(u)
      BY <3>2 DEF Check
    <3>3. CASE Prompt(u)
      BY <2>3, <3>3 DEF Prompt
    <3>4. CASE Answered(u) \/ TimesOut(u)
      BY <3>4 DEF Answered, TimesOut
    <3>5. CASE Decide(u)
      BY <3>5 DEF Decide
    <3>6. CASE Fetch(u) \/ Receive(u) \/ Store(u)
      BY <3>6 DEF Fetch, Receive, Store
    <3> QED BY <1>7, <3>1, <3>2, <3>3, <3>4, <3>5, <3>6 DEF Workers
  <2>5. copy'[u] \in {"fetching", "receiving", "storing"} /\ target'[u] = "old" =>
          u \in unasked' \/ (choice'[u] = "overwrite" /\ "overwrite" \in chosen[u])
    <3> USE DEF Goto, Finish, CopyTypes, promptVars
    <3>1. CASE Stage(u) \/ Check(u)
      BY <3>1 DEF Stage, Check
    <3>2. CASE Prompt(u) \/ Answered(u) \/ TimesOut(u)
      BY <3>2 DEF Prompt, Answered, TimesOut
    <3>3. CASE Decide(u)
      BY <3>3 DEF Decide, Answers
    <3>4. CASE Fetch(u) \/ Receive(u)
      BY <3>4 DEF Fetch, Receive
    <3>5. CASE Store(u)
      BY <3>5 DEF Store
    <3> QED BY <1>7, <3>1, <3>2, <3>3, <3>4, <3>5 DEF Workers
  <2>6. copy'[u] \notin Settled /\ sticky # "none" => sticky \in chosen[u]
    BY <2>3
  <2> QED BY <2>1, <2>2, <2>4, <2>5, <2>6
<1> QED BY <1>1, <1>2, <1>3, <1>4, <1>5, <1>6, <1>7, Steps

(* A file that was there is replaced only after the user said so for this   *)
(* task, in its dialog or to all, unless the check itself failed            *)
(* (staged_conflict_choice, prompt_overwrite_choice).                       *)
THEOREM NothingOverwrittenUnasked == CopySpec => []OverwriteIsChosen
<1>1. CopyInit => CopyTypes /\ ChoiceInv
  BY CopyTypesInit, ChoiceInit
<1>2. CopyTypes /\ ChoiceInv /\ [CopyNext]_copyVars => (CopyTypes /\ ChoiceInv)'
  BY CopyTypesStep, ChoiceStep
<1>3. ChoiceInv => OverwriteIsChosen
  BY DEF ChoiceInv
<1> QED BY <1>1, <1>2, <1>3, PTL DEF CopySpec

-----------------------------------------------------------------------------
(* The dialogs. *)

Fresh == {"queued", "checking", "waiting", "asking"}

(* Who holds the lock is asking; a task that has not asked has no answer.   *)
AskingInv ==
  /\ \A t \in Copies : copy[t] = "asking" <=> prompter = t
  /\ \A t \in Copies : copy[t] \in Undecided => reply[t] = "none"

(* Every dialog that is shown is hidden before the next one is, unless the  *)
(* worker still waits for it, or the user closed it.                        *)
PostsInv ==
  /\ \A i \in 1..Len(posts) - 1 :
       IF posts[i][1] = "show" THEN posts[i + 1] = <<"hide", posts[i][2]>> ELSE posts[i + 1][1] = "show"
  /\ posts # <<>> =>
       /\ posts[1][1] = "show" => shown = {}
       /\ posts[1][1] = "hide" => shown \subseteq {posts[1][2]}
       /\ IF prompter = nobody THEN posts[Len(posts)][1] = "hide"
          ELSE posts[Len(posts)] = <<"show", Dialog(prompter)>>
  /\ posts = <<>> => shown \subseteq (IF prompter = nobody THEN {} ELSE {Dialog(prompter)})
  /\ prompter # nobody /\ reply[prompter] # "none" => posts = <<>> /\ shown = {}

(* A dialog that waits to be hidden is of an earlier queueing than any task *)
(* that may still ask.                                                      *)
RoundInv ==
  /\ \A t \in Copies : round[t] <= queueings
  /\ \A i \in 1..Len(posts) :
       posts[i][1] = "hide" =>
         /\ posts[i][2][2] <= queueings
         /\ \A t \in Copies : copy[t] \in Fresh => posts[i][2] # Dialog(t)

DialogInv == AskingInv /\ PostsInv /\ RoundInv

LEMMA DialogInit == CopyInit => DialogInv
BY CopiesAssumption DEF CopyInit, DialogInv, AskingInv, PostsInv, RoundInv, Undecided

LEMMA AskingStep == CopyTypes /\ AskingInv /\ [CopyNext]_copyVars => AskingInv'
<1> SUFFICES ASSUME CopyTypes, AskingInv, [CopyNext]_copyVars PROVE AskingInv'
  OBVIOUS
<1> USE DEF AskingInv, Undecided
<1>1. CASE Queueings
  <2>1. PICK ts \in SUBSET Copies, allowed \in SUBSET Answers :
          Queued(ts, allowed) /\ \A t \in ts : copy[t] \in {"idle", "failed", "stopped"}
    BY <1>1, QueueingIsQueued, Zenon
  <2>2. \A t \in Copies : IF t \in ts
          THEN copy'[t] = "queued" /\ reply'[t] = "none" /\ copy[t] # "asking"
          ELSE copy'[t] = copy[t] /\ reply'[t] = reply[t]
    BY <2>1 DEF Queued
  <2>3. prompter' = prompter
    BY <2>1 DEF Queued
  <2> QED BY <2>2, <2>3
<1>2. CASE RunPost
  BY <1>2 DEF RunPost
<1>3. CASE Crash
  BY <1>3, CopiesAssumption DEF Crash
<1>4. CASE UNCHANGED copyVars
  BY <1>4 DEF copyVars
<1>5. ASSUME NEW u \in Copies, Stop(u) PROVE AskingInv'
  BY <1>5 DEF Stop, CopyTypes
<1>6. ASSUME NEW u \in Copies, Clicks(u) PROVE AskingInv'
  <2>1. PICK d \in shown, a \in Answers, all \in BOOLEAN : d[1] = u /\ Click(d, a, all)
    BY <1>6 DEF Clicks
  <2>2. UNCHANGED <<copy, prompter>>
    BY <2>1 DEF Click
  <2>3. \A t \in Copies : reply'[t] = reply[t] \/ copy[t] = "asking"
    BY <2>1 DEF Click, CopyTypes
  <2> QED BY <2>2, <2>3
<1>7. ASSUME NEW u \in Copies, Workers(u) PROVE AskingInv'
  <2> USE DEF Goto, Finish, CopyTypes, promptVars
  <2>1. CASE Stage(u) \/ Check(u)
    BY <2>1 DEF Stage, Check
  <2>2. CASE Prompt(u)
    BY <2>2, CopiesAssumption DEF Prompt
  <2>3. CASE Answered(u) \/ TimesOut(u)
    <3>1. copy[u] = "asking" /\ copy' = [copy EXCEPT ![u] = "decided"] /\ prompter' = nobody /\ reply' = reply
      BY <2>3 DEF Answered, TimesOut
    <3>2. prompter = u /\ \A t \in Copies : t # nobody
      BY <3>1, CopiesAssumption
    <3>3. \A t \in Copies : copy'[t] = (IF t = u THEN "decided" ELSE copy[t])
      BY <3>1
    <3> QED BY <3>1, <3>2, <3>3
  <2>4. CASE Decide(u) \/ Fetch(u) \/ Receive(u)
    BY <2>4 DEF Decide, Fetch, Receive
  <2>5. CASE Store(u)
    BY <2>5 DEF Store
  <2> QED BY <1>7, <2>1, <2>2, <2>3, <2>4, <2>5 DEF Workers
<1> QED BY <1>1, <1>2, <1>3, <1>4, <1>5, <1>6, <1>7, Steps

(* What an appended closure does to the invariants of the sequence. *)
LEMMA Appended ==
  ASSUME CopyTypes, NEW p \in {"show", "hide"} \X (Copies \X Nat), posts' = Append(posts, p)
  PROVE  /\ Len(posts') = Len(posts) + 1 /\ posts' # <<>>
         /\ \A i \in 1..Len(posts) : posts'[i] = posts[i]
         /\ posts'[Len(posts')] = p
BY AppendProperties DEF CopyTypes

LEMMA PostsStep == CopyTypes /\ AskingInv /\ PostsInv /\ RoundInv /\ [CopyNext]_copyVars => PostsInv'
<1> SUFFICES ASSUME CopyTypes, AskingInv, PostsInv, RoundInv, [CopyNext]_copyVars PROVE PostsInv'
  OBVIOUS
<1>0. \A t \in Copies : t # nobody
  BY CopiesAssumption
<1>1. CASE Queueings
  <2>1. PICK ts \in SUBSET Copies, allowed \in SUBSET Answers :
          Queued(ts, allowed) /\ \A t \in ts : copy[t] \in {"idle", "failed", "stopped"}
    BY <1>1, QueueingIsQueued, Zenon
  <2>2. UNCHANGED <<prompter, posts, shown>>
    BY <2>1 DEF Queued
  <2>3. prompter # nobody => prompter \in Copies \ ts
    BY <2>1 DEF AskingInv, CopyTypes
  <2>4. prompter # nobody => reply'[prompter] = reply[prompter] /\ round'[prompter] = round[prompter]
    BY <2>1, <2>3 DEF Queued
  <2> QED BY <2>2, <2>4 DEF PostsInv, Dialog
<1>2. CASE RunPost
  <2>1. /\ posts # <<>> /\ posts' = Tail(posts) /\ UNCHANGED <<prompter, reply, round>>
        /\ shown' = IF posts[1][1] = "show" THEN shown \cup {posts[1][2]} ELSE shown \ {posts[1][2]}
    <3>1. posts # <<>> /\ Head(posts) = posts[1]
      BY <1>2 DEF RunPost, CopyTypes
    <3> QED BY <1>2, <3>1 DEF RunPost
  <2>2. Len(posts) \in Nat /\ Len(posts) > 0 /\ Len(posts') = Len(posts) - 1
        /\ \A i \in 1..Len(posts') : posts'[i] = posts[i + 1]
    BY <2>1 DEF CopyTypes
  <2>3. posts[1] \in {"show", "hide"} \X (Copies \X Nat)
    BY <2>1, <2>2 DEF CopyTypes
  <2>4. posts[1][1] \in {"show", "hide"}
    BY <2>3
  <2>5. shown' = IF posts[1][1] = "show" THEN {posts[1][2]} ELSE {}
    BY <2>1, <2>4 DEF PostsInv
  <2>6. \A i \in 1..Len(posts') - 1 :
          IF posts'[i][1] = "show" THEN posts'[i + 1] = <<"hide", posts'[i][2]>> ELSE posts'[i + 1][1] = "show"
    <3> SUFFICES ASSUME NEW i \in 1..Len(posts') - 1
                 PROVE  IF posts'[i][1] = "show" THEN posts'[i + 1] = <<"hide", posts'[i][2]>>
                        ELSE posts'[i + 1][1] = "show"
      OBVIOUS
    <3>1. i + 1 \in 1..Len(posts) - 1 /\ i \in 1..Len(posts') /\ i + 1 \in 1..Len(posts')
      BY <2>2
    <3>2. posts'[i] = posts[i + 1] /\ posts'[i + 1] = posts[(i + 1) + 1]
      BY <2>2, <3>1
    <3> QED BY <3>1, <3>2 DEF PostsInv
  <2>7. reply[prompter] = "none" \/ prompter = nobody
    BY <2>1 DEF PostsInv
  <2>8. CASE posts' = <<>>
    <3>1. Len(posts) = 1
      BY <2>2, <2>8
    <3>2. posts[Len(posts)] = posts[1]
      BY <3>1
    <3>3. CASE prompter = nobody
      <4>1. posts[1][1] = "hide"
        BY <2>1, <3>2, <3>3 DEF PostsInv
      <4> QED BY <2>1, <2>5, <2>6, <2>8, <3>3, <4>1 DEF PostsInv
    <3>4. CASE prompter # nobody
      <4>1. posts[1] = <<"show", Dialog(prompter)>>
        BY <2>1, <3>2, <3>4 DEF PostsInv
      <4>2. shown' = {Dialog(prompter)'}
        BY <2>1, <2>5, <4>1 DEF Dialog
      <4>3. prompter' = prompter /\ reply'[prompter] = "none"
        BY <2>1, <2>7, <3>4
      <4> QED BY <2>6, <2>8, <3>4, <4>2, <4>3 DEF PostsInv, Dialog
    <3> QED BY <3>3, <3>4
  <2>9. CASE posts' # <<>>
    <3>0. posts' \in Seq({"show", "hide"} \X (Copies \X Nat))
      BY <2>1 DEF CopyTypes
    <3>1. Len(posts) > 1 /\ 1 \in 1..Len(posts) - 1 /\ Len(posts') \in 1..Len(posts')
      <4>1. Len(posts') \in Nat /\ Len(posts') # 0
        BY <2>9, <3>0
      <4> QED BY <2>2, <4>1
    <3>2. posts'[1] = posts[2] /\ posts'[Len(posts')] = posts[Len(posts)]
      BY <2>2, <3>1
    <3>3. IF posts[1][1] = "show" THEN posts[2] = <<"hide", posts[1][2]>> ELSE posts[2][1] = "show"
      BY <3>1 DEF PostsInv
    <3>4. /\ posts'[1][1] = "show" => shown' = {}
          /\ posts'[1][1] = "hide" => shown' \subseteq {posts'[1][2]}
      <4>1. CASE posts[1][1] = "show"
        <5>1. posts'[1][1] = "hide" /\ posts'[1][2] = posts[1][2] /\ shown' = {posts[1][2]}
          BY <2>4, <2>5, <3>2, <3>3, <4>1
        <5> QED BY <5>1
      <4>2. CASE posts[1][1] # "show"
        <5>1. posts'[1][1] = "show" /\ shown' = {}
          BY <2>4, <2>5, <3>2, <3>3, <4>2
        <5> QED BY <5>1
      <4> QED BY <4>1, <4>2
    <3>5. IF prompter' = nobody THEN posts'[Len(posts')][1] = "hide"
          ELSE posts'[Len(posts')] = <<"show", Dialog(prompter)'>>
      BY <2>1, <3>2 DEF PostsInv, Dialog
    <3>6. ~(prompter' # nobody /\ reply'[prompter'] # "none")
      BY <2>1, <2>7
    <3> QED BY <2>6, <2>9, <3>4, <3>5, <3>6 DEF PostsInv
  <2> QED BY <2>8, <2>9
<1>3. CASE Crash
  BY <1>3 DEF Crash, PostsInv
<1>4. CASE UNCHANGED copyVars
  BY <1>4 DEF copyVars, PostsInv, Dialog
<1>5. ASSUME NEW u \in Copies, Stop(u) PROVE PostsInv'
  BY <1>5 DEF Stop, PostsInv, Dialog
<1>6. ASSUME NEW u \in Copies, Clicks(u) PROVE PostsInv'
  <2>1. PICK d \in shown, a \in Answers, all \in BOOLEAN : d[1] = u /\ Click(d, a, all)
    BY <1>6 DEF Clicks
  <2>2. UNCHANGED <<prompter, posts, round>> /\ shown' = shown \ {d}
    BY <2>1 DEF Click
  <2>3. shown' = {}
    <3>1. CASE posts = <<>>
      BY <2>1, <2>2, <3>1 DEF PostsInv
    <3>2. CASE posts # <<>>
      <4>1. posts[1] \in {"show", "hide"} \X (Copies \X Nat)
        BY <3>2 DEF CopyTypes
      <4>2. posts[1][1] \in {"show", "hide"}
        BY <4>1
      <4> QED BY <2>1, <2>2, <3>2, <4>2 DEF PostsInv
    <3> QED BY <3>1, <3>2
  <2>4. ASSUME prompter # nobody, reply'[prompter] # "none" PROVE posts = <<>>
    <3>1. CASE reply'[prompter] = reply[prompter]
      BY <2>4, <3>1 DEF PostsInv
    <3>2. CASE reply'[prompter] # reply[prompter]
      <4>1. prompter = u /\ copy[u] = "asking" /\ d = Dialog(u)
        BY <2>1, <3>2 DEF Click, CopyTypes
      <4>2. ASSUME posts # <<>> PROVE FALSE
        <5>1. posts[1] \in {"show", "hide"} \X (Copies \X Nat) /\ 1 \in 1..Len(posts)
          BY <4>2 DEF CopyTypes
        <5>2. posts[1][1] = "hide" /\ posts[1][2] = d
          BY <2>1, <4>2, <5>1 DEF PostsInv
        <5> QED BY <4>1, <5>1, <5>2 DEF RoundInv, Fresh
      <4> QED BY <4>2
    <3> QED BY <3>1, <3>2
  <2> QED BY <2>2, <2>3, <2>4 DEF PostsInv, Dialog
<1>7. ASSUME NEW u \in Copies, Workers(u) PROVE PostsInv'
  <2>0. UNCHANGED <<shown, reply, round>>
    BY <1>7, WorkersApart
  <2>1. CASE Stage(u) \/ Check(u) \/ Decide(u) \/ Fetch(u) \/ Receive(u) \/ Store(u)
    <3>1. UNCHANGED <<prompter, posts>>
      BY <2>1 DEF Stage, Check, Decide, Fetch, Receive, Store, promptVars
    <3> QED BY <2>0, <3>1 DEF PostsInv, Dialog
  <2>2. CASE Prompt(u)
    <3>1. CASE UNCHANGED <<prompter, posts>>
      BY <2>0, <3>1 DEF PostsInv, Dialog
    <3>2. CASE prompter = nobody /\ prompter' = u /\ posts' = Append(posts, <<"show", Dialog(u)>>)
      <4>1. <<"show", Dialog(u)>> \in {"show", "hide"} \X (Copies \X Nat) /\ Dialog(u)' = Dialog(u)
        BY <2>0 DEF Dialog, CopyTypes
      <4>2. /\ Len(posts') = Len(posts) + 1 /\ posts' # <<>>
            /\ \A i \in 1..Len(posts) : posts'[i] = posts[i]
            /\ posts'[Len(posts')] = <<"show", Dialog(u)>>
        BY <3>2, <4>1, Appended
      <4>3. reply[u] = "none"
        BY <2>2 DEF Prompt, AskingInv, Undecided
      <4>4. Len(posts) \in Nat
        BY DEF CopyTypes
      <4>5. CASE posts = <<>>
        <5>1. Len(posts') = 1
          BY <4>2, <4>5
        <5>2. posts'[1] = <<"show", Dialog(u)>>
          BY <4>2, <5>1
        <5> QED BY <1>0, <2>0, <3>2, <4>1, <4>2, <4>3, <4>5, <5>1, <5>2 DEF PostsInv
      <4>6. CASE posts # <<>>
        <5>1. Len(posts) > 0 /\ posts'[1] = posts[1] /\ posts[Len(posts)][1] = "hide"
          BY <3>2, <4>2, <4>4, <4>6 DEF PostsInv, CopyTypes
        <5>2. \A i \in 1..Len(posts') - 1 :
                IF posts'[i][1] = "show" THEN posts'[i + 1] = <<"hide", posts'[i][2]>> ELSE posts'[i + 1][1] = "show"
          <6> SUFFICES ASSUME NEW i \in 1..Len(posts)
                       PROVE  IF posts'[i][1] = "show" THEN posts'[i + 1] = <<"hide", posts'[i][2]>>
                              ELSE posts'[i + 1][1] = "show"
            BY <4>2, <4>4
          <6>1. CASE i = Len(posts)
            BY <4>2, <5>1, <6>1
          <6>2. CASE i < Len(posts)
            <7>1. i \in 1..Len(posts) - 1 /\ i + 1 \in 1..Len(posts)
              BY <4>4, <6>2
            <7> QED BY <4>2, <7>1 DEF PostsInv
          <6> QED BY <4>4, <6>1, <6>2
        <5> QED BY <1>0, <2>0, <3>2, <4>1, <4>2, <4>3, <4>6, <5>1, <5>2 DEF PostsInv
      <4> QED BY <4>5, <4>6
    <3> QED BY <2>2, <3>1, <3>2 DEF Prompt
  <2>3. CASE Answered(u)
    <3>1. prompter = u /\ reply[u] # "none" /\ prompter' = nobody /\ posts' = posts
      BY <2>3 DEF Answered, AskingInv
    <3>2. posts = <<>> /\ shown = {}
      BY <1>0, <3>1 DEF PostsInv
    <3> QED BY <2>0, <3>1, <3>2 DEF PostsInv
  <2>4. CASE TimesOut(u)
    <3>1. prompter = u /\ prompter' = nobody /\ posts' = Append(posts, <<"hide", Dialog(u)>>)
      BY <2>4 DEF TimesOut, AskingInv
    <3>2. <<"hide", Dialog(u)>> \in {"show", "hide"} \X (Copies \X Nat)
      BY DEF Dialog, CopyTypes
    <3>3. /\ Len(posts') = Len(posts) + 1 /\ posts' # <<>>
          /\ \A i \in 1..Len(posts) : posts'[i] = posts[i]
          /\ posts'[Len(posts')] = <<"hide", Dialog(u)>>
      BY <3>1, <3>2, Appended
    <3>4. Len(posts) \in Nat
      BY DEF CopyTypes
    <3>5. CASE posts = <<>>
      <4>1. Len(posts') = 1 /\ shown \subseteq {Dialog(u)}
        BY <1>0, <3>1, <3>3, <3>5 DEF PostsInv
      <4>2. posts'[1] = <<"hide", Dialog(u)>>
        BY <3>3, <4>1
      <4> QED BY <2>0, <3>1, <3>3, <3>5, <4>1, <4>2 DEF PostsInv
    <3>6. CASE posts # <<>>
      <4>1. Len(posts) > 0 /\ posts'[1] = posts[1] /\ posts[Len(posts)] = <<"show", Dialog(u)>>
        BY <1>0, <3>1, <3>3, <3>4, <3>6 DEF PostsInv, CopyTypes
      <4>2. \A i \in 1..Len(posts') - 1 :
              IF posts'[i][1] = "show" THEN posts'[i + 1] = <<"hide", posts'[i][2]>> ELSE posts'[i + 1][1] = "show"
        <5> SUFFICES ASSUME NEW i \in 1..Len(posts)
                     PROVE  IF posts'[i][1] = "show" THEN posts'[i + 1] = <<"hide", posts'[i][2]>>
                            ELSE posts'[i + 1][1] = "show"
          BY <3>3, <3>4
        <5>1. CASE i = Len(posts)
          BY <3>3, <4>1, <5>1
        <5>2. CASE i < Len(posts)
          <6>1. i \in 1..Len(posts) - 1 /\ i + 1 \in 1..Len(posts)
            BY <3>4, <5>2
          <6> QED BY <3>3, <6>1 DEF PostsInv
        <5> QED BY <3>4, <5>1, <5>2
      <4>3. posts[1][1] = "show" => shown = {}
        BY <1>0, <3>6 DEF PostsInv
      <4>4. posts[1][1] = "hide" => shown \subseteq {posts[1][2]}
        BY <1>0, <3>6 DEF PostsInv
      <4>5. prompter' = nobody /\ posts' # <<>> /\ posts'[Len(posts')][1] = "hide"
        BY <3>1, <3>3
      <4>6. shown' = shown
        BY <2>0
      <4>7. /\ posts'[1][1] = "show" => shown' = {}
            /\ posts'[1][1] = "hide" => shown' \subseteq {posts'[1][2]}
        BY <4>1, <4>3, <4>4, <4>6
      <4> QED BY <4>2, <4>5, <4>7 DEF PostsInv
    <3> QED BY <3>5, <3>6
  <2> QED BY <1>7, <2>1, <2>2, <2>3, <2>4 DEF Workers
<1> QED BY <1>1, <1>2, <1>3, <1>4, <1>5, <1>6, <1>7, Steps

LEMMA RoundStep == CopyTypes /\ AskingInv /\ RoundInv /\ [CopyNext]_copyVars => RoundInv'
<1> SUFFICES ASSUME CopyTypes, AskingInv, RoundInv, [CopyNext]_copyVars PROVE RoundInv'
  OBVIOUS
<1> DEFINE Dialogs == {"show", "hide"} \X (Copies \X Nat)
<1>0. \A i \in 1..Len(posts) : posts[i] \in Dialogs
  BY DEF CopyTypes
<1>1. CASE Queueings
  <2>1. PICK ts \in SUBSET Copies, allowed \in SUBSET Answers : Queued(ts, allowed)
    BY <1>1, QueueingIsQueued, Zenon
  <2>2. posts' = posts /\ queueings' = queueings + 1
    BY <2>1 DEF Queued
  <2>3. \A t \in Copies : IF t \in ts THEN round'[t] = queueings + 1
                          ELSE copy'[t] = copy[t] /\ round'[t] = round[t]
    BY <2>1, <2>2 DEF Queued
  <2>4. \A t \in Copies : round'[t] <= queueings'
    <3>1. queueings \in Nat /\ \A t \in Copies : round[t] \in Nat /\ round[t] <= queueings
      BY DEF RoundInv, CopyTypes
    <3> QED BY <2>2, <2>3, <3>1
  <2>5. ASSUME NEW i \in 1..Len(posts), posts[i][1] = "hide"
        PROVE  /\ posts[i][2][2] <= queueings + 1
               /\ \A t \in Copies : copy'[t] \in Fresh => posts[i][2] # Dialog(t)'
    <3>1. posts[i][2][2] \in Nat
      BY <1>0
    <3>2. posts[i][2][2] <= queueings /\ \A t \in Copies : copy[t] \in Fresh => posts[i][2] # Dialog(t)
      BY <2>5 DEF RoundInv
    <3>3. ASSUME NEW t \in Copies, copy'[t] \in Fresh, posts[i][2] = Dialog(t)' PROVE FALSE
      <4>1. posts[i][2] = <<t, round'[t]>>
        BY <3>3 DEF Dialog
      <4>2. CASE t \in ts
        BY <2>3, <3>1, <3>2, <4>1, <4>2 DEF CopyTypes
      <4>3. CASE t \notin ts
        BY <2>3, <3>2, <3>3, <4>1, <4>3 DEF Dialog
      <4> QED BY <4>2, <4>3
    <3> QED BY <3>1, <3>2, <3>3 DEF CopyTypes
  <2> QED BY <2>2, <2>4, <2>5 DEF RoundInv
<1>2. CASE RunPost
  <2>1. posts # <<>> /\ posts' = Tail(posts) /\ UNCHANGED <<copy, round, queueings>>
    BY <1>2 DEF RunPost
  <2>2. \A i \in 1..Len(posts') : i + 1 \in 1..Len(posts) /\ posts'[i] = posts[i + 1]
    BY <2>1 DEF CopyTypes
  <2> QED BY <2>1, <2>2 DEF RoundInv, Dialog
<1>3. CASE Crash
  BY <1>3 DEF Crash, RoundInv
<1>4. CASE UNCHANGED copyVars
  BY <1>4 DEF copyVars, RoundInv, Dialog
<1>5. ASSUME NEW u \in Copies, Stop(u) PROVE RoundInv'
  <2>1. UNCHANGED <<posts, round, queueings>> /\ \A t \in Copies : copy'[t] \in {copy[t], "stopped"}
    BY <1>5 DEF Stop, CopyTypes
  <2> QED BY <2>1 DEF RoundInv, Dialog, Fresh
<1>6. ASSUME NEW u \in Copies, Clicks(u) PROVE RoundInv'
  BY <1>6 DEF Clicks, Click, RoundInv, Dialog
<1>7. ASSUME NEW u \in Copies, Workers(u) PROVE RoundInv'
  <2>1. UNCHANGED <<round, queueings>> /\ \A t \in Copies : t # u => copy'[t] = copy[t]
    BY <1>7, WorkersApart
  <2>2. copy'[u] \in Fresh => copy[u] \in Fresh
    <3> USE DEF Goto, Finish, CopyTypes, Fresh
    <3>1. CASE Stage(u) \/ Check(u)
      BY <3>1 DEF Stage, Check
    <3>2. CASE Prompt(u) \/ Answered(u) \/ TimesOut(u)
      BY <3>2 DEF Prompt, Answered, TimesOut
    <3>3. CASE Decide(u) \/ Fetch(u) \/ Receive(u)
      BY <3>3 DEF Decide, Fetch, Receive
    <3>4. CASE Store(u)
      BY <3>4 DEF Store
    <3> QED BY <1>7, <3>1, <3>2, <3>3, <3>4 DEF Workers
  <2>3. CASE posts' = posts
    BY <2>1, <2>2, <2>3 DEF RoundInv, Dialog
  <2>4. CASE Prompt(u) /\ posts' = Append(posts, <<"show", Dialog(u)>>)
    <3>1. <<"show", Dialog(u)>> \in Dialogs
      BY DEF Dialog, CopyTypes
    <3>2. /\ Len(posts') = Len(posts) + 1
          /\ \A i \in 1..Len(posts) : posts'[i] = posts[i]
          /\ posts'[Len(posts')] = <<"show", Dialog(u)>>
      BY <2>4, <3>1, Appended
    <3>3. \A i \in 1..Len(posts') : posts'[i][1] = "hide" => i \in 1..Len(posts)
      BY <3>2 DEF CopyTypes
    <3>4. \A i \in 1..Len(posts') : posts'[i][1] = "hide" => i \in 1..Len(posts) /\ posts'[i] = posts[i]
      BY <3>2, <3>3
    <3>5. \A t \in Copies : copy'[t] \in Fresh => copy[t] \in Fresh
      BY <2>1, <2>2
    <3>6. \A t \in Copies : Dialog(t)' = Dialog(t)
      BY <2>1 DEF Dialog
    <3> QED BY <2>1, <3>4, <3>5, <3>6 DEF RoundInv
  <2>5. CASE TimesOut(u)
    <3>1. <<"hide", Dialog(u)>> \in Dialogs
      BY DEF Dialog, CopyTypes
    <3>2. posts' = Append(posts, <<"hide", Dialog(u)>>) /\ copy'[u] = "decided"
      BY <2>5 DEF TimesOut, Goto, CopyTypes
    <3>3. /\ Len(posts') = Len(posts) + 1
          /\ \A i \in 1..Len(posts) : posts'[i] = posts[i]
          /\ posts'[Len(posts')] = <<"hide", <<u, round[u]>>>>
      BY <3>1, <3>2, Appended DEF Dialog
    <3>4. \A t \in Copies : copy'[t] \in Fresh => t # u
      BY <3>2 DEF Fresh
    <3>5. ASSUME NEW i \in 1..Len(posts'), posts'[i][1] = "hide"
          PROVE  /\ posts'[i][2][2] <= queueings
                 /\ \A t \in Copies : copy'[t] \in Fresh => posts'[i][2] # <<t, round[t]>>
      <4>1. CASE i \in 1..Len(posts)
        BY <2>1, <2>2, <3>3, <3>5, <4>1 DEF RoundInv, Dialog
      <4>2. CASE i = Len(posts')
        <5>1. posts'[i][2] = <<u, round[u]>>
          BY <3>3, <4>2
        <5> QED BY <3>4, <5>1 DEF RoundInv
      <4> QED BY <3>3, <4>1, <4>2 DEF CopyTypes
    <3> QED BY <2>1, <3>5 DEF RoundInv, Dialog
  <2> QED BY <1>7, <2>3, <2>4, <2>5 DEF Workers, Stage, Check, Prompt, Answered, Decide, Fetch, Receive, Store,
             promptVars
<1> QED BY <1>1, <1>2, <1>3, <1>4, <1>5, <1>6, <1>7, Steps

(* Two dialogs are never on screen at once, although a dialog outlives the  *)
(* wait of its worker and the lock is released before it is hidden          *)
(* ("Serialize so two tasks never stack two dialogs", main.rs).             *)
THEOREM DialogsNeverStack == CopySpec => []OneDialog
<1> DEFINE Inv == CopyTypes /\ DialogInv
<1>1. CopyInit => Inv
  BY CopyTypesInit, DialogInit
<1>2. Inv /\ [CopyNext]_copyVars => Inv'
  BY CopyTypesStep, AskingStep, PostsStep, RoundStep DEF DialogInv
<1>3. Inv => OneDialog
  <2> SUFFICES ASSUME Inv PROVE OneDialog
    OBVIOUS
  <2>1. \E d : shown \subseteq {d}
    <3>1. CASE posts = <<>>
      BY <3>1 DEF DialogInv, PostsInv
    <3>2. CASE posts # <<>>
      <4>1. posts[1] \in {"show", "hide"} \X (Copies \X Nat)
        BY <3>2 DEF CopyTypes
      <4>2. posts[1][1] \in {"show", "hide"}
        BY <4>1
      <4> QED BY <3>2, <4>2 DEF DialogInv, PostsInv
    <3> QED BY <3>1, <3>2
  <2>2. PICK d : shown \subseteq {d}
    BY <2>1
  <2>3. IsFiniteSet({d}) /\ Cardinality({d}) = 1
    BY FS_Singleton
  <2> QED BY <2>2, <2>3, FS_Subset DEF OneDialog
<1> QED BY <1>1, <1>2, <1>3, PTL DEF CopySpec

-----------------------------------------------------------------------------
(* Every dialog that is shown, or will be, is of a queueing there has been. *)
DialogsThereAre == Copies \X (1..MaxQueueings)
CopyBounds ==
  /\ queueings <= MaxQueueings
  /\ \A t \in Copies : round[t] <= queueings /\ (copy[t] # "idle" => round[t] # 0)
  /\ \A i \in DOMAIN posts : posts[i][2] \in DialogsThereAre
  /\ shown \subseteq DialogsThereAre

LEMMA CopyBoundsInit == CopyInit => CopyBounds
BY CopiesAssumption DEF CopyInit, CopyBounds

LEMMA CopyBoundsSuffice == CopyTypes /\ CopyBounds => CopyTypeOK
<1> SUFFICES ASSUME CopyTypes, CopyBounds PROVE CopyTypeOK
  OBVIOUS
<1>1. \A t \in Copies : round[t] \in 0..MaxQueueings
  BY CopiesAssumption DEF CopyTypes, CopyBounds
<1>2. round \in [Copies -> 0..MaxQueueings]
  BY <1>1 DEF CopyTypes
<1>3. shown \subseteq Copies \X (1..MaxQueueings)
  BY DEF CopyBounds, DialogsThereAre
<1> QED BY <1>2, <1>3 DEF CopyTypes, CopyTypeOK, Working

(* The dialog of a task that was queued is one of them. *)
LEMMA DialogIsThere ==
  ASSUME CopyTypes, CopyBounds, NEW t \in Copies, copy[t] # "idle"
  PROVE  Dialog(t) \in DialogsThereAre
<1>1. round[t] \in Nat /\ round[t] # 0 /\ round[t] <= queueings /\ queueings <= MaxQueueings
      /\ queueings \in Nat
  BY DEF CopyTypes, CopyBounds
<1>2. round[t] \in 1..MaxQueueings
  BY <1>1, CopiesAssumption
<1> QED BY <1>2 DEF Dialog, DialogsThereAre

(* One more dialog is posted. *)
LEMMA PostsStayThere ==
  ASSUME CopyTypes, CopyBounds, NEW d \in DialogsThereAre, NEW how \in {"show", "hide"},
         posts' = Append(posts, <<how, d>>)
  PROVE  \A i \in DOMAIN posts' : posts'[i][2] \in DialogsThereAre
<1> DEFINE D == {"show", "hide"} \X (Copies \X Nat)
<1>1. <<how, d>> \in D
  BY DEF DialogsThereAre
<1>2. posts \in Seq(D)
  BY DEF CopyTypes
<1>3. <<how, d>>[2] = d
  OBVIOUS
<1> HIDE DEF D
<1>4. DOMAIN posts' = 1..(Len(posts) + 1) /\ DOMAIN posts = 1..Len(posts)
  BY <1>1, <1>2
<1>5. \A i \in 1..Len(posts) : posts'[i] = posts[i]
  BY <1>1, <1>2
<1>6. posts'[Len(posts) + 1] = <<how, d>>
  BY <1>1, <1>2
<1>7. \A i \in 1..(Len(posts) + 1) : i \in 1..Len(posts) \/ i = Len(posts) + 1
  BY <1>2
<1> QED BY <1>3, <1>4, <1>5, <1>6, <1>7 DEF CopyBounds

LEMMA CopyBoundsStep == CopyTypes /\ CopyBounds /\ [CopyNext]_copyVars => CopyBounds'
<1> SUFFICES ASSUME CopyTypes, CopyBounds, [CopyNext]_copyVars PROVE CopyBounds'
  OBVIOUS
<1>1. CASE Queueings
  <2>1. PICK ts \in SUBSET Copies, allowed \in SUBSET Answers : Queued(ts, allowed)
    BY <1>1, QueueingIsQueued, Zenon
  <2>2. queueings' = queueings + 1 /\ queueings < MaxQueueings /\ UNCHANGED <<posts, shown>>
    BY <2>1 DEF Queued
  <2>3. \A t \in Copies : IF t \in ts THEN round'[t] = queueings'
                          ELSE copy'[t] = copy[t] /\ round'[t] = round[t]
    BY <2>1 DEF Queued
  <2>4. queueings \in Nat /\ \A t \in Copies : round[t] \in Nat
    BY DEF CopyTypes
  <2>5. queueings' <= MaxQueueings
    BY <2>2, <2>4, CopiesAssumption
  <2>6. \A t \in Copies : round'[t] <= queueings' /\ (copy'[t] # "idle" => round'[t] # 0)
    BY <2>2, <2>3, <2>4 DEF CopyBounds
  <2> QED BY <2>2, <2>5, <2>6 DEF CopyBounds
<1>2. CASE RunPost
  <2>1. posts # <<>> /\ posts' = Tail(posts) /\ UNCHANGED <<copy, round, queueings>>
        /\ shown' \in {shown \cup {posts[1][2]}, shown \ {posts[1][2]}}
    BY <1>2 DEF RunPost, CopyTypes
  <2>2. 1 \in DOMAIN posts
    BY <2>1 DEF CopyTypes
  <2>3. \A i \in DOMAIN posts' : i + 1 \in DOMAIN posts /\ posts'[i] = posts[i + 1]
    BY <2>1 DEF CopyTypes
  <2> QED BY <2>1, <2>2, <2>3 DEF CopyBounds
<1>3. CASE Crash
  <2>1. posts' = <<>> /\ shown' = {} /\ UNCHANGED <<round, queueings>>
        /\ \A t \in Copies : copy'[t] = "idle"
    BY <1>3 DEF Crash
  <2> QED BY <2>1 DEF CopyBounds
<1>4. CASE UNCHANGED copyVars
  BY <1>4 DEF copyVars, CopyBounds
<1>5. ASSUME NEW u \in Copies, Stop(u) PROVE CopyBounds'
  <2>1. UNCHANGED <<posts, shown, round, queueings>>
        /\ \A t \in Copies : copy'[t] = copy[t] \/ copy[t] # "idle"
    BY <1>5 DEF Stop, CopyTypes, Settled
  <2> QED BY <2>1 DEF CopyBounds
<1>6. ASSUME NEW u \in Copies, Clicks(u) PROVE CopyBounds'
  <2>1. UNCHANGED <<posts, round, queueings, copy>> /\ shown' \subseteq shown
    BY <1>6 DEF Clicks, Click
  <2> QED BY <2>1 DEF CopyBounds
<1>7. ASSUME NEW u \in Copies, Workers(u) PROVE CopyBounds'
  <2>1. UNCHANGED <<shown, round, queueings>> /\ \A t \in Copies \ {u} : copy'[t] = copy[t]
    BY <1>7, WorkersApart
  <2>2. copy[u] # "idle"
    BY <1>7 DEF Workers, Stage, Check, Prompt, Answered, TimesOut, Decide, Fetch, Receive, Store
  <2>3. Dialog(u) \in DialogsThereAre
    BY <2>2, DialogIsThere
  <2>4. \/ posts' = posts
        \/ posts' = Append(posts, <<"show", Dialog(u)>>)
        \/ posts' = Append(posts, <<"hide", Dialog(u)>>)
    BY <1>7, Zenon DEF Workers, Stage, Check, Prompt, Answered, TimesOut, Decide, Fetch, Receive,
                       Store, promptVars
  <2>5. \A i \in DOMAIN posts' : posts'[i][2] \in DialogsThereAre
    <3>1. CASE posts' = posts
      BY <3>1 DEF CopyBounds
    <3>2. CASE posts' = Append(posts, <<"show", Dialog(u)>>)
      BY <3>2, <2>3, PostsStayThere
    <3>3. CASE posts' = Append(posts, <<"hide", Dialog(u)>>)
      BY <3>3, <2>3, PostsStayThere
    <3> QED BY <2>4, <3>1, <3>2, <3>3
  <2> QED BY <2>1, <2>2, <2>5 DEF CopyBounds
<1> QED BY <1>1, <1>2, <1>3, <1>4, <1>5, <1>6, <1>7, Steps

(* The variables of the copies keep their types.  (transfer.rs, main.rs) *)
THEOREM CopiesKeepTypes == CopySpec => []CopyTypeOK
<1>1. CopyInit => CopyTypes /\ CopyBounds
  BY CopyTypesInit, CopyBoundsInit
<1>2. CopyTypes /\ CopyBounds /\ [CopyNext]_copyVars => (CopyTypes /\ CopyBounds)'
  BY CopyTypesStep, CopyBoundsStep
<1> QED BY <1>1, <1>2, CopyBoundsSuffice, PTL DEF CopySpec

-----------------------------------------------------------------------------
(* The dialog of the queue.                                                *)

Notices == {"changed", "completed"}
IsDialog(d) == d = [up |-> d.up, filter |-> d.filter, mode |-> d.mode,
                    rows |-> d.rows, offers |-> d.offers]
IsEntry(e) == e = [made |-> e.made, prev |-> e.prev, selected |-> e.selected]

DialogTypes ==
  /\ taskPhase \in [QueueTasks -> Lifecycle!Phases]
  /\ told \in [QueueTasks -> Nat]
  /\ inbox \in Seq(Notices)
  /\ seenNotified \subseteq QueueTasks /\ witnessed \subseteq QueueTasks
  /\ IsDialog(queueDialog) /\ queueDialog.up \in BOOLEAN
  /\ IsEntry(entry) /\ entry.made \in BOOLEAN

ToldInv ==
  \A t \in QueueTasks :
    /\ told[t] <= 1
    /\ told[t] = 1 => taskPhase[t] \in {"Completed", "Gone"}
    /\ t \in seenNotified <=> told[t] = 1 /\ taskPhase[t] = "Completed"

Coming == \E i \in DOMAIN inbox : inbox[i] = "completed"
WitnessInv ==
  /\ witnessed # {} => queueDialog.up
  /\ \A t \in witnessed : /\ taskPhase[t] \in {"Completed", "Gone"}
                          /\ told[t] = 1 \/ taskPhase[t] = "Gone" \/ Coming

UiInv ==
  /\ queueDialog.up => clearMode = queueDialog.mode
  /\ chosenUi.kept =>
       /\ \/ savedUi = {[mode |-> chosenUi.mode, filter |-> chosenUi.filter]}
          \/ savedUi = {} /\ chosenUi.mode = DefaultMode /\ chosenUi.filter = 0
       /\ queueDialog.up => queueDialog.filter = chosenUi.filter /\ queueDialog.mode = chosenUi.mode

RowsInv == queueDialog.up => entry.made /\ entry.prev \subseteq queueDialog.rows

ActingInv ==
  /\ acting = [op |-> acting.op, ids |-> acting.ids]
  /\ acting.ids # {} => acting.op \in Ops

DialogInv0 == DialogTypes /\ ToldInv /\ WitnessInv /\ UiInv /\ RowsInv

-----------------------------------------------------------------------------
(* What the operators return. *)

LEMMA RefreshedIs ==
  ASSUME NEW d, NEW e, NEW mode, IsDialog(d), IsEntry(e)
  PROVE  LET r == Refreshed(d, e, mode)
             shows == RowsOf(PhasesWithout(AutoCleared(mode)), d.filter, e.selected)
         IN /\ r.gone = AutoCleared(mode) /\ r.phases = PhasesWithout(AutoCleared(mode))
            /\ IsDialog(r.dialog)
            /\ r.dialog.up = d.up /\ r.dialog.filter = d.filter /\ r.dialog.mode = d.mode
            /\ r.dialog.rows = IF e.made /\ shows = e.prev THEN d.rows ELSE shows
            /\ IsEntry(r.entry) /\ r.entry.made = e.made /\ r.entry.selected = e.selected
            /\ r.entry.prev = IF e.made THEN shows ELSE e.prev
<1> DEFINE shows == RowsOf(PhasesWithout(AutoCleared(mode)), d.filter, e.selected)
           o == Offers(PhasesWithout(AutoCleared(mode)), e.selected)
           r == Refreshed(d, e, mode)
<1>1. /\ r.gone = AutoCleared(mode) /\ r.phases = PhasesWithout(AutoCleared(mode))
      /\ r.dialog = [d EXCEPT !.offers = o, !.rows = IF e.made /\ shows = e.prev THEN @ ELSE shows]
      /\ r.entry = IF e.made THEN [e EXCEPT !.prev = shows] ELSE e
  BY DEF Refreshed
<1> HIDE DEF shows, o, r
<1>2. r.dialog = [up |-> d.up, filter |-> d.filter, mode |-> d.mode,
                  rows |-> IF e.made /\ shows = e.prev THEN d.rows ELSE shows, offers |-> o]
  BY <1>1 DEF IsDialog
<1>3. r.entry = [made |-> e.made, prev |-> IF e.made THEN shows ELSE e.prev, selected |-> e.selected]
  BY <1>1 DEF IsEntry
<1> QED BY <1>1, <1>2, <1>3 DEF IsDialog, IsEntry, shows, o, r

LEMMA LoadedIs ==
  /\ \A u : savedUi = {u} => LoadedUi = u
  /\ savedUi = {} => LoadedUi = [mode |-> DefaultMode, filter |-> 0]
<1>1. ASSUME NEW u, savedUi = {u} PROVE LoadedUi = u
  <2>1. \A v : v \in savedUi <=> v = u
    BY <1>1
  <2> QED BY <2>1 DEF LoadedUi
<1> QED BY <1>1 DEF LoadedUi

-----------------------------------------------------------------------------
(* Steps that announce and end nothing: records only go, events only come. *)

Fading ==
  /\ taskPhase' \in [QueueTasks -> Lifecycle!Phases]
  /\ \A t \in QueueTasks :
       /\ taskPhase[t] = "Completed" => taskPhase'[t] \in {"Completed", "Gone"}
       /\ taskPhase[t] = "Gone" => taskPhase'[t] = "Gone"
       /\ taskPhase'[t] = "Completed" => taskPhase[t] = "Completed"
Pruning == \A t \in QueueTasks : t \in seenNotified' <=> t \in seenNotified /\ taskPhase'[t] # "Gone"
Growing == inbox' = inbox \/ inbox' = inbox \o <<"changed">>

LEMMA PruneIs ==
  ASSUME DialogTypes, ToldInv, Fading, Prune
  PROVE  Pruning /\ seenNotified' \subseteq QueueTasks
BY DEF DialogTypes, ToldInv, Fading, Prune, Pruning, Listed

LEMMA Extended ==
  ASSUME NEW s \in Seq(Notices), NEW n \in Seq(Notices)
  PROVE  /\ s \o n \in Seq(Notices)
         /\ \A i \in DOMAIN s : i \in DOMAIN (s \o n) /\ (s \o n)[i] = s[i]
         /\ \A j \in DOMAIN n : Len(s) + j \in DOMAIN (s \o n) /\ (s \o n)[Len(s) + j] = n[j]
OBVIOUS

LEMMA Events ==
  /\ <<"changed">> \in Seq(Notices)
  /\ <<"changed", "completed">> \in Seq(Notices)
  /\ 2 \in DOMAIN <<"changed", "completed">> /\ <<"changed", "completed">>[2] = "completed"
BY DEF Notices

LEMMA Grown ==
  ASSUME DialogTypes, Growing
  PROVE  inbox' \in Seq(Notices) /\ (Coming => Coming')
<1>1. <<"changed">> \in Seq(Notices)
  BY DEF Notices
<1>2. CASE inbox' = inbox
  BY <1>2 DEF DialogTypes, Coming
<1>3. CASE inbox' = inbox \o <<"changed">>
  <2>1. inbox' \in Seq(Notices)
    BY <1>1, <1>3 DEF DialogTypes
  <2>2. \A i \in DOMAIN inbox : i \in DOMAIN inbox' /\ inbox'[i] = inbox[i]
    BY <1>3 DEF DialogTypes
  <2> QED BY <2>1, <2>2 DEF Coming
<1> QED BY <1>2, <1>3 DEF Growing

LEMMA Bystander ==
  ASSUME DialogTypes, ToldInv, WitnessInv, Fading, Pruning, Growing,
         told' = told, witnessed' = witnessed, queueDialog'.up = queueDialog.up
  PROVE  ToldInv' /\ WitnessInv'
<1>1. ToldInv'
  BY DEF DialogTypes, ToldInv, Fading, Pruning
<1>2. Coming => Coming'
  BY Grown
<1>3. WitnessInv'
  BY <1>2 DEF DialogTypes, WitnessInv, Fading
<1> QED BY <1>1, <1>3

(* A refresh clears and shows, and keeps the dialog's settings. *)
LEMMA ShowIs ==
  ASSUME DialogTypes, NEW d, NEW e, NEW mode, NEW box, IsDialog(d), IsEntry(e),
         Show(Refreshed(d, e, mode), box)
  PROVE  /\ Fading
         /\ inbox' = box \/ inbox' = Announced(box, <<"changed">>)
         /\ IsDialog(queueDialog') /\ queueDialog'.up = d.up
         /\ queueDialog'.filter = d.filter /\ queueDialog'.mode = d.mode
         /\ IsEntry(entry') /\ entry'.made = e.made
         /\ e.made /\ e.prev \subseteq d.rows => entry'.prev \subseteq queueDialog'.rows
<1> DEFINE r == Refreshed(d, e, mode)
           shows == RowsOf(PhasesWithout(AutoCleared(mode)), d.filter, e.selected)
<1>1. /\ r.gone = AutoCleared(mode) /\ r.phases = PhasesWithout(AutoCleared(mode))
      /\ IsDialog(r.dialog)
      /\ r.dialog.up = d.up /\ r.dialog.filter = d.filter /\ r.dialog.mode = d.mode
      /\ r.dialog.rows = IF e.made /\ shows = e.prev THEN d.rows ELSE shows
      /\ IsEntry(r.entry) /\ r.entry.made = e.made
      /\ r.entry.prev = IF e.made THEN shows ELSE e.prev
  BY RefreshedIs
<1>2. /\ taskPhase' = r.phases /\ queueDialog' = r.dialog /\ entry' = r.entry
      /\ inbox' = IF r.gone = {} THEN box ELSE Announced(box, <<"changed">>)
  BY DEF Show
<1> HIDE DEF r, shows
<1>3. Fading
  BY <1>1, <1>2 DEF DialogTypes, Fading, PhasesWithout, AutoCleared, Lifecycle!Phases
<1> QED BY <1>1, <1>2, <1>3

(* The buttons change records that are not completed, or remove some. *)
LEMMA ChangeIs ==
  ASSUME DialogTypes, ToldInv, NEW S, NEW p \in Lifecycle!Phases, Change(S, p),
         p = "Gone" \/ (p # "Completed" /\ \A t \in S : taskPhase[t] \notin {"Completed", "Gone"})
  PROVE  /\ Fading /\ Pruning /\ seenNotified' \subseteq QueueTasks /\ Growing
         /\ UNCHANGED <<clearMode, queueDialog, entry, savedUi, told, witnessed, chosenUi>>
<1>1. Fading
  BY DEF DialogTypes, Change, Fading, Lifecycle!Phases
<1>2. Pruning /\ seenNotified' \subseteq QueueTasks
  BY <1>1, PruneIs DEF Change
<1>3. Growing
  BY DEF Change, Growing, Announced
<1> QED BY <1>1, <1>2, <1>3 DEF Change

LEMMA EligibleStates ==
  /\ \A op \in Ops : /\ "Completed" \notin Eligible(op) /\ "Gone" \notin Eligible(op)
                      /\ Outcome(op) \in Lifecycle!Phases /\ Outcome(op) # "Completed"
  /\ "Active" \in Lifecycle!Phases /\ "Gone" \in Lifecycle!Phases /\ "Cancelled" \in Lifecycle!Phases
BY DEF Ops, Eligible, Outcome, Lifecycle!Phases, Lifecycle!Live, Lifecycle!Terminal

-----------------------------------------------------------------------------
(* One lemma per kind of step. *)

LEMMA Calm ==
  ASSUME DialogInv0, Fading, Pruning, seenNotified' \subseteq QueueTasks, Growing,
         UNCHANGED <<clearMode, queueDialog, entry, savedUi, told, witnessed, chosenUi>>
  PROVE  DialogInv0'
<1>1. ToldInv' /\ WitnessInv'
  BY Bystander DEF DialogInv0
<1>2. DialogTypes'
  BY Grown DEF DialogInv0, DialogTypes, Fading, IsDialog, IsEntry
<1>3. UiInv' /\ RowsInv'
  BY DEF DialogInv0, UiInv, RowsInv
<1> QED BY <1>1, <1>2, <1>3 DEF DialogInv0

LEMMA Refreshing ==
  ASSUME DialogInv0, NEW d, NEW e, queueDialog.up, IsDialog(d), IsEntry(e),
         d.up, d.rows = queueDialog.rows, e.made = entry.made, e.prev = entry.prev,
         Show(Refreshed(d, e, clearMode), inbox), Prune,
         told' = told, witnessed' = witnessed
  PROVE  /\ DialogTypes' /\ ToldInv' /\ WitnessInv' /\ RowsInv'
         /\ queueDialog'.filter = d.filter /\ queueDialog'.mode = d.mode
<1>1. /\ Fading
      /\ inbox' = inbox \/ inbox' = Announced(inbox, <<"changed">>)
      /\ IsDialog(queueDialog') /\ queueDialog'.up = d.up
      /\ queueDialog'.filter = d.filter /\ queueDialog'.mode = d.mode
      /\ IsEntry(entry') /\ entry'.made = e.made
      /\ e.made /\ e.prev \subseteq d.rows => entry'.prev \subseteq queueDialog'.rows
  BY ShowIs DEF DialogInv0
<1>2. Pruning /\ seenNotified' \subseteq QueueTasks
  BY <1>1, PruneIs DEF DialogInv0
<1>3. Growing
  BY <1>1 DEF Growing, Announced
<1>4. d.up = TRUE /\ queueDialog.up = TRUE
  BY DEF DialogInv0, DialogTypes, IsDialog
<1>5. ToldInv' /\ WitnessInv'
  BY <1>1, <1>2, <1>3, <1>4, Bystander DEF DialogInv0
<1>6. DialogTypes'
  BY <1>1, <1>2, <1>3, <1>4, Grown DEF DialogInv0, DialogTypes, Fading
<1>7. RowsInv'
  BY <1>1, <1>4 DEF DialogInv0, RowsInv
<1> QED BY <1>1, <1>5, <1>6, <1>7

(* Workers: the end of a task comes with both its events. *)
LEMMA WorkersKeep == ASSUME DialogInv0, NEW t \in QueueTasks, WorkerSteps(t) PROVE DialogInv0'
<1> DEFINE done == taskPhase'[t] = "Completed"
<1>1. /\ taskPhase' \in [QueueTasks -> Lifecycle!Phases]
      /\ \A u \in QueueTasks : u # t => taskPhase'[u] = taskPhase[u]
      /\ taskPhase[t] = "Gone" => taskPhase'[t] = "Gone"
      /\ taskPhase[t] = "Completed" => taskPhase'[t] = "Completed"
  BY DEF WorkerSteps, Lifecycle!Launch, Lifecycle!Settle, Lifecycle!Become, DialogInv0, DialogTypes,
         Lifecycle!Phases, Lifecycle!Live, Lifecycle!Terminal
<1>2. /\ inbox' = Announced(inbox, IF done THEN <<"changed", "completed">> ELSE <<"changed">>)
      /\ witnessed' = IF done /\ queueDialog.up THEN witnessed \cup {t} ELSE witnessed
      /\ UNCHANGED <<clearMode, seenNotified, queueDialog, entry, savedUi, told, chosenUi>>
  BY DEF WorkerSteps
<1>3. ToldInv'
  BY <1>1, <1>2 DEF DialogInv0, DialogTypes, ToldInv
<1>4. /\ inbox' \in Seq(Notices)
      /\ Coming => Coming'
      /\ done /\ queueDialog.up => Coming'
  <2> DEFINE news == IF done THEN <<"changed", "completed">> ELSE <<"changed">>
  <2>1. news \in Seq(Notices) /\ (done => 2 \in DOMAIN news /\ news[2] = "completed")
    BY Events
  <2> HIDE DEF news, done
  <2>2. inbox \in Seq(Notices)
    BY DEF DialogInv0, DialogTypes
  <2>3. CASE inbox' = inbox \o news
    <3>1. /\ inbox' \in Seq(Notices)
          /\ \A i \in DOMAIN inbox : i \in DOMAIN inbox' /\ inbox'[i] = inbox[i]
          /\ \A j \in DOMAIN news : Len(inbox) + j \in DOMAIN inbox' /\ inbox'[Len(inbox) + j] = news[j]
      BY <2>1, <2>2, <2>3, Extended
    <3>2. done => Coming'
      <4> SUFFICES ASSUME done PROVE Coming'
        OBVIOUS
      <4>1. Len(inbox) + 2 \in DOMAIN inbox' /\ inbox'[Len(inbox) + 2] = "completed"
        BY <2>1, <3>1
      <4> QED BY <4>1 DEF Coming
    <3>3. Coming => Coming'
      BY <3>1 DEF Coming
    <3> QED BY <3>1, <3>2, <3>3
  <2>4. inbox' = IF queueDialog.up THEN inbox \o news ELSE inbox
    BY <1>2 DEF Announced, news
  <2>5. CASE ~queueDialog.up
    BY <2>2, <2>4, <2>5 DEF Coming
  <2> QED BY <2>3, <2>4, <2>5
<1>5. WitnessInv'
  BY <1>1, <1>2, <1>4 DEF DialogInv0, DialogTypes, WitnessInv
<1>6. DialogTypes'
  BY <1>1, <1>2, <1>4 DEF DialogInv0, DialogTypes, IsDialog, IsEntry
<1>7. UiInv' /\ RowsInv'
  BY <1>2 DEF DialogInv0, UiInv, RowsInv
<1> QED BY <1>3, <1>5, <1>6, <1>7 DEF DialogInv0

(* The pump announces what has completed and was not announced before. *)
LEMMA PumpKeeps == ASSUME DialogInv0, PumpEvent PROVE DialogInv0'
<1> DEFINE fresh == IF Head(inbox) = "completed" THEN NewlyCompleted(taskPhase') ELSE {}
<1>1. /\ queueDialog.up = TRUE /\ inbox # <<>>
      /\ Show(Refreshed(queueDialog, entry, clearMode), Tail(inbox))
      /\ told' = [t \in QueueTasks |-> IF t \in fresh THEN told[t] + 1 ELSE told[t]]
      /\ seenNotified' = (seenNotified \cup fresh) \cap Listed(taskPhase')
      /\ UNCHANGED <<clearMode, savedUi, witnessed, chosenUi>>
  BY DEF PumpEvent, DialogInv0, DialogTypes
<1>2. /\ Fading
      /\ inbox' = Tail(inbox) \/ inbox' = Announced(Tail(inbox), <<"changed">>)
      /\ IsDialog(queueDialog') /\ queueDialog'.up = queueDialog.up
      /\ queueDialog'.filter = queueDialog.filter /\ queueDialog'.mode = queueDialog.mode
      /\ IsEntry(entry') /\ entry'.made = entry.made
      /\ entry.made /\ entry.prev \subseteq queueDialog.rows => entry'.prev \subseteq queueDialog'.rows
  BY <1>1, ShowIs DEF DialogInv0, DialogTypes
<1>3. \A t \in QueueTasks : t \in fresh <=>
        Head(inbox) = "completed" /\ taskPhase'[t] = "Completed" /\ t \notin seenNotified
  BY DEF NewlyCompleted
<1>4. fresh \subseteq QueueTasks
  BY DEF NewlyCompleted
<1> HIDE DEF fresh
<1>5. ToldInv'
  <2> SUFFICES ASSUME NEW t \in QueueTasks
      PROVE  /\ told'[t] <= 1
             /\ told'[t] = 1 => taskPhase'[t] \in {"Completed", "Gone"}
             /\ t \in seenNotified' <=> told'[t] = 1 /\ taskPhase'[t] = "Completed"
    BY DEF ToldInv
  <2>1. told[t] \in Nat /\ told'[t] = IF t \in fresh THEN told[t] + 1 ELSE told[t]
    BY <1>1 DEF DialogInv0, DialogTypes
  <2>2. t \in Listed(taskPhase') <=> taskPhase'[t] \notin {"New", "Gone"}
    BY DEF Listed
  <2>3. t \in seenNotified' <=> (t \in seenNotified \/ t \in fresh) /\ taskPhase'[t] \notin {"New", "Gone"}
    BY <1>1, <2>2
  <2>4. CASE t \in fresh
    BY <1>2, <1>3, <2>1, <2>3, <2>4 DEF DialogInv0, ToldInv, Fading
  <2>5. CASE t \notin fresh
    BY <1>2, <1>3, <2>1, <2>3, <2>5 DEF DialogInv0, ToldInv, Fading
  <2> QED BY <2>4, <2>5
<1>6. /\ inbox' \in Seq(Notices)
      /\ Coming /\ Head(inbox) # "completed" => Coming'
  <2>1. /\ Tail(inbox) \in Seq(Notices)
        /\ \A i \in DOMAIN inbox : i # 1 => i - 1 \in DOMAIN Tail(inbox) /\ Tail(inbox)[i - 1] = inbox[i]
        /\ Head(inbox) = inbox[1]
    BY <1>1 DEF DialogInv0, DialogTypes
  <2>2. <<"changed">> \in Seq(Notices)
    BY Events
  <2>3. inbox' = Tail(inbox) \/ inbox' = Tail(inbox) \o <<"changed">>
    BY <1>2 DEF Announced
  <2>4. \A i \in DOMAIN Tail(inbox) : i \in DOMAIN inbox' /\ inbox'[i] = Tail(inbox)[i]
    BY <2>1, <2>2, <2>3, Extended
  <2>5. inbox' \in Seq(Notices)
    BY <2>1, <2>2, <2>3, Extended
  <2> QED BY <2>1, <2>4, <2>5 DEF Coming
<1>7. WitnessInv'
  <2> SUFFICES ASSUME NEW t \in witnessed
      PROVE  /\ taskPhase'[t] \in {"Completed", "Gone"}
             /\ told'[t] = 1 \/ taskPhase'[t] = "Gone" \/ Coming'
    BY <1>1, <1>2 DEF WitnessInv
  <2>1. /\ t \in QueueTasks /\ taskPhase[t] \in {"Completed", "Gone"}
        /\ told[t] = 1 \/ taskPhase[t] = "Gone" \/ Coming
    BY DEF DialogInv0, DialogTypes, WitnessInv
  <2>2. taskPhase'[t] \in {"Completed", "Gone"}
    BY <1>2, <2>1 DEF Fading
  <2>3. told'[t] = IF t \in fresh THEN told[t] + 1 ELSE told[t]
    BY <1>1, <2>1
  <2>4. told[t] \in Nat /\ told[t] <= 1 /\ (t \in seenNotified <=> told[t] = 1 /\ taskPhase[t] = "Completed")
    BY <2>1 DEF DialogInv0, DialogTypes, ToldInv
  <2>5. CASE t \in fresh
    <3>1. told[t] = 0
      BY <1>2, <1>3, <2>1, <2>4, <2>5 DEF Fading
    <3> QED BY <2>2, <2>3, <2>5, <3>1
  <2>6. CASE t \notin fresh
    BY <1>2, <1>3, <1>6, <2>1, <2>2, <2>3, <2>4, <2>6 DEF Fading
  <2> QED BY <2>5, <2>6
<1>8. DialogTypes'
  <2>1. told' \in [QueueTasks -> Nat]
    BY <1>1 DEF DialogInv0, DialogTypes
  <2>2. seenNotified' \subseteq QueueTasks
    BY <1>1 DEF Listed
  <2> QED BY <1>1, <1>2, <1>6, <2>1, <2>2 DEF DialogInv0, DialogTypes, Fading
<1>9. UiInv' /\ RowsInv'
  BY <1>1, <1>2 DEF DialogInv0, UiInv, RowsInv
<1> QED BY <1>5, <1>7, <1>8, <1>9 DEF DialogInv0
(* What the user has done to the records of the queue. *)
LEMMA ButtonsKeep ==
  ASSUME DialogInv0, ActingInv,
         \/ \E t \in QueueTasks : ActOnTask(t) \/ CancelRow(t)
         \/ \E op \in Ops : ActOnAll(op)
         \/ \E P \in {{"Completed"}, {"Failed", "Cancelled"}, Finished} : ClearTasks(P)
  PROVE  DialogInv0'
<1>1. \A S : S # {} /\ (\E p \in Lifecycle!Phases : Change(S, p)
                  /\ (p = "Gone" \/ (p # "Completed"
                       /\ \A t \in S : taskPhase[t] \notin {"Completed", "Gone"})))
          => DialogInv0'
  BY ChangeIs, Calm DEF DialogInv0
<1>2. (\E p \in Lifecycle!Phases : Change({}, p) /\ p # "Completed") => DialogInv0'
  BY ChangeIs, Calm DEF DialogInv0
<1>3. ASSUME NEW op \in Ops, NEW P, P \subseteq Eligible(op), NEW T,
             Change(T \cap InStates(P), Outcome(op))
      PROVE  DialogInv0'
  <2>1. \A t \in T \cap InStates(P) : taskPhase[t] \notin {"Completed", "Gone"}
    BY <1>3, EligibleStates DEF InStates
  <2>2. Outcome(op) \in Lifecycle!Phases /\ Outcome(op) # "Completed"
    BY EligibleStates
  <2> QED BY <1>1, <1>2, <1>3, <2>1, <2>2
<1>4. ASSUME NEW t \in QueueTasks, ActOnTask(t) PROVE DialogInv0'
  <2>1. acting.op \in Ops
    BY <1>4 DEF ActOnTask, ActingInv
  <2> QED BY <1>3, <1>4, <2>1 DEF ActOnTask
<1>5. ASSUME NEW t \in QueueTasks, CancelRow(t) PROVE DialogInv0'
  <2>1. "cancel" \in Ops /\ Outcome("cancel") = "Cancelled"
    BY DEF Ops, Outcome
  <2> QED BY <1>3, <1>5, <2>1 DEF CancelRow
<1>6. ASSUME NEW op \in Ops, ActOnAll(op) PROVE DialogInv0'
  <2> DEFINE P == IF op = "pause" THEN {"Active"} ELSE Eligible(op)
  <2>1. P \subseteq Eligible(op)
    BY DEF Eligible
  <2>2. InStates(P) = QueueTasks \cap InStates(P)
    BY DEF InStates
  <2> QED BY <1>3, <1>6, <2>1, <2>2 DEF ActOnAll
<1>7. ASSUME NEW P, ClearTasks(P) PROVE DialogInv0'
  BY <1>1, <1>2, <1>7, EligibleStates DEF ClearTasks
<1> QED BY <1>4, <1>5, <1>6, <1>7

LEMMA PollKeeps == ASSUME DialogInv0, PollQueue PROVE DialogInv0'
<1>1. /\ DialogTypes' /\ ToldInv' /\ WitnessInv' /\ RowsInv'
      /\ queueDialog'.filter = queueDialog.filter /\ queueDialog'.mode = queueDialog.mode
  BY Refreshing DEF PollQueue, DialogInv0, DialogTypes
<1>2. UiInv'
  BY <1>1 DEF PollQueue, DialogInv0, UiInv
<1> QED BY <1>1, <1>2 DEF DialogInv0

LEMMA SelectKeeps ==
  ASSUME DialogInv0, NEW how, NEW t, SelectRow(how, t)
  PROVE  DialogInv0'
<1> DEFINE e == [entry EXCEPT !.selected = SelectedBy(how, t)]
<1>1. IsEntry(e) /\ e.made = entry.made /\ e.prev = entry.prev
  <2>1. e = [made |-> entry.made, prev |-> entry.prev, selected |-> SelectedBy(how, t)]
    BY DEF DialogInv0, DialogTypes, IsEntry
  <2> QED BY <2>1 DEF IsEntry
<1> HIDE DEF e
<1>2. /\ queueDialog.up /\ Show(Refreshed(queueDialog, e, clearMode), inbox) /\ Prune
      /\ UNCHANGED <<clearMode, savedUi, told, witnessed, chosenUi>>
  BY DEF SelectRow, InDialog, e
<1>3. /\ DialogTypes' /\ ToldInv' /\ WitnessInv' /\ RowsInv'
      /\ queueDialog'.filter = queueDialog.filter /\ queueDialog'.mode = queueDialog.mode
  BY <1>1, <1>2, Refreshing DEF DialogInv0, DialogTypes
<1>4. UiInv'
  BY <1>2, <1>3 DEF DialogInv0, UiInv
<1> QED BY <1>3, <1>4 DEF DialogInv0

(* A choice is what the dialog shows, and what the file holds if it is kept. *)
LEMMA FilterKeeps == ASSUME DialogInv0, NEW f, SetFilter(f) PROVE DialogInv0'
<1> DEFINE d == [queueDialog EXCEPT !.filter = f]
           e == [entry EXCEPT !.selected = {}]
<1>1. IsDialog(d) /\ d.up = queueDialog.up /\ d.rows = queueDialog.rows
      /\ d.filter = f /\ d.mode = queueDialog.mode
  <2>1. d = [up |-> queueDialog.up, filter |-> f, mode |-> queueDialog.mode,
             rows |-> queueDialog.rows, offers |-> queueDialog.offers]
    BY DEF DialogInv0, DialogTypes, IsDialog
  <2> QED BY <2>1 DEF IsDialog
<1>2. IsEntry(e) /\ e.made = entry.made /\ e.prev = entry.prev
  <2>1. entry = [made |-> entry.made, prev |-> entry.prev, selected |-> entry.selected]
    BY DEF DialogInv0, DialogTypes, IsEntry
  <2> HIDE DEF d
  <2>2. e = [made |-> entry.made, prev |-> entry.prev, selected |-> {}]
    BY <2>1
  <2> QED BY <2>2 DEF IsEntry
<1> HIDE DEF d, e
<1>3. /\ queueDialog.up /\ SaveUi([mode |-> queueDialog.mode, filter |-> f])
      /\ Show(Refreshed(d, e, clearMode), inbox) /\ Prune
      /\ UNCHANGED <<clearMode, told, witnessed>>
  BY DEF SetFilter, InDialog, d, e
<1>4. /\ DialogTypes' /\ ToldInv' /\ WitnessInv' /\ RowsInv'
      /\ queueDialog'.filter = f /\ queueDialog'.mode = queueDialog.mode
  BY <1>1, <1>2, <1>3, Refreshing DEF DialogInv0, DialogTypes
<1>5. UiInv'
  BY <1>3, <1>4 DEF DialogInv0, UiInv, SaveUi
<1> QED BY <1>4, <1>5 DEF DialogInv0

LEMMA AutoClearKeeps == ASSUME DialogInv0, NEW m, SetAutoClear(m) PROVE DialogInv0'
<1>1. /\ queueDialog' = [queueDialog EXCEPT !.mode = m] /\ clearMode' = m
      /\ SaveUi([mode |-> m, filter |-> queueDialog.filter])
      /\ UNCHANGED <<lifeVars, seenNotified, inbox, entry, told, witnessed>>
  BY DEF SetAutoClear
<1>2. queueDialog' = [up |-> queueDialog.up, filter |-> queueDialog.filter, mode |-> m,
                     rows |-> queueDialog.rows, offers |-> queueDialog.offers]
  BY <1>1 DEF DialogInv0, DialogTypes, IsDialog
<1>3. UiInv' /\ RowsInv'
  BY <1>1, <1>2 DEF DialogInv0, UiInv, SaveUi, RowsInv
<1>4. DialogTypes' /\ ToldInv'
  BY <1>1, <1>2 DEF DialogInv0, DialogTypes, IsDialog, IsEntry, ToldInv, lifeVars
<1>5. WitnessInv'
  BY <1>1, <1>2 DEF DialogInv0, WitnessInv, Coming, lifeVars
<1> QED BY <1>3, <1>4, <1>5 DEF DialogInv0

(* A dialog comes up as the file has it, and with an entry of its own. *)
LEMMA OpenKeeps == ASSUME DialogInv0, OpenQueueDialog PROVE DialogInv0'
<1> DEFINE new == [up |-> TRUE, filter |-> LoadedUi.filter, mode |-> LoadedUi.mode,
                   rows |-> {}, offers |-> {}]
           fresh == [made |-> TRUE, prev |-> {}, selected |-> {}]
           r == Refreshed(new, entry, LoadedUi.mode)
<1>1. /\ queueDialog.up = FALSE
      /\ Show([r EXCEPT !.entry = fresh], <<>>)
      /\ clearMode' = LoadedUi.mode /\ Prune
      /\ UNCHANGED <<savedUi, told, witnessed, chosenUi>>
  BY DEF OpenQueueDialog, DialogInv0, DialogTypes
<1>2. /\ r = [gone |-> r.gone, phases |-> r.phases, dialog |-> r.dialog, entry |-> r.entry]
      /\ r.gone = AutoCleared(LoadedUi.mode) /\ r.phases = PhasesWithout(r.gone)
  BY DEF Refreshed
<1>3. /\ IsDialog(r.dialog) /\ r.dialog.up = TRUE
      /\ r.dialog.filter = LoadedUi.filter /\ r.dialog.mode = LoadedUi.mode
  <2>1. IsDialog(new) /\ IsEntry(entry)
    BY DEF IsDialog, DialogInv0, DialogTypes
  <2> QED BY <2>1, RefreshedIs
<1> HIDE DEF r
<1>4. /\ taskPhase' = PhasesWithout(AutoCleared(LoadedUi.mode))
      /\ queueDialog' = r.dialog /\ entry' = fresh
      /\ inbox' = IF r.gone = {} THEN <<>> ELSE Announced(<<>>, <<"changed">>)
  BY <1>1, <1>2 DEF Show
<1>5. Fading
  BY <1>4 DEF DialogInv0, DialogTypes, Fading, PhasesWithout, AutoCleared, Lifecycle!Phases
<1>6. inbox' = <<>>
  BY <1>1, <1>4 DEF Announced
<1>7. Pruning /\ seenNotified' \subseteq QueueTasks
  BY <1>1, <1>5, PruneIs DEF DialogInv0
<1>8. witnessed = {}
  BY <1>1 DEF DialogInv0, WitnessInv
<1>9. ToldInv'
  BY <1>1, <1>5, <1>7 DEF DialogInv0, ToldInv, Fading, Pruning
<1>10. WitnessInv'
  BY <1>1, <1>8 DEF WitnessInv
<1>11. DialogTypes'
  <2>1. IsDialog(queueDialog') /\ queueDialog'.up \in BOOLEAN
    BY <1>3, <1>4
  <2>2. IsEntry(entry') /\ entry'.made \in BOOLEAN
    BY <1>4 DEF IsEntry
  <2>3. taskPhase' \in [QueueTasks -> Lifecycle!Phases] /\ told' \in [QueueTasks -> Nat]
    BY <1>1, <1>5 DEF DialogInv0, DialogTypes, Fading
  <2>4. inbox' \in Seq(Notices) /\ witnessed' \subseteq QueueTasks
    BY <1>1, <1>6, <1>8
  <2> QED BY <1>7, <2>1, <2>2, <2>3, <2>4 DEF DialogTypes
<1>12. RowsInv'
  BY <1>4 DEF RowsInv
<1>13. UiInv'
  <2>1. /\ clearMode' = LoadedUi.mode /\ queueDialog'.mode = LoadedUi.mode
        /\ queueDialog'.filter = LoadedUi.filter
        /\ savedUi' = savedUi /\ chosenUi' = chosenUi
    BY <1>1, <1>3, <1>4
  <2>2. chosenUi.kept => LoadedUi = [mode |-> chosenUi.mode, filter |-> chosenUi.filter]
    BY LoadedIs DEF DialogInv0, UiInv
  <2>3. chosenUi.kept => LoadedUi.mode = chosenUi.mode /\ LoadedUi.filter = chosenUi.filter
    BY <2>2
  <2> HIDE DEF fresh, new
  <2> QED BY <2>1, <2>3 DEF DialogInv0, UiInv
<1> QED BY <1>9, <1>10, <1>11, <1>12, <1>13 DEF DialogInv0

LEMMA CloseKeeps == ASSUME DialogInv0, CloseQueueDialog PROVE DialogInv0'
<1>1. /\ queueDialog' = DialogDown /\ inbox' = <<>> /\ witnessed' = {}
      /\ UNCHANGED <<lifeVars, clearMode, seenNotified, entry, savedUi, told, chosenUi>>
  BY DEF CloseQueueDialog
<1>2. DialogTypes' /\ ToldInv'
  BY <1>1 DEF DialogInv0, DialogTypes, IsDialog, IsEntry, ToldInv, DialogDown, lifeVars
<1>3. WitnessInv' /\ UiInv' /\ RowsInv'
  BY <1>1 DEF DialogInv0, WitnessInv, UiInv, RowsInv, DialogDown
<1> QED BY <1>2, <1>3 DEF DialogInv0

-----------------------------------------------------------------------------
LEMMA DialogStarts == QueueDialogInit => DialogInv0 /\ ActingInv
<1> SUFFICES ASSUME QueueDialogInit PROVE DialogInv0 /\ ActingInv
  OBVIOUS
<1>1. taskPhase = [t \in QueueTasks |-> "New"] /\ "New" \in Lifecycle!Phases
  BY DEF QueueDialogInit, Lifecycle!Init, Lifecycle!Phases
<1>2. DialogTypes
  BY <1>1 DEF QueueDialogInit, DialogTypes, DialogDown, IsDialog, IsEntry
<1>3. ToldInv /\ WitnessInv
  BY <1>1 DEF QueueDialogInit, ToldInv, WitnessInv
<1>4. UiInv /\ RowsInv /\ ActingInv
  BY DEF QueueDialogInit, UiInv, RowsInv, ActingInv, DialogDown, Idle
<1> QED BY <1>2, <1>3, <1>4 DEF DialogInv0

LEMMA ActingKeeps == ActingInv /\ [QueueDialogNext]_dialogVars => ActingInv'
<1> SUFFICES ASSUME ActingInv, [QueueDialogNext]_dialogVars PROVE ActingInv'
  OBVIOUS
<1>1. ASSUME NEW t \in QueueTasks, ActOnTask(t) PROVE ActingInv'
  <2>1. CASE acting.ids = {t}
    BY <1>1, <2>1 DEF ActOnTask, ActingInv, Idle
  <2>2. CASE acting.ids # {t}
    <3>1. acting' = [op |-> acting.op, ids |-> acting.ids \ {t}]
      BY <1>1, <2>2 DEF ActOnTask, ActingInv
    <3> QED BY <1>1, <3>1 DEF ActOnTask, ActingInv
  <2> QED BY <2>1, <2>2
<1>2. ASSUME NEW op \in Ops, ActOnSelected(op) PROVE ActingInv'
  BY <1>2 DEF ActOnSelected, ActingInv
<1>3. CASE acting' = acting
  BY <1>3 DEF ActingInv
<1> QED
  BY <1>1, <1>2, <1>3 DEF QueueDialogNext, dialogVars, WorkerSteps, EnqueueTask, CancelRow,
     TimePasses, PollQueue, PumpEvent, OpenQueueDialog, CloseQueueDialog, SelectRow,
     ActOnAll, ClearTasks, SetFilter, SetAutoClear

LEMMA DialogSteps == DialogInv0 /\ ActingInv /\ [QueueDialogNext]_dialogVars => DialogInv0'
<1> SUFFICES ASSUME DialogInv0, ActingInv, [QueueDialogNext]_dialogVars PROVE DialogInv0'
  OBVIOUS
<1>1. ASSUME NEW t \in QueueTasks, EnqueueTask(t) PROVE DialogInv0'
  <2>1. /\ taskPhase[t] = "New" /\ taskPhase' = [u \in QueueTasks |-> IF u \in {t} THEN "Queued" ELSE taskPhase[u]]
        /\ Growing
        /\ UNCHANGED <<clearMode, seenNotified, queueDialog, entry, savedUi, told, witnessed, chosenUi>>
    BY <1>1 DEF EnqueueTask, Lifecycle!Submit, Lifecycle!Become, Growing, Announced
  <2>2. Fading /\ seenNotified' \subseteq QueueTasks
    BY <2>1 DEF DialogInv0, DialogTypes, Fading, Lifecycle!Phases, Lifecycle!Live
  <2>3. Pruning
    BY <2>1, <2>2 DEF DialogInv0, ToldInv, Pruning
  <2> QED BY <2>1, <2>2, <2>3, Calm
<1>2. ASSUME lifeVars' = lifeVars,
             UNCHANGED <<clearMode, seenNotified, inbox, queueDialog, entry, savedUi, told, witnessed,
                         chosenUi>>
      PROVE  DialogInv0'
  <2>1. DialogTypes' /\ ToldInv'
    BY <1>2 DEF DialogInv0, DialogTypes, IsDialog, IsEntry, ToldInv, lifeVars
  <2>2. WitnessInv' /\ UiInv' /\ RowsInv'
    BY <1>2 DEF DialogInv0, WitnessInv, Coming, UiInv, RowsInv, lifeVars
  <2> QED BY <2>1, <2>2 DEF DialogInv0
<1>3. CASE TimePasses
  BY <1>2, <1>3 DEF TimePasses
<1>4. ASSUME NEW op \in Ops, ActOnSelected(op) PROVE DialogInv0'
  BY <1>2, <1>4 DEF ActOnSelected
<1>5. CASE UNCHANGED dialogVars
  BY <1>2, <1>5 DEF dialogVars
<1> QED
  BY <1>1, <1>3, <1>4, <1>5, ButtonsKeep, PollKeeps, SelectKeeps, FilterKeeps, AutoClearKeeps,
     OpenKeeps, CloseKeeps, WorkersKeep, PumpKeeps DEF QueueDialogNext

(* What the invariant says of a dialog whose pump has caught up, and of the *)
(* next poll.                                                               *)
LEMMA DialogSays == DialogInv0 => CompletionsTold /\ ChoicesKept /\ NextPollShows
<1> SUFFICES ASSUME DialogInv0 PROVE CompletionsTold /\ ChoicesKept /\ NextPollShows
  OBVIOUS
<1>1. CompletionsTold
  <2>1. inbox = <<>> => ~Coming
    BY DEF Coming
  <2> QED BY <2>1 DEF DialogInv0, ToldInv, WitnessInv, CompletionsTold
<1>2. ChoicesKept
  BY DEF DialogInv0, UiInv, ChoicesKept
<1>3. NextPollShows
  <2> SUFFICES ASSUME queueDialog.up
      PROVE  LET r == Refreshed(queueDialog, entry, clearMode)
             IN RowsOf(r.phases, queueDialog.filter, entry.selected) \subseteq r.dialog.rows
    BY DEF NextPollShows
  <2> DEFINE r == Refreshed(queueDialog, entry, clearMode)
             shows == RowsOf(PhasesWithout(AutoCleared(clearMode)), queueDialog.filter, entry.selected)
  <2>1. /\ r.phases = PhasesWithout(AutoCleared(clearMode))
        /\ r.dialog.rows = IF entry.made /\ shows = entry.prev THEN queueDialog.rows ELSE shows
    BY RefreshedIs DEF DialogInv0, DialogTypes
  <2>2. entry.made /\ entry.prev \subseteq queueDialog.rows
    BY DEF DialogInv0, RowsInv
  <2> HIDE DEF r, shows
  <2>3. shows \subseteq r.dialog.rows
    BY <2>1, <2>2
  <2> QED BY <2>1, <2>3 DEF r, shows
<1> QED BY <1>1, <1>2, <1>3

(* However many transfers there are, whatever dialogs come and go and       *)
(* whatever is clicked while workers go on: each completion is announced at *)
(* most once and none this dialog saw is lost, the filter and the auto-     *)
(* clear are those chosen last, and the next poll shows what is listed.     *)
(* (take_completed_notice, save_queue_ui_state, load_queue_ui_state,        *)
(* refresh_dialog and the handlers of the queue dialog)                     *)
THEOREM DialogKeepsTrack ==
  QueueDialogSpec => [](CompletionsTold /\ ChoicesKept /\ NextPollShows)
<1>1. QueueDialogInit => DialogInv0 /\ ActingInv
  BY DialogStarts
<1>2. DialogInv0 /\ ActingInv /\ [QueueDialogNext]_dialogVars => DialogInv0' /\ ActingInv'
  BY DialogSteps, ActingKeeps
<1>3. DialogInv0 => CompletionsTold /\ ChoicesKept /\ NextPollShows
  BY DialogSays
<1> QED BY <1>1, <1>2, <1>3, PTL DEF QueueDialogSpec

-----------------------------------------------------------------------------
(* The variables the proofs above do not need the types of. *)

UiChoices == [mode : AutoClearModes, filter : QueueFilters]
RowsListed(rows) == \A row \in rows : row[1] \in QueueTasks
DialogBounds ==
  /\ taskRunning \subseteq QueueTasks /\ queueHeld \in BOOLEAN /\ queueHalted = FALSE
  /\ expired \subseteq QueueTasks
  /\ clearMode \in AutoClearModes /\ savedUi \subseteq UiChoices
  /\ queueDialog.filter \in QueueFilters /\ queueDialog.mode \in AutoClearModes
  /\ RowsListed(queueDialog.rows) /\ entry.selected \subseteq QueueTasks
  /\ acting.ids \subseteq QueueTasks
  /\ clicked \in 0..MaxQueueClicks

LEMMA DialogBoundsSuffice == DialogTypes /\ DialogBounds => QueueDialogTypeOK
<1>1. RowsListed(queueDialog.rows) => OnScreen \subseteq QueueTasks
  BY DEF RowsListed, OnScreen
<1> QED BY <1>1 DEF DialogTypes, DialogBounds, QueueDialogTypeOK, Notices

LEMMA DialogBoundsStart == QueueDialogInit => DialogBounds
<1> SUFFICES ASSUME QueueDialogInit PROVE DialogBounds
  OBVIOUS
<1>1. /\ taskRunning = {} /\ queueHeld = FALSE /\ queueHalted = FALSE /\ expired = {}
      /\ clearMode = DefaultMode /\ savedUi = {} /\ clicked = 0
  BY DEF QueueDialogInit, Lifecycle!Init
<1>2. queueDialog.filter = 0 /\ queueDialog.mode = DefaultMode /\ queueDialog.rows = {}
  BY DEF QueueDialogInit, DialogDown
<1>3. entry.selected = {} /\ acting.ids = {}
  BY DEF QueueDialogInit, Idle
<1>4. 0 \in QueueFilters /\ DefaultMode \in AutoClearModes /\ 0 \in 0..MaxQueueClicks
  BY QueueDialogAssumption
<1>5. RowsListed(queueDialog.rows)
  BY <1>2 DEF RowsListed
<1> QED BY <1>1, <1>2, <1>3, <1>4, <1>5 DEF DialogBounds

LEMMA ClickStaysBounded == clicked \in 0..MaxQueueClicks /\ UserClick => clicked' \in 0..MaxQueueClicks
BY QueueDialogAssumption DEF UserClick

LEMMA RowsAreListed == \A ph, f, S : RowsListed(RowsOf(ph, f, S))
<1> SUFFICES ASSUME NEW ph, NEW f, NEW S, NEW row \in RowsOf(ph, f, S) PROVE row[1] \in QueueTasks
  BY DEF RowsListed
<1>1. PICK t \in {t \in Listed(ph) : ph[t] \in Matching(f)} : row = <<t, ph[t], t \in S>>
  BY DEF RowsOf
<1> QED BY <1>1 DEF Listed

LEMMA LoadedIsAChoice ==
  ASSUME savedUi \subseteq UiChoices
  PROVE  LoadedUi.mode \in AutoClearModes /\ LoadedUi.filter \in QueueFilters
<1>1. CASE savedUi = {}
  BY <1>1, LoadedIs, QueueDialogAssumption
<1>2. CASE savedUi # {}
  <2>1. LoadedUi \in savedUi
    BY <1>2 DEF LoadedUi
  <2> QED BY <2>1 DEF UiChoices
<1> QED BY <1>1, <1>2

LEMMA ShowStaysBounded ==
  ASSUME DialogBounds, NEW d, NEW e, NEW mode, NEW box, IsDialog(d), IsEntry(e),
         RowsListed(d.rows), Show(Refreshed(d, e, mode), box)
  PROVE  /\ queueDialog'.filter = d.filter /\ queueDialog'.mode = d.mode
         /\ RowsListed(queueDialog'.rows) /\ entry'.selected = e.selected
         /\ expired' \subseteq QueueTasks
         /\ UNCHANGED <<taskRunning, queueHeld, queueHalted>>
<1> DEFINE r == Refreshed(d, e, mode)
           shows == RowsOf(PhasesWithout(AutoCleared(mode)), d.filter, e.selected)
<1>1. /\ r.dialog.filter = d.filter /\ r.dialog.mode = d.mode
      /\ r.dialog.rows = IF e.made /\ shows = e.prev THEN d.rows ELSE shows
      /\ r.entry.selected = e.selected
  BY RefreshedIs
<1>2. /\ queueDialog' = r.dialog /\ entry' = r.entry /\ expired' = expired \ r.gone
      /\ UNCHANGED <<taskRunning, queueHeld, queueHalted>>
  BY DEF Show
<1>3. RowsListed(shows)
  BY RowsAreListed
<1> HIDE DEF r, shows
<1> QED BY <1>1, <1>2, <1>3 DEF DialogBounds

LEMMA ChangeStaysBounded ==
  ASSUME DialogBounds, NEW S, NEW p, Change(S, p)
  PROVE  /\ expired' \subseteq QueueTasks
         /\ UNCHANGED <<taskRunning, queueHalted, clearMode, queueDialog, entry, savedUi>>
BY DEF DialogBounds, Change, StillExpired

LEMMA ChoiceStaysBounded ==
  ASSUME savedUi \subseteq UiChoices, NEW m \in AutoClearModes, NEW f \in QueueFilters,
         SaveUi([mode |-> m, filter |-> f])
  PROVE  savedUi' \subseteq UiChoices
BY DEF SaveUi, UiChoices

LEMMA DialogBoundsStep ==
  DialogTypes /\ ActingInv /\ DialogBounds /\ [QueueDialogNext]_dialogVars => DialogBounds'
<1> SUFFICES ASSUME DialogTypes, ActingInv, DialogBounds, [QueueDialogNext]_dialogVars
             PROVE  DialogBounds'
  OBVIOUS
<1>1. ASSUME NEW t \in QueueTasks, WorkerSteps(t) PROVE DialogBounds'
  BY <1>1 DEF WorkerSteps, Lifecycle!Launch, Lifecycle!Settle, StillExpired, DialogBounds
<1>2. ASSUME NEW t \in QueueTasks, EnqueueTask(t) PROVE DialogBounds'
  BY <1>2 DEF EnqueueTask, Lifecycle!Submit, DialogBounds
<1>3. ASSUME NEW t \in QueueTasks, ActOnTask(t) PROVE DialogBounds'
  <2>1. acting'.ids \subseteq QueueTasks
    <3>1. CASE acting.ids = {t}
      BY <1>3, <3>1 DEF ActOnTask, Idle
    <3>2. CASE acting.ids # {t}
      <4>1. acting' = [acting EXCEPT !.ids = acting.ids \ {t}]
        BY <1>3, <3>2 DEF ActOnTask
      <4>2. acting' = [op |-> acting.op, ids |-> acting.ids \ {t}]
        BY <4>1 DEF ActingInv
      <4> QED BY <4>2 DEF DialogBounds
    <3> QED BY <3>1, <3>2
  <2>2. UNCHANGED <<queueHeld, clicked>>
        /\ \E S, p : Change(S, p)
    BY <1>3, Zenon DEF ActOnTask
  <2> QED BY <2>1, <2>2, ChangeStaysBounded DEF DialogBounds
<1>4. ASSUME NEW t \in QueueTasks, CancelRow(t) PROVE DialogBounds'
  <2>1. UserClick /\ UNCHANGED <<queueHeld, acting>> /\ \E S, p : Change(S, p)
    BY <1>4, Zenon DEF CancelRow, InDialog
  <2> QED BY <2>1, ChangeStaysBounded, ClickStaysBounded DEF DialogBounds
<1>5. CASE TimePasses
  BY <1>5 DEF TimePasses, lifeVars, DialogBounds
<1>6. CASE PollQueue \/ PumpEvent
  <2>1. UNCHANGED <<clearMode, acting, savedUi, clicked>>
        /\ \E box : Show(Refreshed(queueDialog, entry, clearMode), box)
    BY <1>6, Zenon DEF PollQueue, PumpEvent
  <2>2. IsDialog(queueDialog) /\ IsEntry(entry) /\ RowsListed(queueDialog.rows)
    BY DEF DialogTypes, DialogBounds
  <2>3. /\ queueDialog'.filter = queueDialog.filter /\ queueDialog'.mode = queueDialog.mode
        /\ RowsListed(queueDialog'.rows) /\ entry'.selected = entry.selected
        /\ expired' \subseteq QueueTasks
        /\ UNCHANGED <<taskRunning, queueHeld, queueHalted>>
    BY <2>1, <2>2, ShowStaysBounded
  <2> QED BY <2>1, <2>3 DEF DialogBounds
<1>7. CASE OpenQueueDialog
  <2> DEFINE new == [up |-> TRUE, filter |-> LoadedUi.filter, mode |-> LoadedUi.mode,
                     rows |-> {}, offers |-> {}]
             fresh == [made |-> TRUE, prev |-> {}, selected |-> {}]
             r == Refreshed(new, entry, LoadedUi.mode)
  <2>1. Show([r EXCEPT !.entry = fresh], <<>>) /\ clearMode' = LoadedUi.mode /\ UserClick
        /\ UNCHANGED <<acting, savedUi>>
    BY <1>7 DEF OpenQueueDialog
  <2>2. r = [gone |-> r.gone, phases |-> r.phases, dialog |-> r.dialog, entry |-> r.entry]
    BY DEF Refreshed
  <2>3. r.dialog.filter = LoadedUi.filter /\ r.dialog.mode = LoadedUi.mode /\ RowsListed(r.dialog.rows)
    <3>1. IsDialog(new) /\ IsEntry(entry) /\ RowsListed(new.rows)
      BY DEF IsDialog, DialogTypes, RowsListed
    <3>2. new.filter = LoadedUi.filter /\ new.mode = LoadedUi.mode
      OBVIOUS
    <3> DEFINE shows == RowsOf(PhasesWithout(AutoCleared(LoadedUi.mode)), new.filter, entry.selected)
    <3>3. RowsListed(shows)
      BY RowsAreListed
    <3> HIDE DEF new
    <3>4. /\ r.dialog.filter = new.filter /\ r.dialog.mode = new.mode
          /\ r.dialog.rows = IF entry.made /\ shows = entry.prev THEN new.rows ELSE shows
      BY <3>1, RefreshedIs
    <3> HIDE DEF r, shows
    <3> QED BY <3>1, <3>2, <3>3, <3>4
  <2> HIDE DEF r
  <2>4. /\ queueDialog' = r.dialog /\ entry' = fresh /\ expired' = expired \ r.gone
        /\ UNCHANGED <<taskRunning, queueHeld, queueHalted>>
    BY <2>1, <2>2 DEF Show
  <2>5. LoadedUi.mode \in AutoClearModes /\ LoadedUi.filter \in QueueFilters
    BY LoadedIsAChoice DEF DialogBounds
  <2>6. clicked' \in 0..MaxQueueClicks
    BY <2>1, ClickStaysBounded DEF DialogBounds
  <2> HIDE DEF new
  <2> QED BY <2>1, <2>3, <2>4, <2>5, <2>6 DEF DialogBounds
<1>8. CASE CloseQueueDialog
  <2>1. UserClick /\ queueDialog' = DialogDown
        /\ UNCHANGED <<lifeVars, expired, clearMode, entry, acting, savedUi>>
    BY <1>8 DEF CloseQueueDialog
  <2> QED
    BY <2>1, ClickStaysBounded, QueueDialogAssumption DEF DialogBounds, DialogDown, RowsListed, lifeVars
<1>9. ASSUME NEW how \in {"click", "toggle", "menu"}, NEW t \in QueueTasks, SelectRow(how, t)
      PROVE  DialogBounds'
  <2> DEFINE e == [entry EXCEPT !.selected = SelectedBy(how, t)]
  <2>1. IsEntry(e) /\ e.selected \subseteq QueueTasks
    <3>1. e = [made |-> entry.made, prev |-> entry.prev, selected |-> SelectedBy(how, t)]
      BY DEF DialogTypes, IsEntry
    <3>2. SelectedBy(how, t) \subseteq QueueTasks
      BY DEF SelectedBy, DialogBounds
    <3> QED BY <3>1, <3>2 DEF IsEntry
  <2> HIDE DEF e
  <2>2. Show(Refreshed(queueDialog, e, clearMode), inbox) /\ UserClick
        /\ UNCHANGED <<clearMode, acting, savedUi>>
    BY <1>9 DEF SelectRow, InDialog, e
  <2>3. IsDialog(queueDialog) /\ RowsListed(queueDialog.rows)
    BY DEF DialogTypes, DialogBounds
  <2>4. /\ queueDialog'.filter = queueDialog.filter /\ queueDialog'.mode = queueDialog.mode
        /\ RowsListed(queueDialog'.rows) /\ entry'.selected = e.selected
        /\ expired' \subseteq QueueTasks
        /\ UNCHANGED <<taskRunning, queueHeld, queueHalted>>
    BY <2>1, <2>2, <2>3, ShowStaysBounded
  <2> QED BY <2>1, <2>2, <2>4, ClickStaysBounded DEF DialogBounds
<1>10. ASSUME NEW op \in Ops, ActOnSelected(op) PROVE DialogBounds'
  BY <1>10, ClickStaysBounded DEF ActOnSelected, InDialog, lifeVars, DialogBounds
<1>11. ASSUME NEW op \in Ops, ActOnAll(op) PROVE DialogBounds'
  <2>1. UserClick /\ queueHeld' \in {TRUE, FALSE, queueHeld} /\ acting' = acting
        /\ \E S, p : Change(S, p)
    <3>1. \E S, p : Change(S, p)
      BY <1>11, Zenon DEF ActOnAll
    <3> QED BY <1>11, <3>1 DEF ActOnAll, InDialog
  <2> QED BY <2>1, ChangeStaysBounded, ClickStaysBounded DEF DialogBounds
<1>12. ASSUME NEW P, ClearTasks(P) PROVE DialogBounds'
  <2>1. UserClick /\ UNCHANGED <<queueHeld, acting>> /\ \E S, p : Change(S, p)
    BY <1>12, Zenon DEF ClearTasks, InDialog
  <2> QED BY <2>1, ChangeStaysBounded, ClickStaysBounded DEF DialogBounds
<1>13. ASSUME NEW f \in QueueFilters, SetFilter(f) PROVE DialogBounds'
  <2> DEFINE d == [queueDialog EXCEPT !.filter = f]
             e == [entry EXCEPT !.selected = {}]
  <2>1. IsDialog(d) /\ d.rows = queueDialog.rows /\ d.filter = f /\ d.mode = queueDialog.mode
    <3>1. d = [up |-> queueDialog.up, filter |-> f, mode |-> queueDialog.mode,
               rows |-> queueDialog.rows, offers |-> queueDialog.offers]
      BY DEF DialogTypes, IsDialog
    <3> QED BY <3>1 DEF IsDialog
  <2>2. IsEntry(e) /\ e.selected = {}
    <3> HIDE DEF d
    <3>1. entry = [made |-> entry.made, prev |-> entry.prev, selected |-> entry.selected]
      BY DEF DialogTypes, IsEntry
    <3>2. e = [made |-> entry.made, prev |-> entry.prev, selected |-> {}]
      BY <3>1
    <3> QED BY <3>2 DEF IsEntry
  <2> HIDE DEF d, e
  <2>3. Show(Refreshed(d, e, clearMode), inbox) /\ UserClick
        /\ SaveUi([mode |-> queueDialog.mode, filter |-> f])
        /\ UNCHANGED <<clearMode, acting>>
    BY <1>13 DEF SetFilter, InDialog, d, e
  <2>4. /\ queueDialog'.filter = d.filter /\ queueDialog'.mode = d.mode
        /\ RowsListed(queueDialog'.rows) /\ entry'.selected = e.selected
        /\ expired' \subseteq QueueTasks
        /\ UNCHANGED <<taskRunning, queueHeld, queueHalted>>
    BY <2>1, <2>2, <2>3, ShowStaysBounded DEF DialogBounds
  <2>5. savedUi' \subseteq UiChoices
    BY <2>3, ChoiceStaysBounded DEF DialogBounds
  <2> QED BY <2>1, <2>2, <2>3, <2>4, <2>5, ClickStaysBounded DEF DialogBounds
<1>14. ASSUME NEW m \in AutoClearModes, SetAutoClear(m) PROVE DialogBounds'
  <2>1. /\ queueDialog' = [queueDialog EXCEPT !.mode = m] /\ clearMode' = m /\ UserClick
        /\ SaveUi([mode |-> m, filter |-> queueDialog.filter])
        /\ UNCHANGED <<lifeVars, expired, entry, acting>>
    BY <1>14 DEF SetAutoClear, InDialog
  <2>2. queueDialog' = [up |-> queueDialog.up, filter |-> queueDialog.filter, mode |-> m,
                       rows |-> queueDialog.rows, offers |-> queueDialog.offers]
    BY <2>1 DEF DialogTypes, IsDialog
  <2>3. savedUi' \subseteq UiChoices
    BY <2>1, ChoiceStaysBounded DEF DialogBounds
  <2> QED BY <2>1, <2>2, <2>3, ClickStaysBounded DEF DialogBounds, lifeVars
<1>15. CASE UNCHANGED dialogVars
  BY <1>15 DEF dialogVars, lifeVars, DialogBounds
<1> QED
  BY <1>1, <1>2, <1>3, <1>4, <1>5, <1>6, <1>7, <1>8, <1>9, <1>10, <1>11, <1>12, <1>13, <1>14, <1>15
  DEF QueueDialogNext

(* The variables of the queue dialog keep their types: what is selected,    *)
(* acted on and shown are transfers of the queue, and what the file holds   *)
(* is a choice the dialog offers.  (transfer.rs: the queue dialog)          *)
THEOREM DialogKeepsTypes == QueueDialogSpec => []QueueDialogTypeOK
<1>1. QueueDialogInit => DialogInv0 /\ ActingInv /\ DialogBounds
  BY DialogStarts, DialogBoundsStart
<1>2. DialogInv0 /\ ActingInv /\ DialogBounds /\ [QueueDialogNext]_dialogVars
      => (DialogInv0 /\ ActingInv /\ DialogBounds)'
  BY DialogSteps, ActingKeeps, DialogBoundsStep DEF DialogInv0
<1>3. DialogInv0 /\ DialogBounds => QueueDialogTypeOK
  BY DialogBoundsSuffice DEF DialogInv0
<1> QED BY <1>1, <1>2, <1>3, PTL DEF QueueDialogSpec

-----------------------------------------------------------------------------
(* The composition.                                                        *)

(* The composition implements each part's own specification. *)
LEMMA PlaysTheWindow == Spec => DesktopSpec
<1>1. Init => DesktopInit
  BY DEF Init
<1>2. [Next]_<<scene, desktopVars, copyVars, dialogVars>> => [DesktopNext]_desktopVars
  BY DEF Next
<1> QED BY <1>1, <1>2, PTL DEF Spec, DesktopSpec

LEMMA PlaysTheQueue == Spec => QueueDialogSpec
<1>1. Init => QueueDialogInit
  BY DEF Init
<1>2. [Next]_<<scene, desktopVars, copyVars, dialogVars>> => [QueueDialogNext]_dialogVars
  BY DEF Next
<1> QED BY <1>1, <1>2, PTL DEF Spec, QueueDialogSpec

LEMMA PlaysTheCopies == Spec => CopySpec
<1>1. Init => CopyInit
  BY DEF Init
<1>2. [Next]_<<scene, desktopVars, copyVars, dialogVars>> => [CopyNext]_copyVars
  BY DEF Next
<1> QED BY <1>1, <1>2, PTL DEF Spec, CopySpec

(* Two copies between servers never ask at once, leave no staging directory *)
(* behind, and replace only what the user let them replace, for any number  *)
(* of copies (transfer.rs: run_remote_to_remote; main.rs:                   *)
(* prompt_overwrite_choice).                                                *)
THEOREM CopiesStaySafe == Spec => []CopiesAreSafe
<1>1. StagingCleaned /\ OverwriteIsChosen /\ OneDialog => CopiesAreSafe
  BY DEF CopiesAreSafe
<1> QED
  BY <1>1, PlaysTheCopies, StagingIsCleaned, NothingOverwrittenUnasked, DialogsNeverStack, PTL

(* However dials, operations and disconnects of any number of tabs overlap, *)
(* every open session has one tab, its client is lent once and comes back,  *)
(* and no tab waits for nobody (main.rs, connect.rs, state.rs); and however *)
(* often the queue dialog comes and goes while transfers run, each one that *)
(* completes is announced once and the dialog catches up (transfer.rs).     *)
THEOREM WindowStaysOnTrack == Spec => []WindowKeepsTrack
<1>1. /\ DesktopTypeOK /\ SessionsOwned /\ ClientAccounted /\ ConnectingReleased
      /\ CompletionsTold /\ ChoicesKept /\ NextPollShows
      => WindowKeepsTrack
  BY DEF WindowKeepsTrack
<1> QED
  BY <1>1, PlaysTheWindow, PlaysTheQueue, WindowStaysSound, DialogKeepsTrack, PTL

(* The variables of every part keep their types, while it plays.  (main.rs, *)
(* transfer.rs)                                                             *)
THEOREM DesktopKeepsTypes == Spec => []AllTypesOK
<1>1. DesktopTypeOK /\ CopyTypeOK /\ QueueDialogTypeOK => AllTypesOK
  BY DEF AllTypesOK
<1> QED
  BY <1>1, PlaysTheWindow, PlaysTheCopies, PlaysTheQueue, WindowStaysSound, CopiesKeepTypes,
     DialogKeepsTypes, PTL
=============================================================================
