---------------------------- MODULE ScreensProofs ----------------------------
(***************************************************************************)
(* The theorems about what the window shows: the invariants that the run   *)
(* of MCScreens checks hold for every value of the constants.              *)
(*                                                                         *)
(* Each of the three parts has an inductive invariant of its own.          *)
(*   - The console (ConsoleInv): what is on its way to the server, through *)
(*     the command channel and the writer's, ends with the size the        *)
(*     console has, and says the auto-login's part once and in order.      *)
(*   - The panes (PaneInv): while the client is lent, the rows stay those  *)
(*     of the folder and session the pane names, or a listing of them is   *)
(*     under way.                                                          *)
(*   - The rows (RowsInv): the listing is sorted, and while the row Shift  *)
(*     extends from is known the selection spans from it.                  *)
(* A part's steps leave the others alone, so the composition keeps all of  *)
(* them.                                                                   *)
(***************************************************************************)
EXTENDS MCScreens, FiniteSetTheorems, SequenceTheorems, WellFoundedInduction, TLAPS

-----------------------------------------------------------------------------
(* The console. *)

(* What a session's records may be. *)
Heards == {"input", "name", "password", "close"}
HeardBy == [said : Seq(Heards), size : GridSizes]
Codecs == [size : GridSizes, naws : BOOLEAN, armed : BOOLEAN, sentUser : BOOLEAN]
Typed == {m \in Msgs : m.what \in {"input", "close", "size"}}
Written == {m \in Msgs : m.what # "close"}

ConsoleTypes ==
  /\ con \in [session : Sessions \cup {0}, connected : BOOLEAN, size : GridSizes]
  /\ gone \in [Sessions -> BOOLEAN]
  /\ kind \in [Sessions -> Transports \cup {"none"}]
  /\ link \in [Sessions -> {"up", "eof", "error", "deaf"}]
  /\ inbox \in [Sessions -> Seq(Data \cup {"naws"})]
  /\ heard \in [Sessions -> HeardBy]
  /\ cmds \in [Sessions -> Seq(Typed)]
  /\ toWire \in [Sessions -> Seq(Written)]
  /\ reader \in [Sessions -> {"run", "done"}]
  /\ writer \in [Sessions -> {"run", "done"}]
  /\ codec \in [Sessions -> Codecs]

(* The last size on its way through a channel is z; if none is, the other   *)
(* end already has it.                                                      *)
Sizes(wire) == {i \in DOMAIN wire : wire[i].what = "size"}
EndsAt(wire, base, z) ==
  /\ Sizes(wire) = {} => base = z
  /\ \A i \in Sizes(wire) : (\A j \in Sizes(wire) : j <= i) => wire[i].size = z

(* A session of the tab with all of its parts still working. *)
Working(s) ==
  /\ con.session = s /\ con.connected
  /\ reader[s] = "run" /\ writer[s] = "run" /\ link[s] = "up"
SizeAt(s) ==
  Working(s) =>
    IF kind[s] = "telnet"
    THEN /\ EndsAt(cmds[s], codec[s].size, con.size)
         /\ codec[s].naws => EndsAt(toWire[s], heard[s].size, codec[s].size)
    ELSE EndsAt(cmds[s], heard[s].size, con.size)

(* Nothing has gone through a session that does not exist, and a shell is   *)
(* written to from the command channel alone.                               *)
IdleAt(s) ==
  /\ kind[s] = "none" =>
       /\ cmds[s] = <<>> /\ heard[s].said = <<>>
       /\ ~codec[s].naws /\ ~codec[s].armed /\ con.session # s
  /\ kind[s] # "telnet" => toWire[s] = <<>> /\ ~codec[s].armed /\ ~codec[s].sentUser

(* The auto-login's part in what the server heard. *)
Spoken(said) ==
  /\ \A i, j \in DOMAIN said : said[i] = said[j] /\ said[i] \in {"name", "password"} => i = j
  /\ \A p \in DOMAIN said : said[p] = "password" => \E n \in DOMAIN said : said[n] = "name" /\ n < p
  /\ \A a, i \in DOMAIN said : said[a] \in {"name", "password"} /\ said[i] = "input" => a < i

(* What a working writer will have said once its channel is empty. *)
Says(said, wire, what) ==
  (\E i \in DOMAIN said : said[i] = what) \/ (\E i \in DOMAIN wire : wire[i].what = what)
ToSpeak(said, wire) ==
  /\ \A i, j \in DOMAIN wire : wire[i].what = wire[j].what /\ wire[i].what \in {"name", "password"} => i = j
  /\ \A i \in DOMAIN said, j \in DOMAIN wire :
       /\ said[i] = wire[j].what => said[i] \notin {"name", "password"}
       /\ said[i] = "input" => wire[j].what \notin {"name", "password"}
  /\ \A p \in DOMAIN wire : wire[p].what = "password" =>
       \/ \E n \in DOMAIN said : said[n] = "name"
       \/ \E n \in DOMAIN wire : wire[n].what = "name" /\ n < p
  /\ \A a, i \in DOMAIN wire : wire[a].what \in {"name", "password"} /\ wire[i].what = "input" => a < i
LoginState(said, wire, c) ==
  /\ c.armed => ~Says(said, wire, "input") /\ ~Says(said, wire, "password")
  /\ c.sentUser <=> Says(said, wire, "name")
LoginAt(s) ==
  /\ Spoken(heard[s].said)
  /\ kind[s] # "telnet" => \A i \in DOMAIN heard[s].said : heard[s].said[i] \notin {"name", "password"}
  /\ kind[s] = "telnet" /\ writer[s] = "run" =>
       /\ ToSpeak(heard[s].said, toWire[s])
       /\ LoginState(heard[s].said, toWire[s], codec[s])

SessionInv(s) == IdleAt(s) /\ SizeAt(s) /\ LoginAt(s)
ConsoleInv == \A s \in Sessions : SessionInv(s)

-----------------------------------------------------------------------------
(* Sequences, by their indices. *)
LEMMA AppendAt ==
  ASSUME NEW S, NEW q \in Seq(S), NEW m \in S
  PROVE  /\ Append(q, m) \in Seq(S) /\ DOMAIN Append(q, m) = DOMAIN q \cup {Len(q) + 1}
         /\ \A i \in DOMAIN q : i \in Nat /\ i < Len(q) + 1 /\ Append(q, m)[i] = q[i]
         /\ Append(q, m)[Len(q) + 1] = m
         /\ Len(q) \in Nat
  OBVIOUS

LEMMA TailAt ==
  ASSUME NEW S, NEW q \in Seq(S), q # <<>>
  PROVE  /\ Tail(q) \in Seq(S) /\ Head(q) \in S /\ 1 \in DOMAIN q /\ q[1] = Head(q)
         /\ \A i \in DOMAIN Tail(q) : i \in Nat /\ i + 1 \in DOMAIN q /\ Tail(q)[i] = q[i + 1]
         /\ \A i \in DOMAIN q : i \in Nat /\ (i = 1 \/ (i - 1 \in DOMAIN Tail(q) /\ 1 < i))
  OBVIOUS

LEMMA EmptyEndsAt == ASSUME NEW z PROVE EndsAt(<<>>, z, z)
  BY DEF EndsAt, Sizes

(* A size put into a channel is the last of it; anything else is not. *)
LEMMA AppendSize ==
  ASSUME NEW S, NEW q \in Seq(S), NEW m \in S, m.what = "size", NEW base
  PROVE  EndsAt(Append(q, m), base, m.size)
<1> DEFINE a == Append(q, m)
<1>1. /\ DOMAIN a = DOMAIN q \cup {Len(q) + 1}
      /\ \A i \in DOMAIN q : i \in Nat /\ i < Len(q) + 1 /\ a[i] = q[i]
      /\ a[Len(q) + 1] = m /\ Len(q) \in Nat
  BY AppendAt
<1> HIDE DEF a
<1>2. Len(q) + 1 \in Sizes(a)
  BY <1>1 DEF Sizes
<1>3. ASSUME NEW i \in Sizes(a), \A j \in Sizes(a) : j <= i PROVE a[i].size = m.size
  <2>1. Len(q) + 1 <= i BY <1>2, <1>3
  <2>2. i \in DOMAIN a BY DEF Sizes
  <2> QED BY <2>1, <2>2, <1>1
<1>4. EndsAt(a, base, m.size)
  BY <1>2, <1>3 DEF EndsAt
<1> QED BY <1>4 DEF a

LEMMA AppendOther ==
  ASSUME NEW S, NEW q \in Seq(S), NEW m \in S, m.what # "size", NEW base, NEW z,
         EndsAt(q, base, z)
  PROVE  EndsAt(Append(q, m), base, z)
<1> DEFINE a == Append(q, m)
<1>1. /\ DOMAIN a = DOMAIN q \cup {Len(q) + 1}
      /\ \A i \in DOMAIN q : i \in Nat /\ i < Len(q) + 1 /\ a[i] = q[i]
      /\ a[Len(q) + 1] = m /\ Len(q) \in Nat
  BY AppendAt
<1> HIDE DEF a
<1>2. Sizes(a) = Sizes(q)
  BY <1>1 DEF Sizes
<1>3. \A i \in Sizes(a) : a[i] = q[i]
  BY <1>1, <1>2 DEF Sizes
<1>4. EndsAt(a, base, z)
  BY <1>2, <1>3 DEF EndsAt
<1> QED BY <1>4 DEF a

(* What leaves a channel at its head is what the other end has. *)
LEMMA TailSize ==
  ASSUME NEW S, NEW q \in Seq(S), q # <<>>, NEW base, NEW z, EndsAt(q, base, z)
  PROVE  EndsAt(Tail(q), IF Head(q).what = "size" THEN Head(q).size ELSE base, z)
<1> DEFINE t == Tail(q)
           b == IF Head(q).what = "size" THEN Head(q).size ELSE base
<1>1. /\ 1 \in DOMAIN q /\ q[1] = Head(q)
      /\ \A i \in DOMAIN t : i \in Nat /\ i + 1 \in DOMAIN q /\ t[i] = q[i + 1]
      /\ \A i \in DOMAIN q : i \in Nat /\ (i = 1 \/ (i - 1 \in DOMAIN t /\ 1 < i))
  BY TailAt
<1> HIDE DEF t
<1>2. \A i \in Sizes(q) : i \in Nat /\ (i = 1 \/ i - 1 \in Sizes(t))
  <2> SUFFICES ASSUME NEW i \in Sizes(q), i # 1 PROVE i \in Nat /\ i - 1 \in Sizes(t)
    BY <1>1 DEF Sizes
  <2>1. i \in Nat /\ i - 1 \in DOMAIN t /\ q[i].what = "size"
    BY <1>1 DEF Sizes
  <2>2. t[i - 1] = q[i - 1 + 1] /\ i - 1 + 1 = i
    BY <1>1, <2>1
  <2> QED BY <2>1, <2>2 DEF Sizes
<1>3. \A i \in Sizes(t) : i \in Nat /\ i + 1 \in Sizes(q) /\ t[i] = q[i + 1]
  BY <1>1 DEF Sizes
<1>4. ASSUME Sizes(t) = {} PROVE b = z
  <2>1. \A i \in Sizes(q) : i = 1
    BY <1>2, <1>4
  <2>2. CASE Head(q).what = "size"
    <3>1. 1 \in Sizes(q) /\ \A j \in Sizes(q) : j <= 1
      BY <2>1, <2>2, <1>1 DEF Sizes
    <3> QED BY <3>1, <2>2, <1>1 DEF EndsAt
  <2>3. CASE Head(q).what # "size"
    <3>1. Sizes(q) = {}
      BY <2>1, <2>3, <1>1 DEF Sizes
    <3> QED BY <3>1, <2>3 DEF EndsAt
  <2> QED BY <2>2, <2>3
<1>5. ASSUME NEW i \in Sizes(t), \A j \in Sizes(t) : j <= i PROVE t[i].size = z
  <2>1. \A j \in Sizes(q) : j <= i + 1
    <3> TAKE j \in Sizes(q)
    <3>1. j \in Nat /\ (j = 1 \/ j - 1 \in Sizes(t)) /\ i \in Nat
      BY <1>2, <1>3
    <3>2. CASE j = 1
      BY <3>1, <3>2
    <3>3. CASE j - 1 \in Sizes(t)
      <4>1. j - 1 <= i BY <3>3, <1>5
      <4> QED BY <4>1, <3>1
    <3> QED BY <3>1, <3>2, <3>3
  <2>2. i + 1 \in Sizes(q) /\ t[i] = q[i + 1]
    BY <1>3
  <2> QED BY <2>1, <2>2 DEF EndsAt
<1>6. EndsAt(t, b, z)
  <2> HIDE DEF b
  <2> QED BY <1>4, <1>5 DEF EndsAt
<1> QED BY <1>6 DEF t

-----------------------------------------------------------------------------
(* What is put into the writer's channel. *)
LEMMA AppendSays ==
  ASSUME NEW said, NEW wire \in Seq(Written), NEW m \in Written, NEW what
  PROVE  Says(said, Append(wire, m), what) <=> Says(said, wire, what) \/ m.what = what
<1> DEFINE a == Append(wire, m)
<1>1. /\ DOMAIN a = DOMAIN wire \cup {Len(wire) + 1}
      /\ \A i \in DOMAIN wire : a[i] = wire[i]
      /\ a[Len(wire) + 1] = m
  BY AppendAt
<1> HIDE DEF a
<1>2. (\E i \in DOMAIN a : a[i].what = what) <=> (\E i \in DOMAIN wire : wire[i].what = what) \/ m.what = what
  BY <1>1
<1>3. Says(said, a, what) <=> Says(said, wire, what) \/ m.what = what
  BY <1>2 DEF Says
<1> QED BY <1>3 DEF a

(* What may be said next, after what is on its way. *)
MaySay(said, wire, what) ==
  what \in {"name", "password"} =>
    /\ ~Says(said, wire, what) /\ ~Says(said, wire, "input")
    /\ what = "password" => Says(said, wire, "name")

LEMMA AppendSpeaks ==
  ASSUME NEW said, NEW wire \in Seq(Written), NEW m \in Written,
         ToSpeak(said, wire), MaySay(said, wire, m.what)
  PROVE  ToSpeak(said, Append(wire, m))
<1> DEFINE a == Append(wire, m)
           w == m.what
<1>1. /\ DOMAIN a = DOMAIN wire \cup {Len(wire) + 1}
      /\ \A i \in DOMAIN wire : i \in Nat /\ i < Len(wire) + 1 /\ a[i].what = wire[i].what
      /\ a[Len(wire) + 1].what = w
      /\ Len(wire) \in Nat
  BY AppendAt
<1>2. MaySay(said, wire, w) OBVIOUS
<1> HIDE DEF a, w
<1>3. ASSUME NEW i \in DOMAIN a, NEW j \in DOMAIN a,
             a[i].what = a[j].what, a[i].what \in {"name", "password"}
      PROVE  i = j
  BY <1>1, <1>2, <1>3 DEF MaySay, Says, ToSpeak
<1>4. ASSUME NEW i \in DOMAIN said, NEW j \in DOMAIN a
      PROVE  /\ said[i] = a[j].what => said[i] \notin {"name", "password"}
             /\ said[i] = "input" => a[j].what \notin {"name", "password"}
  BY <1>1, <1>2, <1>4 DEF MaySay, Says, ToSpeak
<1>5. ASSUME NEW p \in DOMAIN a, a[p].what = "password"
      PROVE  \/ \E n \in DOMAIN said : said[n] = "name"
             \/ \E n \in DOMAIN a : a[n].what = "name" /\ n < p
  <2>1. CASE p \in DOMAIN wire
    BY <2>1, <1>1, <1>5 DEF ToSpeak
  <2>2. CASE p = Len(wire) + 1
    <3>1. Says(said, wire, "name") BY <2>2, <1>1, <1>2, <1>5 DEF MaySay
    <3> QED BY <3>1, <2>2, <1>1 DEF Says
  <2> QED BY <2>1, <2>2, <1>1
<1>6. ASSUME NEW p \in DOMAIN a, NEW i \in DOMAIN a,
             a[p].what \in {"name", "password"}, a[i].what = "input"
      PROVE  p < i
  <2>1. CASE p \in DOMAIN wire /\ i \in DOMAIN wire
    BY <2>1, <1>1, <1>6 DEF ToSpeak
  <2>2. CASE p = Len(wire) + 1 /\ i \in DOMAIN wire
    <3>1. ~Says(said, wire, "input") BY <2>2, <1>1, <1>2, <1>6 DEF MaySay
    <3> QED BY <3>1, <2>2, <1>1, <1>6 DEF Says
  <2>3. CASE i = Len(wire) + 1
    BY <2>3, <1>1, <1>6
  <2> QED BY <2>1, <2>2, <2>3, <1>1
<1>7. ToSpeak(said, a)
  BY <1>3, <1>4, <1>5, <1>6 DEF ToSpeak
<1> QED BY <1>7 DEF a

(* What the writer takes from its channel, and says unless it is a size. *)
LEMMA TailSays ==
  ASSUME NEW said, NEW wire \in Seq(Written), wire # <<>>, NEW what
  PROVE  Says(said, wire, what) <=> Says(said, Tail(wire), what) \/ Head(wire).what = what
<1> DEFINE t == Tail(wire)
<1>1. /\ 1 \in DOMAIN wire /\ wire[1] = Head(wire)
      /\ \A i \in DOMAIN t : i + 1 \in DOMAIN wire /\ t[i] = wire[i + 1] /\ i \in Nat
      /\ \A i \in DOMAIN wire : i \in Nat /\ (i = 1 \/ (i - 1 \in DOMAIN t /\ 1 < i))
  BY TailAt
<1> HIDE DEF t
<1>2. ASSUME NEW i \in DOMAIN wire, i # 1 PROVE i - 1 \in DOMAIN t /\ t[i - 1] = wire[i]
  <2>1. i \in Nat /\ i - 1 \in DOMAIN t BY <1>1, <1>2
  <2>2. t[i - 1] = wire[i - 1 + 1] /\ i - 1 + 1 = i BY <2>1, <1>1
  <2> QED BY <2>1, <2>2
<1>3. (\E i \in DOMAIN wire : wire[i].what = what)
        <=> (\E i \in DOMAIN t : t[i].what = what) \/ Head(wire).what = what
  <2>1. ASSUME NEW i \in DOMAIN wire, wire[i].what = what
        PROVE  (\E j \in DOMAIN t : t[j].what = what) \/ Head(wire).what = what
    <3>1. CASE i = 1 BY <1>1, <2>1, <3>1
    <3>2. CASE i # 1 BY <1>2, <2>1, <3>2
    <3> QED BY <3>1, <3>2
  <2>2. ASSUME NEW j \in DOMAIN t, t[j].what = what
        PROVE  \E i \in DOMAIN wire : wire[i].what = what
    BY <1>1, <2>2
  <2>3. ASSUME Head(wire).what = what
        PROVE  \E i \in DOMAIN wire : wire[i].what = what
    BY <1>1, <2>3
  <2> QED BY <2>1, <2>2, <2>3
<1>4. Says(said, wire, what) <=> Says(said, t, what) \/ Head(wire).what = what
  BY <1>3 DEF Says
<1> QED BY <1>4 DEF t

LEMMA TailSpeaks ==
  ASSUME NEW said, NEW wire \in Seq(Written), wire # <<>>, ToSpeak(said, wire),
         Head(wire).what \notin {"name", "password"}
  PROVE  ToSpeak(said, Tail(wire))
<1> DEFINE t == Tail(wire)
<1>1. /\ 1 \in DOMAIN wire /\ wire[1] = Head(wire)
      /\ \A i \in DOMAIN t : i + 1 \in DOMAIN wire /\ t[i] = wire[i + 1] /\ i \in Nat
      /\ \A i \in DOMAIN wire : i \in Nat /\ (i = 1 \/ (i - 1 \in DOMAIN t /\ 1 < i))
  BY TailAt
<1> HIDE DEF t
<1>3. ASSUME NEW i \in DOMAIN t, NEW j \in DOMAIN t,
             t[i].what = t[j].what, t[i].what \in {"name", "password"}
      PROVE  i = j
  <2>1. i + 1 = j + 1 BY <1>1, <1>3 DEF ToSpeak
  <2> QED BY <2>1, <1>1
<1>4. ASSUME NEW i \in DOMAIN said, NEW j \in DOMAIN t
      PROVE  /\ said[i] = t[j].what => said[i] \notin {"name", "password"}
             /\ said[i] = "input" => t[j].what \notin {"name", "password"}
  BY <1>1, <1>4 DEF ToSpeak
<1>5. ASSUME NEW p \in DOMAIN t, t[p].what = "password"
      PROVE  \/ \E n \in DOMAIN said : said[n] = "name"
             \/ \E n \in DOMAIN t : t[n].what = "name" /\ n < p
  <2>1. CASE \E n \in DOMAIN said : said[n] = "name"
    BY <2>1
  <2>2. CASE \E n \in DOMAIN wire : wire[n].what = "name" /\ n < p + 1
    <3>1. PICK n \in DOMAIN wire : wire[n].what = "name" /\ n < p + 1 BY <2>2
    <3>2. n \in Nat /\ n - 1 \in DOMAIN t BY <3>1, <1>1
    <3>3. t[n - 1] = wire[n - 1 + 1] /\ n - 1 + 1 = n BY <3>2, <1>1
    <3>4. n - 1 < p BY <3>1, <3>2, <1>1
    <3> QED BY <3>1, <3>2, <3>3, <3>4
  <2> QED BY <2>1, <2>2, <1>1, <1>5 DEF ToSpeak
<1>6. ASSUME NEW p \in DOMAIN t, NEW i \in DOMAIN t,
             t[p].what \in {"name", "password"}, t[i].what = "input"
      PROVE  p < i
  <2>1. p + 1 < i + 1 BY <1>1, <1>6 DEF ToSpeak
  <2> QED BY <2>1, <1>1
<1>7. ToSpeak(said, t)
  BY <1>3, <1>4, <1>5, <1>6 DEF ToSpeak
<1> QED BY <1>7 DEF t

LEMMA WriteSays ==
  ASSUME NEW said \in Seq(Heards), NEW wire, NEW h \in Heards, NEW what
  PROVE  Says(Append(said, h), wire, what) <=> Says(said, wire, what) \/ h = what
<1> DEFINE a == Append(said, h)
<1>1. /\ DOMAIN a = DOMAIN said \cup {Len(said) + 1}
      /\ \A i \in DOMAIN said : a[i] = said[i]
      /\ a[Len(said) + 1] = h
  BY AppendAt
<1> HIDE DEF a
<1>2. (\E i \in DOMAIN a : a[i] = what) <=> (\E i \in DOMAIN said : said[i] = what) \/ h = what
  BY <1>1
<1>3. Says(a, wire, what) <=> Says(said, wire, what) \/ h = what
  BY <1>2 DEF Says
<1> QED BY <1>3 DEF a

(* What the writer says, in the order of its channel. *)
LEMMA WriteSpoken ==
  ASSUME NEW said \in Seq(Heards), NEW wire \in Seq(Written), wire # <<>>,
         Spoken(said), ToSpeak(said, wire)
  PROVE  Spoken(Append(said, Head(wire).what))
<1> DEFINE h == Head(wire).what
           a == Append(said, h)
<1>0. 1 \in DOMAIN wire /\ wire[1].what = h /\ h \in Heards \cup {"size"}
      /\ \A i \in DOMAIN wire : i \in Nat /\ ~(i < 1)
  BY DEF Written, Msgs, Heards
<1>1. /\ DOMAIN a = DOMAIN said \cup {Len(said) + 1}
      /\ \A i \in DOMAIN said : i \in Nat /\ i < Len(said) + 1 /\ a[i] = said[i]
      /\ a[Len(said) + 1] = h
      /\ Len(said) \in Nat
  <2>1. said \in Seq(Heards \cup {"size"}) OBVIOUS
  <2> QED BY <2>1, <1>0, AppendAt
<1> HIDE DEF a, h
<1>2. \A i \in DOMAIN said :
        h \in {"name", "password"} => said[i] # h /\ said[i] # "input"
  BY <1>0 DEF ToSpeak
<1>3. h = "password" => \E n \in DOMAIN said : said[n] = "name"
  BY <1>0 DEF ToSpeak
<1>4. ASSUME NEW i \in DOMAIN a, NEW j \in DOMAIN a, a[i] = a[j], a[i] \in {"name", "password"} PROVE i = j
  <2>1. CASE i \in DOMAIN said /\ j \in DOMAIN said
    BY <2>1, <1>1, <1>4 DEF Spoken
  <2>2. \A k \in DOMAIN said : a[k] = said[k] /\ (a[k] = h => h \notin {"name", "password"})
    BY <1>1, <1>2
  <2>3. CASE i \in DOMAIN said /\ j = Len(said) + 1
    BY <2>2, <2>3, <1>1, <1>4
  <2>4. CASE j \in DOMAIN said /\ i = Len(said) + 1
    BY <2>2, <2>4, <1>1, <1>4
  <2> QED BY <2>1, <2>3, <2>4, <1>1
<1>5. ASSUME NEW p \in DOMAIN a, a[p] = "password" PROVE \E n \in DOMAIN a : a[n] = "name" /\ n < p
  <2>1. CASE p \in DOMAIN said
    BY <2>1, <1>1, <1>5 DEF Spoken
  <2>2. CASE p = Len(said) + 1
    BY <2>2, <1>1, <1>3, <1>5
  <2> QED BY <2>1, <2>2, <1>1
<1>6. ASSUME NEW p \in DOMAIN a, NEW i \in DOMAIN a, a[p] \in {"name", "password"}, a[i] = "input" PROVE p < i
  <2>1. CASE p \in DOMAIN said /\ i \in DOMAIN said
    BY <2>1, <1>1, <1>6 DEF Spoken
  <2>2. CASE p = Len(said) + 1
    BY <2>2, <1>1, <1>2, <1>6
  <2>3. CASE p \in DOMAIN said /\ i = Len(said) + 1
    BY <2>3, <1>1
  <2> QED BY <2>1, <2>2, <2>3, <1>1
<1>7. Spoken(a)
  BY <1>4, <1>5, <1>6 DEF Spoken
<1> QED BY <1>7 DEF a, h

LEMMA WriteSpeaks ==
  ASSUME NEW said \in Seq(Heards), NEW wire \in Seq(Written), wire # <<>>,
         ToSpeak(said, wire)
  PROVE  ToSpeak(Append(said, Head(wire).what), Tail(wire))
<1> DEFINE h == Head(wire).what
           a == Append(said, h)
           t == Tail(wire)
<1>0. 1 \in DOMAIN wire /\ wire[1].what = h /\ h \in Heards \cup {"size"}
  BY DEF Written, Msgs, Heards
<1>1. /\ DOMAIN a = DOMAIN said \cup {Len(said) + 1}
      /\ \A i \in DOMAIN said : a[i] = said[i]
      /\ a[Len(said) + 1] = h
  <2>1. said \in Seq(Heards \cup {"size"}) OBVIOUS
  <2> QED BY <2>1, <1>0, AppendAt
<1>2. /\ \A i \in DOMAIN t : i + 1 \in DOMAIN wire /\ t[i] = wire[i + 1] /\ i \in Nat /\ i + 1 # 1
      /\ \A i \in DOMAIN wire : i \in Nat /\ (i = 1 \/ (i - 1 \in DOMAIN t /\ 1 < i))
  BY TailAt
<1> HIDE DEF a, h, t
<1>3. ASSUME NEW i \in DOMAIN t, NEW j \in DOMAIN t,
             t[i].what = t[j].what, t[i].what \in {"name", "password"}
      PROVE  i = j
  <2>1. i + 1 = j + 1 BY <1>2, <1>3 DEF ToSpeak
  <2> QED BY <2>1, <1>2
<1>4. ASSUME NEW i \in DOMAIN a, NEW j \in DOMAIN t
      PROVE  /\ a[i] = t[j].what => a[i] \notin {"name", "password"}
             /\ a[i] = "input" => t[j].what \notin {"name", "password"}
  <2>1. CASE i \in DOMAIN said
    BY <2>1, <1>1, <1>2 DEF ToSpeak
  <2>2. CASE i = Len(said) + 1
    <3>1. a[i] = wire[1].what /\ t[j] = wire[j + 1] /\ j + 1 \in DOMAIN wire /\ j + 1 # 1 /\ j \in Nat
      BY <2>2, <1>0, <1>1, <1>2
    <3>2. ~(j + 1 < 1) BY <3>1
    <3> QED BY <3>1, <3>2, <1>0 DEF ToSpeak
  <2> QED BY <2>1, <2>2, <1>1
<1>5. ASSUME NEW p \in DOMAIN t, t[p].what = "password"
      PROVE  \/ \E n \in DOMAIN a : a[n] = "name"
             \/ \E n \in DOMAIN t : t[n].what = "name" /\ n < p
  <2>1. CASE \E n \in DOMAIN said : said[n] = "name"
    BY <2>1, <1>1
  <2>2. CASE \E n \in DOMAIN wire : wire[n].what = "name" /\ n < p + 1
    <3>1. PICK n \in DOMAIN wire : wire[n].what = "name" /\ n < p + 1 BY <2>2
    <3>2. CASE n = 1
      BY <3>1, <3>2, <1>0, <1>1
    <3>3. CASE n # 1
      <4>1. n \in Nat /\ n - 1 \in DOMAIN t BY <3>3, <1>2
      <4>2. t[n - 1] = wire[n - 1 + 1] /\ n - 1 + 1 = n BY <4>1, <1>2
      <4>3. n - 1 < p BY <3>1, <4>1, <1>2
      <4> QED BY <3>1, <4>1, <4>2, <4>3
    <3> QED BY <3>2, <3>3
  <2> QED BY <2>1, <2>2, <1>2, <1>5 DEF ToSpeak
<1>6. ASSUME NEW p \in DOMAIN t, NEW i \in DOMAIN t,
             t[p].what \in {"name", "password"}, t[i].what = "input"
      PROVE  p < i
  <2>1. p + 1 < i + 1 BY <1>2, <1>6 DEF ToSpeak
  <2> QED BY <2>1, <1>2
<1>7. ToSpeak(a, t)
  BY <1>3, <1>4, <1>5, <1>6 DEF ToSpeak
<1> QED BY <1>7 DEF a, h, t

-----------------------------------------------------------------------------
LEMMA ConsoleInitially == ConsoleInit => ConsoleTypes /\ ConsoleInv
<1> SUFFICES ASSUME ConsoleInit PROVE ConsoleTypes /\ ConsoleInv
  OBVIOUS
<1>1. ConsoleTypes
  BY ConsoleAssumption DEF ConsoleInit, ConsoleTypes, NoConsole, HeardBy, Heards, Codecs, Typed, Written, Data
<1>2. ASSUME NEW s \in Sessions PROVE SessionInv(s)
  <2>1. s # 0
    BY ConsoleAssumption DEF Sessions
  <2>2. IdleAt(s) /\ SizeAt(s)
    BY <2>1 DEF ConsoleInit, NoConsole, IdleAt, SizeAt, Working
  <2>3. LoginAt(s)
    BY DEF ConsoleInit, LoginAt, Spoken
  <2> QED BY <2>2, <2>3 DEF SessionInv
<1> QED BY <1>1, <1>2 DEF ConsoleInv

(* A session that a step leaves alone, but for a task of it that ends or a  *)
(* console that lets go of it.                                              *)
Undisturbed(r) ==
  /\ kind'[r] = kind[r] /\ cmds'[r] = cmds[r] /\ heard'[r] = heard[r]
  /\ toWire'[r] = toWire[r] /\ codec'[r] = codec[r]
  /\ writer'[r] = "run" => writer[r] = "run"
  /\ reader'[r] = "run" => reader[r] = "run"
  /\ link'[r] = "up" => link[r] = "up"
  /\ con'.session = r => /\ con.session = r /\ con'.size = con.size
                         /\ con'.connected => con.connected

LEMMA Frame == ASSUME NEW r, SessionInv(r), Undisturbed(r) PROVE SessionInv(r)'
<1>1. IdleAt(r)'
  BY DEF SessionInv, Undisturbed, IdleAt
<1>2. SizeAt(r)'
  BY DEF SessionInv, Undisturbed, SizeAt, Working
<1>3. LoginAt(r)'
  BY DEF SessionInv, Undisturbed, LoginAt
<1> QED BY <1>1, <1>2, <1>3 DEF SessionInv

(* The steps that leave every session alone in that sense. *)
LEMMA Others ==
  ASSUME ConsoleInv, \A r \in Sessions : Undisturbed(r) PROVE ConsoleInv'
<1> SUFFICES ASSUME NEW r \in Sessions PROVE SessionInv(r)'
  BY DEF ConsoleInv, Sessions
<1> QED BY Frame DEF ConsoleInv

(* The steps of one session, s. *)
LEMMA OneSession ==
  ASSUME NEW s \in Sessions, ConsoleInv, SessionInv(s)',
         \A r \in Sessions \ {s} : Undisturbed(r)
  PROVE  ConsoleInv'
<1> SUFFICES ASSUME NEW r \in Sessions PROVE SessionInv(r)'
  BY DEF ConsoleInv, Sessions
<1> QED BY Frame DEF ConsoleInv

LEMMA ServerSendsStep ==
  ASSUME ConsoleTypes, ConsoleInv, NEW s \in Sessions, NEW c, ServerSends(s, c)
  PROVE  ConsoleTypes' /\ ConsoleInv'
<1>1. c \in Data \cup {"naws"}
  BY DEF ServerSends, Chunks, Data
<1>2. ConsoleTypes'
  <2>1. inbox' \in [Sessions -> Seq(Data \cup {"naws"})]
    BY <1>1 DEF ServerSends, ConsoleTypes
  <2> QED BY <2>1 DEF ServerSends, ConsoleTypes, consoleTasks
<1>3. \A r \in Sessions : Undisturbed(r)
  BY DEF ServerSends, Undisturbed, consoleTasks
<1> QED BY <1>2, <1>3, Others

LEMMA ServerEndsStep ==
  ASSUME ConsoleTypes, ConsoleInv, NEW s \in Sessions, NEW how \in {"eof", "error", "deaf"},
         ServerEnds(s, how)
  PROVE  ConsoleTypes' /\ ConsoleInv'
<1>1. ConsoleTypes'
  BY DEF ServerEnds, ConsoleTypes, consoleTasks
<1>2. \A r \in Sessions : Undisturbed(r)
  BY DEF ServerEnds, Undisturbed, consoleTasks, ConsoleTypes
<1> QED BY <1>1, <1>2, Others

(* Steps that end a task or nothing. *)
Ends ==
  /\ UNCHANGED <<con, kind, link, heard, cmds, toWire, codec>>
  /\ gone' \in [Sessions -> BOOLEAN] /\ inbox' \in [Sessions -> Seq(Data \cup {"naws"})]
  /\ \E s \in Sessions : reader' \in {reader, [reader EXCEPT ![s] = "done"]}
  /\ \E s \in Sessions : writer' \in {writer, [writer EXCEPT ![s] = "done"]}

(* One session's codec, or one of its fields, is set. *)
LEMMA CodecSet ==
  ASSUME NEW f \in [Sessions -> Codecs], NEW s \in Sessions, NEW c \in Codecs
  PROVE  LET g == [f EXCEPT ![s] = c] IN
         g \in [Sessions -> Codecs] /\ g[s] = c /\ \A r \in Sessions \ {s} : g[r] = f[r]
OBVIOUS

LEMMA CodecArmed ==
  ASSUME NEW c \in Codecs, NEW a \in BOOLEAN
  PROVE  LET d == [c EXCEPT !.armed = a] IN
         d \in Codecs /\ d.armed = a /\ d.naws = c.naws /\ d.size = c.size /\ d.sentUser = c.sentUser
BY DEF Codecs

LEMMA CodecSized ==
  ASSUME NEW c \in Codecs, NEW z \in GridSizes
  PROVE  LET d == [c EXCEPT !.size = z] IN
         d \in Codecs /\ d.size = z /\ d.naws = c.naws /\ d.armed = c.armed /\ d.sentUser = c.sentUser
BY DEF Codecs

LEMMA EndsStep == ASSUME ConsoleTypes, ConsoleInv, Ends PROVE ConsoleTypes' /\ ConsoleInv'
<1>1. /\ reader' \in [Sessions -> {"run", "done"}]
      /\ writer' \in [Sessions -> {"run", "done"}]
  BY DEF Ends, ConsoleTypes
<1>2. UNCHANGED <<con, kind, link, heard, cmds, toWire, codec>>
      /\ gone' \in [Sessions -> BOOLEAN] /\ inbox' \in [Sessions -> Seq(Data \cup {"naws"})]
  BY Zenon DEF Ends
<1>3. ConsoleTypes'
  BY <1>1, <1>2, Zenon DEF ConsoleTypes
<1>4. \A r \in Sessions : Undisturbed(r)
  BY DEF Ends, Undisturbed, ConsoleTypes
<1> QED BY <1>3, <1>4, Others

LEMMA TaskSteps ==
  ASSUME ConsoleTypes, NEW s \in Sessions,
         TelnetDropped(s) \/ ReaderEnds(s) \/ ShellReads(s) \/ WriterEnds(s) \/ Forward(s)
  PROVE  Ends
<1>0. gone \in [Sessions -> BOOLEAN] /\ inbox \in [Sessions -> Seq(Data \cup {"naws"})]
  BY DEF ConsoleTypes
<1>1. CASE TelnetDropped(s)
  BY <1>0, <1>1 DEF TelnetDropped, Ends, Ended
<1>2. CASE ReaderEnds(s)
  BY <1>0, <1>2 DEF ReaderEnds, Ends, Ended
<1>3. CASE ShellReads(s)
  <2>1. inbox' \in [Sessions -> Seq(Data \cup {"naws"})]
    BY <1>0, <1>3 DEF ShellReads
  <2> QED BY <1>0, <1>3, <2>1 DEF ShellReads, Ends, Ended, Running
<1>4. CASE WriterEnds(s)
  BY <1>0, <1>4 DEF WriterEnds, Ends
<1>5. CASE Forward(s)
  BY <1>0, <1>5 DEF Forward, Ends
<1> QED BY <1>1, <1>2, <1>3, <1>4, <1>5

-----------------------------------------------------------------------------
(* The Telnet reader and what it hands to the writer. *)
Others0(s) ==
  \A r \in Sessions \ {s} :
    /\ reader'[r] = reader[r] /\ toWire'[r] = toWire[r]
HandedOn(s, m) ==
  /\ reader' \in [Sessions -> {"run", "done"}] /\ toWire' \in [Sessions -> Seq(Written)]
  /\ reader'[s] = "run" => reader[s] = "run"
  /\ Others0(s)
  /\ \/ writer[s] = "done" /\ reader'[s] = "done" /\ toWire'[s] = toWire[s]
     \/ writer[s] = "run" /\ toWire'[s] = Append(toWire[s], m)

LEMMA HandsOn ==
  ASSUME ConsoleTypes, NEW s \in Sessions, NEW m \in Written, Hand(s, <<m>>)
  PROVE  HandedOn(s, m)
<1>1. toWire[s] \in Seq(Written) /\ toWire[s] \o <<m>> = Append(toWire[s], m)
  BY DEF ConsoleTypes
<1>2. writer[s] \in {"run", "done"} /\ <<m>> # <<>>
  BY DEF ConsoleTypes
<1>3. CASE writer[s] = "done"
  BY <1>2, <1>3 DEF Hand, Ended, HandedOn, ConsoleTypes, Others0
<1>4. CASE writer[s] = "run"
  <2>1. Append(toWire[s], m) \in Seq(Written)
    BY <1>1
  <2>2. reader' = reader /\ toWire' = [toWire EXCEPT ![s] = Append(toWire[s], m)]
    BY <1>1, <1>2, <1>4 DEF Hand, Running
  <2> QED BY <2>1, <2>2, <1>4 DEF HandedOn, ConsoleTypes, Others0
<1> QED BY <1>2, <1>3, <1>4

(* The next command of a session. *)
LEMMA NextCommand ==
  ASSUME ConsoleTypes, NEW s \in Sessions, cmds[s] # <<>>,
         cmds' = [cmds EXCEPT ![s] = Tail(@)]
  PROVE  /\ cmds' \in [Sessions -> Seq(Typed)] /\ cmds'[s] = Tail(cmds[s])
         /\ Head(cmds[s]) \in Typed
         /\ \A r \in Sessions \ {s} : cmds'[r] = cmds[r]
<1>1. cmds[s] \in Seq(Typed) /\ Head(cmds[s]) \in Typed /\ Tail(cmds[s]) \in Seq(Typed)
  BY DEF ConsoleTypes
<1> QED BY <1>1 DEF ConsoleTypes

LEMMA TypedWritten ==
  ASSUME NEW m \in Typed, m.what # "close"
  PROVE  /\ m \in Written /\ m.what \in {"input", "size"}
         /\ m.what = "size" => m.size \in GridSizes
  BY DEF Typed, Written, Msgs

LEMMA TakesInput ==
  ASSUME ConsoleTypes, ConsoleInv, NEW s \in Sessions, TelnetTakes(s), Head(cmds[s]).what = "input"
  PROVE  ConsoleTypes' /\ ConsoleInv'
<1> DEFINE m == Head(cmds[s])
<1>1. /\ cmds' \in [Sessions -> Seq(Typed)] /\ cmds'[s] = Tail(cmds[s]) /\ m \in Typed
      /\ \A r \in Sessions \ {s} : cmds'[r] = cmds[r]
  BY NextCommand DEF TelnetTakes
<1>2. /\ codec' = [codec EXCEPT ![s].armed = FALSE] /\ Hand(s, <<m>>)
      /\ kind[s] = "telnet" /\ cmds[s] # <<>>
      /\ UNCHANGED <<con, gone, kind, link, inbox, heard, writer>>
  BY DEF TelnetTakes
<1> HIDE DEF m
<1>3. m.what = "input" /\ m \in Written
  BY <1>1, TypedWritten DEF m
<1>4. HandedOn(s, m)
  BY <1>2, <1>3, HandsOn
<1>5. /\ codec' \in [Sessions -> Codecs] /\ ~codec'[s].armed /\ codec'[s].naws = codec[s].naws
      /\ codec'[s].size = codec[s].size /\ codec'[s].sentUser = codec[s].sentUser
      /\ \A r \in Sessions \ {s} : codec'[r] = codec[r]
  <2> DEFINE d == [codec[s] EXCEPT !.armed = FALSE]
  <2>1. codec \in [Sessions -> Codecs] /\ codec[s] \in Codecs
    BY DEF ConsoleTypes
  <2>2. codec' = [codec EXCEPT ![s] = d]
    BY <1>2
  <2>3. d \in Codecs /\ d.armed = FALSE /\ d.naws = codec[s].naws /\ d.size = codec[s].size /\ d.sentUser = codec[s].sentUser
    BY <2>1, CodecArmed
  <2> HIDE DEF d
  <2> QED BY <2>1, <2>2, <2>3, CodecSet
<1>6. ConsoleTypes'
  BY <1>1, <1>2, <1>4, <1>5 DEF ConsoleTypes, HandedOn
<1>7. \A r \in Sessions \ {s} : Undisturbed(r)
  BY <1>1, <1>2, <1>4, <1>5 DEF Undisturbed, HandedOn, Others0
<1>8. SessionInv(s) /\ toWire[s] \in Seq(Written) /\ cmds[s] \in Seq(Typed)
  BY DEF ConsoleInv, ConsoleTypes
<1>9. IdleAt(s)'
  BY <1>2 DEF IdleAt
<1>10. ASSUME Working(s)' PROVE SizeAt(s)'
  <2>1. Working(s) /\ toWire'[s] = Append(toWire[s], m)
    BY <1>10, <1>2, <1>4 DEF Working, HandedOn
  <2>2. EndsAt(cmds[s], codec[s].size, con.size) /\ (codec[s].naws => EndsAt(toWire[s], heard[s].size, codec[s].size))
    BY <2>1, <1>2, <1>8 DEF SessionInv, SizeAt
  <2>3. EndsAt(cmds'[s], codec[s].size, con.size)
    BY <2>2, <1>1, <1>2, <1>3, <1>8, TailSize DEF m
  <2>4. codec[s].naws => EndsAt(toWire'[s], heard[s].size, codec[s].size)
    BY <2>1, <2>2, <1>3, <1>8, AppendOther
  <2> QED BY <2>3, <2>4, <1>2, <1>5 DEF SizeAt
<1>11. LoginAt(s)'
  <2> DEFINE said == heard[s].said
  <2>1. LoginAt(s) BY <1>8 DEF SessionInv
  <2>2. CASE writer[s] = "run"
    <3>1. toWire'[s] = Append(toWire[s], m)
      BY <2>2, <1>4 DEF HandedOn
    <3>2. ToSpeak(said, toWire[s]) /\ LoginState(said, toWire[s], codec[s])
      BY <2>1, <2>2, <1>2 DEF LoginAt
    <3>3. ToSpeak(said, toWire'[s])
      BY <3>1, <3>2, <1>3, <1>8, AppendSpeaks DEF MaySay
    <3>4. Says(said, toWire'[s], "name") <=> Says(said, toWire[s], "name")
      BY <3>1, <1>3, <1>8, AppendSays
    <3>5. LoginState(said, toWire'[s], codec'[s])
      BY <3>2, <3>4, <1>5 DEF LoginState
    <3> QED BY <3>3, <3>5, <2>1, <1>2 DEF LoginAt
  <2>3. CASE writer[s] # "run"
    BY <2>1, <2>3, <1>2 DEF LoginAt
  <2> QED BY <2>2, <2>3
<1> QED BY <1>6, <1>7, <1>9, <1>10, <1>11, OneSession DEF SessionInv, SizeAt

LEMMA TakesSize ==
  ASSUME ConsoleTypes, ConsoleInv, NEW s \in Sessions, TelnetTakes(s), Head(cmds[s]).what = "size"
  PROVE  ConsoleTypes' /\ ConsoleInv'
<1> DEFINE m == Head(cmds[s])
<1>1. /\ cmds' \in [Sessions -> Seq(Typed)] /\ cmds'[s] = Tail(cmds[s]) /\ m \in Typed
      /\ \A r \in Sessions \ {s} : cmds'[r] = cmds[r]
  BY NextCommand DEF TelnetTakes
<1>2. /\ codec' = [codec EXCEPT ![s].size = m.size]
      /\ Hand(s, IF codec[s].naws THEN <<m>> ELSE <<>>)
      /\ kind[s] = "telnet" /\ cmds[s] # <<>>
      /\ UNCHANGED <<con, gone, kind, link, inbox, heard, writer>>
  BY DEF TelnetTakes
<1> HIDE DEF m
<1>3. m.what = "size" /\ m \in Written /\ m.size \in GridSizes
  BY <1>1, TypedWritten DEF m
<1>4. CASE codec[s].naws
  <2>1. HandedOn(s, m)
    BY <1>2, <1>3, <1>4, HandsOn
  <2>2. /\ codec' \in [Sessions -> Codecs] /\ codec'[s].naws = codec[s].naws
        /\ codec'[s].size = m.size /\ codec'[s].sentUser = codec[s].sentUser
        /\ codec'[s].armed = codec[s].armed
        /\ \A r \in Sessions \ {s} : codec'[r] = codec[r]
    <3> DEFINE d == [codec[s] EXCEPT !.size = m.size]
    <3>1. codec \in [Sessions -> Codecs] /\ codec[s] \in Codecs
      BY DEF ConsoleTypes
    <3>2. codec' = [codec EXCEPT ![s] = d]
      BY <1>2
    <3>3. d \in Codecs /\ d.size = m.size /\ d.naws = codec[s].naws /\ d.armed = codec[s].armed
          /\ d.sentUser = codec[s].sentUser
      BY <1>3, <3>1, CodecSized
    <3> HIDE DEF d
    <3> QED BY <3>1, <3>2, <3>3, CodecSet
  <2>3. ConsoleTypes'
    BY <1>1, <1>2, <2>1, <2>2 DEF ConsoleTypes, HandedOn
  <2>4. \A r \in Sessions \ {s} : Undisturbed(r)
    BY <1>1, <1>2, <2>1, <2>2 DEF Undisturbed, HandedOn, Others0
  <2>5. SessionInv(s) /\ toWire[s] \in Seq(Written) /\ cmds[s] \in Seq(Typed)
    BY DEF ConsoleInv, ConsoleTypes
  <2>6. IdleAt(s)'
    BY <1>2 DEF IdleAt
  <2>7. ASSUME Working(s)' PROVE SizeAt(s)'
    <3>1. Working(s) /\ toWire'[s] = Append(toWire[s], m)
      BY <2>7, <1>2, <2>1 DEF Working, HandedOn
    <3>2. EndsAt(cmds[s], codec[s].size, con.size)
      BY <3>1, <1>2, <2>5 DEF SessionInv, SizeAt
    <3>3. EndsAt(cmds'[s], m.size, con.size)
      BY <3>2, <1>1, <1>2, <1>3, <2>5, TailSize DEF m
    <3>4. EndsAt(toWire'[s], heard[s].size, m.size)
      BY <3>1, <1>3, <2>5, AppendSize
    <3> QED BY <3>3, <3>4, <1>2, <2>2 DEF SizeAt
  <2>8. LoginAt(s)'
    <3> DEFINE said == heard[s].said
    <3>1. LoginAt(s) BY <2>5 DEF SessionInv
    <3>2. CASE writer[s] = "run"
      <4>1. toWire'[s] = Append(toWire[s], m)
        BY <3>2, <2>1 DEF HandedOn
      <4>2. ToSpeak(said, toWire[s]) /\ LoginState(said, toWire[s], codec[s])
        BY <3>1, <3>2, <1>2 DEF LoginAt
      <4>3. ToSpeak(said, toWire'[s])
        BY <4>1, <4>2, <1>3, <2>5, AppendSpeaks DEF MaySay
      <4>4. /\ Says(said, toWire'[s], "name") <=> Says(said, toWire[s], "name")
            /\ Says(said, toWire'[s], "input") <=> Says(said, toWire[s], "input")
            /\ Says(said, toWire'[s], "password") <=> Says(said, toWire[s], "password")
        BY <4>1, <1>3, <2>5, AppendSays
      <4>5. LoginState(said, toWire'[s], codec'[s])
        BY <4>2, <4>4, <2>2 DEF LoginState
      <4> QED BY <4>3, <4>5, <3>1, <1>2 DEF LoginAt
    <3>3. CASE writer[s] # "run"
      BY <3>1, <3>3, <1>2 DEF LoginAt
    <3> QED BY <3>2, <3>3
  <2> QED BY <2>3, <2>4, <2>6, <2>7, <2>8, OneSession DEF SessionInv, SizeAt
<1>5. CASE ~codec[s].naws
  <2>0. Hand(s, <<>>)
    BY <1>2, <1>5
  <2>1. reader' = reader /\ toWire' = toWire
    <3>1. toWire[s] \o <<>> = toWire[s] BY DEF ConsoleTypes
    <3> QED BY <3>1, <2>0 DEF Hand, Running, ConsoleTypes
  <2>2. /\ codec' \in [Sessions -> Codecs] /\ codec'[s].naws = codec[s].naws
        /\ codec'[s].size = m.size /\ codec'[s].sentUser = codec[s].sentUser
        /\ codec'[s].armed = codec[s].armed
        /\ \A r \in Sessions \ {s} : codec'[r] = codec[r]
    <3> DEFINE d == [codec[s] EXCEPT !.size = m.size]
    <3>1. codec \in [Sessions -> Codecs] /\ codec[s] \in Codecs
      BY DEF ConsoleTypes
    <3>2. codec' = [codec EXCEPT ![s] = d]
      BY <1>2
    <3>3. d \in Codecs /\ d.size = m.size /\ d.naws = codec[s].naws /\ d.armed = codec[s].armed
          /\ d.sentUser = codec[s].sentUser
      BY <1>3, <3>1, CodecSized
    <3> HIDE DEF d
    <3> QED BY <3>1, <3>2, <3>3, CodecSet
  <2>3. ConsoleTypes'
    BY <1>1, <1>2, <2>1, <2>2 DEF ConsoleTypes
  <2>4. \A r \in Sessions \ {s} : Undisturbed(r)
    BY <1>1, <1>2, <2>1, <2>2 DEF Undisturbed
  <2>5. SessionInv(s) /\ toWire[s] \in Seq(Written) /\ cmds[s] \in Seq(Typed)
    BY DEF ConsoleInv, ConsoleTypes
  <2>6. IdleAt(s)'
    BY <1>2 DEF IdleAt
  <2>7. ASSUME Working(s)' PROVE SizeAt(s)'
    <3>1. Working(s)
      BY <2>7, <1>2, <2>1 DEF Working
    <3>2. EndsAt(cmds[s], codec[s].size, con.size)
      BY <3>1, <1>2, <2>5 DEF SessionInv, SizeAt
    <3>3. EndsAt(cmds'[s], m.size, con.size)
      BY <3>2, <1>1, <1>2, <1>3, <2>5, TailSize DEF m
    <3> QED BY <3>3, <1>2, <1>5, <2>2 DEF SizeAt
  <2>8. LoginAt(s)'
    BY <2>1, <2>2, <2>5, <1>2 DEF SessionInv, LoginAt, LoginState
  <2> QED BY <2>3, <2>4, <2>6, <2>7, <2>8, OneSession DEF SessionInv, SizeAt
<1> QED BY <1>4, <1>5

LEMMA TakesClose ==
  ASSUME ConsoleTypes, ConsoleInv, NEW s \in Sessions, TelnetTakes(s), Head(cmds[s]).what = "close"
  PROVE  ConsoleTypes' /\ ConsoleInv'
<1>1. /\ cmds' \in [Sessions -> Seq(Typed)]
      /\ \A r \in Sessions \ {s} : cmds'[r] = cmds[r]
  BY NextCommand DEF TelnetTakes
<1>2. /\ reader' = [reader EXCEPT ![s] = "done"] /\ kind[s] = "telnet"
      /\ UNCHANGED <<con, gone, kind, link, inbox, heard, writer, codec, toWire>>
  BY DEF TelnetTakes, Ended
<1>3. ConsoleTypes'
  BY <1>1, <1>2 DEF ConsoleTypes
<1>4. \A r \in Sessions \ {s} : Undisturbed(r)
  BY <1>1, <1>2 DEF Undisturbed, ConsoleTypes
<1>5. SessionInv(s)'
  <2>1. SessionInv(s) BY DEF ConsoleInv
  <2>2. ~Working(s)' BY <1>2 DEF Working, ConsoleTypes
  <2>3. IdleAt(s)' /\ SizeAt(s)' BY <1>2, <2>2 DEF IdleAt, SizeAt
  <2>4. LoginAt(s)' BY <2>1, <1>2 DEF SessionInv, LoginAt
  <2> QED BY <2>3, <2>4 DEF SessionInv
<1> QED BY <1>3, <1>4, <1>5, OneSession

LEMMA TelnetTakesStep ==
  ASSUME ConsoleTypes, ConsoleInv, NEW s \in Sessions, TelnetTakes(s)
  PROVE  ConsoleTypes' /\ ConsoleInv'
<1>1. Head(cmds[s]).what \in {"input", "size", "close"}
  BY DEF TelnetTakes
<1> QED BY <1>1, TakesInput, TakesSize, TakesClose

LEMMA LoginExpiresStep ==
  ASSUME ConsoleTypes, ConsoleInv, NEW s \in Sessions, LoginExpires(s)
  PROVE  ConsoleTypes' /\ ConsoleInv'
<1>1. /\ codec' = [codec EXCEPT ![s].armed = FALSE] /\ codec[s].armed
      /\ UNCHANGED <<con, gone, kind, link, inbox, heard, cmds, toWire, reader, writer>>
  BY DEF LoginExpires, consoleTasks
<1>2. /\ codec' \in [Sessions -> Codecs] /\ ~codec'[s].armed /\ codec'[s].naws = codec[s].naws
      /\ codec'[s].size = codec[s].size /\ codec'[s].sentUser = codec[s].sentUser
      /\ \A r \in Sessions \ {s} : codec'[r] = codec[r]
  <2> DEFINE d == [codec[s] EXCEPT !.armed = FALSE]
  <2>1. codec \in [Sessions -> Codecs] /\ codec[s] \in Codecs
    BY DEF ConsoleTypes
  <2>2. codec' = [codec EXCEPT ![s] = d]
    BY <1>1
  <2>3. d \in Codecs /\ d.armed = FALSE /\ d.naws = codec[s].naws /\ d.size = codec[s].size /\ d.sentUser = codec[s].sentUser
    BY <2>1, CodecArmed
  <2> HIDE DEF d
  <2> QED BY <2>1, <2>2, <2>3, CodecSet
<1>3. ConsoleTypes'
  BY <1>1, <1>2 DEF ConsoleTypes
<1>4. \A r \in Sessions \ {s} : Undisturbed(r)
  BY <1>1, <1>2 DEF Undisturbed
<1>5. SessionInv(s)
  BY DEF ConsoleInv
<1>6. IdleAt(s)' /\ SizeAt(s)' /\ LoginAt(s)'
  BY <1>1, <1>2, <1>5 DEF SessionInv, IdleAt, SizeAt, Working, LoginAt, LoginState
<1> QED BY <1>3, <1>4, <1>6, OneSession DEF SessionInv

(* What the Telnet reader answers, and what it then remembers. *)
Answer(s, c) ==
  IF c = "naws"
  THEN IF codec[s].naws THEN <<>> ELSE <<[what |-> "size", size |-> codec[s].size]>>
  ELSE Login(s, c)
Answers(s, m) ==
  \/ m.what = "size" /\ m.size = codec[s].size /\ ~codec[s].naws
  \/ m.what = "name" /\ codec[s].armed /\ ~codec[s].sentUser
  \/ m.what = "password" /\ codec[s].armed /\ codec[s].sentUser
Remembers(s, m) ==
  /\ codec'[s].naws <=> codec[s].naws \/ m.what = "size"
  /\ codec'[s].sentUser <=> codec[s].sentUser \/ m.what = "name"
  /\ codec'[s].armed <=> codec[s].armed /\ m.what # "password"

LEMMA CodecReads ==
  ASSUME ConsoleTypes, NEW s \in Sessions, NEW n, NEW u, NEW a,
         n \in BOOLEAN, u \in BOOLEAN, a \in BOOLEAN,
         codec' = [codec EXCEPT ![s].naws = n, ![s].sentUser = u, ![s].armed = a]
  PROVE  /\ codec' \in [Sessions -> Codecs]
         /\ codec'[s].naws = n /\ codec'[s].sentUser = u /\ codec'[s].armed = a
         /\ codec'[s].size = codec[s].size
         /\ \A r \in Sessions \ {s} : codec'[r] = codec[r]
<1> DEFINE d == [codec[s] EXCEPT !.naws = n, !.sentUser = u, !.armed = a]
<1>1. codec \in [Sessions -> Codecs] /\ codec[s] \in Codecs
  BY DEF ConsoleTypes
<1>2. codec' = [codec EXCEPT ![s] = d]
  BY <1>1
<1>3. d \in Codecs /\ d.naws = n /\ d.sentUser = u /\ d.armed = a /\ d.size = codec[s].size
  <2>1. codec[s] \in Codecs /\ n \in BOOLEAN /\ u \in BOOLEAN /\ a \in BOOLEAN
    BY <1>1
  <2> QED BY ONLY <2>1 DEF Codecs
<1> HIDE DEF d
<1>4. /\ codec' \in [Sessions -> Codecs] /\ codec'[s] = d
      /\ \A r \in Sessions \ {s} : codec'[r] = codec[r]
  <2>1. s \in Sessions
    OBVIOUS
  <2> QED BY ONLY <1>1, <1>2, <1>3, <2>1, CodecSet
<1> QED BY <1>3, <1>4

LEMMA SameCodec ==
  ASSUME NEW x \in Codecs, NEW y \in Codecs, x.size = y.size, x.naws = y.naws,
         x.armed = y.armed, x.sentUser = y.sentUser
  PROVE  x = y
  BY DEF Codecs

(* What reading an item does, given the reply it calls for. *)
ReadWith(s, reply) ==
  /\ kind[s] = "telnet" /\ Head(inbox[s]) \in Data \cup {"naws"}
  /\ codec' \in [Sessions -> Codecs] /\ codec'[s].size = codec[s].size
  /\ codec'[s].naws <=> codec[s].naws \/ Head(inbox[s]) = "naws"
  /\ codec'[s].sentUser <=> codec[s].sentUser \/ reply = <<[what |-> "name"]>>
  /\ codec'[s].armed <=> codec[s].armed /\ reply # <<[what |-> "password"]>>
  /\ \A r \in Sessions \ {s} : codec'[r] = codec[r]
  /\ reader' \in {reader, [reader EXCEPT ![s] = "done"]}
  /\ reply # <<>> /\ writer[s] = "done" => reader' = [reader EXCEPT ![s] = "done"] /\ toWire' = toWire
  /\ ~(reply # <<>> /\ writer[s] = "done") => toWire' = [toWire EXCEPT ![s] = @ \o reply]
  /\ inbox' \in [Sessions -> Seq(Data \cup {"naws"})]
  /\ UNCHANGED <<con, gone, kind, link, heard, cmds, writer>>

LEMMA ReadsFacts ==
  ASSUME ConsoleTypes, NEW s \in Sessions, TelnetReads(s),
         NEW reply, Answer(s, Head(inbox[s])) = reply
  PROVE  ReadWith(s, reply)
<1> DEFINE c == Head(inbox[s])
           n == codec[s].naws \/ c = "naws"
           u == codec[s].sentUser \/ reply = <<[what |-> "name"]>>
           a == codec[s].armed /\ reply # <<[what |-> "password"]>>
<1>1. inbox[s] # <<>> /\ inbox[s] \in Seq(Data \cup {"naws"})
  BY DEF TelnetReads, ConsoleTypes
<1>2. c \in Data \cup {"naws"} /\ Tail(inbox[s]) \in Seq(Data \cup {"naws"})
  BY <1>1
<1>3. inbox' \in [Sessions -> Seq(Data \cup {"naws"})]
  BY <1>2 DEF TelnetReads, ConsoleTypes
<1>4. codec' = [codec EXCEPT ![s].naws = n, ![s].sentUser = u, ![s].armed = a]
  BY Zenon DEF TelnetReads, Answer
<1>5. n \in BOOLEAN /\ u \in BOOLEAN /\ a \in BOOLEAN
  OBVIOUS
<1>6. /\ codec' \in [Sessions -> Codecs]
      /\ codec'[s].naws = n /\ codec'[s].sentUser = u /\ codec'[s].armed = a
      /\ codec'[s].size = codec[s].size
      /\ \A r \in Sessions \ {s} : codec'[r] = codec[r]
  <2> HIDE DEF n, u, a
  <2> QED BY <1>4, <1>5, CodecReads
<1>7. /\ reader' \in {reader, [reader EXCEPT ![s] = "done"]}
      /\ reply # <<>> /\ writer[s] = "done" =>
              reader' = [reader EXCEPT ![s] = "done"] /\ toWire' = toWire
      /\ ~(reply # <<>> /\ writer[s] = "done") => toWire' = [toWire EXCEPT ![s] = @ \o reply]
      /\ UNCHANGED <<con, gone, kind, link, heard, cmds, writer>> /\ kind[s] = "telnet"
  BY DEF TelnetReads, Answer, Ended, Running
<1> QED BY <1>2, <1>3, <1>6, <1>7 DEF ReadWith

LEMMA ReadsQuietly ==
  ASSUME ConsoleTypes, ConsoleInv, NEW s \in Sessions, TelnetReads(s),
         Answer(s, Head(inbox[s])) = <<>>
  PROVE  ConsoleTypes' /\ ConsoleInv'
<1> DEFINE c == Head(inbox[s])
<1>1. /\ kind[s] = "telnet" /\ c \in Data \cup {"naws"}
      /\ codec' \in [Sessions -> Codecs] /\ codec'[s].size = codec[s].size
      /\ codec'[s].naws <=> codec[s].naws \/ c = "naws"
      /\ codec'[s].sentUser <=> codec[s].sentUser
      /\ codec'[s].armed <=> codec[s].armed
      /\ \A r \in Sessions \ {s} : codec'[r] = codec[r]
      /\ reader' \in {reader, [reader EXCEPT ![s] = "done"]}
      /\ toWire' = [toWire EXCEPT ![s] = @ \o <<>>]
      /\ inbox' \in [Sessions -> Seq(Data \cup {"naws"})]
      /\ UNCHANGED <<con, gone, kind, link, heard, cmds, writer>>
  <2>1. <<>> # <<[what |-> "name"]>> /\ <<>> # <<[what |-> "password"]>>
    OBVIOUS
  <2>2. ReadWith(s, <<>>)
    BY ReadsFacts
  <2> QED BY <2>1, <2>2, Zenon DEF ReadWith
<1>2. c = "naws" => codec[s].naws
  BY DEF Answer
<1> HIDE DEF c
<1>5. codec[s] \in Codecs /\ codec'[s] \in Codecs
  BY <1>1 DEF ConsoleTypes
<1>6. codec'[s] = codec[s]
  <2>1. codec[s].naws = codec'[s].naws /\ codec[s].sentUser = codec'[s].sentUser
        /\ codec[s].armed = codec'[s].armed
    BY <1>1, <1>2, <1>5 DEF Codecs
  <2> QED BY <1>1, <1>5, <2>1, SameCodec
<1>7. toWire' = toWire
  <2>1. toWire[s] \in Seq(Written) BY DEF ConsoleTypes
  <2>2. toWire[s] \o <<>> = toWire[s] BY <2>1
  <2> QED BY <2>2, <1>1 DEF ConsoleTypes
<1>8. ConsoleTypes'
  BY <1>1, <1>5, <1>7 DEF ConsoleTypes
<1>9. \A r \in Sessions : Undisturbed(r)
  BY <1>1, <1>5, <1>6, <1>7 DEF Undisturbed, ConsoleTypes
<1> QED BY <1>8, <1>9, Others

LEMMA ReadsAnswering ==
  ASSUME ConsoleTypes, ConsoleInv, NEW s \in Sessions, TelnetReads(s),
         NEW m \in Written, Answer(s, Head(inbox[s])) = <<m>>, Answers(s, m),
         Head(inbox[s]) = "naws" <=> m.what = "size",
         <<m>> = <<[what |-> "name"]>> <=> m.what = "name",
         <<m>> = <<[what |-> "password"]>> <=> m.what = "password"
  PROVE  ConsoleTypes' /\ ConsoleInv'
<1>0. ReadWith(s, <<m>>)
  BY ReadsFacts
<1>1. /\ kind[s] = "telnet"
      /\ reader' \in {reader, [reader EXCEPT ![s] = "done"]}
      /\ writer[s] = "done" => reader' = [reader EXCEPT ![s] = "done"] /\ toWire' = toWire
      /\ writer[s] # "done" => toWire' = [toWire EXCEPT ![s] = @ \o <<m>>]
      /\ inbox' \in [Sessions -> Seq(Data \cup {"naws"})]
      /\ UNCHANGED <<con, gone, kind, link, heard, cmds, writer>>
  <2>1. <<m>> # <<>> OBVIOUS
  <2> QED BY <1>0, <2>1, Zenon DEF ReadWith
<1>3. /\ codec' \in [Sessions -> Codecs] /\ codec'[s].size = codec[s].size
      /\ codec'[s].naws <=> codec[s].naws \/ m.what = "size"
      /\ codec'[s].sentUser <=> codec[s].sentUser \/ m.what = "name"
      /\ codec'[s].armed <=> codec[s].armed /\ m.what # "password"
      /\ \A r \in Sessions \ {s} : codec'[r] = codec[r]
  BY <1>0, Zenon DEF ReadWith
<1>4. Remembers(s, m)
  BY <1>3 DEF Remembers
<1>5. toWire[s] \in Seq(Written) /\ toWire[s] \o <<m>> = Append(toWire[s], m)
      /\ Append(toWire[s], m) \in Seq(Written) /\ writer[s] \in {"run", "done"}
  BY DEF ConsoleTypes
<1>6. /\ toWire' \in [Sessions -> Seq(Written)]
      /\ writer[s] = "run" => toWire'[s] = Append(toWire[s], m)
      /\ \A r \in Sessions \ {s} : toWire'[r] = toWire[r]
  <2>1. CASE writer[s] = "done"
    BY <2>1, <1>1 DEF ConsoleTypes
  <2>2. CASE writer[s] = "run"
    <3>1. toWire' = [toWire EXCEPT ![s] = Append(toWire[s], m)]
      BY <2>2, <1>1, <1>5
    <3> QED BY <3>1, <1>5 DEF ConsoleTypes
  <2> QED BY <2>1, <2>2, <1>5
<1>7. /\ \A r \in Sessions : reader'[r] = "run" => reader[r] = "run"
      /\ reader' \in [Sessions -> {"run", "done"}]
      /\ writer[s] = "done" => reader'[s] = "done"
  <2>1. reader \in [Sessions -> {"run", "done"}]
    BY DEF ConsoleTypes
  <2>2. CASE reader' = reader /\ writer[s] # "done"
    BY <2>1, <2>2
  <2>3. CASE reader' = [reader EXCEPT ![s] = "done"]
    BY <2>1, <2>3
  <2> QED BY <1>1, <2>2, <2>3
<1>8. ConsoleTypes'
  BY <1>1, <1>3, <1>6, <1>7 DEF ConsoleTypes
<1>9. \A r \in Sessions \ {s} : Undisturbed(r)
  BY <1>1, <1>3, <1>6, <1>7 DEF Undisturbed
<1>10. SessionInv(s) BY DEF ConsoleInv
<1>11. IdleAt(s)'
  BY <1>1 DEF IdleAt
<1>12. ASSUME Working(s)' PROVE SizeAt(s)'
  <2>1. Working(s) /\ writer[s] = "run"
    BY <1>12, <1>1, <1>7 DEF Working
  <2>2. /\ EndsAt(cmds[s], codec[s].size, con.size)
        /\ codec[s].naws => EndsAt(toWire[s], heard[s].size, codec[s].size)
    BY <2>1, <1>1, <1>10 DEF SessionInv, SizeAt
  <2>3. codec'[s].naws => EndsAt(toWire'[s], heard[s].size, codec[s].size)
    <3>1. CASE m.what = "size"
      <4>1. m.size = codec[s].size BY <3>1 DEF Answers
      <4>2. EndsAt(Append(toWire[s], m), heard[s].size, m.size) BY <3>1, <1>5, AppendSize
      <4> QED BY <4>1, <4>2, <2>1, <1>6
    <3>2. CASE m.what # "size"
      <4>1. codec'[s].naws => codec[s].naws BY <3>2, <1>4 DEF Remembers
      <4> QED BY <4>1, <3>2, <2>1, <2>2, <1>5, <1>6, AppendOther
    <3> QED BY <3>1, <3>2
  <2> QED BY <2>2, <2>3, <1>1, <1>3 DEF SizeAt
<1>13. LoginAt(s)'
  <2> DEFINE said == heard[s].said
  <2>1. LoginAt(s) BY <1>10 DEF SessionInv
  <2>2. CASE writer[s] = "run"
    <3>1. toWire'[s] = Append(toWire[s], m)
      BY <2>2, <1>6
    <3>2. ToSpeak(said, toWire[s]) /\ LoginState(said, toWire[s], codec[s])
      BY <2>1, <2>2, <1>1 DEF LoginAt
    <3>3. MaySay(said, toWire[s], m.what)
      BY <3>2 DEF MaySay, Answers, LoginState
    <3>4. ToSpeak(said, toWire'[s])
      BY <3>1, <3>2, <3>3, <1>5, AppendSpeaks
    <3>5. \A what : Says(said, toWire'[s], what) <=> Says(said, toWire[s], what) \/ m.what = what
      BY <3>1, <1>5, AppendSays
    <3>6. LoginState(said, toWire'[s], codec'[s])
      <4>1. codec'[s].armed => codec[s].armed /\ m.what # "password"
        BY <1>4 DEF Remembers
      <4>2. codec'[s].sentUser <=> codec[s].sentUser \/ m.what = "name"
        BY <1>4 DEF Remembers
      <4>3. m.what # "input" BY DEF Answers
      <4> QED BY <4>1, <4>2, <4>3, <3>2, <3>5 DEF LoginState
    <3> QED BY <3>4, <3>6, <2>1, <1>1 DEF LoginAt
  <2>3. CASE writer[s] # "run"
    BY <2>1, <2>3, <1>1 DEF LoginAt
  <2> QED BY <2>2, <2>3
<1> QED BY <1>8, <1>9, <1>11, <1>12, <1>13, OneSession DEF SessionInv, SizeAt

LEMMA TelnetReadsStep ==
  ASSUME ConsoleTypes, ConsoleInv, NEW s \in Sessions, TelnetReads(s)
  PROVE  ConsoleTypes' /\ ConsoleInv'
<1> DEFINE c == Head(inbox[s])
<1>0. codec[s].size \in GridSizes
  BY DEF ConsoleTypes, Codecs
<1>1. CASE Answer(s, c) = <<>>
  BY <1>1, ReadsQuietly
<1>2. CASE c = "naws" /\ ~codec[s].naws
  <2> DEFINE m == [what |-> "size", size |-> codec[s].size]
  <2>1. Answer(s, c) = <<m>> BY <1>2 DEF Answer
  <2>2. m \in Written /\ m.what = "size" BY <1>0 DEF Written, Msgs
  <2>3. m # [what |-> "name"] /\ m # [what |-> "password"]
    <3>1. [what |-> "name"].what = "name" /\ [what |-> "password"].what = "password" OBVIOUS
    <3> QED BY <3>1, <2>2
  <2>4. <<m>> # <<[what |-> "name"]>> /\ <<m>> # <<[what |-> "password"]>>
    BY <2>3
  <2>5. Answers(s, m) BY <1>2 DEF Answers
  <2> HIDE DEF m
  <2> QED BY <2>1, <2>2, <2>4, <2>5, <1>2, ReadsAnswering
<1>3. CASE c # "naws" /\ Login(s, c) = <<[what |-> "name"]>> /\ codec[s].armed /\ ~codec[s].sentUser
  <2> DEFINE m == [what |-> "name"]
  <2>1. Answer(s, c) = <<m>> BY <1>3 DEF Answer
  <2>2. m \in Written /\ m.what = "name" BY DEF Written, Msgs
  <2>3. <<m>> # <<[what |-> "password"]>>
    <3>1. [what |-> "password"].what = "password" OBVIOUS
    <3>2. m # [what |-> "password"] BY <3>1, <2>2
    <3> QED BY <3>2
  <2>4. Answers(s, m) BY <1>3 DEF Answers
  <2>5. <<m>> = <<[what |-> "name"]>> OBVIOUS
  <2> HIDE DEF m
  <2> QED BY <2>1, <2>2, <2>3, <2>4, <2>5, <1>3, ReadsAnswering
<1>4. CASE c # "naws" /\ Login(s, c) = <<[what |-> "password"]>> /\ codec[s].armed /\ codec[s].sentUser
  <2> DEFINE m == [what |-> "password"]
  <2>1. Answer(s, c) = <<m>> BY <1>4 DEF Answer
  <2>2. m \in Written /\ m.what = "password" BY DEF Written, Msgs
  <2>3. <<m>> # <<[what |-> "name"]>>
    <3>1. [what |-> "name"].what = "name" OBVIOUS
    <3>2. m # [what |-> "name"] BY <3>1, <2>2
    <3> QED BY <3>2
  <2>4. Answers(s, m) BY <1>4 DEF Answers
  <2>5. <<m>> = <<[what |-> "password"]>> OBVIOUS
  <2> HIDE DEF m
  <2> QED BY <2>1, <2>2, <2>3, <2>4, <2>5, <1>4, ReadsAnswering
<1> QED BY <1>1, <1>2, <1>3, <1>4 DEF Answer, Login

-----------------------------------------------------------------------------
(* The writer. *)
LEMMA HeardWrites ==
  ASSUME ConsoleTypes, NEW s \in Sessions, NEW m \in Typed \cup Written,
         heard' = [heard EXCEPT ![s].said = IF m.what = "size" THEN @ ELSE Append(@, m.what),
                                ![s].size = IF m.what = "size" THEN m.size ELSE @]
  PROVE  /\ heard' \in [Sessions -> HeardBy]
         /\ heard'[s].said = IF m.what = "size" THEN heard[s].said ELSE Append(heard[s].said, m.what)
         /\ heard'[s].size = IF m.what = "size" THEN m.size ELSE heard[s].size
         /\ \A r \in Sessions \ {s} : heard'[r] = heard[r]
<1> DEFINE said == IF m.what = "size" THEN heard[s].said ELSE Append(heard[s].said, m.what)
           size == IF m.what = "size" THEN m.size ELSE heard[s].size
           h == [heard[s] EXCEPT !.said = said, !.size = size]
<1>1. m.what # "size" => m.what \in Heards
  BY DEF Typed, Written, Msgs, Heards
<1>2. m.what = "size" => m.size \in GridSizes
  BY DEF Typed, Written, Msgs
<1>3. heard[s].said \in Seq(Heards) /\ heard[s].size \in GridSizes
  BY DEF ConsoleTypes, HeardBy
<1>4. said \in Seq(Heards) /\ size \in GridSizes
  BY <1>1, <1>2, <1>3
<1>5. heard \in [Sessions -> HeardBy] /\ heard[s] \in HeardBy
  BY DEF ConsoleTypes
<1>6. heard' = [heard EXCEPT ![s] = h]
  BY <1>5
<1> HIDE DEF said, size
<1>7. h \in HeardBy /\ h.said = said /\ h.size = size
  BY <1>4, <1>5 DEF HeardBy
<1> HIDE DEF h
<1>8. heard' \in [Sessions -> HeardBy] /\ heard'[s] = h /\ \A r \in Sessions \ {s} : heard'[r] = heard[r]
  <2>1. s \in Sessions
    OBVIOUS
  <2> QED BY ONLY <1>5, <1>6, <1>7, <2>1
<1> QED BY <1>7, <1>8 DEF said, size

LEMMA TelnetWrites ==
  ASSUME ConsoleTypes, ConsoleInv, NEW s \in Sessions, WriterWrites(s), kind[s] = "telnet"
  PROVE  ConsoleTypes' /\ ConsoleInv'
<1> DEFINE m == Head(toWire[s])
<1>1. toWire[s] \in Seq(Written) /\ toWire[s] # <<>> /\ m \in Written /\ Tail(toWire[s]) \in Seq(Written)
  <2>1. toWire[s] \in Seq(Written) /\ toWire[s] # <<>>
    BY DEF ConsoleTypes, WriterWrites, Source
  <2> QED BY <2>1
<1>2. /\ heard' = [heard EXCEPT ![s].said = IF m.what = "size" THEN @ ELSE Append(@, m.what),
                                ![s].size = IF m.what = "size" THEN m.size ELSE @]
      /\ toWire' = [toWire EXCEPT ![s] = Tail(@)]
      /\ writer' = [writer EXCEPT ![s] = IF m.what = "close" THEN "done" ELSE @]
      /\ writer[s] = "run"
      /\ UNCHANGED <<con, gone, kind, link, inbox, reader, codec, cmds>>
  BY DEF WriterWrites, Source, Consumed
<1> HIDE DEF m
<1>3. m.what # "close" /\ (m.what # "size" => m.what \in Heards)
  BY <1>1 DEF Written, Msgs, Heards
<1>4. writer' = writer
  BY <1>2, <1>3 DEF ConsoleTypes
<1>5. /\ heard' \in [Sessions -> HeardBy]
      /\ heard'[s].said = IF m.what = "size" THEN heard[s].said ELSE Append(heard[s].said, m.what)
      /\ heard'[s].size = IF m.what = "size" THEN m.size ELSE heard[s].size
      /\ \A r \in Sessions \ {s} : heard'[r] = heard[r]
  BY <1>1, <1>2, HeardWrites
<1>6. /\ toWire' \in [Sessions -> Seq(Written)] /\ toWire'[s] = Tail(toWire[s])
      /\ \A r \in Sessions \ {s} : toWire'[r] = toWire[r]
  BY <1>1, <1>2 DEF ConsoleTypes
<1>7. ConsoleTypes'
  BY <1>2, <1>4, <1>5, <1>6 DEF ConsoleTypes
<1>8. \A r \in Sessions \ {s} : Undisturbed(r)
  BY <1>2, <1>4, <1>5, <1>6 DEF Undisturbed
<1>9. SessionInv(s) BY DEF ConsoleInv
<1>10. IdleAt(s)'
  BY <1>2 DEF IdleAt
<1>11. ASSUME Working(s)' PROVE SizeAt(s)'
  <2>1. Working(s) BY <1>11, <1>2, <1>4 DEF Working
  <2>2. /\ EndsAt(cmds[s], codec[s].size, con.size)
        /\ codec[s].naws => EndsAt(toWire[s], heard[s].size, codec[s].size)
    BY <2>1, <1>9 DEF SessionInv, SizeAt
  <2>3. codec[s].naws => EndsAt(toWire'[s], heard'[s].size, codec[s].size)
    BY <2>2, <1>1, <1>5, <1>6, TailSize DEF m
  <2> QED BY <2>2, <2>3, <1>2 DEF SizeAt
<1>12. LoginAt(s)'
  <2> DEFINE said == heard[s].said
  <2>1. said \in Seq(Heards) BY DEF ConsoleTypes, HeardBy
  <2>2. Spoken(said) /\ ToSpeak(said, toWire[s]) /\ LoginState(said, toWire[s], codec[s])
    BY <1>2, <1>9 DEF SessionInv, LoginAt
  <2>3. \A what : Says(said, toWire[s], what) <=> Says(said, Tail(toWire[s]), what) \/ m.what = what
    BY <1>1, TailSays DEF m
  <2>4. CASE m.what = "size"
    <3>1. ToSpeak(said, toWire'[s])
      BY <2>2, <2>4, <1>1, <1>6, TailSpeaks DEF m
    <3>2. LoginState(said, toWire'[s], codec[s])
      BY <2>2, <2>3, <2>4, <1>6 DEF LoginState
    <3> QED BY <3>1, <3>2, <2>2, <2>4, <1>2, <1>5 DEF LoginAt
  <2>5. CASE m.what # "size"
    <3> DEFINE says == Append(said, m.what)
    <3>0. heard'[s].said = says
      BY <2>5, <1>5
    <3>1. Spoken(says) /\ ToSpeak(says, toWire'[s])
      BY <2>1, <2>2, <1>1, <1>6, WriteSpoken, WriteSpeaks DEF m
    <3>2. \A what : Says(says, toWire'[s], what) <=> Says(said, toWire'[s], what) \/ m.what = what
      BY <2>1, <2>5, <1>3, WriteSays
    <3>3. \A what : Says(says, toWire'[s], what) <=> Says(said, toWire[s], what)
      BY <3>2, <2>3, <1>6
    <3>4. LoginState(says, toWire'[s], codec[s])
      BY <3>3, <2>2 DEF LoginState
    <3> HIDE DEF says
    <3> QED BY <3>0, <3>1, <3>4, <1>2 DEF LoginAt
  <2> QED BY <2>4, <2>5
<1> QED BY <1>7, <1>8, <1>10, <1>11, <1>12, OneSession DEF SessionInv, SizeAt

LEMMA ShellWrites ==
  ASSUME ConsoleTypes, ConsoleInv, NEW s \in Sessions, WriterWrites(s), kind[s] # "telnet"
  PROVE  ConsoleTypes' /\ ConsoleInv'
<1> DEFINE m == Head(cmds[s])
<1>1. cmds[s] # <<>> /\ cmds[s] \in Seq(Typed)
  BY DEF WriterWrites, Source, ConsoleTypes
<1>2. /\ heard' = [heard EXCEPT ![s].said = IF m.what = "size" THEN @ ELSE Append(@, m.what),
                                ![s].size = IF m.what = "size" THEN m.size ELSE @]
      /\ cmds' = [cmds EXCEPT ![s] = Tail(@)]
      /\ writer' = [writer EXCEPT ![s] = IF m.what = "close" THEN "done" ELSE @]
      /\ kind[s] # "none"
      /\ UNCHANGED <<con, gone, kind, link, inbox, reader, codec, toWire>>
  BY DEF WriterWrites, Source, Consumed, Alive
<1>3. /\ cmds' \in [Sessions -> Seq(Typed)] /\ cmds'[s] = Tail(cmds[s]) /\ m \in Typed
      /\ \A r \in Sessions \ {s} : cmds'[r] = cmds[r]
  BY <1>1, <1>2, NextCommand
<1> HIDE DEF m
<1>4. m.what \in {"input", "close", "size"}
  BY <1>3 DEF Typed
<1>5. /\ heard' \in [Sessions -> HeardBy]
      /\ heard'[s].said = IF m.what = "size" THEN heard[s].said ELSE Append(heard[s].said, m.what)
      /\ heard'[s].size = IF m.what = "size" THEN m.size ELSE heard[s].size
      /\ \A r \in Sessions \ {s} : heard'[r] = heard[r]
  BY <1>2, <1>3, HeardWrites
<1>6. writer' \in [Sessions -> {"run", "done"}] /\ \A r \in Sessions : writer'[r] = "run" => writer[r] = "run"
  BY <1>2 DEF ConsoleTypes
<1>7. ConsoleTypes'
  BY <1>2, <1>3, <1>5, <1>6 DEF ConsoleTypes
<1>8. \A r \in Sessions \ {s} : Undisturbed(r)
  BY <1>2, <1>3, <1>5, <1>6 DEF Undisturbed
<1>9. SessionInv(s) BY DEF ConsoleInv
<1>10. IdleAt(s)'
  BY <1>2, <1>9 DEF IdleAt, SessionInv
<1>11. ASSUME Working(s)' PROVE SizeAt(s)'
  <2>1. Working(s) BY <1>11, <1>2, <1>6 DEF Working
  <2>2. EndsAt(cmds[s], heard[s].size, con.size)
    BY <2>1, <1>9 DEF SessionInv, SizeAt
  <2>3. EndsAt(cmds'[s], heard'[s].size, con.size)
    BY <2>2, <1>1, <1>3, <1>5, TailSize DEF m
  <2> QED BY <2>3, <1>2 DEF SizeAt
<1>12. LoginAt(s)'
  <2> DEFINE said == heard[s].said
  <2>1. said \in Seq(Heards) BY DEF ConsoleTypes, HeardBy
  <2>2. \A i \in DOMAIN said : said[i] \notin {"name", "password"}
    BY <1>9 DEF SessionInv, LoginAt
  <2>3. \A i \in DOMAIN heard'[s].said : heard'[s].said[i] \notin {"name", "password"}
    <3>1. CASE m.what = "size"
      BY <3>1, <2>2, <1>5
    <3>2. CASE m.what # "size"
      <4>1. m.what \in Heards BY <3>2, <1>4 DEF Heards
      <4>2. /\ DOMAIN Append(said, m.what) = DOMAIN said \cup {Len(said) + 1}
            /\ \A i \in DOMAIN said : Append(said, m.what)[i] = said[i]
            /\ Append(said, m.what)[Len(said) + 1] = m.what
        BY <4>1, <2>1, AppendAt
      <4> QED BY <4>2, <3>2, <2>2, <1>4, <1>5
    <3> QED BY <3>1, <3>2
  <2>4. Spoken(heard'[s].said)
    BY <2>3 DEF Spoken
  <2> QED BY <2>3, <2>4, <1>2 DEF LoginAt
<1> QED BY <1>7, <1>8, <1>10, <1>11, <1>12, OneSession DEF SessionInv, SizeAt

LEMMA WriterFailsStep ==
  ASSUME ConsoleTypes, ConsoleInv, NEW s \in Sessions, WriterFails(s)
  PROVE  ConsoleTypes' /\ ConsoleInv'
<1> DEFINE m == Head(Source(s))
           mild == kind[s] = "shell" /\ m.what \in {"size", "close"}
<1>1. /\ link[s] # "up" \/ (kind[s] = "shell" /\ m.what = "close")
      /\ writer' = [writer EXCEPT ![s] = IF mild /\ m.what = "size" THEN @ ELSE "done"]
      /\ Consumed(s) /\ Source(s) # <<>> /\ kind[s] # "none" /\ writer[s] = "run"
      /\ UNCHANGED <<con, gone, kind, link, inbox, heard, reader, codec>>
  BY DEF WriterFails, Alive
<1>2. writer' \in [Sessions -> {"run", "done"}] /\ \A r \in Sessions : writer'[r] = "run" => writer[r] = "run"
  BY <1>1 DEF ConsoleTypes
<1>3. ~Working(s)'
  BY <1>1 DEF Working, ConsoleTypes
<1>4. kind[s] = "telnet" => writer'[s] = "done"
  BY <1>1 DEF ConsoleTypes
<1>5. /\ toWire' \in [Sessions -> Seq(Written)] /\ cmds' \in [Sessions -> Seq(Typed)]
      /\ \A r \in Sessions \ {s} : toWire'[r] = toWire[r] /\ cmds'[r] = cmds[r]
      /\ kind[s] # "telnet" => toWire' = toWire
  <2>1. CASE kind[s] = "telnet"
    <3>1. toWire[s] \in Seq(Written) /\ toWire[s] # <<>>
      BY <2>1, <1>1 DEF Source, ConsoleTypes
    <3>2. Tail(toWire[s]) \in Seq(Written) BY <3>1
    <3> QED BY <2>1, <3>2, <1>1 DEF Consumed, ConsoleTypes
  <2>2. CASE kind[s] # "telnet"
    <3>1. cmds[s] \in Seq(Typed) /\ cmds[s] # <<>>
      BY <2>2, <1>1 DEF Source, ConsoleTypes
    <3>2. Tail(cmds[s]) \in Seq(Typed) BY <3>1
    <3> QED BY <2>2, <3>2, <1>1 DEF Consumed, ConsoleTypes
  <2> QED BY <2>1, <2>2
<1> HIDE DEF m, mild
<1>6. ConsoleTypes'
  BY <1>1, <1>2, <1>5 DEF ConsoleTypes
<1>7. \A r \in Sessions \ {s} : Undisturbed(r)
  BY <1>1, <1>2, <1>5 DEF Undisturbed
<1>8. SessionInv(s) BY DEF ConsoleInv
<1>9. IdleAt(s)' /\ SizeAt(s)'
  BY <1>1, <1>3, <1>5, <1>8 DEF IdleAt, SizeAt, SessionInv
<1>10. LoginAt(s)'
  BY <1>1, <1>4, <1>8 DEF LoginAt, SessionInv
<1> QED BY <1>6, <1>7, <1>9, <1>10, OneSession DEF SessionInv

-----------------------------------------------------------------------------
(* The UI thread. *)
LEMMA TabSession ==
  ASSUME ConsoleTypes, ConsoleInv, con.session # 0
  PROVE  con.session \in Sessions /\ kind[con.session] # "none"
<1>1. con.session \in Sessions BY DEF ConsoleTypes
<1>2. SessionInv(con.session) BY <1>1 DEF ConsoleInv
<1> QED BY <1>1, <1>2 DEF SessionInv, IdleAt

LEMMA SendsCommand ==
  ASSUME ConsoleTypes, NEW s \in Sessions, NEW m \in Typed, Sent(s, m)
  PROVE  /\ cmds' \in [Sessions -> Seq(Typed)] /\ cmds[s] \in Seq(Typed)
         /\ \A r \in Sessions \ {s} : cmds'[r] = cmds[r]
         /\ reader[s] = "run" /\ writer[s] = "run" => cmds'[s] = Append(cmds[s], m)
<1>1. cmds[s] \in Seq(Typed) /\ Append(cmds[s], m) \in Seq(Typed)
  BY DEF ConsoleTypes
<1>2. cmds' \in [Sessions -> Seq(Typed)] /\ \A r \in Sessions \ {s} : cmds'[r] = cmds[r]
  BY <1>1 DEF Sent, ConsoleTypes
<1>3. ASSUME reader[s] = "run", writer[s] = "run" PROVE cmds'[s] = Append(cmds[s], m)
  <2>1. Taker(s) # "done" BY <1>3 DEF Taker
  <2> QED BY <2>1 DEF Sent, ConsoleTypes
<1> QED BY <1>1, <1>2, <1>3

LEMMA SendsInput ==
  ASSUME ConsoleTypes, ConsoleInv, con.session # 0,
         Sent(con.session, [what |-> "input"]),
         UNCHANGED <<con, gone, kind, link, inbox, heard, toWire, reader, writer, codec>>
  PROVE  ConsoleTypes' /\ ConsoleInv'
<1> DEFINE s == con.session
           m == [what |-> "input"]
<1>1. s \in Sessions /\ kind[s] # "none"
  BY TabSession
<1>2. m \in Typed /\ m.what # "size"
  BY DEF Typed, Msgs
<1>3. Sent(s, m) OBVIOUS
<1> HIDE DEF s, m
<1>4. /\ cmds' \in [Sessions -> Seq(Typed)] /\ cmds[s] \in Seq(Typed)
      /\ \A r \in Sessions \ {s} : cmds'[r] = cmds[r]
      /\ reader[s] = "run" /\ writer[s] = "run" => cmds'[s] = Append(cmds[s], m)
  BY <1>1, <1>2, <1>3, SendsCommand
<1>5. ConsoleTypes'
  BY <1>4 DEF ConsoleTypes
<1>6. \A r \in Sessions \ {s} : Undisturbed(r)
  BY <1>4 DEF Undisturbed
<1>7. SessionInv(s) BY <1>1 DEF ConsoleInv
<1>8. IdleAt(s)' /\ LoginAt(s)'
  BY <1>1, <1>7 DEF IdleAt, LoginAt, SessionInv, s
<1>9. SizeAt(s)'
  <2>1. ASSUME Working(s) PROVE SizeAt(s)'
    <3>1. cmds'[s] = Append(cmds[s], m)
      BY <2>1, <1>4 DEF Working
    <3> QED BY <2>1, <3>1, <1>2, <1>4, <1>7, AppendOther DEF SizeAt, SessionInv, s
  <2>2. s' = s BY DEF s
  <2> QED BY <2>1, <2>2 DEF SizeAt, Working
<1>10. SessionInv(s)' /\ s' = s
  BY <1>8, <1>9 DEF SessionInv, s
<1> QED BY <1>1, <1>5, <1>6, <1>10, OneSession

LEMMA TypeStep == ASSUME ConsoleTypes, ConsoleInv, Type PROVE ConsoleTypes' /\ ConsoleInv'
<1>1. CASE con.connected
  BY <1>1, SendsInput DEF Type, MayAct, consoleTasks
<1>2. CASE ~con.connected
  <2>1. ConsoleTypes'
    BY <1>2 DEF Type, ConsoleTypes, consoleTasks
  <2>2. \A r \in Sessions : Undisturbed(r)
    BY <1>2 DEF Type, Undisturbed, consoleTasks
  <2> QED BY <2>1, <2>2, Others
<1> QED BY <1>1, <1>2

LEMMA HandleConsoleEventStep ==
  ASSUME ConsoleTypes, ConsoleInv, HandleConsoleEvent PROVE ConsoleTypes' /\ ConsoleInv'
<1> DEFINE e == Head(consoleEvents)[2]
<1>1. CASE con.session # 0 /\ e # "end" /\ e = "query" /\ con.connected
  BY <1>1, SendsInput DEF HandleConsoleEvent, consoleTasks
<1>2. CASE con.session = 0 \/ (e # "end" /\ ~(e = "query" /\ con.connected))
  <2>1. UNCHANGED <<con, gone, kind, link, inbox, heard, cmds, toWire, reader, writer, codec>>
    BY <1>2 DEF HandleConsoleEvent, consoleTasks
  <2>2. ConsoleTypes'
    BY <2>1 DEF ConsoleTypes
  <2>3. \A r \in Sessions : Undisturbed(r)
    BY <2>1 DEF Undisturbed
  <2> QED BY <2>2, <2>3, Others
<1>3. CASE con.session # 0 /\ e = "end"
  <2>1. /\ con' = [con EXCEPT !.connected = FALSE]
        /\ gone' = [gone EXCEPT ![con.session] = TRUE]
        /\ UNCHANGED <<kind, link, inbox, heard, cmds, toWire, reader, writer, codec>>
    BY <1>3 DEF HandleConsoleEvent, consoleTasks
  <2>2. ConsoleTypes'
    BY <2>1 DEF ConsoleTypes
  <2>3. \A r \in Sessions : Undisturbed(r)
    BY <2>1 DEF Undisturbed, ConsoleTypes
  <2> QED BY <2>2, <2>3, Others
<1> QED BY <1>1, <1>2, <1>3

LEMMA CloseConsoleStep ==
  ASSUME ConsoleTypes, ConsoleInv, CloseConsole PROVE ConsoleTypes' /\ ConsoleInv'
<1> DEFINE s == con.session
           m == [what |-> "close"]
<1>1. s \in Sessions /\ kind[s] # "none"
  BY TabSession DEF CloseConsole
<1>2. m \in Typed
  BY DEF Typed, Msgs
<1>3. /\ con' = NoConsole
      /\ UNCHANGED <<kind, link, inbox, heard, toWire, reader, writer, codec>>
      /\ gone' \in {gone, [gone EXCEPT ![s] = TRUE]}
      /\ Sent(s, m) \/ cmds' = cmds
  BY DEF CloseConsole, consoleTasks
<1> HIDE DEF s, m
<1>4. cmds' \in [Sessions -> Seq(Typed)] /\ \A r \in Sessions \ {s} : cmds'[r] = cmds[r]
  <2>1. CASE Sent(s, m) BY <2>1, <1>1, <1>2, SendsCommand
  <2>2. CASE cmds' = cmds BY <2>2 DEF ConsoleTypes
  <2> QED BY <2>1, <2>2, <1>3
<1>5. con' \in [session : Sessions \cup {0}, connected : BOOLEAN, size : GridSizes]
      /\ con'.session = 0
  BY <1>3, ConsoleAssumption DEF NoConsole
<1>6. 0 \notin Sessions BY ConsoleAssumption DEF Sessions
<1>7. ConsoleTypes'
  BY <1>1, <1>3, <1>4, <1>5 DEF ConsoleTypes
<1>8. \A r \in Sessions \ {s} : Undisturbed(r)
  BY <1>3, <1>4, <1>5, <1>6 DEF Undisturbed
<1>9. ASSUME NEW r \in Sessions, r = s PROVE SessionInv(r)'
  <2>1. SessionInv(r) BY DEF ConsoleInv
  <2>2. ~Working(r)' BY <1>5, <1>6 DEF Working
  <2>3. IdleAt(r)' BY <2>1, <1>1, <1>3, <1>9 DEF SessionInv, IdleAt
  <2>4. LoginAt(r)' BY <2>1, <1>3 DEF SessionInv, LoginAt
  <2> QED BY <2>2, <2>3, <2>4 DEF SessionInv, SizeAt
<1>10. ASSUME NEW r \in Sessions, r # s PROVE SessionInv(r)'
  BY <1>8, <1>10, Frame DEF ConsoleInv
<1>11. ConsoleInv'
  BY <1>9, <1>10 DEF ConsoleInv, Sessions
<1> QED BY <1>7, <1>11

LEMMA ResizeStep ==
  ASSUME ConsoleTypes, ConsoleInv, NEW g \in GridSizes, Resize(g) PROVE ConsoleTypes' /\ ConsoleInv'
<1> DEFINE m == [what |-> "size", size |-> g]
<1> SUFFICES ASSUME NEW s \in Sessions, s = con.session, kind[s] # "none" PROVE ConsoleTypes' /\ ConsoleInv'
  BY TabSession DEF Resize, MayAct
<1>1. m \in Typed /\ m.what = "size" /\ m.size = g
  BY DEF Typed, Msgs
<1>2. /\ con' = [con EXCEPT !.size = g]
      /\ con.connected => Sent(s, m)
      /\ ~con.connected => cmds' = cmds
      /\ UNCHANGED <<gone, kind, link, inbox, heard, toWire, reader, writer, codec>>
  BY DEF Resize, consoleTasks
<1> HIDE DEF m
<1>3. /\ cmds' \in [Sessions -> Seq(Typed)] /\ cmds[s] \in Seq(Typed)
      /\ \A r \in Sessions \ {s} : cmds'[r] = cmds[r]
      /\ con.connected /\ reader[s] = "run" /\ writer[s] = "run" => cmds'[s] = Append(cmds[s], m)
  <2>1. CASE con.connected BY <2>1, <1>1, <1>2, SendsCommand
  <2>2. CASE ~con.connected BY <2>2, <1>2 DEF ConsoleTypes
  <2> QED BY <2>1, <2>2
<1>4. /\ con' \in [session : Sessions \cup {0}, connected : BOOLEAN, size : GridSizes]
      /\ con'.session = s /\ con'.connected = con.connected /\ con'.size = g
  BY <1>2 DEF ConsoleTypes
<1>5. ConsoleTypes'
  BY <1>2, <1>3, <1>4 DEF ConsoleTypes
<1>6. \A r \in Sessions \ {s} : Undisturbed(r)
  BY <1>2, <1>3, <1>4 DEF Undisturbed
<1>7. SessionInv(s) BY DEF ConsoleInv
<1>8. IdleAt(s)' /\ LoginAt(s)'
  BY <1>2, <1>7 DEF IdleAt, LoginAt, SessionInv
<1>9. ASSUME Working(s)' PROVE SizeAt(s)'
  <2>1. Working(s) /\ cmds'[s] = Append(cmds[s], m)
    BY <1>9, <1>2, <1>3, <1>4 DEF Working
  <2>2. \A base : EndsAt(cmds'[s], base, g)
    BY <2>1, <1>1, <1>3, AppendSize
  <2> QED BY <2>1, <2>2, <1>2, <1>4, <1>7 DEF SizeAt, SessionInv
<1> QED BY <1>5, <1>6, <1>8, <1>9, OneSession DEF SessionInv, SizeAt

LEMMA InstallStep ==
  ASSUME ConsoleTypes, ConsoleInv, NEW k \in Transports, NEW g \in GridSizes, NEW auto \in BOOLEAN,
         Install(k, g, auto)
  PROVE  ConsoleTypes' /\ ConsoleInv'
<1> DEFINE m == [what |-> "size", size |-> g]
<1>1. PICK s \in Sessions :
        /\ con.session = 0 /\ kind[s] = "none" /\ kind' = [kind EXCEPT ![s] = k]
        /\ con' = [session |-> s, connected |-> TRUE, size |-> g]
        /\ cmds' = [cmds EXCEPT ![s] = <<m>>]
        /\ codec' = [codec EXCEPT ![s].armed = auto /\ k = "telnet"]
        /\ UNCHANGED <<gone, link, inbox, heard, toWire, reader, writer>>
  BY DEF Install, consoleTasks
<1>2. m \in Typed /\ m.what = "size" /\ m.size = g
  BY DEF Typed, Msgs
<1> HIDE DEF m
<1>3. <<m>> \in Seq(Typed) /\ <<m>> = Append(<<>>, m) /\ <<>> \in Seq(Typed)
  BY <1>2
<1>4. /\ cmds' \in [Sessions -> Seq(Typed)] /\ cmds'[s] = <<m>>
      /\ \A r \in Sessions \ {s} : cmds'[r] = cmds[r]
  BY <1>1, <1>3 DEF ConsoleTypes
<1>5. /\ kind' \in [Sessions -> Transports \cup {"none"}] /\ kind'[s] = k /\ k # "none"
      /\ \A r \in Sessions \ {s} : kind'[r] = kind[r]
  BY <1>1, ConsoleAssumption DEF ConsoleTypes
<1>6. /\ codec' \in [Sessions -> Codecs] /\ codec'[s].naws = codec[s].naws
      /\ codec'[s].sentUser = codec[s].sentUser
      /\ codec'[s].armed => k = "telnet"
      /\ \A r \in Sessions \ {s} : codec'[r] = codec[r]
  <2> DEFINE a == auto /\ k = "telnet"
  <2>1. a \in BOOLEAN /\ codec' = [codec EXCEPT ![s].armed = a] BY <1>1
  <2> HIDE DEF a
  <2>2. /\ codec' \in [Sessions -> Codecs] /\ codec'[s].naws = codec[s].naws
        /\ codec'[s].sentUser = codec[s].sentUser /\ codec'[s].armed = a
        /\ \A r \in Sessions \ {s} : codec'[r] = codec[r]
    <3> DEFINE d == [codec[s] EXCEPT !.armed = a]
    <3>1. codec \in [Sessions -> Codecs] /\ codec[s] \in Codecs
      BY DEF ConsoleTypes
    <3>2. codec' = [codec EXCEPT ![s] = d]
      BY <2>1
    <3>3. d \in Codecs /\ d.armed = a /\ d.naws = codec[s].naws /\ d.sentUser = codec[s].sentUser
      BY <2>1, <3>1, CodecArmed
    <3> HIDE DEF d
    <3> QED BY <3>1, <3>2, <3>3, CodecSet
  <2> QED BY <2>2 DEF a
<1>7. con' \in [session : Sessions \cup {0}, connected : BOOLEAN, size : GridSizes]
      /\ con'.session = s /\ con'.size = g
  BY <1>1
<1>8. ConsoleTypes'
  BY <1>1, <1>4, <1>5, <1>6, <1>7 DEF ConsoleTypes
<1>9. \A r \in Sessions \ {s} : Undisturbed(r)
  BY <1>1, <1>4, <1>5, <1>6, <1>7 DEF Undisturbed
<1>10. SessionInv(s) BY DEF ConsoleInv
<1>11. /\ heard[s].said = <<>> /\ ~codec[s].naws /\ toWire[s] = <<>> /\ ~codec[s].sentUser
  BY <1>1, <1>10 DEF SessionInv, IdleAt
<1>12. IdleAt(s)'
  BY <1>1, <1>5, <1>6, <1>11 DEF IdleAt
<1>13. SizeAt(s)'
  <2>1. \A base : EndsAt(cmds'[s], base, g)
    BY <1>2, <1>3, <1>4, AppendSize
  <2> QED BY <2>1, <1>6, <1>7, <1>11 DEF SizeAt
<1>14. LoginAt(s)'
  <2>1. Spoken(<<>>) /\ ToSpeak(<<>>, <<>>) /\ \A what : ~Says(<<>>, <<>>, what)
    BY DEF Spoken, ToSpeak, Says
  <2>2. LoginState(<<>>, <<>>, codec'[s])
    BY <2>1, <1>6, <1>11 DEF LoginState
  <2> QED BY <2>1, <2>2, <1>1, <1>11 DEF LoginAt
<1> QED BY <1>8, <1>9, <1>12, <1>13, <1>14, OneSession DEF SessionInv

-----------------------------------------------------------------------------
LEMMA ConsoleStep ==
  ConsoleTypes /\ ConsoleInv /\ [ConsoleNext]_consoleVars => (ConsoleTypes /\ ConsoleInv)'
<1> SUFFICES ASSUME ConsoleTypes, ConsoleInv, [ConsoleNext]_consoleVars
             PROVE  ConsoleTypes' /\ ConsoleInv'
  OBVIOUS
<1>1. CASE UNCHANGED consoleVars
  <2>1. ConsoleTypes'
    BY <1>1 DEF consoleVars, ConsoleTypes
  <2>2. \A r \in Sessions : Undisturbed(r)
    BY <1>1 DEF consoleVars, Undisturbed
  <2> QED BY <2>1, <2>2, Others
<1>2. CASE UserStep
  BY <1>2, InstallStep, TypeStep, CloseConsoleStep, ResizeStep DEF UserStep
<1>3. CASE HandleConsoleEvent
  BY <1>3, HandleConsoleEventStep
<1>4. ASSUME NEW s \in Sessions, ReaderStep(s) \/ WriterStep(s) \/ Forward(s)
      PROVE  ConsoleTypes' /\ ConsoleInv'
  <2>1. CASE TelnetTakes(s)
    BY <2>1, TelnetTakesStep
  <2>2. CASE TelnetReads(s)
    BY <2>2, TelnetReadsStep
  <2>3. CASE WriterWrites(s)
    BY <2>3, TelnetWrites, ShellWrites
  <2>4. CASE WriterFails(s)
    BY <2>4, WriterFailsStep
  <2>5. CASE TelnetDropped(s) \/ ReaderEnds(s) \/ ShellReads(s) \/ WriterEnds(s) \/ Forward(s)
    BY <2>5, TaskSteps, EndsStep
  <2> QED BY <1>4, <2>1, <2>2, <2>3, <2>4, <2>5 DEF ReaderStep, WriterStep
<1>5. ASSUME NEW s \in Sessions, LoginExpires(s) PROVE ConsoleTypes' /\ ConsoleInv'
  BY <1>5, LoginExpiresStep
<1>6. ASSUME NEW s \in Sessions, ServerStep(s) PROVE ConsoleTypes' /\ ConsoleInv'
  BY <1>6, ServerSendsStep, ServerEndsStep DEF ServerStep
<1> QED BY <1>1, <1>2, <1>3, <1>4, <1>5, <1>6 DEF ConsoleNext

LEMMA ConsoleTypesSuffice == ConsoleTypes => ConsoleTypeOK
<1> SUFFICES ASSUME ConsoleTypes PROVE ConsoleTypeOK
  OBVIOUS
<1>1. ASSUME NEW s \in Sessions
      PROVE  /\ \A i \in DOMAIN cmds[s] : cmds[s][i] \in Msgs
             /\ \A i \in DOMAIN toWire[s] : toWire[s][i] \in Msgs
             /\ \A i \in DOMAIN inbox[s] : inbox[s][i] \in Data \cup {"naws"}
  <2>1. cmds[s] \in Seq(Typed) /\ toWire[s] \in Seq(Written) /\ inbox[s] \in Seq(Data \cup {"naws"})
    BY DEF ConsoleTypes
  <2>2. Typed \subseteq Msgs /\ Written \subseteq Msgs
    BY DEF Typed, Written
  <2> HIDE DEF Data
  <2> QED BY <2>1, <2>2
<1> QED BY <1>1 DEF ConsoleTypes, ConsoleTypeOK, Codecs

LEMMA SizeSuffices == ConsoleTypes /\ ConsoleInv => SizeFollows
<1> SUFFICES ASSUME ConsoleTypes, ConsoleInv, NEW s, s = con.session,
                    s # 0, con.connected, link[s] = "up", cmds[s] = <<>>, toWire[s] = <<>>,
                    reader[s] = "run", writer[s] = "run", kind[s] = "telnet" => codec[s].naws
             PROVE  heard[s].size = con.size
  BY DEF SizeFollows
<1>1. s \in Sessions BY DEF ConsoleTypes
<1>2. Working(s) /\ SizeAt(s) BY <1>1 DEF Working, ConsoleInv, SessionInv
<1>3. \A base, z : EndsAt(<<>>, base, z) => base = z
  BY DEF EndsAt, Sizes
<1> QED BY <1>2, <1>3 DEF SizeAt

LEMMA AtMostOne ==
  ASSUME NEW S, \A x, y \in S : x = y
  PROVE  Cardinality(S) <= 1
<1>1. CASE S = {}
  BY <1>1, FS_EmptySet
<1>2. CASE S # {}
  <2>1. PICK x \in S : TRUE BY <1>2
  <2>2. S = {x} BY <2>1
  <2> QED BY <2>2, FS_Singleton
<1> QED BY <1>1, <1>2

LEMMA LoginSuffices == ConsoleTypes /\ ConsoleInv => LoginInOrder
<1> SUFFICES ASSUME ConsoleTypes, ConsoleInv, NEW s \in Sessions
             PROVE  /\ Cardinality(Said(s, "name")) <= 1 /\ Cardinality(Said(s, "password")) <= 1
                    /\ \A p \in Said(s, "password") : \E n \in Said(s, "name") : n < p
                    /\ \A a \in Said(s, "name") \cup Said(s, "password") :
                           ~\E i \in Said(s, "input") : i < a
  BY DEF LoginInOrder
<1> DEFINE said == heard[s].said
<1>1. Spoken(said) BY DEF ConsoleInv, SessionInv, LoginAt
<1>2. \A i \in DOMAIN said : i \in Nat
  <2>1. said \in Seq(Heards) BY DEF ConsoleTypes, HeardBy
  <2> QED BY <2>1
<1>3. Cardinality(Said(s, "name")) <= 1
  <2>1. \A x, y \in Said(s, "name") : x = y BY <1>1 DEF Said, Spoken
  <2> QED BY <2>1, AtMostOne
<1>4. Cardinality(Said(s, "password")) <= 1
  <2>1. \A x, y \in Said(s, "password") : x = y BY <1>1 DEF Said, Spoken
  <2> QED BY <2>1, AtMostOne
<1>5. \A p \in Said(s, "password") : \E n \in Said(s, "name") : n < p
  BY <1>1 DEF Said, Spoken
<1>6. ASSUME NEW a \in Said(s, "name") \cup Said(s, "password"), NEW i \in Said(s, "input") PROVE ~(i < a)
  <2>1. a < i BY <1>1 DEF Said, Spoken
  <2>2. a \in Nat /\ i \in Nat BY <1>2 DEF Said
  <2> QED BY <2>1, <2>2
<1> QED BY <1>3, <1>4, <1>5, <1>6

(* Once everything is delivered, a working session's server that follows    *)
(* the window's size knows its console's, and it heard the auto-login's     *)
(* part at most once, in order, and before anything that was typed.         *)
(* (telnet/mod.rs, shell.rs)                                                *)
THEOREM ConsoleKeepsOrder == ConsoleSpec => [](SizeFollows /\ LoginInOrder)
<1>1. ConsoleTypes /\ ConsoleInv => SizeFollows /\ LoginInOrder
  BY SizeSuffices, LoginSuffices
<1> QED BY <1>1, ConsoleInitially, ConsoleStep, PTL DEF ConsoleSpec

(* The variables of the consoles keep their types.  (console.rs, shell.rs) *)
THEOREM ConsoleKeepsTypes == ConsoleSpec => []ConsoleTypeOK
BY ConsoleInitially, ConsoleStep, ConsoleTypesSuffice, PTL DEF ConsoleSpec

-----------------------------------------------------------------------------
(* The panes. *)

PaneFolders == Dirs \cup {None}
Events == [kind : {"reloadLocal", "localDirChanged", "reloadSession"}, side : Sides,
           dir : PaneFolders, of : Nat]
PaneTasks == [1..MaxSessions -> [kind : {"none", "reload", "operation"}, dir : Dirs,
                                 restoring : BOOLEAN]]

RowTypes ==
  /\ path \in [Sides -> Dirs]
  /\ rows \in [Sides -> [of : Nat, dir : Dirs, seen : Nat]]
  /\ disk \in [Dirs -> Nat]
SessionTypes ==
  /\ tasks \in PaneTasks /\ session \in 0..sessions /\ sessions \in 0..MaxSessions
  /\ failed \in BOOLEAN /\ disturbed \in BOOLEAN /\ owed \in BOOLEAN
EventTypes ==
  /\ uiEvents \in Seq(Events)
  /\ watch \in [Sides -> [looks : PaneFolders, reports : PaneFolders]]
  /\ toWatch \in Sides \cup {None}
PaneTypes == RowTypes /\ SessionTypes /\ EventTypes

(* An operation's end names a session that has been; the end of a local     *)
(* operation, a folder.                                                     *)
EventOK(e) ==
  /\ e.of # 0 => e.kind = "reloadSession" /\ e.of \in 1..sessions
  /\ e.kind = "reloadLocal" => e.dir \in Dirs
EventsInv == \A i \in DOMAIN uiEvents : EventOK(uiEvents[i])

(* A session that has not been yet has no listing and no operation. *)
TasksInv == \A s \in 1..MaxSessions : s > sessions => tasks[s].kind = "none"

(* Rows of a local pane are local, and a remote pane never shows the rows   *)
(* of a session before it.                                                  *)
OwnerInv ==
  /\ rows["left"].of = 0
  /\ rows["right"].of \in {0, session}

Awaited == \E i \in DOMAIN uiEvents : uiEvents[i].of = session

(* A refresh is owed while an operation has the client. *)
OwedInv == session # 0 /\ owed => tasks[session].kind = "operation"

(* What the remote pane's task may be doing, and what is on the screen then. *)
ListedInv ==
  session # 0 /\ ~disturbed =>
    /\ tasks[session].kind = "reload" => tasks[session].dir = path["right"]
    /\ tasks[session].kind # "reload" /\ ~failed /\ ~Awaited /\ ~owed
         => rows["right"] = Rows(session, path["right"], 0)
RemoteInv == OwedInv /\ ListedInv

PaneInv == EventsInv /\ TasksInv /\ OwnerInv /\ RemoteInv

-----------------------------------------------------------------------------
(* The initial state, and the end of the argument. *)
LEMMA PaneInit == PanesInit => PaneTypes /\ PaneInv
<1> SUFFICES ASSUME PanesInit PROVE PaneTypes /\ PaneInv
  OBVIOUS
<1>1. RowTypes
  BY PanesAssumption DEF PanesInit, RowTypes, Sides, Rows
<1>2. SessionTypes
  <2>1. NoTask \in [kind : {"none", "reload", "operation"}, dir : Dirs, restoring : BOOLEAN]
    BY PanesAssumption DEF NoTask
  <2>2. tasks \in PaneTasks
    BY <2>1 DEF PanesInit, PaneTasks
  <2>3. session \in 0..sessions /\ sessions \in 0..MaxSessions
    BY PanesAssumption DEF PanesInit
  <2>4. failed \in BOOLEAN /\ disturbed \in BOOLEAN /\ owed \in BOOLEAN
    BY DEF PanesInit
  <2> QED BY <2>2, <2>3, <2>4 DEF SessionTypes
<1>3. EventTypes
  BY PanesAssumption DEF PanesInit, EventTypes, Events, Sides, PaneFolders, None
<1>4. EventsInv /\ TasksInv
  BY PanesAssumption DEF PanesInit, EventsInv, TasksInv, NoTask
<1>5. OwnerInv /\ RemoteInv
  BY PanesAssumption DEF PanesInit, OwnerInv, RemoteInv, OwedInv, ListedInv, Sides, Rows
<1> QED BY <1>1, <1>2, <1>3, <1>4, <1>5 DEF PaneTypes, PaneInv

LEMMA PaneInvSuffices == PaneTypes /\ PaneInv => RowsAreItsOwn
<1> SUFFICES ASSUME PaneTypes, PaneInv PROVE RowsAreItsOwn
  OBVIOUS
<1>1. \A p \in LocalSides : rows[p].of = 0
  BY DEF PaneInv, OwnerInv, LocalSides, Sides
<1>2. session # 0 => rows["right"].of \in {0, session}
  BY DEF PaneInv, OwnerInv
<1>3. session # 0 /\ AtRest /\ ~disturbed => rows["right"] = Rows(session, path["right"], 0)
  BY DEF PaneInv, RemoteInv, OwedInv, ListedInv, AtRest, Awaited
<1> QED BY <1>1, <1>2, <1>3 DEF RowsAreItsOwn

-----------------------------------------------------------------------------
(* What the pieces of several actions do. *)

(* request_remote_reload lists the folder asked for.  When the client is    *)
(* lent the refresh is skipped: the folder is being listed already, or the  *)
(* pane is disturbed, or the operation owes the pane a refresh.             *)
LEMMA RefreshLists ==
  ASSUME SessionTypes, NEW ts \in PaneTasks, NEW d \in Dirs, Refresh(ts, d),
         session # 0 /\ owed => ts[session].kind # "reload"
  PROVE  /\ tasks' \in PaneTasks
         /\ failed' \in BOOLEAN /\ disturbed' \in BOOLEAN /\ owed' \in BOOLEAN
         /\ \A s \in 1..MaxSessions : s # session => tasks'[s] = ts[s]
         /\ session # 0 /\ owed' => tasks'[session].kind = "operation"
         /\ session # 0 => \/ disturbed' \/ owed'
                           \/ tasks'[session].kind = "reload" /\ tasks'[session].dir = d
<1>1. session = 0 \/ session \in 1..MaxSessions
  BY PanesAssumption DEF SessionTypes
<1>2. ReloadOf(d, FALSE) \in [kind : {"none", "reload", "operation"}, dir : Dirs, restoring : BOOLEAN]
  BY DEF ReloadOf
<1>3. CASE session = 0
  BY <1>3 DEF Refresh, SessionTypes
<1>4. CASE session # 0 /\ ts[session].kind = "none"
  <2>1. /\ tasks' = [ts EXCEPT ![session] = ReloadOf(d, FALSE)]
        /\ failed' = FALSE /\ disturbed' = FALSE /\ owed' = FALSE
    BY <1>4 DEF Refresh
  <2>2. tasks' \in PaneTasks
    BY <2>1, <1>1, <1>2, <1>4 DEF PaneTasks
  <2>3. tasks'[session] = ReloadOf(d, FALSE)
    BY <2>1, <1>1, <1>4 DEF PaneTasks
  <2>4. \A s \in 1..MaxSessions : s # session => tasks'[s] = ts[s]
    BY <2>1 DEF PaneTasks
  <2>5. tasks'[session].kind = "reload" /\ tasks'[session].dir = d
    BY <2>3 DEF ReloadOf
  <2> QED BY <2>1, <2>2, <2>4, <2>5
<1>5. CASE session # 0 /\ ts[session].kind # "none"
  <2>1. /\ tasks' = ts /\ failed' = failed
        /\ disturbed' = (disturbed \/ (ts[session].kind = "reload" /\ ts[session].dir # d))
        /\ owed' = (owed \/ ts[session].kind = "operation")
    BY <1>5, Zenon DEF Refresh
  <2>2. ts[session].kind = "reload" \/ ts[session].kind = "operation"
    BY <1>1, <1>5 DEF PaneTasks
  <2>3. owed' \in BOOLEAN /\ disturbed' \in BOOLEAN
    BY <2>1 DEF SessionTypes
  <2>4. owed' => ts[session].kind = "operation"
    BY <2>1, <2>2, <1>5
  <2>5. disturbed' \/ owed' \/ (ts[session].kind = "reload" /\ ts[session].dir = d)
    BY <2>1, <2>2
  <2> QED BY <2>1, <2>3, <2>4, <2>5 DEF SessionTypes
<1> QED BY <1>3, <1>4, <1>5

(* A local listing shows the folder, as it is. *)
LEMMA ReloadShows ==
  ASSUME RowTypes, EventTypes, NEW p \in Sides, NEW d \in Dirs, ReloadLocal(p, d), UNCHANGED disk
  PROVE  /\ RowTypes' /\ toWatch' \in Sides \cup {None}
         /\ rows'[p].of = 0
         /\ \A q \in Sides : q # p => path'[q] = path[q] /\ rows'[q] = rows[q]
BY DEF ReloadLocal, RowTypes, Rows

(* An event joins the queue. *)
LEMMA EventJoins ==
  ASSUME EventTypes, NEW e \in Events, uiEvents' = Append(uiEvents, e)
  PROVE  /\ uiEvents' \in Seq(Events)
         /\ EventsInv /\ EventOK(e) => \A i \in DOMAIN uiEvents' : EventOK(uiEvents'[i])
         /\ Awaited => \E i \in DOMAIN uiEvents' : uiEvents'[i].of = session
         /\ \E i \in DOMAIN uiEvents' : uiEvents'[i] = e
<1>1. Len(uiEvents') = Len(uiEvents) + 1 /\ uiEvents' \in Seq(Events)
  BY DEF EventTypes
<1>2. \A i \in 1..Len(uiEvents) : uiEvents'[i] = uiEvents[i]
  BY DEF EventTypes
<1>3. uiEvents'[Len(uiEvents) + 1] = e
  BY DEF EventTypes
<1>4. DOMAIN uiEvents = 1..Len(uiEvents) /\ DOMAIN uiEvents' = 1..Len(uiEvents')
  BY <1>1 DEF EventTypes
<1>5. Len(uiEvents) \in Nat
  BY DEF EventTypes
<1>6. EventsInv /\ EventOK(e) => \A i \in DOMAIN uiEvents' : EventOK(uiEvents'[i])
  <2> SUFFICES ASSUME EventsInv, EventOK(e), NEW i \in DOMAIN uiEvents' PROVE EventOK(uiEvents'[i])
    OBVIOUS
  <2>1. i \in 1..Len(uiEvents) \/ i = Len(uiEvents) + 1
    BY <1>1, <1>4, <1>5
  <2> QED BY <2>1, <1>2, <1>3, <1>4 DEF EventsInv
<1>7. Awaited => \E i \in DOMAIN uiEvents' : uiEvents'[i].of = session
  BY <1>1, <1>2, <1>4, <1>5 DEF Awaited
<1>8. \E i \in DOMAIN uiEvents' : uiEvents'[i] = e
  BY <1>1, <1>3, <1>4, <1>5
<1> QED BY <1>1, <1>6, <1>7, <1>8

(* The session shown is one that has been. *)
LEMMA SessionHasBeen == ASSUME SessionTypes PROVE session = 0 \/ session \in 1..MaxSessions
BY PanesAssumption DEF SessionTypes

-----------------------------------------------------------------------------
(* The steps of the user. *)
LEMMA GoLocalStep ==
  ASSUME PaneTypes, PaneInv, NEW p \in Sides, NEW d \in Dirs, GoLocal(p, d)
  PROVE  PaneTypes' /\ PaneInv'
<1>1. /\ p \in LocalSides /\ ReloadLocal(p, d)
      /\ UNCHANGED <<disk, watch, awake, uiEvents, session, tasks, failed, disturbed, owed, sessions>>
  BY DEF GoLocal, remoteVars
<1>2. /\ RowTypes' /\ toWatch' \in Sides \cup {None} /\ rows'[p].of = 0
      /\ \A q \in Sides : q # p => path'[q] = path[q] /\ rows'[q] = rows[q]
  BY <1>1, ReloadShows DEF PaneTypes
<1>3. PaneTypes'
  BY <1>1, <1>2 DEF PaneTypes, SessionTypes, EventTypes
<1>4. EventsInv' /\ TasksInv'
  BY <1>1 DEF PaneInv, EventsInv, EventOK, TasksInv
<1>5. session # 0 => p = "left"
  BY <1>1 DEF LocalSides, Sides
<1>6. OwnerInv'
  BY <1>1, <1>2 DEF PaneInv, OwnerInv, Sides
<1>7. session # 0 => path'["right"] = path["right"] /\ rows'["right"] = rows["right"]
  BY <1>2, <1>5 DEF Sides
<1>8. RemoteInv'
  BY <1>1, <1>7 DEF PaneInv, RemoteInv, OwedInv, ListedInv, Awaited
<1> QED BY <1>3, <1>4, <1>6, <1>8 DEF PaneInv

LEMMA GoRemoteStep ==
  ASSUME PaneTypes, PaneInv, NEW d \in Dirs, GoRemote(d)
  PROVE  PaneTypes' /\ PaneInv'
<1>1. /\ session # 0 /\ path' = [path EXCEPT !["right"] = d] /\ Refresh(tasks, d)
      /\ UNCHANGED <<rows, disk, watch, awake, toWatch, uiEvents, session, sessions>>
  BY DEF GoRemote, watchVars
<1>2. /\ tasks' \in PaneTasks
      /\ failed' \in BOOLEAN /\ disturbed' \in BOOLEAN /\ owed' \in BOOLEAN
      /\ \A s \in 1..MaxSessions : s # session => tasks'[s] = tasks[s]
      /\ owed' => tasks'[session].kind = "operation"
      /\ \/ disturbed' \/ owed'
         \/ tasks'[session].kind = "reload" /\ tasks'[session].dir = d
  <2>1. SessionTypes /\ tasks \in PaneTasks /\ (owed => tasks[session].kind # "reload")
    BY <1>1 DEF PaneTypes, SessionTypes, PaneInv, RemoteInv, OwedInv
  <2> QED BY <2>1, <1>1, RefreshLists
<1>3. path' \in [Sides -> Dirs] /\ path'["right"] = d
  BY <1>1 DEF PaneTypes, RowTypes, Sides
<1>4. PaneTypes'
  BY <1>1, <1>2, <1>3 DEF PaneTypes, RowTypes, SessionTypes, EventTypes
<1>5. EventsInv' /\ OwnerInv'
  BY <1>1 DEF PaneInv, EventsInv, EventOK, OwnerInv
<1>6. TasksInv'
  BY <1>1, <1>2 DEF PaneInv, TasksInv, PaneTypes, SessionTypes
<1>7. RemoteInv'
  BY <1>1, <1>2, <1>3 DEF RemoteInv, OwedInv, ListedInv
<1> QED BY <1>4, <1>5, <1>6, <1>7 DEF PaneInv

LEMMA StartOperationStep ==
  ASSUME PaneTypes, PaneInv, StartOperation
  PROVE  PaneTypes' /\ PaneInv'
<1>1. /\ session # 0 /\ tasks[session].kind = "none"
      /\ tasks' = [tasks EXCEPT ![session].kind = "operation"]
      /\ UNCHANGED <<path, rows, disk, watch, awake, toWatch, uiEvents, session, failed, disturbed, owed, sessions>>
  BY DEF StartOperation, watchVars
<1>2. session \in 1..MaxSessions /\ session <= sessions
  BY <1>1, PanesAssumption DEF PaneTypes, SessionTypes
<1>3. /\ tasks' \in PaneTasks /\ tasks'[session].kind = "operation"
      /\ \A s \in 1..MaxSessions : s # session => tasks'[s] = tasks[s]
  BY <1>1, <1>2 DEF PaneTypes, SessionTypes, PaneTasks
<1>4. PaneTypes'
  BY <1>1, <1>3 DEF PaneTypes, RowTypes, SessionTypes, EventTypes
<1>5. EventsInv' /\ OwnerInv'
  BY <1>1 DEF PaneInv, EventsInv, EventOK, OwnerInv
<1>6. TasksInv'
  <2> SUFFICES ASSUME NEW s \in 1..MaxSessions, s > sessions PROVE tasks'[s].kind = "none"
    BY <1>1 DEF TasksInv
  <2>1. s # session
    BY <1>2, PanesAssumption DEF PaneTypes, SessionTypes
  <2> QED BY <2>1, <1>3 DEF PaneInv, TasksInv
<1>7. RemoteInv'
  BY <1>1, <1>3 DEF PaneInv, RemoteInv, OwedInv, ListedInv, Awaited
<1> QED BY <1>4, <1>5, <1>6, <1>7 DEF PaneInv

LEMMA ConnectedStep ==
  ASSUME PaneTypes, PaneInv, NEW d \in Dirs, Connected(d)
  PROVE  PaneTypes' /\ PaneInv'
<1>1. /\ session = 0 /\ sessions < MaxSessions
      /\ sessions' = sessions + 1 /\ session' = sessions + 1
      /\ path' = [path EXCEPT !["right"] = d]
      /\ tasks' = [tasks EXCEPT ![sessions + 1] = ReloadOf(d, TRUE)]
      /\ failed' = FALSE /\ disturbed' = FALSE /\ owed' = FALSE
      /\ watch' = [watch EXCEPT !["right"] = NoWatcher]
      /\ rows' = [rows EXCEPT !["left"] = Rows(0, path["left"], disk[path["left"]])]
      /\ toWatch' = "left" /\ UNCHANGED <<disk, uiEvents>>
  BY DEF Connected
<1>2. /\ sessions \in Nat /\ sessions + 1 \in 1..MaxSessions /\ sessions + 1 # 0
      /\ session' \in 0..sessions' /\ sessions' \in 0..MaxSessions
  BY <1>1, PanesAssumption DEF PaneTypes, SessionTypes
<1>3. ReloadOf(d, TRUE) \in [kind : {"none", "reload", "operation"}, dir : Dirs, restoring : BOOLEAN]
  BY DEF ReloadOf
<1>4. tasks' \in PaneTasks /\ tasks'[sessions + 1] = ReloadOf(d, TRUE)
  BY <1>1, <1>2, <1>3 DEF PaneTypes, SessionTypes, PaneTasks
<1>5. tasks'[session'].kind = "reload" /\ tasks'[session'].dir = d
  BY <1>1, <1>4 DEF ReloadOf
<1>6. path' \in [Sides -> Dirs] /\ path'["right"] = d
  BY <1>1 DEF PaneTypes, RowTypes, Sides
<1>7. /\ rows' \in [Sides -> [of : Nat, dir : Dirs, seen : Nat]]
      /\ rows'["left"].of = 0 /\ rows'["right"] = rows["right"]
  BY <1>1 DEF PaneTypes, RowTypes, Sides, Rows
<1>8. RowTypes'
  BY <1>1, <1>6, <1>7 DEF PaneTypes, RowTypes
<1>9. SessionTypes'
  <2>1. failed' \in BOOLEAN /\ disturbed' \in BOOLEAN /\ owed' \in BOOLEAN
    BY <1>1
  <2> QED BY <2>1, <1>2, <1>4 DEF SessionTypes
<1>10. EventTypes'
  BY <1>1 DEF PaneTypes, EventTypes, PaneFolders, NoWatcher, None, Sides
<1>11. EventsInv'
  <2> SUFFICES ASSUME NEW i \in DOMAIN uiEvents PROVE EventOK(uiEvents[i])'
    BY <1>1 DEF EventsInv
  <2>1. EventOK(uiEvents[i])
    BY DEF PaneInv, EventsInv
  <2>2. 1..sessions \subseteq 1..sessions'
    BY <1>1, <1>2
  <2> QED BY <2>1, <2>2, <1>1 DEF EventOK
<1>12. TasksInv'
  <2> SUFFICES ASSUME NEW s \in 1..MaxSessions, s > sessions' PROVE tasks'[s].kind = "none"
    BY DEF TasksInv
  <2>1. s > sessions /\ s # sessions + 1
    BY <1>1, <1>2, PanesAssumption
  <2> QED BY <2>1, <1>1 DEF PaneInv, TasksInv, PaneTypes, SessionTypes, PaneTasks
<1>13. OwnerInv'
  BY <1>1, <1>7 DEF PaneInv, OwnerInv
<1>14. RemoteInv'
  BY <1>1, <1>5, <1>6 DEF RemoteInv, OwedInv, ListedInv
<1> QED BY <1>8, <1>9, <1>10, <1>11, <1>12, <1>13, <1>14 DEF PaneTypes, PaneInv

LEMMA DisconnectStep ==
  ASSUME PaneTypes, PaneInv, NEW d \in Dirs, Disconnect(d)
  PROVE  PaneTypes' /\ PaneInv'
<1>1. /\ session' = 0 /\ ReloadLocal("right", d)
      /\ UNCHANGED <<disk, watch, awake, uiEvents, tasks, failed, disturbed, owed, sessions>>
  BY DEF Disconnect
<1>2. "right" \in Sides
  BY DEF Sides
<1>3. /\ RowTypes' /\ toWatch' \in Sides \cup {None} /\ rows'["right"].of = 0
      /\ rows'["left"] = rows["left"]
  BY <1>1, <1>2, ReloadShows DEF PaneTypes, Sides
<1>4. SessionTypes'
  BY <1>1, PanesAssumption DEF PaneTypes, SessionTypes
<1>5. EventTypes'
  BY <1>1, <1>3 DEF PaneTypes, EventTypes
<1>6. EventsInv' /\ TasksInv' /\ OwnerInv' /\ RemoteInv'
  BY <1>1, <1>3 DEF PaneInv, EventsInv, EventOK, TasksInv, OwnerInv, RemoteInv,
                           OwedInv, ListedInv
<1> QED BY <1>3, <1>4, <1>5, <1>6 DEF PaneTypes, PaneInv

-----------------------------------------------------------------------------
(* The watcher, and what other programs and local operations do: nothing of *)
(* this touches the remote pane.                                            *)
LEMMA PointWatcherStep ==
  ASSUME PaneTypes, PaneInv, PointWatcher
  PROVE  PaneTypes' /\ PaneInv'
<1>1. /\ toWatch # None /\ toWatch' = None
      /\ UNCHANGED <<path, rows, disk, uiEvents, session, tasks, failed, disturbed, owed, sessions>>
  BY DEF PointWatcher, remoteVars
<1>2. toWatch \in Sides /\ path[toWatch] \in PaneFolders
  BY <1>1 DEF PaneTypes, EventTypes, RowTypes, PaneFolders
<1>3. watch' \in [Sides -> [looks : PaneFolders, reports : PaneFolders]]
  BY <1>2 DEF PointWatcher, PaneTypes, EventTypes, PaneFolders
<1>4. PaneTypes'
  BY <1>1, <1>3 DEF PaneTypes, RowTypes, SessionTypes, EventTypes
<1>5. PaneInv'
  BY <1>1 DEF PaneInv, EventsInv, EventOK, TasksInv, OwnerInv, RemoteInv, OwedInv, ListedInv,
              Awaited
<1> QED BY <1>4, <1>5

LEMMA DirChangesStep ==
  ASSUME PaneTypes, PaneInv, NEW d \in Dirs, DirChanges(d)
  PROVE  PaneTypes' /\ PaneInv'
<1>1. /\ disk' = [disk EXCEPT ![d] = @ + 1]
      /\ UNCHANGED <<path, rows, watch, toWatch, uiEvents, session, tasks, failed, disturbed, owed, sessions>>
  BY DEF DirChanges, remoteVars
<1>2. disk' \in [Dirs -> Nat]
  BY <1>1 DEF PaneTypes, RowTypes
<1>3. PaneTypes'
  BY <1>1, <1>2 DEF PaneTypes, RowTypes, SessionTypes, EventTypes
<1>4. PaneInv'
  BY <1>1 DEF PaneInv, EventsInv, EventOK, TasksInv, OwnerInv, RemoteInv, OwedInv, ListedInv,
              Awaited
<1> QED BY <1>3, <1>4

(* An event about a local folder leaves the remote pane to itself. *)
LEMMA LocalEventStep ==
  ASSUME PaneTypes, PaneInv, NEW e \in Events, EventOK(e), uiEvents' = Append(uiEvents, e),
         UNCHANGED <<path, rows, disk, watch, toWatch, session, tasks, failed, disturbed, owed, sessions>>
  PROVE  PaneTypes' /\ PaneInv'
<1>1. /\ uiEvents' \in Seq(Events)
      /\ \A i \in DOMAIN uiEvents' : EventOK(uiEvents'[i])
      /\ Awaited => \E i \in DOMAIN uiEvents' : uiEvents'[i].of = session
  BY EventJoins DEF PaneTypes, PaneInv
<1>2. PaneTypes'
  BY <1>1 DEF PaneTypes, RowTypes, SessionTypes, EventTypes
<1>3. EventsInv'
  BY <1>1 DEF EventsInv, EventOK
<1>4. Awaited => Awaited'
  BY <1>1 DEF Awaited
<1>5. TasksInv' /\ OwnerInv' /\ RemoteInv'
  BY <1>4 DEF PaneInv, TasksInv, OwnerInv, RemoteInv, OwedInv, ListedInv
<1> QED BY <1>2, <1>3, <1>5 DEF PaneInv

LEMMA SettlesStep ==
  ASSUME PaneTypes, PaneInv, NEW p \in Sides, Settles(p)
  PROVE  PaneTypes' /\ PaneInv'
<1>1. /\ uiEvents' = Append(uiEvents, Changed(p, watch[p].reports))
      /\ UNCHANGED <<path, rows, disk, watch, toWatch, session, tasks, failed, disturbed, owed, sessions>>
  BY DEF Settles, remoteVars
<1>2. watch[p].reports \in PaneFolders
  BY DEF PaneTypes, EventTypes
<1>3. Changed(p, watch[p].reports) \in Events
  BY <1>2 DEF Changed, UiEvent, Events
<1>4. EventOK(Changed(p, watch[p].reports))
  BY DEF Changed, UiEvent, EventOK
<1> QED BY <1>1, <1>3, <1>4, LocalEventStep

LEMMA PostsReloadStep ==
  ASSUME PaneTypes, PaneInv, NEW p \in Sides, NEW d \in Dirs, PostsReload(p, d)
  PROVE  PaneTypes' /\ PaneInv'
<1> DEFINE e == UiEvent("reloadLocal", p, d, 0)
<1>1. /\ uiEvents' = Append(uiEvents, e)
      /\ UNCHANGED <<path, rows, disk, watch, toWatch, session, tasks, failed, disturbed, owed, sessions>>
  BY DEF PostsReload, watchVars, remoteVars
<1>2. e \in Events
  BY DEF UiEvent, Events, Sides, PaneFolders
<1>3. EventOK(e)
  BY DEF UiEvent, EventOK
<1> QED BY <1>1, <1>2, <1>3, LocalEventStep

-----------------------------------------------------------------------------
(* The ends of the tasks that hold a session's client. *)

(* A session whose client is out has been. *)
LEMMA HolderHasBeen ==
  ASSUME PaneTypes, PaneInv, NEW s \in 1..MaxSessions, tasks[s].kind # "none"
  PROVE  s \in 1..sessions
BY PanesAssumption DEF PaneTypes, SessionTypes, PaneInv, TasksInv

(* The client comes back. *)
LEMMA ClientReturns ==
  ASSUME PaneTypes, PaneInv, NEW s \in 1..MaxSessions
  PROVE  /\ [tasks EXCEPT ![s] = NoTask] \in PaneTasks
         /\ [tasks EXCEPT ![s] = NoTask][s].kind = "none"
         /\ \A t \in 1..MaxSessions : t # s => [tasks EXCEPT ![s] = NoTask][t] = tasks[t]
         /\ \A t \in 1..MaxSessions : t > sessions => [tasks EXCEPT ![s] = NoTask][t].kind = "none"
<1>1. NoTask \in [kind : {"none", "reload", "operation"}, dir : Dirs, restoring : BOOLEAN] /\ NoTask.kind = "none"
  BY PanesAssumption DEF NoTask
<1> QED BY <1>1 DEF PaneTypes, SessionTypes, PaneTasks, PaneInv, TasksInv

LEMMA OperationEndsStep ==
  ASSUME PaneTypes, PaneInv, NEW s \in 1..MaxSessions, NEW asks \in BOOLEAN, OperationEnds(s, asks)
  PROVE  PaneTypes' /\ PaneInv'
<1> DEFINE e == UiEvent("reloadSession", "right", RootDir, s)
<1>1. /\ tasks[s].kind = "operation" /\ tasks' = [tasks EXCEPT ![s] = NoTask]
      /\ uiEvents' = IF asks THEN Append(uiEvents, e) ELSE uiEvents
      /\ disturbed' = (disturbed \/ (s = session /\ owed /\ ~asks))
      /\ owed' = (owed /\ s # session)
      /\ UNCHANGED <<path, rows, disk, watch, toWatch, session, failed, sessions>>
  BY DEF OperationEnds, watchVars
<1>2. s \in 1..sessions /\ s \in Nat /\ s # 0
  BY <1>1, HolderHasBeen
<1>3. /\ tasks' \in PaneTasks /\ tasks'[s].kind = "none"
      /\ \A t \in 1..MaxSessions : t # s => tasks'[t] = tasks[t]
      /\ TasksInv'
  BY <1>1, ClientReturns DEF TasksInv
<1>4. e \in Events /\ e.of = s
  BY <1>2, PanesAssumption DEF UiEvent, Events, Sides, PaneFolders
<1>5. EventOK(e)
  BY <1>2 DEF UiEvent, EventOK
<1>6. /\ uiEvents' \in Seq(Events)
      /\ \A i \in DOMAIN uiEvents' : EventOK(uiEvents'[i])
      /\ Awaited => \E i \in DOMAIN uiEvents' : uiEvents'[i].of = session
      /\ asks => \E i \in DOMAIN uiEvents' : uiEvents'[i].of = s
  <2>1. CASE asks
    BY <2>1, <1>1, <1>4, <1>5, EventJoins DEF PaneTypes, PaneInv
  <2>2. CASE ~asks
    BY <2>2, <1>1 DEF PaneTypes, EventTypes, PaneInv, EventsInv, Awaited
  <2> QED BY <2>1, <2>2
<1>7. PaneTypes'
  <2>1. disturbed' \in BOOLEAN /\ owed' \in BOOLEAN
    BY <1>1
  <2> QED BY <2>1, <1>1, <1>3, <1>6 DEF PaneTypes, RowTypes, SessionTypes, EventTypes
<1>8. /\ EventsInv' /\ OwnerInv' /\ (Awaited => Awaited')
      /\ asks /\ s = session => Awaited'
  BY <1>1, <1>6 DEF EventsInv, EventOK, PaneInv, OwnerInv, Awaited
<1>9. RemoteInv'
  <2>1. CASE session = s
    <3>1. ~owed' /\ (~disturbed' => ~disturbed) /\ (~disturbed' /\ ~Awaited' => ~owed)
      BY <2>1, <1>1, <1>8
    <3>2. OwedInv'
      BY <3>1 DEF OwedInv
    <3>3. ListedInv'
      BY <3>1, <2>1, <1>1, <1>2, <1>3, <1>8 DEF PaneInv, RemoteInv, ListedInv
    <3> QED BY <3>2, <3>3 DEF RemoteInv
  <2>2. CASE session # 0 /\ session # s
    <3>1. tasks'[session] = tasks[session]
      BY <2>2, <1>3, SessionHasBeen DEF PaneTypes
    <3>2. (owed' <=> owed) /\ (disturbed' <=> disturbed)
      BY <2>2, <1>1
    <3> QED BY <3>1, <3>2, <1>1, <1>8 DEF PaneInv, RemoteInv, OwedInv, ListedInv
  <2> QED BY <2>1, <2>2, <1>1 DEF RemoteInv, OwedInv, ListedInv
<1> QED BY <1>3, <1>7, <1>8, <1>9 DEF PaneInv

LEMMA ReloadEndsStep ==
  ASSUME PaneTypes, PaneInv, NEW s \in 1..MaxSessions, NEW ok \in BOOLEAN, ReloadEnds(s, ok)
  PROVE  PaneTypes' /\ PaneInv'
<1> DEFINE returned == [tasks EXCEPT ![s] = NoTask]
<1>1. /\ tasks[s].kind = "reload" /\ UNCHANGED <<disk, watch, toWatch, uiEvents, session, sessions>>
  BY DEF ReloadEnds, watchVars
<1>2. /\ returned \in PaneTasks /\ returned[s].kind = "none"
      /\ \A t \in 1..MaxSessions : t # s => returned[t] = tasks[t]
      /\ \A t \in 1..MaxSessions : t > sessions => returned[t].kind = "none"
  BY ClientReturns
<1>3. s \in 1..sessions /\ s # 0
  BY <1>1, HolderHasBeen
<1>4. tasks[s].dir \in Dirs /\ (session # 0 => session \in 1..MaxSessions)
  BY SessionHasBeen DEF PaneTypes, SessionTypes, PaneTasks
<1> HIDE DEF returned
<1>5. EventsInv' /\ EventTypes'
  BY <1>1 DEF PaneTypes, EventTypes, PaneInv, EventsInv, EventOK
<1>6. Awaited' <=> Awaited
  BY <1>1 DEF Awaited
<1>7. CASE ok
  <2>1. /\ tasks' = returned /\ failed' = FALSE /\ UNCHANGED <<path, owed>>
        /\ rows' = IF s = session THEN [rows EXCEPT !["right"] = Rows(s, tasks[s].dir, 0)] ELSE rows
        /\ disturbed' = (disturbed \/ (failed /\ s # session))
    BY <1>7 DEF ReloadEnds, returned
  <2>2. /\ rows' \in [Sides -> [of : Nat, dir : Dirs, seen : Nat]] /\ rows'["left"] = rows["left"]
        /\ s = session => rows'["right"] = Rows(s, tasks[s].dir, 0)
        /\ s # session => rows' = rows
    BY <2>1, <1>3, <1>4 DEF PaneTypes, RowTypes, Rows, Sides
  <2>3. RowTypes'
    BY <2>1, <2>2, <1>1 DEF PaneTypes, RowTypes
  <2>4. disturbed' \in BOOLEAN
    BY <2>1
  <2>5. SessionTypes'
    BY <2>1, <2>4, <1>1, <1>2 DEF PaneTypes, SessionTypes
  <2>6. TasksInv'
    BY <2>1, <1>1, <1>2 DEF TasksInv
  <2>7. OwnerInv'
    BY <2>2, <1>1 DEF PaneInv, OwnerInv, Rows
  <2>8. RemoteInv'
    <3>1. CASE s = session
      BY <3>1, <2>1, <2>2, <1>1, <1>2, <1>3 DEF PaneInv, RemoteInv, OwedInv, ListedInv
    <3>2. CASE s # session /\ session # 0
      <4>1. tasks'[session] = tasks[session]
        BY <3>2, <2>1, <1>2, <1>4
      <4>2. ~disturbed' => ~disturbed /\ ~failed
        BY <3>2, <2>1
      <4> QED BY <4>1, <4>2, <3>2, <2>1, <2>2, <1>1, <1>6 DEF PaneInv, RemoteInv, OwedInv, ListedInv
    <3> QED BY <3>1, <3>2, <1>1, <1>3 DEF RemoteInv, OwedInv, ListedInv
  <2> QED BY <2>3, <2>5, <2>6, <2>7, <2>8, <1>5 DEF PaneTypes, PaneInv
<1>8. CASE ~ok /\ tasks[s].restoring /\ tasks[s].dir # RootDir
  <2>1. path' = [path EXCEPT !["right"] = RootDir] /\ Refresh(returned, RootDir) /\ UNCHANGED rows
    BY <1>8 DEF ReloadEnds, returned
  <2>2. RootDir \in Dirs
    BY PanesAssumption
  <2>3. path' \in [Sides -> Dirs] /\ path'["right"] = RootDir
    BY <2>1, <2>2 DEF PaneTypes, RowTypes, Sides
  <2>4. /\ tasks' \in PaneTasks
        /\ failed' \in BOOLEAN /\ disturbed' \in BOOLEAN /\ owed' \in BOOLEAN
        /\ \A t \in 1..MaxSessions : t # session => tasks'[t] = returned[t]
        /\ session # 0 /\ owed' => tasks'[session].kind = "operation"
        /\ session # 0 => \/ disturbed' \/ owed'
                          \/ tasks'[session].kind = "reload" /\ tasks'[session].dir = RootDir
    <3>1. session # 0 /\ owed => returned[session].kind # "reload"
      BY <1>1, <1>2, <1>4 DEF PaneInv, RemoteInv, OwedInv
    <3> QED BY <3>1, <2>1, <2>2, <1>2, RefreshLists DEF PaneTypes
  <2>5. RowTypes' /\ SessionTypes'
    BY <2>1, <2>3, <2>4, <1>1 DEF PaneTypes, RowTypes, SessionTypes
  <2>6. TasksInv'
    <3> SUFFICES ASSUME NEW t \in 1..MaxSessions, t > sessions PROVE tasks'[t].kind = "none"
      BY <1>1 DEF TasksInv
    <3>1. t # session
      BY PanesAssumption DEF PaneTypes, SessionTypes
    <3> QED BY <3>1, <2>4, <1>2
  <2>7. OwnerInv'
    BY <2>1, <1>1 DEF PaneInv, OwnerInv
  <2>8. RemoteInv'
    BY <2>3, <2>4, <1>1 DEF RemoteInv, OwedInv, ListedInv
  <2> QED BY <2>5, <2>6, <2>7, <2>8, <1>5 DEF PaneTypes, PaneInv
<1>9. CASE ~ok /\ ~(tasks[s].restoring /\ tasks[s].dir # RootDir)
  <2>1. tasks' = returned /\ failed' = TRUE /\ UNCHANGED <<path, rows, disturbed, owed>>
    BY <1>9 DEF ReloadEnds, returned
  <2>2. failed' \in BOOLEAN
    BY <2>1
  <2>3. RowTypes' /\ SessionTypes'
    BY <2>1, <2>2, <1>1, <1>2 DEF PaneTypes, RowTypes, SessionTypes
  <2>4. TasksInv' /\ OwnerInv'
    BY <2>1, <1>1, <1>2 DEF TasksInv, PaneInv, OwnerInv
  <2>5. RemoteInv'
    <3>1. CASE session = 0
      BY <3>1, <1>1 DEF RemoteInv, OwedInv, ListedInv
    <3>2. CASE session # 0 /\ s = session
      BY <3>2, <2>1, <1>1, <1>2 DEF PaneInv, RemoteInv, OwedInv, ListedInv
    <3>3. CASE session # 0 /\ s # session
      <4>1. tasks'[session] = tasks[session]
        BY <3>3, <2>1, <1>2, <1>4
      <4> QED BY <4>1, <3>3, <2>1, <1>1 DEF PaneInv, RemoteInv, OwedInv, ListedInv
    <3> QED BY <3>1, <3>2, <3>3
  <2> QED BY <2>3, <2>4, <2>5, <1>5 DEF PaneTypes, PaneInv
<1> QED BY <1>7, <1>8, <1>9

-----------------------------------------------------------------------------
(* The UI thread takes an event. *)
LEMMA EventLeaves ==
  ASSUME EventTypes, uiEvents # <<>>, uiEvents' = Tail(uiEvents)
  PROVE  /\ uiEvents' \in Seq(Events) /\ Head(uiEvents) \in Events
         /\ EventsInv => EventOK(Head(uiEvents)) /\ \A i \in DOMAIN uiEvents' : EventOK(uiEvents'[i])
         /\ Awaited /\ Head(uiEvents).of # session
              => \E i \in DOMAIN uiEvents' : uiEvents'[i].of = session
<1>1. /\ uiEvents \in Seq(Events) /\ uiEvents' \in Seq(Events) /\ Len(uiEvents) \in Nat
      /\ Len(uiEvents) > 0 /\ Len(uiEvents') = Len(uiEvents) - 1
  BY DEF EventTypes
<1>2. DOMAIN uiEvents = 1..Len(uiEvents) /\ DOMAIN uiEvents' = 1..Len(uiEvents')
  BY <1>1
<1>3. Head(uiEvents) = uiEvents[1] /\ Head(uiEvents) \in Events /\ 1 \in DOMAIN uiEvents
  BY <1>1, <1>2
<1>4. \A i \in DOMAIN uiEvents' : i + 1 \in DOMAIN uiEvents /\ uiEvents'[i] = uiEvents[i + 1]
  BY <1>1, <1>2
<1>5. EventsInv => EventOK(Head(uiEvents)) /\ \A i \in DOMAIN uiEvents' : EventOK(uiEvents'[i])
  BY <1>3, <1>4 DEF EventsInv
<1>6. ASSUME NEW i \in DOMAIN uiEvents, uiEvents[i].of = session, Head(uiEvents).of # session
      PROVE  \E j \in DOMAIN uiEvents' : uiEvents'[j].of = session
  <2>1. i # 1 /\ i - 1 \in 1..Len(uiEvents')
    BY <1>1, <1>2, <1>3, <1>6
  <2>2. i - 1 \in DOMAIN uiEvents' /\ uiEvents'[i - 1] = uiEvents[i]
    BY <2>1, <1>2, <1>4
  <2> QED BY <2>2, <1>6
<1> QED BY <1>1, <1>3, <1>5, <1>6 DEF Awaited

LEMMA HandleEventStep ==
  ASSUME PaneTypes, PaneInv, HandleEvent
  PROVE  PaneTypes' /\ PaneInv'
<1> DEFINE ev == Head(uiEvents)
           Shows == \/ ev.kind = "reloadLocal"
                    \/ ev.kind = "localDirChanged" /\ ev.side \in LocalSides /\ path[ev.side] = ev.dir
           Asks == ev.kind = "reloadSession" /\ ev.of = session
<1>1. /\ uiEvents # <<>> /\ uiEvents' = Tail(uiEvents)
      /\ UNCHANGED <<disk, watch, session, sessions>>
  BY DEF HandleEvent
<1>2. /\ uiEvents' \in Seq(Events) /\ ev \in Events /\ EventOK(ev)
      /\ \A i \in DOMAIN uiEvents' : EventOK(uiEvents'[i])
      /\ Awaited /\ ev.of # session => \E i \in DOMAIN uiEvents' : uiEvents'[i].of = session
  BY <1>1, EventLeaves DEF PaneTypes, PaneInv
<1>3. EventsInv' /\ (Awaited /\ ev.of # session => Awaited')
  BY <1>1, <1>2 DEF EventsInv, EventOK, Awaited
<1> HIDE DEF ev
<1>4. CASE Shows
  <2>1. /\ ReloadLocal(ev.side, ev.dir) /\ UNCHANGED <<tasks, failed, owed>>
        /\ disturbed' = (disturbed \/ ev.side \notin LocalSides)
    BY <1>4 DEF HandleEvent, ev
  <2>2. ev.side \in Sides /\ ev.dir \in Dirs /\ ev.of = 0
    BY <1>2, <1>4 DEF Events, EventOK, PaneTypes, RowTypes
  <2>3. session # 0 /\ ~disturbed' => ev.side = "left" /\ ~disturbed
    BY <2>1, <2>2 DEF LocalSides, Sides
  <2>4. /\ RowTypes' /\ toWatch' \in Sides \cup {None} /\ rows'[ev.side].of = 0
        /\ \A q \in Sides : q # ev.side => path'[q] = path[q] /\ rows'[q] = rows[q]
    BY <2>1, <2>2, <1>1, ReloadShows DEF PaneTypes
  <2>5. PaneTypes'
    <3>1. disturbed' \in BOOLEAN
      BY <2>1
    <3> QED BY <3>1, <2>1, <2>4, <1>1, <1>2 DEF PaneTypes, SessionTypes, EventTypes
  <2>6. TasksInv' /\ OwnerInv'
    BY <2>1, <2>4, <1>1 DEF PaneInv, TasksInv, OwnerInv, Sides
  <2>7. session # 0 /\ ~disturbed'
          => ~disturbed /\ path'["right"] = path["right"] /\ rows'["right"] = rows["right"]
    BY <2>3, <2>4 DEF Sides
  <2>8. RemoteInv'
    BY <2>1, <2>2, <2>7, <1>1, <1>3 DEF PaneInv, RemoteInv, OwedInv, ListedInv
  <2> QED BY <2>5, <2>6, <2>8, <1>3 DEF PaneInv
<1>5. CASE ~Shows /\ Asks
  <2>1. Refresh(tasks, path["right"]) /\ UNCHANGED <<path, rows, toWatch>>
    BY <1>5 DEF HandleEvent, ev
  <2>2. path["right"] \in Dirs /\ tasks \in PaneTasks
    BY DEF PaneTypes, RowTypes, SessionTypes, Sides
  <2>3. /\ tasks' \in PaneTasks
        /\ failed' \in BOOLEAN /\ disturbed' \in BOOLEAN /\ owed' \in BOOLEAN
        /\ \A t \in 1..MaxSessions : t # session => tasks'[t] = tasks[t]
        /\ session # 0 /\ owed' => tasks'[session].kind = "operation"
        /\ session # 0 => \/ disturbed' \/ owed'
                          \/ tasks'[session].kind = "reload" /\ tasks'[session].dir = path["right"]
    <3>1. session # 0 /\ owed => tasks[session].kind # "reload"
      BY DEF PaneInv, RemoteInv, OwedInv
    <3> QED BY <3>1, <2>1, <2>2, RefreshLists DEF PaneTypes
  <2>4. PaneTypes'
    BY <2>1, <2>3, <1>1, <1>2 DEF PaneTypes, RowTypes, SessionTypes, EventTypes
  <2>5. TasksInv'
    <3> SUFFICES ASSUME NEW t \in 1..MaxSessions, t > sessions PROVE tasks'[t].kind = "none"
      BY <1>1 DEF TasksInv
    <3>1. t # session
      BY PanesAssumption DEF PaneTypes, SessionTypes
    <3> QED BY <3>1, <2>3 DEF PaneInv, TasksInv
  <2>6. OwnerInv' /\ RemoteInv'
    BY <2>1, <2>3, <1>1 DEF PaneInv, OwnerInv, RemoteInv, OwedInv, ListedInv
  <2> QED BY <2>4, <2>5, <2>6, <1>3 DEF PaneInv
<1>6. CASE ~Shows /\ ~Asks
  <2>1. UNCHANGED <<path, rows, toWatch, tasks, failed, disturbed, owed>>
    BY <1>6 DEF HandleEvent, ev
  <2>2. session # 0 => ev.of # session
    BY <1>2, <1>6 DEF EventOK
  <2>3. PaneTypes'
    BY <2>1, <1>1, <1>2 DEF PaneTypes, RowTypes, SessionTypes, EventTypes
  <2>4. TasksInv' /\ OwnerInv' /\ RemoteInv'
    BY <2>1, <2>2, <1>1, <1>3 DEF PaneInv, TasksInv, OwnerInv, RemoteInv, OwedInv, ListedInv
  <2> QED BY <2>3, <2>4, <1>3 DEF PaneInv
<1> QED BY <1>4, <1>5, <1>6

-----------------------------------------------------------------------------
LEMMA PaneStep == PaneTypes /\ PaneInv /\ [PanesNext]_paneVars => (PaneTypes /\ PaneInv)'
<1> SUFFICES ASSUME PaneTypes, PaneInv, [PanesNext]_paneVars PROVE PaneTypes' /\ PaneInv'
  OBVIOUS
<1>1. CASE UNCHANGED paneVars
  BY <1>1 DEF paneVars, watchVars, remoteVars, PaneTypes, RowTypes, SessionTypes, EventTypes,
              PaneInv, EventsInv, EventOK, TasksInv, OwnerInv, RemoteInv, OwedInv, ListedInv, Awaited
<1>2. CASE \E p \in Sides, d \in Dirs : GoLocal(p, d)
  BY <1>2, GoLocalStep
<1>3. CASE PointWatcher
  BY <1>3, PointWatcherStep
<1>4. CASE HandleEvent
  BY <1>4, HandleEventStep
<1>5. CASE StartOperation
  BY <1>5, StartOperationStep
<1>6. CASE \E d \in Dirs : DirChanges(d)
  BY <1>6, DirChangesStep
<1>7. CASE \E d \in Dirs : GoRemote(d)
  BY <1>7, GoRemoteStep
<1>8. CASE \E d \in Dirs : Connected(d)
  BY <1>8, ConnectedStep
<1>9. CASE \E d \in Dirs : Disconnect(d)
  BY <1>9, DisconnectStep
<1>10. CASE \E p \in Sides, d \in Dirs : PostsReload(p, d)
  BY <1>10, PostsReloadStep
<1>11. CASE \E p \in Sides : Settles(p)
  BY <1>11, SettlesStep
<1>12. CASE \E s \in 1..MaxSessions, b \in BOOLEAN : OperationEnds(s, b)
  BY <1>12, OperationEndsStep
<1>13. CASE \E s \in 1..MaxSessions, b \in BOOLEAN : ReloadEnds(s, b)
  BY <1>13, ReloadEndsStep
<1> QED
  BY <1>1, <1>2, <1>3, <1>4, <1>5, <1>6, <1>7, <1>8, <1>9, <1>10, <1>11, <1>12, <1>13 DEF PanesNext

(* Whatever listings and operations are under way when the user connects,   *)
(* disconnects and moves about, a local pane never shows a server's rows    *)
(* nor a remote pane those of a session before it.  A remote pane that is   *)
(* at rest shows the folder it names, unless since its last refresh began   *)
(* one was refused over the listing of another folder or over an operation  *)
(* that was given up, its error was wiped by a closed session's listing, or *)
(* local rows were put into it.  (main.rs: request_remote_reload_inner,     *)
(* reload_local, reload_right_local, the UI event queue)                    *)
THEOREM RowsStayTheirOwn == PanesSpec => []RowsAreItsOwn
<1>1. PanesInit => PaneTypes /\ PaneInv
  BY PaneInit
<1>2. PaneTypes /\ PaneInv /\ [PanesNext]_paneVars => (PaneTypes /\ PaneInv)'
  BY PaneStep
<1>3. PaneTypes /\ PaneInv => RowsAreItsOwn
  BY PaneInvSuffices
<1> QED BY <1>1, <1>2, <1>3, PTL DEF PanesSpec

(* The types of the panes: what is shown was read from the disk as it was,  *)
(* and a watcher that looks or was woken reports a folder.                  *)
DiskBounds ==
  /\ disk \in [Dirs -> 0..MaxChanges]
  /\ rows \in [Sides -> [of : Nat, dir : Dirs, seen : 0..MaxChanges]]
WatchBounds ==
  /\ awake \subseteq Sides
  /\ \A p \in Sides : watch[p].looks # None \/ p \in awake => watch[p].reports # None
MoveBounds == moves \in 0..MaxMoves
EventBounds == \A i \in DOMAIN uiEvents : uiEvents[i].dir \in Dirs
PaneBounds == DiskBounds /\ WatchBounds /\ MoveBounds /\ EventBounds

LEMMA PaneBoundsSuffice == PaneTypes /\ PaneInv /\ PaneBounds => PanesTypeOK
<1> SUFFICES ASSUME PaneTypes, PaneInv, PaneBounds PROVE PanesTypeOK
  OBVIOUS
<1>1. 0..sessions \subseteq 0..MaxSessions /\ session \in 0..MaxSessions /\ sessions \in Nat
  BY PanesAssumption DEF PaneTypes, SessionTypes
<1>2. rows \in [Sides -> [of : 0..MaxSessions, dir : Dirs, seen : 0..MaxChanges]]
  <2>1. \A p \in Sides : rows[p] \in [of : 0..MaxSessions, dir : Dirs, seen : 0..MaxChanges]
    BY <1>1 DEF PaneBounds, DiskBounds, PaneInv, OwnerInv, Sides
  <2> QED BY <2>1 DEF PaneBounds, DiskBounds
<1>3. uiEvents \in Seq([kind : {"reloadLocal", "localDirChanged", "reloadSession"}, side : Sides,
                        dir : Dirs, of : 0..MaxSessions])
  <2> DEFINE T == [kind : {"reloadLocal", "localDirChanged", "reloadSession"}, side : Sides,
                   dir : Dirs, of : 0..MaxSessions]
  <2>1. Len(uiEvents) \in Nat /\ DOMAIN uiEvents = 1..Len(uiEvents)
        /\ uiEvents \in [1..Len(uiEvents) -> Events]
    BY DEF PaneTypes, EventTypes
  <2>2. ASSUME NEW i \in 1..Len(uiEvents) PROVE uiEvents[i] \in T
    <3>1. uiEvents[i] \in Events /\ EventOK(uiEvents[i]) /\ uiEvents[i].dir \in Dirs
      BY <2>1, <2>2 DEF PaneInv, EventsInv, PaneBounds, EventBounds
    <3>2. uiEvents[i].of \in 0..MaxSessions
      BY <3>1, <1>1, PanesAssumption DEF EventOK, Events, PaneTypes, SessionTypes
    <3> QED BY <3>1, <3>2 DEF Events
  <2> HIDE DEF T
  <2>3. uiEvents \in [1..Len(uiEvents) -> T]
    BY <2>1, <2>2
  <2>4. uiEvents \in Seq(T)
    BY <2>1, <2>3
  <2> QED BY <2>4 DEF T
<1> QED
  BY <1>2, <1>3 DEF PaneTypes, RowTypes, SessionTypes, EventTypes, PaneBounds, DiskBounds,
                    WatchBounds, MoveBounds, PanesTypeOK, PaneTasks, PaneFolders

LEMMA PaneBoundsInit == PanesInit => PaneBounds
<1> SUFFICES ASSUME PanesInit PROVE PaneBounds
  OBVIOUS
<1>1. DiskBounds
  BY PanesAssumption DEF PanesInit, DiskBounds, Rows
<1>2. WatchBounds /\ MoveBounds
  BY PanesAssumption DEF PanesInit, WatchBounds, MoveBounds
<1>3. EventBounds
  BY DEF PanesInit, EventBounds
<1> QED BY <1>1, <1>2, <1>3 DEF PaneBounds

(* A local listing is read from the disk. *)
LEMMA ListingIsRead ==
  ASSUME DiskBounds, NEW p \in Sides, NEW d \in Dirs, ReloadLocal(p, d), UNCHANGED disk
  PROVE  DiskBounds'
BY DEF ReloadLocal, DiskBounds, Rows

LEMMA DiskStep == PaneTypes /\ PaneInv /\ DiskBounds /\ PanesNext => DiskBounds'
<1> SUFFICES ASSUME PaneTypes, PaneInv, DiskBounds, PanesNext PROVE DiskBounds'
  OBVIOUS
<1>1. ASSUME NEW p \in Sides, NEW d \in Dirs, GoLocal(p, d) PROVE DiskBounds'
  BY <1>1, ListingIsRead DEF GoLocal
<1>2. CASE HandleEvent
  <2> DEFINE ev == Head(uiEvents)
  <2>1. ev = uiEvents[1] /\ 1 \in DOMAIN uiEvents /\ ev \in Events /\ uiEvents # <<>>
    BY <1>2 DEF HandleEvent, PaneTypes, EventTypes
  <2>2. ev.side \in Sides /\ EventOK(ev) /\ UNCHANGED disk
    BY <2>1, <1>2 DEF Events, PaneInv, EventsInv, HandleEvent
  <2>3. CASE \/ ev.kind = "reloadLocal"
             \/ ev.kind = "localDirChanged" /\ ev.side \in LocalSides /\ path[ev.side] = ev.dir
    <3>1. ev.dir \in Dirs
      BY <2>2, <2>3 DEF EventOK, PaneTypes, RowTypes
    <3>2. ReloadLocal(ev.side, ev.dir)
      BY <1>2, <2>3 DEF HandleEvent
    <3> HIDE DEF ev
    <3> QED BY <2>2, <3>1, <3>2, ListingIsRead
  <2>4. CASE ~(\/ ev.kind = "reloadLocal"
               \/ ev.kind = "localDirChanged" /\ ev.side \in LocalSides /\ path[ev.side] = ev.dir)
    <3>1. UNCHANGED <<rows, disk>>
      BY <1>2, <2>4 DEF HandleEvent
    <3> QED BY <3>1 DEF DiskBounds
  <2> QED BY <2>3, <2>4
<1>3. ASSUME NEW d \in Dirs, DirChanges(d) PROVE DiskBounds'
  <2>1. disk[d] \in 0..MaxChanges /\ disk[d] < MaxChanges /\ UNCHANGED rows
        /\ disk' = [disk EXCEPT ![d] = disk[d] + 1]
    BY <1>3 DEF DirChanges, DiskBounds
  <2>2. disk[d] + 1 \in 0..MaxChanges
    BY <2>1, PanesAssumption
  <2> QED BY <2>1, <2>2 DEF DiskBounds
<1>4. ASSUME NEW d \in Dirs, Connected(d) PROVE DiskBounds'
  BY <1>4 DEF Connected, DiskBounds, PaneTypes, RowTypes, Rows, Sides
<1>5. ASSUME NEW d \in Dirs, Disconnect(d) PROVE DiskBounds'
  BY <1>5, ListingIsRead DEF Disconnect, Sides
<1>6. ASSUME NEW s \in 1..MaxSessions, NEW b \in BOOLEAN, ReloadEnds(s, b) PROVE DiskBounds'
  <2>1. tasks[s].dir \in Dirs /\ s \in Nat /\ 0 \in 0..MaxChanges
    BY PanesAssumption DEF PaneTypes, SessionTypes, PaneTasks
  <2>2. UNCHANGED rows \/ rows' = [rows EXCEPT !["right"] = Rows(s, tasks[s].dir, 0)]
    BY <1>6 DEF ReloadEnds
  <2>3. UNCHANGED disk
    BY <1>6 DEF ReloadEnds
  <2> QED BY <2>1, <2>2, <2>3 DEF DiskBounds, Rows
<1>7. CASE UNCHANGED <<rows, disk>>
  BY <1>7 DEF DiskBounds
<1> QED
  BY <1>1, <1>2, <1>3, <1>4, <1>5, <1>6, <1>7
     DEF PanesNext, PointWatcher, StartOperation, GoRemote, PostsReload, Settles, OperationEnds

LEMMA WatchStep == PaneTypes /\ WatchBounds /\ PanesNext => WatchBounds'
<1> SUFFICES ASSUME PaneTypes, WatchBounds, PanesNext PROVE WatchBounds'
  OBVIOUS
<1>1. CASE PointWatcher
  <2>1. toWatch \in Sides /\ path[toWatch] # None /\ UNCHANGED awake
    BY <1>1, PanesAssumption DEF PointWatcher, PaneTypes, EventTypes, RowTypes
  <2>2. watch \in [Sides -> [looks : PaneFolders, reports : PaneFolders]]
    BY DEF PaneTypes, EventTypes
  <2> DEFINE p == toWatch  w == watch[p]  d == path[p]
  <2>3. CASE w.reports = None /\ watch' = [watch EXCEPT ![p] = [looks |-> d, reports |-> d]]
    BY <2>1, <2>2, <2>3 DEF WatchBounds
  <2>4. CASE w.reports # None /\ watch' = [watch EXCEPT ![p] = [w EXCEPT !.looks = d]]
    BY <2>1, <2>2, <2>4 DEF WatchBounds
  <2>5. CASE UNCHANGED watch
    BY <2>5, <2>1 DEF WatchBounds
  <2>6. CASE w.reports # None /\ watch' = [watch EXCEPT ![p].looks = None]
    BY <2>1, <2>2, <2>6 DEF WatchBounds
  <2> QED BY <1>1, <2>3, <2>4, <2>5, <2>6 DEF PointWatcher
<1>2. ASSUME NEW d \in Dirs, DirChanges(d) PROVE WatchBounds'
  <2>1. d # None /\ UNCHANGED watch /\ awake' = awake \cup {p \in Sides : watch[p].looks = d}
    BY <1>2, PanesAssumption DEF DirChanges
  <2> QED BY <2>1 DEF WatchBounds
<1>3. ASSUME NEW d \in Dirs, Connected(d) PROVE WatchBounds'
  BY <1>3 DEF Connected, WatchBounds, NoWatcher, PaneTypes, EventTypes, Sides
<1>4. ASSUME NEW p \in Sides, Settles(p) PROVE WatchBounds'
  BY <1>4 DEF Settles, WatchBounds
<1>5. CASE UNCHANGED <<watch, awake>>
  BY <1>5 DEF WatchBounds
<1> QED
  BY <1>1, <1>2, <1>3, <1>4, <1>5
     DEF PanesNext, GoLocal, HandleEvent, StartOperation, GoRemote, Disconnect, PostsReload,
         OperationEnds, ReloadEnds, watchVars

LEMMA MoveStep == MoveBounds /\ PanesNext => MoveBounds'
<1> SUFFICES ASSUME MoveBounds, PanesNext PROVE MoveBounds'
  OBVIOUS
<1>1. (moves < MaxMoves /\ moves' = moves + 1) \/ UNCHANGED moves
  BY DEF PanesNext, Click, GoLocal, PointWatcher, HandleEvent, StartOperation, DirChanges, GoRemote,
         Connected, Disconnect, PostsReload, Settles, OperationEnds, ReloadEnds
<1> QED BY <1>1, PanesAssumption DEF MoveBounds

(* An event of a folder joins the queue, or one leaves it. *)
LEMMA TailOfQueue ==
  ASSUME NEW q \in Seq(Events), q # <<>>, \A i \in DOMAIN q : q[i].dir \in Dirs
  PROVE  \A i \in DOMAIN Tail(q) : Tail(q)[i].dir \in Dirs
<1>1. Len(Tail(q)) = Len(q) - 1 /\ Tail(q) \in Seq(Events) /\ Len(q) \in Nat
  OBVIOUS
<1>2. \A i \in 1..(Len(q) - 1) : Tail(q)[i] = q[i + 1]
  OBVIOUS
<1>3. DOMAIN Tail(q) = 1..(Len(q) - 1) /\ DOMAIN q = 1..Len(q)
  BY <1>1
<1>4. \A i \in 1..(Len(q) - 1) : i + 1 \in 1..Len(q)
  BY <1>1
<1> QED BY <1>2, <1>3, <1>4

LEMMA JoinOfQueue ==
  ASSUME NEW q \in Seq(Events), NEW e \in Events, e.dir \in Dirs,
         \A i \in DOMAIN q : q[i].dir \in Dirs
  PROVE  \A i \in DOMAIN Append(q, e) : Append(q, e)[i].dir \in Dirs
<1>1. Len(Append(q, e)) = Len(q) + 1 /\ Append(q, e) \in Seq(Events) /\ Len(q) \in Nat
  OBVIOUS
<1>2. \A i \in 1..Len(q) : Append(q, e)[i] = q[i]
  OBVIOUS
<1>3. Append(q, e)[Len(q) + 1] = e
  OBVIOUS
<1>4. DOMAIN Append(q, e) = 1..(Len(q) + 1) /\ DOMAIN q = 1..Len(q)
  BY <1>1
<1>5. \A i \in 1..(Len(q) + 1) : i \in 1..Len(q) \/ i = Len(q) + 1
  BY <1>1
<1> QED BY <1>2, <1>3, <1>4, <1>5

LEMMA EventsStayBound ==
  ASSUME EventTypes, EventBounds,
         \/ UNCHANGED uiEvents
         \/ uiEvents # <<>> /\ uiEvents' = Tail(uiEvents)
         \/ \E e \in Events : e.dir \in Dirs /\ uiEvents' = Append(uiEvents, e)
  PROVE  EventBounds'
<1>1. uiEvents \in Seq(Events)
  BY DEF EventTypes
<1>2. CASE UNCHANGED uiEvents
  BY <1>2 DEF EventBounds
<1>3. CASE uiEvents # <<>> /\ uiEvents' = Tail(uiEvents)
  BY <1>1, <1>3, TailOfQueue DEF EventBounds
<1>4. ASSUME NEW e \in Events, e.dir \in Dirs, uiEvents' = Append(uiEvents, e) PROVE EventBounds'
  BY <1>1, <1>4, JoinOfQueue DEF EventBounds
<1> QED BY <1>2, <1>3, <1>4

LEMMA EventStep == PaneTypes /\ WatchBounds /\ EventBounds /\ PanesNext => EventBounds'
<1> SUFFICES ASSUME PaneTypes, WatchBounds, EventBounds, PanesNext PROVE EventBounds'
  OBVIOUS
<1>1. EventTypes
  BY DEF PaneTypes
<1>2. ASSUME NEW p \in Sides, NEW d \in Dirs, PostsReload(p, d) PROVE EventBounds'
  <2>1. UiEvent("reloadLocal", p, d, 0) \in Events /\ UiEvent("reloadLocal", p, d, 0).dir \in Dirs
    BY DEF UiEvent, Events, PaneFolders, Sides
  <2> QED BY <2>1, <1>1, <1>2, EventsStayBound DEF PostsReload
<1>3. ASSUME NEW p \in Sides, Settles(p) PROVE EventBounds'
  <2>1. watch[p].reports \in Dirs
    BY <1>3 DEF Settles, WatchBounds, PaneTypes, EventTypes, PaneFolders
  <2>2. Changed(p, watch[p].reports) \in Events /\ Changed(p, watch[p].reports).dir \in Dirs
    BY <2>1 DEF Changed, UiEvent, Events, PaneFolders
  <2> QED BY <2>2, <1>1, <1>3, EventsStayBound DEF Settles
<1>4. ASSUME NEW s \in 1..MaxSessions, NEW b \in BOOLEAN, OperationEnds(s, b) PROVE EventBounds'
  <2> DEFINE e == UiEvent("reloadSession", "right", RootDir, s)
  <2>1. e \in Events /\ e.dir \in Dirs
    BY PanesAssumption DEF UiEvent, Events, PaneFolders, Sides
  <2>2. uiEvents' = IF b THEN Append(uiEvents, e) ELSE uiEvents
    BY <1>4 DEF OperationEnds
  <2> HIDE DEF e
  <2> QED BY <2>1, <2>2, <1>1, EventsStayBound
<1>5. CASE HandleEvent
  BY <1>1, <1>5, EventsStayBound DEF HandleEvent
<1>6. CASE UNCHANGED uiEvents
  BY <1>6, <1>1, EventsStayBound
<1> QED
  BY <1>2, <1>3, <1>4, <1>5, <1>6
     DEF PanesNext, GoLocal, PointWatcher, StartOperation, DirChanges, GoRemote, Connected,
         Disconnect, ReloadEnds

LEMMA PaneBoundsStep ==
  PaneTypes /\ PaneInv /\ PaneBounds /\ [PanesNext]_paneVars => PaneBounds'
<1>1. PaneBounds /\ UNCHANGED paneVars => PaneBounds'
  BY DEF paneVars, watchVars, PaneBounds, DiskBounds, WatchBounds, MoveBounds, EventBounds
<1> QED BY <1>1, DiskStep, WatchStep, MoveStep, EventStep DEF PaneBounds

(* The panes' variables keep their types.  (main.rs, watcher.rs) *)
THEOREM PanesKeepTypes == PanesSpec => []PanesTypeOK
<1>1. PanesInit => PaneTypes /\ PaneInv /\ PaneBounds
  BY PaneInit, PaneBoundsInit
<1>2. PaneTypes /\ PaneInv /\ PaneBounds /\ [PanesNext]_paneVars
        => (PaneTypes /\ PaneInv /\ PaneBounds)'
  BY PaneStep, PaneBoundsStep
<1> QED BY <1>1, <1>2, PaneBoundsSuffice, PTL DEF PanesSpec

-----------------------------------------------------------------------------
(* Lists in order. *)

(* A non-empty set of naturals has a least element. *)
LEMMA LeastNat ==
  ASSUME NEW S \in SUBSET Nat, S # {}
  PROVE  \E n \in S : \A m \in S : n <= m
<1>1. PICK x \in S : \A y \in S : ~(<<y, x>> \in OpToRel(<, Nat))
  BY WFMin, NatLessThanWellFounded, Zenon
<1>2. \A y \in S : ~(y < x)
  <2> TAKE y \in S
  <2>1. <<y, x>> \in Nat \X Nat /\ <<y, x>>[1] = y /\ <<y, x>>[2] = x
    OBVIOUS
  <2>2. y < x => <<y, x>> \in OpToRel(<, Nat)
    BY <2>1, Zenon DEF OpToRel
  <2> QED BY <1>1, <2>2
<1>3. S \subseteq Nat
  OBVIOUS
<1> QED BY <1>2, <1>3

(* Any two elements of S are ordered by R, and R is transitive on S. *)
Orders(R, S) ==
  /\ \A a, b \in S : a # b => <<a, b>> \in R \/ <<b, a>> \in R
  /\ \A a, b, c \in S : <<a, b>> \in R /\ <<b, c>> \in R /\ a # c => <<a, c>> \in R

IsLast(m, T, R) == m \in T /\ \A a \in T : a # m => <<a, m>> \in R
HasLast(T, R) == \E m \in T : IsLast(m, T, R)

(* A finite set that is not empty has a last element. *)
LEMMA LastExists ==
  ASSUME NEW S, IsFiniteSet(S), NEW R, Orders(R, S), S # {}
  PROVE  HasLast(S, R)
<1> DEFINE Bad == {n \in Nat : \E T \in SUBSET S : T # {} /\ Cardinality(T) = n /\ ~HasLast(T, R)}
<1>1. SUFFICES ASSUME ~HasLast(S, R) PROVE FALSE
  OBVIOUS
<1>2. Cardinality(S) \in Bad
  BY <1>1, FS_CardinalityType
<1>3. PICK n \in Bad : \A m \in Bad : n <= m
  <2> HIDE DEF Bad
  <2>1. Bad \in SUBSET Nat BY DEF Bad
  <2> QED BY <1>2, <2>1, LeastNat
<1>4. PICK T \in SUBSET S : T # {} /\ Cardinality(T) = n /\ ~HasLast(T, R)
  OBVIOUS
<1>5. PICK x \in T : TRUE
  BY <1>4
<1> DEFINE U == T \ {x}
<1>6. IsFiniteSet(T) /\ IsFiniteSet(U) /\ Cardinality(U) = n - 1 /\ n \in Nat
  BY <1>4, FS_Subset, FS_RemoveElement
<1>7. U # {}
  <2> SUFFICES ASSUME U = {} PROVE FALSE OBVIOUS
  <2>1. T = {x} OBVIOUS
  <2> QED BY <2>1, <1>4 DEF HasLast, IsLast
<1>8. HasLast(U, R)
  <2> SUFFICES ASSUME ~HasLast(U, R) PROVE FALSE OBVIOUS
  <2>1. U \in SUBSET S /\ n - 1 \in Nat BY <1>6, FS_CardinalityType
  <2>2. n - 1 \in Bad BY <2>1, <1>6, <1>7
  <2> QED BY <2>2, <1>3, <1>6
<1>9. PICK m \in U : IsLast(m, U, R)
  BY <1>8 DEF HasLast
<1>10. HasLast(T, R)
  <2> HIDE DEF Bad
  <2>1. CASE <<x, m>> \in R
    <3>1. IsLast(m, T, R) BY <2>1, <1>9 DEF IsLast
    <3> QED BY <3>1 DEF HasLast
  <2>2. CASE <<m, x>> \in R
    <3>1. \A a \in U : a # m => <<a, m>> \in R BY <1>9 DEF IsLast
    <3>2. \A a \in U : <<a, x>> \in R BY <3>1, <2>2, <1>9 DEF Orders
    <3>3. IsLast(x, T, R) BY <3>2 DEF IsLast
    <3> QED BY <3>3 DEF HasLast
  <2> QED BY <2>1, <2>2, <1>9 DEF Orders
<1> QED BY <1>4, <1>10

Lists(s, S) ==
  /\ s \in [1..Cardinality(S) -> S]
  /\ \A i, j \in 1..Cardinality(S) : i # j => s[i] # s[j]
InOrder(s, R) == \A i, j \in DOMAIN s : i < j => <<s[i], s[j]>> \in R
HasOrder(T, R) == \E s : Lists(s, T) /\ InOrder(s, R)

(* A finite set can be listed in the order. *)
LEMMA OrderExists ==
  ASSUME NEW S, IsFiniteSet(S), NEW R, Orders(R, S)
  PROVE  HasOrder(S, R)
<1> DEFINE Bad == {n \in Nat : \E T \in SUBSET S : Cardinality(T) = n /\ ~HasOrder(T, R)}
<1>1. SUFFICES ASSUME ~HasOrder(S, R) PROVE FALSE
  OBVIOUS
<1>2. Cardinality(S) \in Bad
  BY <1>1, FS_CardinalityType
<1>3. PICK n \in Bad : \A m \in Bad : n <= m
  <2> HIDE DEF Bad
  <2>1. Bad \in SUBSET Nat BY DEF Bad
  <2> QED BY <1>2, <2>1, LeastNat
<1>4. PICK T \in SUBSET S : Cardinality(T) = n /\ ~HasOrder(T, R)
  OBVIOUS
<1>5. IsFiniteSet(T) /\ n \in Nat
  BY FS_Subset
<1>6. T # {}
  <2> SUFFICES ASSUME T = {} PROVE FALSE OBVIOUS
  <2>1. Cardinality(T) = 0 BY FS_EmptySet
  <2>2. Lists(<<>>, T) /\ InOrder(<<>>, R) BY <2>1 DEF Lists, InOrder
  <2> QED BY <2>2, <1>4 DEF HasOrder
<1>7. PICK m \in T : IsLast(m, T, R)
  <2>1. Orders(R, T) BY DEF Orders
  <2>2. HasLast(T, R) BY <2>1, <1>5, <1>6, LastExists
  <2> QED BY <2>2 DEF HasLast
<1> DEFINE U == T \ {m}
<1>8. IsFiniteSet(U) /\ Cardinality(U) = n - 1 /\ n - 1 \in Nat
  <2>1. IsFiniteSet(U) /\ Cardinality(U) = n - 1
    BY <1>4, <1>5, FS_RemoveElement
  <2> QED BY <2>1, FS_CardinalityType
<1>9. HasOrder(U, R)
  <2> SUFFICES ASSUME ~HasOrder(U, R) PROVE FALSE OBVIOUS
  <2>1. U \in SUBSET S OBVIOUS
  <2>2. n - 1 \in Bad BY <2>1, <1>8
  <2> QED BY <2>2, <1>3, <1>5
<1>10. PICK s : Lists(s, U) /\ InOrder(s, R)
  BY <1>9 DEF HasOrder
<1> DEFINE t == [i \in 1..n |-> IF i = n THEN m ELSE s[i]]
<1> HIDE DEF Bad
<1>11. \A i \in 1..n : i # n => i \in 1..(n - 1)
  BY <1>5
<1>12. s \in [1..(n - 1) -> U] /\ \A i, j \in 1..(n - 1) : i # j => s[i] # s[j]
  BY <1>8, <1>10 DEF Lists
<1>13. Lists(t, T)
  <2>1. t \in [1..n -> T]
    BY <1>11, <1>12
  <2>2. ASSUME NEW i \in 1..n, NEW j \in 1..n, i # j PROVE t[i] # t[j]
    BY <2>2, <1>11, <1>12
  <2> QED BY <2>1, <2>2, <1>4 DEF Lists
<1>14. InOrder(t, R)
  <2> SUFFICES ASSUME NEW i \in 1..n, NEW j \in 1..n, i < j PROVE <<t[i], t[j]>> \in R
    BY DEF InOrder
  <2>1. i # n /\ t[i] = s[i] /\ s[i] \in U
    BY <1>5, <1>11, <1>12
  <2>2. CASE j = n
    <3>1. t[j] = m BY <2>2
    <3> QED BY <3>1, <2>1, <1>7 DEF IsLast
  <2>3. CASE j # n
    <3>1. t[j] = s[j] /\ i \in 1..(n-1) /\ j \in 1..(n-1) BY <2>1, <2>3, <1>11
    <3>2. DOMAIN s = 1..(n-1) BY <1>12
    <3> QED BY <3>1, <3>2, <2>1, <1>10 DEF InOrder
  <2> QED BY <2>2, <2>3
<1> QED BY <1>4, <1>13, <1>14 DEF HasOrder

(* What lists a finite set leaves no element out. *)
LEMMA ListsAll ==
  ASSUME NEW S, IsFiniteSet(S), NEW s, Lists(s, S)
  PROVE  \A x \in S : \E i \in 1..Cardinality(S) : s[i] = x
<1> DEFINE N == 1..Cardinality(S)
<1>1. Cardinality(S) \in Nat
  BY FS_CardinalityType
<1>2. IsFiniteSet(N) /\ Cardinality(N) = Cardinality(S)
  <2>1. 1 \in Int /\ Cardinality(S) \in Int BY <1>1
  <2> QED BY <2>1, <1>1, FS_Interval
<1>3. s \in Injection(N, S)
  BY DEF Lists, Injection, IsInjective
<1>4. s \in Surjection(N, S)
  BY <1>2, <1>3, FS_Injection
<1> QED BY <1>4 DEF Surjection

-----------------------------------------------------------------------------
(* The rows and their selection. *)

(* What a folder may hold, with the parent row or without. *)
Folders == {l \cup t : l \in RowListings, t \in {{}, {ParentRow}}}

(* The rows l show the entries S: each of them once, the parent row first. *)
Shows(l, S) ==
  /\ l \in [1..Cardinality(S) -> S]
  /\ \A i, j \in DOMAIN l : l[i] = l[j] => i = j
  /\ \A x \in S : \E i \in DOMAIN l : l[i] = x
  /\ ParentRow \in S => l[1] = ParentRow

LEMMA FoldersAre ==
  ASSUME NEW l \in RowListings, NEW b \in BOOLEAN
  PROVE  /\ l \cup (IF b THEN {} ELSE {ParentRow}) \in Folders
         /\ l \cup (IF b THEN {ParentRow} ELSE {}) \in Folders
<1>1. l \cup {} \in Folders /\ l \cup {ParentRow} \in Folders
  BY DEF Folders
<1> QED BY <1>1

LEMMA FolderEntries ==
  ASSUME NEW S \in Folders
  PROVE  /\ IsFiniteSet(S) /\ Cardinality(S) \in Nat
         /\ S \ {ParentRow} \in RowListings
         /\ \A e, f \in S : e.name = f.name => e = f
         /\ \A e \in S : e.name \in Nat /\ e.size \in Nat /\ e.isDir \in BOOLEAN
<1>1. PICK l \in RowListings, t \in {{}, {ParentRow}} : S = l \cup t
  BY DEF Folders
<1>2. /\ IsFiniteSet(l)
      /\ \A e \in l : e.name \in Nat \ {0} /\ e.size \in Nat /\ e.isDir \in BOOLEAN
      /\ \A e, f \in l : e.name = f.name => e = f
  BY RowsAssumption, Zenon
<1>3. ParentRow.name = 0 /\ ParentRow.size \in Nat /\ ParentRow.isDir \in BOOLEAN
  BY DEF ParentRow
<1>4. ParentRow \notin l
  <2>1. \A e \in l : e.name # 0 BY <1>2
  <2> QED BY <2>1, <1>3
<1>5. IsFiniteSet(S)
  <2>1. CASE t = {}
    BY <2>1, <1>1, <1>2
  <2>2. CASE t = {ParentRow}
    <3>1. S = l \cup {ParentRow} BY <2>2, <1>1
    <3> QED BY <3>1, <1>2, FS_AddElement, Zenon
  <2> QED BY <2>1, <2>2
<1>6. S \ {ParentRow} = l
  BY <1>1, <1>4
<1>7. \A e, f \in S : e.name = f.name => e = f
  BY <1>1, <1>2, <1>3
<1>8. \A e \in S : e.name \in Nat /\ e.size \in Nat /\ e.isDir \in BOOLEAN
  BY <1>1, <1>2, <1>3
<1> QED BY <1>5, <1>6, <1>7, <1>8, FS_CardinalityType

(* compare_entries orders what a folder may hold. *)
LEMMA BeforeOrders ==
  ASSUME NEW S \in Folders, NEW c, NEW up \in BOOLEAN
  PROVE  Orders({p \in S \X S : Before(p[1], p[2], c, up)}, S)
<1> DEFINE R == {p \in S \X S : Before(p[1], p[2], c, up)}
<1>1. \A a, b \in S : <<a, b>> \in R <=> Before(a, b, c, up)
  OBVIOUS
<1>2. /\ \A e, f \in S : e.name = f.name => e = f
      /\ \A e \in S : e.name \in Nat /\ e.size \in Nat /\ e.isDir \in BOOLEAN
  BY FolderEntries
<1>3. \A e \in S : Clamped(e.size) \in Nat
  BY <1>2, RowsAssumption DEF Clamped
<1>4. ASSUME NEW a \in S, NEW b \in S, a # b
      PROVE  Before(a, b, c, up) \/ Before(b, a, c, up)
  <2>1. a.name # b.name /\ a.name \in Nat /\ b.name \in Nat
    BY <1>2, <1>4
  <2>2. Clamped(a.size) \in Nat /\ Clamped(b.size) \in Nat
    BY <1>3
  <2>3. a.isDir \in BOOLEAN /\ b.isDir \in BOOLEAN
    BY <1>2
  <2> QED BY <2>1, <2>2, <2>3, <1>4 DEF Before
<1>5. ASSUME NEW a \in S, NEW b \in S, NEW d \in S,
             Before(a, b, c, up), Before(b, d, c, up), a # d
      PROVE  Before(a, d, c, up)
  <2>1. a.name \in Nat /\ b.name \in Nat /\ d.name \in Nat
    BY <1>2
  <2>2. Clamped(a.size) \in Nat /\ Clamped(b.size) \in Nat /\ Clamped(d.size) \in Nat
    BY <1>3
  <2>3. a.isDir \in BOOLEAN /\ b.isDir \in BOOLEAN /\ d.isDir \in BOOLEAN
    BY <1>2
  <2>4. CASE a = ParentRow \/ b = ParentRow \/ d = ParentRow
    BY <2>4, <1>5 DEF Before
  <2>5. CASE a # ParentRow /\ b # ParentRow /\ d # ParentRow
    <3>1. CASE a.isDir # b.isDir \/ b.isDir # d.isDir
      BY <3>1, <2>5, <2>3, <1>5 DEF Before
    <3>2. CASE a.isDir = b.isDir /\ b.isDir = d.isDir
      BY <3>2, <2>1, <2>2, <2>5, <1>5 DEF Before
    <3> QED BY <3>1, <3>2
  <2> QED BY <2>4, <2>5
<1> HIDE DEF R
<1>6. Orders(R, S)
  BY <1>1, <1>4, <1>5 DEF Orders
<1> QED BY <1>6 DEF R

(* A sorted listing shows the whole folder. *)
LEMMA SortedShows ==
  ASSUME NEW S \in Folders, NEW c, NEW up \in BOOLEAN
  PROVE  Shows(Sorted(S, c, up), S)
<1> DEFINE R == {p \in S \X S : Before(p[1], p[2], c, up)}
           N == 1..Cardinality(S)
           Fits(s) == \A i, j \in DOMAIN s : i < j => s[i] # s[j] /\ Before(s[i], s[j], c, up)
<1>1. IsFiniteSet(S) /\ Cardinality(S) \in Nat
  BY FolderEntries
<1>2. PICK o : Lists(o, S) /\ InOrder(o, R)
  BY <1>1, BeforeOrders, OrderExists DEF HasOrder
<1>3. o \in [N -> S] /\ Fits(o)
  <2>1. o \in [N -> S] /\ DOMAIN o = N /\ N \subseteq Int
    BY <1>2 DEF Lists
  <2>2. ASSUME NEW i \in N, NEW j \in N, i < j
        PROVE  o[i] # o[j] /\ Before(o[i], o[j], c, up)
    <3>1. o[i] # o[j]
      BY <1>2, <2>1, <2>2 DEF Lists
    <3>2. <<o[i], o[j]>> \in R
      BY <1>2, <2>1, <2>2 DEF InOrder
    <3> QED BY <3>1, <3>2
  <2> QED BY <2>1, <2>2
<1> DEFINE s == Sorted(S, c, up)
<1>4. s \in [N -> S] /\ Fits(s)
  <2>1. \E x \in [N -> S] : Fits(x)
    BY <1>3
  <2>2. s = CHOOSE x \in [N -> S] : Fits(x)
    BY Zenon DEF Sorted
  <2> HIDE DEF Fits, N, s
  <2> QED BY <2>1, <2>2
<1>5. DOMAIN s = N
  BY <1>4
<1> HIDE DEF s, R
<1>6. Lists(s, S)
  BY <1>4, <1>5 DEF Lists
<1>7. \A x \in S : \E i \in N : s[i] = x
  BY <1>1, <1>6, ListsAll
<1>8. ASSUME ParentRow \in S PROVE s[1] = ParentRow
  <2>1. PICK i \in N : s[i] = ParentRow
    BY <1>7, <1>8
  <2>2. 1 \in N /\ (i = 1 \/ 1 < i)
    BY <1>1
  <2>3. CASE 1 < i
    <3>1. Before(s[1], s[i], c, up) BY <2>2, <2>3, <1>4, <1>5
    <3> QED BY <3>1, <2>1 DEF Before
  <2> QED BY <2>1, <2>2, <2>3
<1>9. \A i, j \in N : s[i] = s[j] => i = j
  BY <1>6 DEF Lists
<1>10. Shows(s, S)
  BY <1>4, <1>5, <1>7, <1>8, <1>9 DEF Shows
<1> QED BY <1>10 DEF s

-----------------------------------------------------------------------------
(* The inductive invariant: the rows are those of a folder, the selection   *)
(* is of rows that are not the parent's and stands for what is meant, and   *)
(* while the selection tells it, Shift extends from the row that was        *)
(* pointed at last.                                                         *)
RowsShown == \E S \in Folders : Shows(listed, S)
ChosenInv ==
  /\ picked \subseteq RowNumbers /\ \A r \in picked : listed[r] # ParentRow
  /\ anchor \in RowNumbers \cup {0}
MeantInv == ~astray => meant = {listed[r] : r \in picked}
From(rs, a, r) ==
  IF rs = {} THEN IF a # 0 THEN a ELSE r
  ELSE IF a = Highest(rs) THEN Lowest(rs)
  ELSE IF a = Lowest(rs) THEN Highest(rs)
  ELSE IF a # 0 THEN a ELSE Lowest(rs)
ExtendsFrom(rs, a, q) == \A r \in RowNumbers : From(rs, a, r) = q
OriginInv ==
  ~misled => \/ origin = NoEntry /\ \A r \in RowNumbers : From(picked, anchor, r) = r
             \/ \E q \in RowNumbers : listed[q] = origin /\ ExtendsFrom(picked, anchor, q)
RowsPlain == column \in Columns /\ ascending \in BOOLEAN /\ rowClicks \in 0..MaxRowClicks
RowsInv == RowsShown /\ ChosenInv /\ MeantInv /\ OriginInv /\ RowsPlain

-----------------------------------------------------------------------------
(* A row's number and its entry say the same. *)
LEMMA RowsAreNumbered ==
  ASSUME NEW S \in Folders, Shows(listed, S)
  PROVE  /\ RowNumbers = 1..Cardinality(S) /\ Cardinality(S) \in Nat
         /\ \A i, j \in RowNumbers : listed[i] = listed[j] => i = j
         /\ \A r \in RowNumbers : IsParent(r) <=> listed[r] = ParentRow
         /\ {listed[r] : r \in RowNumbers} = S
         /\ HasParent <=> ParentRow \in S
<1>1. Cardinality(S) \in Nat /\ IsFiniteSet(S)
  BY FolderEntries
<1>2. listed \in [1..Cardinality(S) -> S] /\ RowNumbers = 1..Cardinality(S)
  BY DEF Shows, RowNumbers
<1>3. \A i, j \in RowNumbers : listed[i] = listed[j] => i = j
  BY DEF Shows, RowNumbers
<1>4. {listed[r] : r \in RowNumbers} = S
  <2>1. \A x \in S : \E i \in RowNumbers : listed[i] = x
    BY DEF Shows, RowNumbers
  <2> QED BY <2>1, <1>2
<1>5. HasParent <=> ParentRow \in S
  <2>1. CASE Cardinality(S) = 0
    <3>1. S = {} BY <2>1, <1>1, FS_EmptySet
    <3>2. listed = <<>>
      <4>1. listed \in [1..0 -> S] BY <2>1, <1>2
      <4> QED BY <4>1
    <3> QED BY <3>1, <3>2 DEF HasParent
  <2>2. CASE Cardinality(S) # 0
    <3>1. 1 \in RowNumbers BY <2>2, <1>1, <1>2
    <3>2. listed # <<>> BY <3>1 DEF RowNumbers
    <3>3. listed[1] \in S BY <3>1, <1>2
    <3>4. ParentRow \in S => listed[1] = ParentRow BY DEF Shows
    <3> QED BY <3>2, <3>3, <3>4 DEF HasParent
  <2> QED BY <2>1, <2>2
<1>6. \A r \in RowNumbers : IsParent(r) <=> listed[r] = ParentRow
  <2> SUFFICES ASSUME NEW r \in RowNumbers PROVE IsParent(r) <=> listed[r] = ParentRow
    OBVIOUS
  <2>1. 1 \in RowNumbers /\ listed # <<>> /\ listed[r] \in S
    BY <1>1, <1>2
  <2>2. listed[r] = ParentRow => listed[1] = ParentRow
    BY <2>1 DEF Shows
  <2>3. listed[r] = ParentRow => r = 1
    BY <2>1, <2>2, <1>3
  <2> QED BY <2>1, <2>2, <2>3 DEF IsParent, HasParent
<1> QED BY <1>1, <1>2, <1>3, <1>4, <1>5, <1>6

(* What the rows that are not the parent's are, and what they name. *)
LEMMA MinusNames ==
  ASSUME RowsShown, NEW rs \in SUBSET RowNumbers
  PROVE  /\ Minus(rs) = {r \in rs : listed[r] # ParentRow}
         /\ Named(rs) = {listed[r] : r \in Minus(rs)}
<1>1. PICK S \in Folders : Shows(listed, S)
  BY DEF RowsShown
<1>2. \A r \in RowNumbers : IsParent(r) <=> listed[r] = ParentRow
  BY <1>1, RowsAreNumbered
<1>3. Minus(rs) = {r \in rs : listed[r] # ParentRow}
  BY <1>2 DEF Minus
<1> QED BY <1>3 DEF Named

(* A row shows an entry. *)
LEMMA RowsShowEntries == ASSUME RowsShown, NEW r \in RowNumbers PROVE listed[r] # NoEntry
<1>1. PICK S \in Folders : Shows(listed, S)
  BY DEF RowsShown
<1>2. listed[r] \in S
  BY <1>1 DEF Shows, RowNumbers
<1>3. listed[r] = ParentRow \/ listed[r].name # 0
  <2>1. S \ {ParentRow} \in RowListings
    BY <1>1, FolderEntries
  <2>2. \A e \in S \ {ParentRow} : e.name \in Nat \ {0}
    BY <2>1, RowsAssumption, Zenon
  <2> QED BY <1>2, <2>2
<1> QED BY <1>3 DEF NoEntry, ParentRow

LEMMA RowsInvSuffices == RowsInv => RowsTypeOK /\ SeedsAreMeant
<1> SUFFICES ASSUME RowsInv PROVE RowsTypeOK /\ SeedsAreMeant
  OBVIOUS
<1>1. PICK S \in Folders : Shows(listed, S)
  BY DEF RowsInv, RowsShown
<1>2. {listed[r] : r \in RowNumbers} = S
  BY <1>1, RowsAreNumbered
<1>3. /\ Minus(RowNumbers) = {r \in RowNumbers : listed[r] # ParentRow}
      /\ Named(RowNumbers) = {listed[r] : r \in Minus(RowNumbers)}
  BY MinusNames DEF RowsInv
<1>4. Named(RowNumbers) = S \ {ParentRow}
  BY <1>2, <1>3
<1>5. Named(RowNumbers) \in RowListings
  BY <1>4, FolderEntries
<1>6. RowsTypeOK
  BY <1>3, <1>5 DEF RowsInv, ChosenInv, RowsPlain, RowsTypeOK
<1>7. SeedsAreMeant
  BY DEF RowsInv, ChosenInv, MeantInv, SeedsAreMeant, Seeds
<1> QED BY <1>6, <1>7

(* The rows of an untouched listing stay as they are. *)
LEMMA RowsStay == RowsShown /\ UNCHANGED listed => RowsShown'
  BY DEF RowsShown

(* A listing with nothing selected and its first row current. *)
LEMMA FirstIsPointedAt ==
  ASSUME NEW n \in Nat, NEW l, DOMAIN l = 1..n, NEW o, o = EntryAt(l, 1), NEW a, a = FirstRow(l)
  PROVE  \/ o = NoEntry /\ \A r \in DOMAIN l : From({}, a, r) = r
         \/ \E q \in DOMAIN l : l[q] = o /\ \A r \in DOMAIN l : From({}, a, r) = q
<1>1. CASE n = 0
  BY <1>1 DEF EntryAt, From
<1>2. CASE n # 0
  <2>1. 1 \in DOMAIN l
    BY <1>2
  <2>2. l # <<>>
    BY <2>1
  <2> QED BY <2>1, <2>2 DEF EntryAt, FirstRow, From
<1> QED BY <1>1, <1>2

LEMMA RowsStart == RowsInit => RowsInv
<1> SUFFICES ASSUME RowsInit PROVE RowsInv
  OBVIOUS
<1>1. PICK S \in Folders : listed = Sorted(S, "name", TRUE)
  <2>1. PICK l \in RowListings, top \in BOOLEAN :
             listed = Sorted(l \cup (IF top THEN {} ELSE {ParentRow}), "name", TRUE)
    BY DEF RowsInit
  <2> DEFINE S == l \cup (IF top THEN {} ELSE {ParentRow})
  <2>2. S \in Folders BY FoldersAre
  <2>3. listed = Sorted(S, "name", TRUE) BY <2>1
  <2> HIDE DEF S
  <2> QED BY <2>2, <2>3
<1>2. Shows(listed, S)
  BY <1>1, SortedShows
<1>3. RowNumbers = 1..Cardinality(S) /\ Cardinality(S) \in Nat
  BY <1>2, RowsAreNumbered
<1>4. FirstRow(listed) \in RowNumbers \cup {0}
  <2>1. CASE listed = <<>> BY <2>1 DEF FirstRow
  <2>2. CASE listed # <<>>
    <3>1. CASE Cardinality(S) = 0
      <4>1. listed \in [1..0 -> S] BY <3>1, <1>2 DEF Shows
      <4> QED BY <4>1, <2>2
    <3>2. CASE Cardinality(S) # 0
      BY <3>2, <1>3, <2>2 DEF FirstRow
    <3> QED BY <3>1, <3>2
  <2> QED BY <2>1, <2>2
<1>5. RowsShown
  BY <1>2 DEF RowsShown
<1>6. ChosenInv /\ MeantInv
  BY <1>4 DEF RowsInit, ChosenInv, MeantInv
<1>8. OriginInv
  <2>1. DOMAIN listed = 1..Cardinality(S)
    BY <1>3 DEF RowNumbers
  <2>2. picked = {} /\ anchor = FirstRow(listed) /\ origin = EntryAt(listed, 1)
    BY DEF RowsInit
  <2>3. \/ origin = NoEntry /\ \A r \in DOMAIN listed : From({}, anchor, r) = r
        \/ \E q \in DOMAIN listed : /\ listed[q] = origin
                                    /\ \A r \in DOMAIN listed : From({}, anchor, r) = q
    BY <2>1, <2>2, <1>3, FirstIsPointedAt
  <2> QED BY <2>2, <2>3 DEF OriginInv, ExtendsFrom, RowNumbers
<1>7. RowsPlain
  BY RowsAssumption, SMT DEF RowsInit, RowsPlain, Columns
<1> QED BY <1>5, <1>6, <1>7, <1>8 DEF RowsInv

-----------------------------------------------------------------------------
(* The least and the greatest row of a selection are rows of it. *)
LEMMA EndsOfRows ==
  ASSUME NEW n \in Nat, NEW rs \in SUBSET (1..n), rs # {}
  PROVE  /\ Lowest(rs) \in rs /\ \A q \in rs : Lowest(rs) <= q
         /\ Highest(rs) \in rs /\ \A q \in rs : q <= Highest(rs)
<1>1. \E r \in rs : \A q \in rs : r <= q
  BY LeastNat
<1>2. \E r \in rs : \A q \in rs : q <= r
  <2> DEFINE Down == {n - q : q \in rs}
  <2>0. \A q \in rs : n - q \in Nat
    OBVIOUS
  <2>1. Down \in SUBSET Nat /\ Down # {} /\ \A q \in rs : n - q \in Down
    <3> HIDE DEF Down
    <3>1. \A q \in rs : n - q \in Down BY DEF Down
    <3>2. \A d \in Down : d \in Nat BY <2>0 DEF Down
    <3> QED BY <3>1, <3>2
  <2>2. PICK d \in Down : \A m \in Down : d <= m
    <3> HIDE DEF Down
    <3> QED BY <2>1, LeastNat
  <2>3. PICK r \in rs : d = n - r
    OBVIOUS
  <2>4. \A q \in rs : n - r <= n - q
    BY <2>1, <2>2, <2>3
  <2>5. \A q \in rs : q \in Int /\ r \in Int
    OBVIOUS
  <2> QED BY <2>4, <2>5
<1> QED BY <1>1, <1>2 DEF Lowest, Highest

(* Where Shift extends from is a row: the one a span was drawn from, and a  *)
(* current row that is not at an end of others.                             *)
LEMMA FromIsARow ==
  ASSUME NEW n \in Nat, NEW rs \in SUBSET (1..n), NEW a \in 0..n, NEW r \in 1..n
  PROVE  /\ From(rs, a, r) \in 1..n
         /\ \A q \in 1..n : a # 0 /\ rs = Span(q, a) => From(rs, a, r) = q
         /\ a # 0 /\ ~AtEnd(rs, a) => From(rs, a, r) = a
<1>1. CASE rs = {}
  <2>1. From(rs, a, r) = IF a # 0 THEN a ELSE r
    BY <1>1 DEF From
  <2>2. \A q \in 1..n : q \in Span(q, a)
    BY DEF Span
  <2> QED BY <2>1, <2>2, <1>1
<1>2. CASE rs # {}
  <2> DEFINE lo == Lowest(rs)
             hi == Highest(rs)
  <2>1. lo \in rs /\ hi \in rs /\ \A q \in rs : lo <= q /\ q <= hi
    BY <1>2, EndsOfRows
  <2>2. From(rs, a, r) = IF a = hi THEN lo ELSE IF a = lo THEN hi
                         ELSE IF a # 0 THEN a ELSE lo
    BY <1>2 DEF From
  <2>3. AtEnd(rs, a) <=> a \in rs /\ rs # {a} /\ a \in {lo, hi}
    BY DEF AtEnd
  <2> HIDE DEF lo, hi
  <2>4. From(rs, a, r) \in 1..n
    BY <2>1, <2>2
  <2>5. ASSUME NEW q \in 1..n, a # 0, rs = Span(q, a)
        PROVE  From(rs, a, r) = q
    <3>1. q \in Int /\ a \in Int
      OBVIOUS
    <3>2. CASE q <= a
      <4>1. rs = q..a BY <3>2, <2>5 DEF Span
      <4>2. q \in rs /\ a \in rs /\ lo \in q..a /\ hi \in q..a
        BY <4>1, <3>1, <3>2, <2>1
      <4>3. lo = q /\ hi = a
        BY <4>2, <3>1, <2>1
      <4> QED BY <4>3, <2>2
    <3>3. CASE ~(q <= a)
      <4>1. rs = a..q BY <3>3, <2>5 DEF Span
      <4>2. q \in rs /\ a \in rs /\ lo \in a..q /\ hi \in a..q
        BY <4>1, <3>1, <3>3, <2>1
      <4>3. lo = a /\ hi = q
        BY <4>2, <3>1, <2>1
      <4> QED BY <4>3, <2>2, <3>3, <3>1
    <3> QED BY <3>2, <3>3
  <2>6. ASSUME a # 0, ~AtEnd(rs, a) PROVE From(rs, a, r) = a
    <3>1. CASE rs = {a}
      <4>1. lo = a /\ hi = a BY <3>1, <2>1
      <4> QED BY <4>1, <2>2
    <3>2. CASE rs # {a}
      <4>1. a # lo /\ a # hi BY <3>2, <2>1, <2>3, <2>6
      <4> QED BY <4>1, <2>2, <2>6
    <3> QED BY <3>1, <3>2
  <2> QED BY <2>4, <2>5, <2>6
<1> QED BY <1>1, <1>2

(* extend_origin is that row. *)
LEMMA ExtendIsFrom == ASSUME NEW r PROVE ExtendOrigin(r) = From(picked, anchor, r)
<1>1. CASE picked = {}
  BY <1>1, SMT DEF ExtendOrigin, From
<1>2. CASE picked # {}
  BY <1>2, SMT DEF ExtendOrigin, From
<1> QED BY <1>1, <1>2

(* How many rows there are. *)
LEMMA RowsAreCounted == RowsShown => \E n \in Nat : RowNumbers = 1..n
  BY RowsAreNumbered DEF RowsShown

(* A click that points at a row without Shift. *)
LEMMA PointsAtRow ==
  ASSUME RowsInv, NEW rs \in SUBSET RowNumbers, NEW current, Select(rs, current),
         NEW m, Means(m, current), current \notin RowNumbers => rs = {} /\ current = 0
  PROVE  OriginInv'
<1>1. PICK n \in Nat : RowNumbers = 1..n
  BY RowsAreCounted DEF RowsInv
<1>2. /\ listed' = listed /\ picked' = rs
      /\ anchor' = IF current \in RowNumbers THEN current ELSE 0
  BY DEF Select
<1>3. RowNumbers' = RowNumbers
  BY <1>2 DEF RowNumbers
<1>4. origin' = EntryAt(listed, current) /\ misled' = AtEnd(rs, current)
  BY <1>2 DEF Means
<1>5. CASE current \in RowNumbers
  <2>1. anchor' = current /\ origin' = listed[current] /\ current # 0
    BY <1>1, <1>2, <1>4, <1>5 DEF EntryAt, RowNumbers
  <2>2. ~AtEnd(rs, current) => \A r \in RowNumbers : From(rs, current, r) = current
    BY <1>1, <1>5, <2>1, FromIsARow
  <2> QED BY <2>1, <2>2, <1>2, <1>3, <1>4, <1>5 DEF OriginInv, ExtendsFrom
<1>6. CASE current \notin RowNumbers
  <2>1. rs = {} /\ current = 0 /\ anchor' = 0
    BY <1>2, <1>6
  <2>2. origin' = NoEntry
    BY <1>4, <1>6 DEF EntryAt, RowNumbers
  <2>3. \A r \in RowNumbers : From({}, 0, r) = r
    BY DEF From
  <2> QED BY <2>1, <2>2, <2>3, <1>2, <1>3 DEF OriginInv
<1> QED BY <1>5, <1>6

(* A selection of rows that are not the parent's, meant as it is. *)
LEMMA SelectionHolds ==
  ASSUME RowsInv, NEW rs \in SUBSET RowNumbers, NEW current, Select(rs, current),
         \A r \in rs : listed[r] # ParentRow, ~astray' => meant' = {listed[r] : r \in rs}
  PROVE  RowsShown' /\ ChosenInv' /\ MeantInv' /\ RowsPlain'
<1>1. UNCHANGED listed /\ picked' = rs /\ UNCHANGED <<column, ascending>>
  BY DEF Select
<1>2. RowsShown'
  BY <1>1, RowsStay DEF RowsInv
<1>3. RowNumbers' = RowNumbers
  BY <1>1 DEF RowNumbers
<1>4. anchor' \in RowNumbers \cup {0}
  BY DEF Select
<1>5. ChosenInv' /\ MeantInv'
  BY <1>1, <1>3, <1>4 DEF ChosenInv, MeantInv
<1>6. RowsPlain'
  <2>1. rowClicks \in 0..MaxRowClicks /\ rowClicks < MaxRowClicks /\ rowClicks' = rowClicks + 1
    BY DEF RowsInv, RowsPlain, Select
  <2>2. rowClicks' \in 0..MaxRowClicks BY <2>1, RowsAssumption
  <2> QED BY <2>2, <1>1 DEF RowsInv, RowsPlain
<1> QED BY <1>2, <1>5, <1>6

LEMMA ClickRowKeeps == ASSUME RowsInv, NEW r \in RowNumbers, ClickRow(r) PROVE RowsInv'
<1>1. /\ Minus({r}) = {q \in {r} : listed[q] # ParentRow}
      /\ Named({r}) = {listed[q] : q \in Minus({r})}
  BY MinusNames DEF RowsInv
<1>2. Select(Minus({r}), r) /\ Means(Named({r}), r) /\ meant' = Named({r})
  BY DEF ClickRow, Means
<1>3. Minus({r}) \in SUBSET RowNumbers /\ \A q \in Minus({r}) : listed[q] # ParentRow
  BY <1>1
<1>4. RowsShown' /\ ChosenInv' /\ MeantInv' /\ RowsPlain'
  BY <1>1, <1>2, <1>3, SelectionHolds
<1>5. OriginInv'
  BY <1>2, <1>3, PointsAtRow
<1> QED BY <1>4, <1>5 DEF RowsInv

LEMMA ToggleRowKeeps == ASSUME RowsInv, NEW r \in RowNumbers, ToggleRow(r) PROVE RowsInv'
<1> DEFINE new == IF IsParent(r) THEN picked ELSE (picked \ {r}) \cup ({r} \ picked)
<1>1. PICK S \in Folders : Shows(listed, S)
  BY DEF RowsInv, RowsShown
<1>2. /\ \A i, j \in RowNumbers : listed[i] = listed[j] => i = j
      /\ \A q \in RowNumbers : IsParent(q) <=> listed[q] = ParentRow
  BY <1>1, RowsAreNumbered
<1>3. picked \subseteq RowNumbers /\ (\A q \in picked : listed[q] # ParentRow)
      /\ (~astray => meant = {listed[q] : q \in picked})
  BY DEF RowsInv, ChosenInv, MeantInv
<1>4. /\ Select(new, r) /\ UNCHANGED astray
      /\ Means((meant \ Named({r})) \cup (Named({r}) \ meant), r)
      /\ meant' = (meant \ Named({r})) \cup (Named({r}) \ meant)
  BY DEF ToggleRow, Means
<1>5. new \in SUBSET RowNumbers /\ \A q \in new : listed[q] # ParentRow
  BY <1>2, <1>3
<1>6. ASSUME ~astray' PROVE meant' = {listed[q] : q \in new}
  <2>1. CASE IsParent(r)
    <3>1. Named({r}) = {}
      BY <2>1 DEF Named, Minus
    <3> QED BY <3>1, <2>1, <1>3, <1>4, <1>6
  <2>2. CASE ~IsParent(r)
    <3>1. Named({r}) = {listed[r]}
      BY <2>2 DEF Named, Minus
    <3>2. meant' = (meant \ {listed[r]}) \cup ({listed[r]} \ meant)
      BY <3>1, <1>4
    <3>3. new = (picked \ {r}) \cup ({r} \ picked)
      BY <2>2
    <3> HIDE DEF new
    <3>4. \A q \in picked : listed[q] = listed[r] <=> q = r
      BY <1>2, <1>3
    <3> QED BY <3>2, <3>3, <3>4, <1>3, <1>4, <1>6
  <2> QED BY <2>1, <2>2
<1> HIDE DEF new
<1>7. RowsShown' /\ ChosenInv' /\ MeantInv' /\ RowsPlain'
  BY <1>4, <1>5, <1>6, SelectionHolds
<1>8. OriginInv'
  BY <1>4, <1>5, PointsAtRow
<1> QED BY <1>7, <1>8 DEF RowsInv

LEMMA ExtendToKeeps == ASSUME RowsInv, NEW r \in RowNumbers, ExtendTo(r) PROVE RowsInv'
<1> DEFINE to == CHOOSE q \in RowNumbers : listed[q] = origin'
<1>1. PICK S \in Folders : Shows(listed, S)
  BY DEF RowsInv, RowsShown
<1> DEFINE n == Cardinality(S)
<1>2. /\ \A i, j \in RowNumbers : listed[i] = listed[j] => i = j
      /\ RowNumbers = 1..n /\ n \in Nat
      /\ \A q \in RowNumbers : IsParent(q) <=> listed[q] = ParentRow
  BY <1>1, RowsAreNumbered
<1>3. picked \in SUBSET (1..n) /\ anchor \in 0..n
  BY <1>2 DEF RowsInv, ChosenInv
<1> HIDE DEF n
<1>5. From(picked, anchor, r) \in RowNumbers
  BY <1>2, <1>3, FromIsARow
<1>12. PICK from \in RowNumbers : from = From(picked, anchor, r)
  BY <1>5
<1>4. /\ Select(Minus(Span(from, r)), r)
      /\ origin' = IF origin = NoEntry THEN listed[r] ELSE origin
      /\ meant' = Named(Span(to, r))
      /\ astray' = misled /\ misled' = (misled \/ ParentRow \in {origin', listed[r]})
  BY <1>12, ExtendIsFrom DEF ExtendTo
<1>6. ASSUME ~misled PROVE to = from /\ listed[from] = origin'
  <2>1. CASE origin = NoEntry /\ \A q \in RowNumbers : From(picked, anchor, q) = q
    <3>1. origin' = listed[r] /\ from = r
      BY <2>1, <1>4, <1>12
    <3>2. \A q \in RowNumbers : listed[q] = origin' <=> q = r
      BY <3>1, <1>2
    <3> QED BY <3>1, <3>2
  <2>2. ASSUME NEW q \in RowNumbers, listed[q] = origin, ExtendsFrom(picked, anchor, q)
        PROVE  to = from /\ listed[from] = origin'
    <3>1. origin' = listed[q] /\ from = q
      BY <2>2, <1>4, <1>12, RowsShowEntries DEF ExtendsFrom, RowsInv
    <3>2. \A p \in RowNumbers : listed[p] = origin' <=> p = q
      BY <3>1, <1>2
    <3> QED BY <3>1, <3>2
  <2> QED BY <2>1, <2>2, <1>6 DEF RowsInv, OriginInv
<1> HIDE DEF to
<1>7. Span(from, r) \in SUBSET RowNumbers
  BY <1>2, <1>12 DEF Span
<1>8. /\ Minus(Span(from, r)) = {q \in Span(from, r) : listed[q] # ParentRow}
      /\ Named(Span(from, r)) = {listed[q] : q \in Minus(Span(from, r))}
  BY <1>7, MinusNames DEF RowsInv
<1>9. RowsShown' /\ ChosenInv' /\ MeantInv' /\ RowsPlain'
  <2>1. Minus(Span(from, r)) \in SUBSET RowNumbers
    BY <1>7, <1>8
  <2>2. \A q \in Minus(Span(from, r)) : listed[q] # ParentRow
    BY <1>8
  <2>3. ~astray' => meant' = {listed[q] : q \in Minus(Span(from, r))}
    BY <1>4, <1>6, <1>8
  <2> QED BY <2>1, <2>2, <2>3, <1>4, SelectionHolds
<1>10. ASSUME ~misled' PROVE listed'[from] = origin' /\ ExtendsFrom(picked, anchor, from)'
  <2>1. ~misled /\ origin' # ParentRow /\ listed[r] # ParentRow
    BY <1>4, <1>10
  <2>2. listed' = listed /\ anchor' = r /\ picked' = Minus(Span(from, r)) /\ RowNumbers' = RowNumbers
    BY <1>4 DEF Select, RowNumbers
  <2>3. listed[from] = origin' /\ listed[from] # ParentRow
    BY <1>6, <2>1
  <2>5. ASSUME NEW q \in Span(from, r) PROVE listed[q] # ParentRow
    <3>1. q \in RowNumbers /\ (from <= q \/ r <= q)
      BY <1>2, <1>12, <1>7 DEF Span
    <3>2. IsParent(q) => q = 1
      BY DEF IsParent
    <3>3. q = 1 => q = from \/ q = r
      BY <3>1, <1>2, <1>12
    <3> QED BY <3>1, <3>2, <3>3, <2>1, <2>3, <1>2
  <2>6. picked' = Span(from, r)
    BY <2>2, <2>5, <1>8
  <2>7. \A q \in RowNumbers : From(Span(from, r), r, q) = from
    <3>1. Span(from, r) \in SUBSET (1..n) /\ r \in 0..n /\ r # 0 /\ from \in 1..n
      BY <1>2, <1>12, <1>7
    <3> QED BY <3>1, <1>2, FromIsARow
  <2> QED BY <2>2, <2>3, <2>6, <2>7 DEF ExtendsFrom
<1>11. OriginInv'
  <2>1. from \in RowNumbers'
    BY <1>4, <1>12 DEF Select, RowNumbers
  <2> QED BY <2>1, <1>10 DEF OriginInv
<1> QED BY <1>9, <1>11 DEF RowsInv

LEMMA SelectAllKeeps == RowsInv /\ SelectAll => RowsInv'
<1> SUFFICES ASSUME RowsInv, SelectAll PROVE RowsInv'
  OBVIOUS
<1> DEFINE all == Minus(RowNumbers)
           c == IF anchor # 0 /\ ~IsParent(anchor) THEN anchor
                ELSE IF all = {} THEN 0 ELSE Lowest(all)
<1>1. /\ all = {q \in RowNumbers : listed[q] # ParentRow}
      /\ Named(RowNumbers) = {listed[q] : q \in all}
  BY MinusNames DEF RowsInv
<1>2. Select(all, c) /\ Means(Named(RowNumbers), anchor')
  BY DEF SelectAll
<1>3. all \in SUBSET RowNumbers /\ \A q \in all : listed[q] # ParentRow
  BY <1>1
<1>4. c \notin RowNumbers => all = {} /\ c = 0
  <2>1. PICK n \in Nat : RowNumbers = 1..n
    BY RowsAreCounted DEF RowsInv
  <2>2. all # {} => Lowest(all) \in all
    BY <1>3, <2>1, EndsOfRows
  <2>3. anchor # 0 => anchor \in RowNumbers
    BY DEF RowsInv, ChosenInv
  <2> QED BY <2>2, <2>3, <1>3
<1> HIDE DEF all, c
<1>5. anchor' = c
  BY <1>2, <1>4 DEF Select
<1>6. meant' = Named(RowNumbers) /\ Means(Named(RowNumbers), c)
  BY <1>2, <1>5 DEF Means
<1>7. RowsShown' /\ ChosenInv' /\ MeantInv' /\ RowsPlain'
  BY <1>1, <1>2, <1>3, <1>6, SelectionHolds
<1>8. OriginInv'
  BY <1>2, <1>3, <1>4, <1>6, PointsAtRow
<1> QED BY <1>7, <1>8 DEF RowsInv

LEMMA CollapseKeeps == RowsInv /\ Collapse => RowsInv'
<1> SUFFICES ASSUME RowsInv, Collapse PROVE RowsInv'
  OBVIOUS
<1> DEFINE only == IF anchor # 0 THEN {anchor} ELSE {}
<1>1. only \in SUBSET RowNumbers /\ (anchor # 0 => anchor \in RowNumbers)
  BY DEF RowsInv, ChosenInv
<1>2. Minus({}) = {} /\ Named({}) = {}
  BY DEF Minus, Named
<1>3. Select(Minus(only), anchor) /\ Means(Named(only), anchor) /\ meant' = Named(only)
  BY <1>2 DEF Collapse, Means
<1>4. anchor = 0 => only = {}
  OBVIOUS
<1> HIDE DEF only
<1>5. /\ Minus(only) = {q \in only : listed[q] # ParentRow}
      /\ Named(only) = {listed[q] : q \in Minus(only)}
  BY <1>1, MinusNames DEF RowsInv
<1>6. Minus(only) \in SUBSET RowNumbers /\ \A q \in Minus(only) : listed[q] # ParentRow
  BY <1>1, <1>5
<1>7. RowsShown' /\ ChosenInv' /\ MeantInv' /\ RowsPlain'
  BY <1>3, <1>5, <1>6, SelectionHolds
<1>8. anchor \notin RowNumbers => Minus(only) = {} /\ anchor = 0
  BY <1>1, <1>2, <1>4
<1>9. OriginInv'
  BY <1>3, <1>6, <1>8, PointsAtRow
<1> QED BY <1>7, <1>9 DEF RowsInv

(* The click is counted. *)
LEMMA RowClickCounts ==
  ASSUME RowsPlain, rowClicks < MaxRowClicks, rowClicks' = rowClicks + 1,
         column' \in Columns, ascending' \in BOOLEAN
  PROVE  RowsPlain'
<1>1. rowClicks \in 0..MaxRowClicks
  BY DEF RowsPlain
<1>2. rowClicks' \in 0..MaxRowClicks
  BY <1>1, RowsAssumption
<1> QED BY <1>2 DEF RowsPlain

LEMMA ResortKeeps == ASSUME RowsInv, NEW c \in Columns, Resort(c) PROVE RowsInv'
<1>1. PICK S \in Folders : Shows(listed, S)
  BY DEF RowsInv, RowsShown
<1>2. ascending \in BOOLEAN /\ column \in Columns
  BY DEF RowsInv, RowsPlain
<1>3. /\ column' = c /\ ascending' \in BOOLEAN
      /\ UNCHANGED <<meant, origin, astray>>
      /\ misled' = (misled \/ (listed # <<>> /\ Seeds # {origin}))
  BY <1>2 DEF Resort
<1>4. RowsPlain'
  BY <1>3, RowClickCounts DEF Resort, RowsInv
<1>5. CASE listed = <<>>
  <2>1. UNCHANGED <<listed, picked, anchor>>
    BY <1>5 DEF Resort
  <2>2. RowsShown' /\ ChosenInv' /\ MeantInv'
    BY <2>1, <1>3, RowsStay DEF RowsInv, ChosenInv, MeantInv, RowNumbers
  <2>3. OriginInv'
    BY <2>1, <1>3, <1>5 DEF RowsInv, OriginInv, ExtendsFrom, RowNumbers
  <2> QED BY <2>2, <2>3, <1>4 DEF RowsInv
<1>6. CASE listed # <<>>
  <2>1. listed' = Sorted({listed[r] : r \in RowNumbers}, c, ascending')
    BY <1>6 DEF Resort
  <2>2. picked' = {r \in DOMAIN listed' : listed'[r] \in Seeds}
    BY <1>6 DEF Resort
  <2>3. anchor' = IF picked' = {} THEN 0 ELSE Lowest(picked')
    BY <1>6 DEF Resort
  <2>4. {listed[r] : r \in RowNumbers} = S
    BY <1>1, RowsAreNumbered
  <2>5. Shows(listed', S)
    BY <2>1, <2>4, <1>3, SortedShows
  <2>6. RowsShown'
    BY <2>5 DEF RowsShown
  <2>7. Cardinality(S) \in Nat /\ RowNumbers' = 1..Cardinality(S)
    BY <2>5, FolderEntries DEF Shows, RowNumbers
  <2>8. (~astray => Seeds = meant) /\ Seeds \subseteq S \ {ParentRow}
    <3>1. ~astray => Seeds = meant
      BY RowsInvSuffices DEF SeedsAreMeant
    <3>2. Seeds \subseteq {listed[r] : r \in RowNumbers} \ {ParentRow}
      BY DEF Seeds
    <3> QED BY <3>1, <3>2, <2>4
  <2>9. picked' \subseteq RowNumbers' /\ \A r \in picked' : listed'[r] # ParentRow
    BY <2>2, <2>8 DEF RowNumbers
  <2>10. anchor' \in RowNumbers' \cup {0}
    <3>1. CASE picked' = {} BY <3>1, <2>3
    <3>2. CASE picked' # {}
      <4>1. picked' \in SUBSET (1..Cardinality(S)) BY <2>7, <2>9
      <4>2. Lowest(picked') \in picked' BY <4>1, <3>2, <2>7, EndsOfRows
      <4> QED BY <4>2, <3>2, <2>3, <2>9
    <3> QED BY <3>1, <3>2
  <2>11. Seeds = {listed'[r] : r \in picked'}
    <3>1. \A x \in S : \E i \in DOMAIN listed' : listed'[i] = x
      BY <2>5 DEF Shows
    <3>2. \A x \in Seeds : \E i \in picked' : listed'[i] = x
      BY <3>1, <2>2, <2>8
    <3>3. \A i \in picked' : listed'[i] \in Seeds
      BY <2>2
    <3> QED BY <3>2, <3>3
  <2>12. MeantInv'
    BY <2>8, <2>11, <1>3 DEF MeantInv
  <2>13. ASSUME ~misled' PROVE \E q \in RowNumbers' : listed'[q] = origin' /\ ExtendsFrom(picked, anchor, q)'
    <3>1. Seeds = {origin} /\ origin' = origin
      BY <2>13, <1>3, <1>6
    <3>2. PICK q \in picked' : listed'[q] = origin'
      BY <3>1, <2>11
    <3>3. \A i \in picked' : i = q
      BY <3>1, <3>2, <2>5, <2>9, <2>11 DEF Shows, RowNumbers
    <3>4. picked' = {q} /\ q \in 1..Cardinality(S)
      BY <3>2, <3>3, <2>7, <2>9
    <3>5. Lowest({q}) = q /\ Highest({q}) = q
      BY <3>4, <2>7, EndsOfRows
    <3>6. anchor' = q
      BY <3>4, <3>5, <2>3
    <3>8. \A r \in 1..Cardinality(S) : From({q}, q, r) = q
      BY <3>5 DEF From
    <3>9. ExtendsFrom(picked, anchor, q)'
      BY <3>4, <3>6, <3>8, <2>7 DEF ExtendsFrom
    <3> QED BY <3>2, <3>9, <2>9
  <2>14. OriginInv'
    BY <2>13 DEF OriginInv
  <2> QED BY <2>6, <2>9, <2>10, <2>12, <2>14, <1>4 DEF RowsInv, ChosenInv
<1> QED BY <1>5, <1>6

LEMMA ListingAgainKeeps == ASSUME RowsInv, NEW l \in RowListings, ListAgain(l) PROVE RowsInv'
<1> DEFINE S == l \cup (IF HasParent THEN {ParentRow} ELSE {})
<1>1. S \in Folders
  <2>1. HasParent \in BOOLEAN BY DEF HasParent
  <2> QED BY <2>1, FoldersAre
<1>2. listed' = Sorted(S, column, ascending)
  BY DEF ListAgain
<1> HIDE DEF S
<1>3. ascending \in BOOLEAN
  BY DEF RowsInv, RowsPlain
<1>4. Shows(listed', S)
  BY <1>1, <1>2, <1>3, SortedShows
<1>5. RowsShown'
  BY <1>1, <1>4 DEF RowsShown
<1>6. Cardinality(S) \in Nat /\ RowNumbers' = 1..Cardinality(S)
  BY <1>1, <1>4, FolderEntries DEF Shows, RowNumbers
<1>7. anchor' \in RowNumbers' \cup {0}
  <2>1. anchor' = IF listed' = <<>> THEN 0 ELSE 1
    BY DEF ListAgain, FirstRow
  <2>2. CASE listed' = <<>> BY <2>1, <2>2
  <2>3. CASE listed' # <<>>
    <3>1. CASE Cardinality(S) = 0
      <4>1. listed' \in [1..0 -> S] BY <3>1, <1>4 DEF Shows
      <4> QED BY <4>1, <2>3
    <3>2. CASE Cardinality(S) # 0
      BY <3>2, <1>6, <2>1, <2>3
    <3> QED BY <3>1, <3>2
  <2> QED BY <2>2, <2>3
<1>8. /\ picked' = {} /\ meant' = {}
      /\ origin' = EntryAt(listed', 1) /\ anchor' = FirstRow(listed')
  BY DEF ListAgain
<1>9. RowsPlain'
  BY RowClickCounts DEF ListAgain, RowsInv, RowsPlain
<1>10. OriginInv'
  <2>1. DOMAIN listed' = 1..Cardinality(S)
    BY <1>6 DEF RowNumbers
  <2>2. \/ origin' = NoEntry /\ \A r \in DOMAIN listed' : From({}, anchor', r) = r
        \/ \E q \in DOMAIN listed' : /\ listed'[q] = origin'
                                     /\ \A r \in DOMAIN listed' : From({}, anchor', r) = q
    BY <2>1, <1>6, <1>8, FirstIsPointedAt
  <2> QED BY <2>2, <1>8 DEF OriginInv, ExtendsFrom, RowNumbers
<1> QED BY <1>5, <1>7, <1>8, <1>9, <1>10 DEF RowsInv, ChosenInv, MeantInv

LEMMA RowsStep == RowsInv /\ [RowsNext]_rowVars => RowsInv'
<1> SUFFICES ASSUME RowsInv, [RowsNext]_rowVars PROVE RowsInv'
  OBVIOUS
<1>1. ASSUME NEW r \in RowNumbers, ClickRow(r) PROVE RowsInv'
  BY <1>1, ClickRowKeeps
<1>2. ASSUME NEW r \in RowNumbers, ToggleRow(r) PROVE RowsInv'
  BY <1>2, ToggleRowKeeps
<1>3. ASSUME NEW r \in RowNumbers, ExtendTo(r) PROVE RowsInv'
  BY <1>3, ExtendToKeeps
<1>4. CASE SelectAll
  BY <1>4, SelectAllKeeps
<1>5. CASE Collapse
  BY <1>5, CollapseKeeps
<1>6. ASSUME NEW c \in Columns, Resort(c) PROVE RowsInv'
  BY <1>6, ResortKeeps
<1>7. ASSUME NEW l \in RowListings, ListAgain(l) PROVE RowsInv'
  BY <1>7, ListingAgainKeeps
<1>8. CASE UNCHANGED rowVars
  BY <1>8 DEF rowVars, historyVars, RowsInv, RowsShown, ChosenInv, MeantInv, OriginInv, ExtendsFrom,
              RowsPlain, RowNumbers
<1> QED BY <1>1, <1>2, <1>3, <1>4, <1>5, <1>6, <1>7, <1>8 DEF RowsNext

(* An operation acts on what the user selected: through clicks, toggles,    *)
(* the spans drawn back and forth from the row pointed at last, and any     *)
(* sorting in between; but for a span drawn while the selection did not     *)
(* tell that row.  (main.rs: PaneSelection, resort_pane,                    *)
(* selected_left_seeds)                                                     *)
THEOREM SelectionIsMeant == RowsSpec => [](RowsTypeOK /\ SeedsAreMeant)
<1>1. RowsSpec => []RowsInv
  BY RowsStart, RowsStep, PTL DEF RowsSpec
<1> QED BY <1>1, RowsInvSuffices, PTL

-----------------------------------------------------------------------------
(* The composition: a step of it is a step of one part, and the others      *)
(* stand still.                                                             *)
LEMMA ScreensAreParts == Spec => ConsoleSpec /\ PanesSpec /\ RowsSpec
<1>1. Init => ConsoleInit /\ PanesInit /\ RowsInit
  BY DEF Init
<1>2. [Next]_allVars => [ConsoleNext]_consoleVars
  BY DEF Next, allVars
<1>3. [Next]_allVars => [PanesNext]_paneVars
  BY DEF Next, allVars
<1>4. [Next]_allVars => [RowsNext]_rowVars
  BY DEF Next, allVars
<1> QED BY <1>1, <1>2, <1>3, <1>4, PTL DEF Spec, ConsoleSpec, PanesSpec, RowsSpec

(* Whatever the order of resizes, typing, prompts and negotiation, a server *)
(* whose console is quiet knows its size, and hears the auto-login's name   *)
(* and password at most once each, in order, before anything typed.         *)
(* (telnet/mod.rs, shell.rs, console.rs)                                    *)
THEOREM ScreensKeepConsole == Spec => []ConsoleInOrder
<1>1. SizeFollows /\ LoginInOrder => ConsoleInOrder
  BY DEF ConsoleInOrder
<1> QED BY <1>1, ScreensAreParts, ConsoleKeepsOrder, PTL

(* A local pane shows no server's rows and a remote one no other session's, *)
(* however late a listing comes in; at rest and undisturbed (RowsAreItsOwn) *)
(* it shows the folder it names.  An operation acts on the entries the user *)
(* meant to select, however the rows were sorted in between, but for a span *)
(* drawn while the selection did not tell where from.  (main.rs)            *)
THEOREM ScreensShowWhatIsMeant == Spec => []PanesAreMeant
<1>1. RowsAreItsOwn /\ SeedsAreMeant => PanesAreMeant
  BY DEF PanesAreMeant
<1> QED BY <1>1, ScreensAreParts, RowsStayTheirOwn, SelectionIsMeant, PTL

(* Every variable of what the window shows keeps its type.  (console.rs,    *)
(* terminal.rs, telnet/mod.rs, main.rs, watcher.rs)                         *)
THEOREM ScreensKeepTypes == Spec => []AllTypesOK
<1>1. ConsoleTypeOK /\ PanesTypeOK /\ RowsTypeOK => AllTypesOK
  BY DEF AllTypesOK
<1> QED BY <1>1, ScreensAreParts, ConsoleKeepsTypes, PanesKeepTypes, SelectionIsMeant, PTL
=============================================================================
