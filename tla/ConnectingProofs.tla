-------------------------- MODULE ConnectingProofs --------------------------
(***************************************************************************)
(* The theorems about how a session comes to be: what the run of           *)
(* MCConnecting checks holds for every value of the constants.             *)
(*                                                                         *)
(* The composition plays one part at a time and leaves the others alone;   *)
(* each part has an invariant of its own.                                  *)
(*   - Host keys (SshInv): a key accepted for good is on a line that no    *)
(*     other host's save replaces and no other host's removal takes, and a *)
(*     file about to be written is the one read with one change; what any  *)
(*     of them says of a key was there first or accepted (VouchInv).       *)
(*   - The proxy (DialInv): what is still to come is a run of whole        *)
(*     replies, and what was read of one is its beginning, so that the     *)
(*     reading of it ends exactly at its end.                              *)
(*   - The saved sites (SitesInv): no two sites have an id in common, the  *)
(*     next id is new, and the keyring holds under a site's id what the    *)
(*     user last saved for it; a list being written differs from the file  *)
(*     in one site.                                                        *)
(*   - The configuration (ConfigInv): a value is the first one obtained    *)
(*     from the blocks read so far, of which an unread line cannot be the  *)
(*     first; a block holds the first values read into it (BlocksInv); and *)
(*     a route's transport is its own (RoutesInv).                         *)
(*   - The routes (RouteInv): while no save has overwritten another, who   *)
(*     is current holds what the file does but for entries it would prune, *)
(*     and the file remembers the successes and failures; an order of      *)
(*     attempts has every candidate once, ranked as the entry it was made  *)
(*     from says.                                                          *)
(***************************************************************************)
EXTENDS MCConnecting, SequenceTheorems, FiniteSetTheorems, WellFoundedInduction, TLAPS

-----------------------------------------------------------------------------
(* Subsequences.                                                           *)
(* A non-empty set of naturals has a least element. *)
LEMMA LeastNat ==
  ASSUME NEW S \in SUBSET Nat, S # {}
  PROVE  \E n \in S : \A m \in S : n <= m
<1>1. PICK x \in S : \A y \in S : ~(<<y, x>> \in OpToRel(<, Nat))
  BY WFMin, NatLessThanWellFounded, Zenon
<1>2. \A y \in S : ~(y < x)
  <2> TAKE y \in S
  <2>1. <<y, x>> \in Nat \X Nat /\ <<y, x>>[1] = y /\ <<y, x>>[2] = x
    OBVIOUS
  <2>2. y < x => <<y, x>> \in OpToRel(<, Nat)
    BY <2>1, Zenon DEF OpToRel
  <2> QED BY <1>1, <2>2, Zenon
<1>3. S \subseteq Nat
  OBVIOUS
<1> QED BY <1>2, <1>3

(* A total order on S. *)
TotalOrder(R, S) ==
  /\ \A x \in S : <<x, x>> \in R
  /\ \A x, y \in S : <<x, y>> \in R \/ <<y, x>> \in R
  /\ \A x, y \in S : <<x, y>> \in R /\ <<y, x>> \in R => x = y
  /\ \A x, y, z \in S : <<x, y>> \in R /\ <<y, z>> \in R => <<x, z>> \in R

UpTo(S, R, x) == {y \in S : <<y, x>> \in R}

(* The elements of a set in order: each of them once, and none before       *)
(* another that comes before it.                                            *)
LEMMA OrderedIs ==
  ASSUME NEW S, IsFiniteSet(S), NEW R, TotalOrder(R, S)
  PROVE  /\ Cardinality(S) \in Nat
         /\ Ordered(S, R) \in [1..Cardinality(S) -> S]
         /\ \A x \in S : \E n \in 1..Cardinality(S) : Ordered(S, R)[n] = x
         /\ \A m, n \in 1..Cardinality(S) :
              m < n => Ordered(S, R)[m] # Ordered(S, R)[n]
                       /\ <<Ordered(S, R)[m], Ordered(S, R)[n]>> \in R
<1> DEFINE N == Cardinality(S)
           rank == [x \in S |-> Cardinality(UpTo(S, R, x))]
<1>1. N \in Nat
  BY FS_CardinalityType
<1>2. ASSUME NEW x \in S PROVE IsFiniteSet(UpTo(S, R, x)) /\ rank[x] \in 1..N
  <2>1. UpTo(S, R, x) \in SUBSET S /\ x \in UpTo(S, R, x)
    BY DEF UpTo, TotalOrder
  <2>2. IsFiniteSet(UpTo(S, R, x)) /\ Cardinality(UpTo(S, R, x)) <= N
    BY <2>1, FS_Subset
  <2>3. Cardinality(UpTo(S, R, x)) \in Nat
    BY <2>2, FS_CardinalityType
  <2>4. Cardinality(UpTo(S, R, x)) # 0
    BY <2>1, <2>2, FS_EmptySet
  <2> QED BY <1>1, <2>2, <2>3, <2>4
<1>3. ASSUME NEW x \in S, NEW y \in S, <<x, y>> \in R, x # y PROVE rank[x] < rank[y]
  <2>1. UpTo(S, R, x) \in SUBSET UpTo(S, R, y)
    BY <1>3 DEF UpTo, TotalOrder
  <2>2. y \in UpTo(S, R, y) /\ y \notin UpTo(S, R, x)
    BY <1>3 DEF UpTo, TotalOrder
  <2>3. Cardinality(UpTo(S, R, x)) <= Cardinality(UpTo(S, R, y))
        /\ Cardinality(UpTo(S, R, x)) # Cardinality(UpTo(S, R, y))
    BY <1>2, <2>1, <2>2, FS_Subset
  <2> QED BY <1>1, <1>2, <2>3
<1>4. rank \in Injection(S, 1..N)
  <2>1. rank \in [S -> 1..N]
    BY <1>2
  <2> HIDE DEF rank
  <2>2. ASSUME NEW x \in S, NEW y \in S, rank[x] = rank[y] PROVE x = y
    <3>1. rank[x] \in 1..N /\ (<<x, y>> \in R \/ <<y, x>> \in R)
      BY <1>2 DEF TotalOrder
    <3>2. rank[x] \in Nat
      BY <1>1, <1>2
    <3>3. x # y => rank[x] < rank[y] \/ rank[y] < rank[x]
      BY <1>3, <3>1
    <3> QED BY <2>2, <3>2, <3>3
  <2> QED BY <2>1, <2>2 DEF Injection, IsInjective
<1>5. rank \in Surjection(S, 1..N)
  <2>1. IsFiniteSet(1..N) /\ Cardinality(1..N) = N
    BY <1>1, FS_Interval
  <2> QED BY <1>4, <2>1, FS_Injection
<1>6. \A n \in 1..N : \E x \in S : rank[x] = n
  BY <1>5 DEF Surjection
<1>7. \A x, y \in S : rank[x] = rank[y] => x = y
  BY <1>4 DEF Injection, IsInjective
<1>8. \A x \in S : rank[x] = Cardinality({y \in S : <<y, x>> \in R})
  BY DEF UpTo
<1> HIDE DEF rank
<1>9. \A n \in 1..N : Ordered(S, R)[n] \in S /\ rank[Ordered(S, R)[n]] = n
  <2> SUFFICES ASSUME NEW n \in 1..N PROVE Ordered(S, R)[n] \in S /\ rank[Ordered(S, R)[n]] = n
    OBVIOUS
  <2> DEFINE Fits(x) == Cardinality({y \in S : <<y, x>> \in R}) = n
  <2>1. \E x \in S : Fits(x)
    BY <1>6, <1>8
  <2>2. Ordered(S, R)[n] = CHOOSE x \in S : Fits(x)
    BY DEF Ordered
  <2>3. \A x \in S : Fits(x) => rank[x] = n
    BY <1>8
  <2> HIDE DEF Fits
  <2> QED BY <2>1, <2>2, <2>3
<1>10. Ordered(S, R) \in [1..N -> S]
  <2> DEFINE nth(n) == CHOOSE x \in S : Cardinality({y \in S : <<y, x>> \in R}) = n
  <2>1. Ordered(S, R) = [n \in 1..N |-> nth(n)]
    BY DEF Ordered
  <2> HIDE DEF nth
  <2> QED BY <1>9, <2>1
<1>11. \A x \in S : \E n \in 1..N : Ordered(S, R)[n] = x
  BY <1>2, <1>7, <1>9
<1>12. ASSUME NEW m \in 1..N, NEW n \in 1..N, m < n
       PROVE  Ordered(S, R)[m] # Ordered(S, R)[n]
              /\ <<Ordered(S, R)[m], Ordered(S, R)[n]>> \in R
  <2> DEFINE a == Ordered(S, R)[m]
             b == Ordered(S, R)[n]
  <2>1. a \in S /\ b \in S /\ rank[a] = m /\ rank[b] = n
    BY <1>9
  <2> HIDE DEF a, b
  <2>2. a # b
    BY <1>12, <2>1
  <2>3. <<b, a>> \notin R
    BY <1>3, <1>12, <2>1, <2>2
  <2>4. <<a, b>> \in R
    BY <2>1, <2>3 DEF TotalOrder
  <2> QED BY <2>2, <2>4 DEF a, b
<1> QED BY <1>1, <1>10, <1>11, <1>12

LEMMA AscendingIs ==
  ASSUME NEW I, I \subseteq Nat, IsFiniteSet(I)
  PROVE  /\ Cardinality(I) \in Nat
         /\ Ascending(I) \in [1..Cardinality(I) -> I]
         /\ \A i \in I : \E n \in 1..Cardinality(I) : Ascending(I)[n] = i
         /\ \A m, n \in 1..Cardinality(I) : m < n => Ascending(I)[m] < Ascending(I)[n]
<1> DEFINE R == {p \in I \X I : p[1] <= p[2]}
<1>1. \A i, j \in I : <<i, j>> \in R <=> i <= j
  OBVIOUS
<1>2. Ascending(I) = Ordered(I, R)
  BY DEF Ascending
<1> HIDE DEF R
<1>3. TotalOrder(R, I)
  <2>1. \A i, j \in I : i \in Nat /\ j \in Nat
    OBVIOUS
  <2> QED BY <1>1, <2>1 DEF TotalOrder
<1>4. /\ Cardinality(I) \in Nat
      /\ Ordered(I, R) \in [1..Cardinality(I) -> I]
      /\ \A x \in I : \E n \in 1..Cardinality(I) : Ordered(I, R)[n] = x
      /\ \A m, n \in 1..Cardinality(I) :
           m < n => Ordered(I, R)[m] # Ordered(I, R)[n]
                    /\ <<Ordered(I, R)[m], Ordered(I, R)[n]>> \in R
  BY <1>3, OrderedIs
<1> DEFINE A == Ascending(I)
           N == Cardinality(I)
<1>5. /\ N \in Nat /\ A \in [1..N -> I]
      /\ \A x \in I : \E n \in 1..N : A[n] = x
      /\ \A m, n \in 1..N : m < n => A[m] # A[n] /\ <<A[m], A[n]>> \in R
  BY <1>2, <1>4
<1> HIDE DEF A, N
<1>6. \A m, n \in 1..N : m < n => A[m] < A[n]
  <2> SUFFICES ASSUME NEW m \in 1..N, NEW n \in 1..N, m < n PROVE A[m] < A[n]
    OBVIOUS
  <2>1. A[m] \in I /\ A[n] \in I /\ A[m] # A[n] /\ <<A[m], A[n]>> \in R
    BY <1>5
  <2>2. A[m] <= A[n] /\ A[m] \in Nat /\ A[n] \in Nat
    BY <1>1, <2>1
  <2> QED BY <2>1, <2>2
<1> QED BY <1>5, <1>6 DEF A, N

(* What is kept of a sequence is a sequence of what stood at the positions  *)
(* kept, and all of it.                                                     *)
LEMMA KeepIs ==
  ASSUME NEW T, NEW s \in Seq(T), NEW I \in SUBSET (1..Len(s))
  PROVE  /\ Keep(s, I) \in Seq(T)
         /\ Cardinality(I) \in Nat /\ Len(Keep(s, I)) = Cardinality(I)
         /\ \A n \in 1..Cardinality(I) : \E i \in I : Keep(s, I)[n] = s[i]
         /\ \A i \in I : \E n \in 1..Cardinality(I) : Keep(s, I)[n] = s[i]
<1> DEFINE N == Cardinality(I)
           A == Ascending(I)
<1>0. Len(s) \in Nat /\ \A i \in 1..Len(s) : s[i] \in T
  OBVIOUS
<1>1. IsFiniteSet(I) /\ I \subseteq Nat
  <2>1. IsFiniteSet(1..Len(s))
    BY <1>0, FS_Interval
  <2>2. IsFiniteSet(I)
    BY <2>1, FS_Subset
  <2> QED BY <1>0, <2>2
<1>2. /\ N \in Nat /\ A \in [1..N -> I]
      /\ \A i \in I : \E n \in 1..N : A[n] = i
  BY <1>1, AscendingIs
<1>3. Keep(s, I) = [n \in 1..N |-> s[A[n]]]
  BY DEF Keep
<1> HIDE DEF A, N
<1>4. \A n \in 1..N : A[n] \in I /\ s[A[n]] \in T
  BY <1>0, <1>2
<1>5. Keep(s, I) \in [1..N -> T]
  BY <1>3, <1>4
<1>6. Keep(s, I) \in Seq(T) /\ Len(Keep(s, I)) = N
  BY <1>2, <1>5
<1>7. \A n \in 1..N : Keep(s, I)[n] = s[A[n]]
  BY <1>3
<1>8. \A n \in 1..N : \E i \in I : Keep(s, I)[n] = s[i]
  BY <1>4, <1>7
<1>9. \A i \in I : \E n \in 1..N : Keep(s, I)[n] = s[i]
  BY <1>2, <1>7
<1> QED BY <1>2, <1>6, <1>8, <1>9 DEF N

(* What is kept from different places came from different places. *)
LEMMA KeptApart ==
  ASSUME NEW T, NEW s \in Seq(T), NEW I \in SUBSET (1..Len(s)),
         NEW m \in 1..Cardinality(I), NEW n \in 1..Cardinality(I), m # n
  PROVE  \E i, j \in I : i # j /\ Keep(s, I)[m] = s[i] /\ Keep(s, I)[n] = s[j]
<1> DEFINE N == Cardinality(I)
           A == Ascending(I)
<1>1. IsFiniteSet(I) /\ I \subseteq Nat
  <2>1. IsFiniteSet(1..Len(s)) /\ Len(s) \in Nat
    BY FS_Interval
  <2>2. IsFiniteSet(I)
    BY <2>1, FS_Subset
  <2> QED BY <2>1, <2>2
<1>2. /\ N \in Nat /\ A \in [1..N -> I]
      /\ \A k, l \in 1..N : k < l => A[k] < A[l]
  BY <1>1, AscendingIs
<1>3. Keep(s, I) = [k \in 1..N |-> s[A[k]]]
  BY DEF Keep
<1>4. m \in 1..N /\ n \in 1..N
  OBVIOUS
<1> HIDE DEF A, N
<1>5. A[m] \in I /\ A[n] \in I /\ Keep(s, I)[m] = s[A[m]] /\ Keep(s, I)[n] = s[A[n]]
  BY <1>2, <1>3, <1>4
<1>6. A[m] \in Nat /\ A[n] \in Nat /\ m \in Nat /\ n \in Nat
  <2>1. m \in Nat /\ n \in Nat
    BY <1>2, <1>4
  <2> QED BY <1>1, <1>5, <2>1
<1>7. A[m] # A[n]
  <2>1. m < n \/ n < m
    BY <1>6
  <2>2. A[m] < A[n] \/ A[n] < A[m]
    BY <1>2, <1>4, <2>1
  <2> QED BY <1>6, <2>2
<1> QED BY <1>5, <1>7
-----------------------------------------------------------------------------
(* The host keys.                                                          *)
(* A host's own line: the one a save writes for it, which no other host's   *)
(* save replaces and no other host's removal takes.                         *)
OwnLine(lines, p) ==
  \E i \in DOMAIN lines : lines[i].names = {HostToken[p[1]]} /\ lines[i].key = p[2]
LinesOK(lines) == lines \in Seq(KnownLines)

KnownTypes == knownHosts = [state |-> knownHosts.state, lines |-> knownHosts.lines]
              /\ knownHosts.state \in FileStates /\ LinesOK(knownHosts.lines)
Pending == {"prompt", "save", "write"}
DialOK(c) ==
  /\ c = [at |-> c.at, opt |-> c.opt, key |-> c.key, draft |-> c.draft, base |-> c.base]
  /\ c.at \in {"idle", "transport", "prompt", "save", "write", "confirm", "auth", "connected",
               "failed"}
  /\ c.opt \in DialOptions /\ c.key \in HostKeys \cup {UnparsedKey}
  /\ LinesOK(c.draft) /\ LinesOK(c.base)
  /\ c.at \in Pending => c.key \in HostKeys
  /\ c.at = "write" => c.draft = SavedLines(c.base, c.opt.host, c.key, c.opt.hash)
RemoverOK(r) ==
  /\ r = [at |-> r.at, host |-> r.host, draft |-> r.draft, base |-> r.base]
  /\ r.at \in {"idle", "write"} /\ r.host \in SshHosts
  /\ LinesOK(r.draft) /\ LinesOK(r.base)
  /\ r.at = "write" => r.draft = RemovedLines(r.base, r.host)
KeptInv ==
  /\ accepted \subseteq SshHosts \X HostKeys
  /\ \A p \in accepted : OwnLine(knownHosts.lines, p)
SshInv ==
  /\ KnownTypes
  /\ serverKey \in [SshHosts -> HostKeys]
  /\ dial = [d \in Dialers |-> dial[d]] /\ \A d \in Dialers : DialOK(dial[d])
  /\ RemoverOK(remover)
  /\ dials \in 0..MaxDials
  /\ KeptInv

-----------------------------------------------------------------------------
(* The lines a save or a removal writes. *)

LEMMA NewLineIs ==
  ASSUME NEW h \in SshHosts, NEW k \in HostKeys, NEW hash \in BOOLEAN
  PROVE  NewLine(h, k, hash) \in KnownLines /\ NewLine(h, k, hash).names = {HostToken[h]}
         /\ NewLine(h, k, hash).key = k
BY SshAssumption DEF NewLine, KnownLines, SshTokens

LEMMA SavedAre ==
  ASSUME NEW lines, LinesOK(lines), NEW h \in SshHosts, NEW k \in HostKeys, NEW hash \in BOOLEAN
  PROVE  /\ LinesOK(SavedLines(lines, h, k, hash))
         /\ OwnLine(SavedLines(lines, h, k, hash), <<h, k>>)
         /\ \A p \in SshHosts \X HostKeys :
              OwnLine(lines, p) /\ (hash \/ p[1] # h)
                => OwnLine(SavedLines(lines, h, k, hash), p)
<1> DEFINE line == NewLine(h, k, hash)
           same == {i \in DOMAIN lines : ~lines[i].hashed /\ HostToken[h] \in lines[i].names}
           first == CHOOSE i \in same : \A j \in same : i <= j
           out == SavedLines(lines, h, k, hash)
<1>1. line \in KnownLines /\ line.names = {HostToken[h]} /\ line.key = k
  BY NewLineIs
<1>2. lines \in Seq(KnownLines) /\ Len(lines) \in Nat
  BY DEF LinesOK
<1>3. out = IF hash \/ same = {} THEN Append(lines, line) ELSE [lines EXCEPT ![first] = line]
  BY DEF SavedLines
<1>4. \A i \in DOMAIN lines : i \in same => HostToken[h] \in lines[i].names
  OBVIOUS
<1>5. same \subseteq 1..Len(lines)
  BY <1>2
<1>6. same # {} => first \in same
  <2> SUFFICES ASSUME same # {} PROVE first \in same
    OBVIOUS
  <2> HIDE DEF same
  <2>1. same \subseteq Nat
    BY <1>2, <1>5
  <2>2. \E i \in same : \A j \in same : i <= j
    BY <2>1, LeastNat
  <2> QED BY <2>2
<1>7. <<h, k>>[1] = h /\ <<h, k>>[2] = k
  OBVIOUS
<1> HIDE DEF line, same, first, out
<1>8. CASE hash \/ same = {}
  <2>1. out = Append(lines, line)
    BY <1>3, <1>8
  <2>2. /\ LinesOK(out) /\ Len(lines) + 1 \in DOMAIN out /\ out[Len(lines) + 1] = line
        /\ \A i \in DOMAIN lines : i \in DOMAIN out /\ out[i] = lines[i]
    BY <1>1, <1>2, <2>1 DEF LinesOK
  <2>3. OwnLine(out, <<h, k>>)
    BY <1>1, <1>7, <2>2 DEF OwnLine
  <2>4. \A p \in SshHosts \X HostKeys : OwnLine(lines, p) => OwnLine(out, p)
    BY <2>2 DEF OwnLine
  <2> QED BY <2>2, <2>3, <2>4 DEF out
<1>9. CASE ~hash /\ same # {}
  <2>0. ~(hash \/ same = {}) /\ first \in same
    BY <1>6, <1>9
  <2>01. out = [lines EXCEPT ![first] = line]
    BY <1>3, <2>0
  <2>1. out = [lines EXCEPT ![first] = line] /\ first \in same /\ first \in DOMAIN lines
    BY <1>2, <1>5, <2>0, <2>01
  <2>2. /\ LinesOK(out) /\ DOMAIN out = DOMAIN lines /\ out[first] = line
        /\ \A i \in DOMAIN lines : i # first => out[i] = lines[i]
    BY <1>1, <1>2, <2>1 DEF LinesOK
  <2>3. OwnLine(out, <<h, k>>)
    BY <1>1, <1>7, <2>1, <2>2 DEF OwnLine
  <2>4. ASSUME NEW p \in SshHosts \X HostKeys, OwnLine(lines, p), p[1] # h
        PROVE  OwnLine(out, p)
    <3>1. PICK i \in DOMAIN lines : lines[i].names = {HostToken[p[1]]} /\ lines[i].key = p[2]
      BY <2>4 DEF OwnLine
    <3>2. HostToken[h] # HostToken[p[1]]
      BY <2>4, SshAssumption
    <3>3. i # first
      BY <1>4, <2>1, <3>1, <3>2
    <3> QED BY <2>2, <3>1, <3>3 DEF OwnLine
  <2> QED BY <1>9, <2>2, <2>3, <2>4 DEF out
<1> QED BY <1>8, <1>9

LEMMA RemovedAre ==
  ASSUME NEW lines, LinesOK(lines), NEW h \in SshHosts
  PROVE  /\ LinesOK(RemovedLines(lines, h))
         /\ \A p \in SshHosts \X HostKeys :
              OwnLine(lines, p) /\ p[1] # h => OwnLine(RemovedLines(lines, h), p)
<1> DEFINE I == {i \in DOMAIN lines : ~Names(lines[i], h)}
           out == Keep(lines, I)
<1>1. lines \in Seq(KnownLines)
  BY DEF LinesOK
<1>2. I \in SUBSET (1..Len(lines))
  BY <1>1
<1>3. \A i \in DOMAIN lines : ~Names(lines[i], h) => i \in I
  OBVIOUS
<1>4. RemovedLines(lines, h) = out
  BY DEF RemovedLines
<1> HIDE DEF I
<1>5. /\ out \in Seq(KnownLines) /\ Len(out) = Cardinality(I) /\ Cardinality(I) \in Nat
      /\ \A i \in I : \E n \in 1..Cardinality(I) : out[n] = lines[i]
  BY <1>1, <1>2, KeepIs
<1> HIDE DEF out
<1>6. DOMAIN out = 1..Cardinality(I)
  BY <1>5
<1>7. ASSUME NEW p \in SshHosts \X HostKeys, OwnLine(lines, p), p[1] # h PROVE OwnLine(out, p)
  <2>1. PICK i \in DOMAIN lines : lines[i].names = {HostToken[p[1]]} /\ lines[i].key = p[2]
    BY <1>7 DEF OwnLine
  <2>2. ~Names(lines[i], h)
    BY <1>7, <2>1, SshAssumption DEF Names
  <2>3. PICK n \in DOMAIN out : out[n] = lines[i]
    BY <1>3, <1>5, <1>6, <2>2
  <2> QED BY <2>1, <2>3 DEF OwnLine
<1> QED BY <1>4, <1>5, <1>7 DEF LinesOK

-----------------------------------------------------------------------------
(* A dial that moves on keeps its record sound. *)
Others(d) == dial' = [e \in Dialers |-> dial'[e]] /\ \A e \in Dialers \ {d} : dial'[e] = dial[e]

LEMMA DialMoves ==
  ASSUME SshInv, NEW d \in Dialers, Others(d), DialOK(dial'[d]),
         UNCHANGED <<knownHosts, serverKey, remover, accepted>>, dials' \in 0..MaxDials
  PROVE  SshInv'
<1>1. \A e \in Dialers : DialOK(dial'[e])
  BY DEF SshInv, Others
<1> QED BY <1>1 DEF SshInv, Others, KnownTypes, KeptInv

LEMMA GoesIs ==
  ASSUME SshInv, NEW d \in Dialers, NEW to, Goes(d, to),
         to \in {"failed", "auth", "save", "confirm"}, to = "save" => dial[d].key \in HostKeys
  PROVE  Others(d) /\ DialOK(dial'[d])
<1> DEFINE c == dial[d]
<1>1. DialOK(c)
  BY DEF SshInv
<1>2. dial'[d] = [c EXCEPT !.at = to] /\ Others(d)
  BY DEF SshInv, Goes, Others
<1> HIDE DEF c
<1>3. dial'[d] = [at |-> to, opt |-> c.opt, key |-> c.key, draft |-> c.draft, base |-> c.base]
  BY <1>1, <1>2 DEF DialOK
<1> QED BY <1>1, <1>2, <1>3 DEF DialOK, Pending, c

LEMMA EndsIs ==
  ASSUME SshInv, NEW d \in Dialers, NEW to, Ends(d, to),
         to \in {"failed", "auth", "confirm", "connected"}
  PROVE  Others(d) /\ DialOK(dial'[d])
<1> DEFINE c == dial[d]
<1>1. DialOK(c)
  BY DEF SshInv
<1>2. dial'[d] = [c EXCEPT !.at = to, !.draft = <<>>, !.base = <<>>] /\ Others(d)
  BY DEF SshInv, Ends, Others
<1> HIDE DEF c
<1>3. dial'[d] = [at |-> to, opt |-> c.opt, key |-> c.key, draft |-> <<>>, base |-> <<>>]
  BY <1>1, <1>2 DEF DialOK
<1>4. LinesOK(<<>>)
  BY DEF LinesOK
<1> QED BY <1>1, <1>2, <1>3, <1>4 DEF DialOK, Pending

LEMMA SshStarts == SshInit => SshInv
<1> SUFFICES ASSUME SshInit PROVE SshInv
  OBVIOUS
<1>1. knownHosts \in [state : FileStates, lines : Seq(KnownLines)]
  BY SshAssumption DEF SshInit
<1>2. KnownTypes
  BY <1>1 DEF KnownTypes, LinesOK
<1>3. LinesOK(<<>>)
  BY DEF LinesOK
<1>4. (CHOOSE o \in DialOptions : TRUE) \in DialOptions
      /\ (CHOOSE h \in SshHosts : TRUE) \in SshHosts
  BY SshAssumption
<1>5. RemoverOK(remover)
  BY <1>3, <1>4 DEF SshInit, RemoverOK
<1>6. dial = [d \in Dialers |-> dial[d]] /\ \A d \in Dialers : DialOK(dial[d])
  <2> DEFINE o == CHOOSE o \in DialOptions : TRUE
             c == [at |-> "idle", opt |-> o, key |-> UnparsedKey, draft |-> <<>>, base |-> <<>>]
  <2>1. DialOK(c)
    BY <1>3, <1>4 DEF DialOK, Pending
  <2>2. dial = [d \in Dialers |-> c]
    BY DEF SshInit
  <2> QED BY <2>1, <2>2
<1>7. dials \in 0..MaxDials
  BY SshAssumption DEF SshInit
<1> QED BY <1>2, <1>5, <1>6, <1>7 DEF SshInit, SshInv, KeptInv

LEMMA SaveWritesKeeps == ASSUME SshInv, NEW d \in Dialers, SaveWrites(d) PROVE SshInv'
<1> DEFINE c == dial[d]
           h == c.opt.host
           hash == c.opt.hash
           k == c.key
           out == SavedLines(c.base, h, k, hash)
<1>1. /\ knownHosts' = [state |-> "present", lines |-> c.draft]
      /\ accepted' = (Surviving(c.base) \ Replaced(h, hash)) \cup {<<h, k>>}
      /\ Ends(d, "auth") /\ UNCHANGED <<serverKey, remover, dials>>
      /\ c.at = "write"
  BY DEF SaveWrites
<1>2. DialOK(c)
  BY DEF SshInv
<1>3. k \in HostKeys /\ h \in SshHosts /\ hash \in BOOLEAN /\ LinesOK(c.base) /\ c.draft = out
  BY <1>1, <1>2, SshAssumption DEF DialOK, Pending
<1>4. Others(d) /\ DialOK(dial'[d])
  BY <1>1, EndsIs
<1> HIDE DEF c, h, hash, k
<1>5. /\ LinesOK(out) /\ OwnLine(out, <<h, k>>)
      /\ \A p \in SshHosts \X HostKeys : OwnLine(c.base, p) /\ (hash \/ p[1] # h)
         => OwnLine(out, p)
  BY <1>3, SavedAre
<1> HIDE DEF out
<1>6. knownHosts'.lines = out /\ KnownTypes'
  BY <1>1, <1>3, <1>5 DEF KnownTypes, FileStates
<1>7. Surviving(c.base) \subseteq accepted
      /\ \A p \in Surviving(c.base) : OwnLine(c.base, p)
  BY DEF Surviving, SshInv, KeptInv
<1>8. \A p \in accepted' : p \in SshHosts \X HostKeys /\ OwnLine(out, p)
  <2> SUFFICES ASSUME NEW p \in accepted' PROVE p \in SshHosts \X HostKeys /\ OwnLine(out, p)
    OBVIOUS
  <2>1. CASE p = <<h, k>>
    BY <1>3, <1>5, <2>1
  <2>2. CASE p \in Surviving(c.base) /\ p \notin Replaced(h, hash)
    <3>1. p \in accepted /\ p \in SshHosts \X HostKeys /\ OwnLine(c.base, p)
      BY <1>7, <2>2 DEF SshInv, KeptInv
    <3>2. hash \/ p[1] # h
      BY <2>2, <3>1 DEF Replaced
    <3> QED BY <1>5, <3>1, <3>2
  <2> QED BY <1>1, <2>1, <2>2
<1>9. KeptInv'
  BY <1>6, <1>8 DEF KeptInv
<1>10. \A e \in Dialers : DialOK(dial'[e])
  BY <1>4 DEF SshInv, Others
<1> QED BY <1>1, <1>4, <1>6, <1>9, <1>10 DEF SshInv, Others

LEMMA RemovalsKeep == ASSUME SshInv, RemoveReads \/ RemoveWrites PROVE SshInv'
<1>1. CASE RemoveReads
  <2>1. PICK h \in SshHosts :
          remover' = IF knownHosts.state = "present"
                        /\ RemovedLines(knownHosts.lines, h) # knownHosts.lines
                     THEN [at |-> "write", host |-> h, base |-> knownHosts.lines,
                           draft |-> RemovedLines(knownHosts.lines, h)]
                     ELSE remover
    BY <1>1 DEF RemoveReads
  <2>2. LinesOK(knownHosts.lines) /\ LinesOK(RemovedLines(knownHosts.lines, h))
    BY RemovedAre DEF SshInv, KnownTypes
  <2> DEFINE n == [at |-> "write", host |-> h, base |-> knownHosts.lines,
                   draft |-> RemovedLines(knownHosts.lines, h)]
  <2>3. RemoverOK(n)
    BY <2>2 DEF RemoverOK
  <2>4. remover' = n \/ remover' = remover
    BY <2>1
  <2> HIDE DEF n
  <2>5. RemoverOK(remover')
    BY <2>3, <2>4 DEF SshInv
  <2>6. dials' \in 0..MaxDials /\ UNCHANGED <<knownHosts, serverKey, dial, accepted>>
    BY <1>1, SshAssumption DEF RemoveReads, SshInv
  <2> QED BY <2>5, <2>6 DEF SshInv, KnownTypes, KeptInv
<1>2. CASE RemoveWrites
  <2> DEFINE r == remover
             out == RemovedLines(r.base, r.host)
  <2>1. /\ knownHosts' = [state |-> "present", lines |-> r.draft] /\ r.at = "write"
        /\ accepted' = {p \in Surviving(r.base) : p[1] # r.host}
        /\ remover' = [r EXCEPT !.at = "idle", !.draft = <<>>, !.base = <<>>]
        /\ UNCHANGED <<serverKey, dial, dials>>
    BY <1>2 DEF RemoveWrites
  <2>2. RemoverOK(r)
    BY DEF SshInv
  <2>3. r.host \in SshHosts /\ LinesOK(r.base) /\ r.draft = out
    BY <2>1, <2>2 DEF RemoverOK
  <2>4. remover' = [at |-> "idle", host |-> r.host, draft |-> <<>>, base |-> <<>>]
    BY <2>1, <2>2 DEF RemoverOK
  <2>5. RemoverOK(remover')
    BY <2>3, <2>4 DEF RemoverOK, LinesOK
  <2> HIDE DEF r
  <2>6. /\ LinesOK(out)
        /\ \A p \in SshHosts \X HostKeys : OwnLine(r.base, p) /\ p[1] # r.host
           => OwnLine(out, p)
    BY <2>3, RemovedAre
  <2> HIDE DEF out
  <2>7. knownHosts'.lines = out /\ KnownTypes'
    BY <2>1, <2>3, <2>6 DEF KnownTypes, FileStates
  <2>8. Surviving(r.base) \subseteq accepted
        /\ \A p \in Surviving(r.base) : OwnLine(r.base, p)
    BY DEF Surviving, SshInv, KeptInv
  <2>9. KeptInv'
    BY <2>1, <2>6, <2>7, <2>8 DEF SshInv, KeptInv
  <2> QED BY <2>1, <2>5, <2>7, <2>9 DEF SshInv
<1> QED BY <1>1, <1>2

LEMMA DialsKeep ==
  ASSUME SshInv, NEW d \in Dialers,
         \/ Dial(d) \/ TransportFails(d) \/ KeyOffered(d) \/ HostKeyAnswered(d)
         \/ SaveReads(d) \/ SaveFails(d) \/ ConfirmUnsaved(d) \/ Authenticate(d)
  PROVE  SshInv'
<1> DEFINE c == dial[d]
<1>0. DialOK(c)
  BY DEF SshInv
<1>1. CASE Dial(d)
  <2>1. PICK o \in DialOptions :
          dial' = [dial EXCEPT ![d] =
             [at |-> IF o.proxy /\ o.jump /\ o.backend # "scp" THEN "failed" ELSE "transport",
              opt |-> o, key |-> UnparsedKey, draft |-> <<>>, base |-> <<>>]]
    BY <1>1 DEF Dial
  <2> DEFINE at == IF o.proxy /\ o.jump /\ o.backend # "scp" THEN "failed" ELSE "transport"
             n == [at |-> at, opt |-> o, key |-> UnparsedKey, draft |-> <<>>, base |-> <<>>]
  <2>2. at \in {"failed", "transport"}
    OBVIOUS
  <2> HIDE DEF at
  <2>3. DialOK(n)
    BY <2>2 DEF DialOK, Pending, LinesOK
  <2>4. dial'[d] = n /\ Others(d)
    BY <2>1 DEF SshInv, Others, at
  <2>5. dials' \in 0..MaxDials /\ UNCHANGED <<knownHosts, serverKey, remover, accepted>>
    BY <1>1, SshAssumption DEF Dial, SshInv
  <2> HIDE DEF n
  <2> QED BY <2>3, <2>4, <2>5, DialMoves
<1>2. CASE KeyOffered(d)
  <2> DEFINE k == serverKey[c.opt.host]
             to == AfterReading(c.opt, k)
  <2>1. k \in HostKeys
    BY <1>0, SshAssumption DEF DialOK, SshInv
  <2>2. to \in {"auth", "failed", "prompt"}
    BY DEF AfterReading
  <2>3. dial'[d] = [c EXCEPT !.at = to, !.key = k] /\ Others(d)
        /\ UNCHANGED <<knownHosts, serverKey, remover, dials, accepted>>
    BY <1>2 DEF KeyOffered, SshInv, Others
  <2> HIDE DEF c, k, to
  <2>4. dial'[d] = [at |-> to, opt |-> c.opt, key |-> k, draft |-> c.draft, base |-> c.base]
    BY <1>0, <2>3 DEF DialOK
  <2>5. DialOK(dial'[d])
    BY <1>0, <2>1, <2>2, <2>4 DEF DialOK, Pending
  <2> QED BY <2>3, <2>5, DialMoves DEF SshInv
<1>3. CASE HostKeyAnswered(d) \/ ConfirmUnsaved(d)
  <2>1. PICK to \in {"failed", "auth", "save"} : Goes(d, to) /\ (to = "save" => c.at = "prompt")
    BY <1>3 DEF HostKeyAnswered, ConfirmUnsaved
  <2>2. to = "save" => c.key \in HostKeys
    BY <1>0, <2>1 DEF DialOK, Pending
  <2>3. UNCHANGED <<knownHosts, serverKey, remover, dials, accepted>>
    BY <1>3 DEF HostKeyAnswered, ConfirmUnsaved
  <2>4. Others(d) /\ DialOK(dial'[d])
    BY <2>1, <2>2, GoesIs
  <2> QED BY <2>3, <2>4, DialMoves DEF SshInv
<1>4. CASE SaveReads(d)
  <2> DEFINE o == c.opt
             read == LoadKnownHosts(FALSE)
             lines == read.lines
             out == SavedLines(lines, o.host, c.key, o.hash)
  <2>1. c.at = "save" /\ UNCHANGED <<knownHosts, serverKey, remover, dials, accepted>>
    BY <1>4 DEF SaveReads
  <2>2. CASE read.ok
    <3>1. dial'[d] = [c EXCEPT !.at = "write", !.base = lines, !.draft = out] /\ Others(d)
      BY <1>4, <2>2 DEF SaveReads, SshInv, Others
    <3>2. LinesOK(lines)
      BY DEF LoadKnownHosts, LinesOK, SshInv, KnownTypes, FileStates
    <3>3. o.host \in SshHosts /\ o.hash \in BOOLEAN /\ c.key \in HostKeys
      BY <1>0, <2>1, SshAssumption DEF DialOK, Pending
    <3> HIDE DEF c, lines
    <3>4. LinesOK(out)
      BY <3>2, <3>3, SavedAre
    <3> HIDE DEF out
    <3>5. dial'[d] = [at |-> "write", opt |-> c.opt, key |-> c.key, draft |-> out,
          base |-> lines]
      BY <1>0, <3>1 DEF DialOK
    <3>6. DialOK(dial'[d])
      BY <1>0, <3>2, <3>3, <3>4, <3>5 DEF DialOK, out
    <3> QED BY <2>1, <3>1, <3>6, DialMoves DEF SshInv
  <2>3. CASE ~read.ok
    <3>1. Goes(d, AfterFailedSave(c.opt))
      BY <1>4, <2>3 DEF SaveReads
    <3>2. AfterFailedSave(c.opt) \in {"auth", "confirm"}
      BY DEF AfterFailedSave
    <3>3. Others(d) /\ DialOK(dial'[d])
      BY <3>1, <3>2, GoesIs
    <3> QED BY <2>1, <3>3, DialMoves DEF SshInv
  <2> QED BY <2>2, <2>3
<1>5. CASE TransportFails(d) \/ SaveFails(d) \/ Authenticate(d)
  <2>1. \A o, works, aborts : AuthOutcome(o, works, aborts) \in {"failed", "connected"}
    BY DEF AuthOutcome
  <2>2. PICK to \in {"failed", "auth", "confirm", "connected"} : Ends(d, to)
    BY <1>5, <2>1 DEF TransportFails, SaveFails, Authenticate, AfterFailedSave
  <2>3. Others(d) /\ DialOK(dial'[d])
    BY <2>2, EndsIs
  <2>4. UNCHANGED <<knownHosts, serverKey, remover, dials, accepted>>
    BY <1>5 DEF TransportFails, SaveFails, Authenticate
  <2> QED BY <2>3, <2>4, DialMoves DEF SshInv
<1> QED BY <1>1, <1>2, <1>3, <1>4, <1>5

LEMMA SshSteps == SshInv /\ [SshNext]_sshVars => SshInv'
<1> SUFFICES ASSUME SshInv, [SshNext]_sshVars PROVE SshInv'
  OBVIOUS
<1>1. CASE ServerRekeyed
  <2>1. PICK h \in SshHosts, k \in HostKeys : serverKey' = [serverKey EXCEPT ![h] = k]
    BY <1>1 DEF ServerRekeyed
  <2>2. serverKey' \in [SshHosts -> HostKeys]
    BY <2>1 DEF SshInv
  <2>3. dials' \in 0..MaxDials /\ UNCHANGED <<knownHosts, dial, remover, accepted>>
    BY <1>1, SshAssumption DEF ServerRekeyed, SshInv
  <2> QED BY <2>2, <2>3 DEF SshInv, KnownTypes, KeptInv
<1>2. CASE UNCHANGED sshVars
  BY <1>2 DEF sshVars, SshInv, KnownTypes, KeptInv
<1> QED BY <1>1, <1>2, DialsKeep, SaveWritesKeeps, RemovalsKeep DEF SshNext

-----------------------------------------------------------------------------
(* Keys that are vouched for: a line that names a host names it with a key of *)
(* V, and so does a dial whose key the user accepted or the file held.        *)
Clean(lines, V) ==
  \A i \in DOMAIN lines : \A h \in SshHosts :
    Names(lines[i], h) /\ lines[i].key \in HostKeys => <<h, lines[i].key>> \in V
Relied(c) == \/ c.at \in {"save", "write", "confirm"}
             \/ c.at \in {"auth", "connected"} /\ c.opt.policy # "Off"
VouchInv ==
  /\ vouched \subseteq SshHosts \X HostKeys
  /\ Clean(knownHosts.lines, vouched) /\ Clean(remover.base, vouched)
  /\ \A d \in Dialers :
       /\ Clean(dial[d].base, vouched)
       /\ Relied(dial[d]) => <<dial[d].opt.host, dial[d].key>> \in vouched

LEMMA SavedClean ==
  ASSUME NEW lines, LinesOK(lines), NEW V, Clean(lines, V), NEW h \in SshHosts,
         NEW k \in HostKeys, NEW hash \in BOOLEAN, <<h, k>> \in V
  PROVE  Clean(SavedLines(lines, h, k, hash), V)
<1> DEFINE line == NewLine(h, k, hash)
           same == {i \in DOMAIN lines : ~lines[i].hashed /\ HostToken[h] \in lines[i].names}
           first == CHOOSE i \in same : \A j \in same : i <= j
           out == SavedLines(lines, h, k, hash)
<1>1. line \in KnownLines /\ line.names = {HostToken[h]} /\ line.key = k
  BY NewLineIs
<1>2. lines \in Seq(KnownLines) /\ Len(lines) \in Nat
  BY DEF LinesOK
<1>3. out = IF hash \/ same = {} THEN Append(lines, line) ELSE [lines EXCEPT ![first] = line]
  BY DEF SavedLines
<1>4. \A g \in SshHosts : Names(line, g) => g = h
  BY <1>1, SshAssumption DEF Names
<1> HIDE DEF line, same, first, out
<1>5. \A i \in DOMAIN out : out[i] = line \/ (i \in DOMAIN lines /\ out[i] = lines[i])
  <2>1. CASE hash \/ same = {}
    BY <1>1, <1>2, <1>3, <2>1
  <2>2. CASE ~(hash \/ same = {})
    BY <1>2, <1>3, <2>2
  <2> QED BY <2>1, <2>2
<1>6. ASSUME NEW i \in DOMAIN out, NEW g \in SshHosts, Names(out[i], g),
             out[i].key \in HostKeys
      PROVE  <<g, out[i].key>> \in V
  <2>1. CASE out[i] = line
    BY <1>1, <1>4, <1>6, <2>1
  <2>2. CASE i \in DOMAIN lines /\ out[i] = lines[i]
    BY <1>6, <2>2 DEF Clean
  <2> QED BY <1>5, <2>1, <2>2
<1> QED BY <1>6 DEF Clean, out

LEMMA RemovedClean ==
  ASSUME NEW lines, LinesOK(lines), NEW V, Clean(lines, V), NEW h \in SshHosts
  PROVE  Clean(RemovedLines(lines, h), V)
<1> DEFINE I == {i \in DOMAIN lines : ~Names(lines[i], h)}
           out == Keep(lines, I)
<1>1. lines \in Seq(KnownLines) /\ RemovedLines(lines, h) = out
  BY DEF LinesOK, RemovedLines
<1>2. I \in SUBSET (1..Len(lines)) /\ DOMAIN lines = 1..Len(lines)
  BY <1>1
<1> HIDE DEF I
<1>3. /\ out \in Seq(KnownLines) /\ Len(out) = Cardinality(I)
      /\ \A n \in 1..Cardinality(I) : \E i \in I : out[n] = lines[i]
  BY <1>1, <1>2, KeepIs
<1> HIDE DEF out
<1>4. DOMAIN out = 1..Cardinality(I)
  BY <1>3
<1>5. \A n \in DOMAIN out : \E i \in DOMAIN lines : out[n] = lines[i]
  BY <1>2, <1>3, <1>4
<1> QED BY <1>1, <1>5 DEF Clean

LEMMA CleanMore ==
  ASSUME NEW lines, NEW V, Clean(lines, V), NEW W, V \subseteq W
  PROVE  Clean(lines, W)
BY DEF Clean

LEMMA VerdictMatches ==
  ASSUME NEW lines, LinesOK(lines), NEW h \in SshHosts, NEW k \in HostKeys
  PROVE  Verdict(lines, h, k) = "Match"
           <=> \E i \in DOMAIN lines : Names(lines[i], h) /\ lines[i].key = k
<1> DEFINE seen == {l \in ToSet(lines) : Names(l, h) /\ l.key # UnparsedKey}
<1>1. Verdict(lines, h, k) = "Match" <=> \E l \in seen : l.key = k
  BY DEF Verdict
<1>2. (\E l \in seen : l.key = k) <=> \E i \in DOMAIN lines : Names(lines[i], h) /\ lines[i].key = k
  BY SshAssumption DEF ToSet
<1> QED BY <1>1, <1>2

LEMMA VouchStarts == SshInit /\ SshInv => VouchInv
<1> SUFFICES ASSUME SshInit, SshInv PROVE VouchInv
  OBVIOUS
<1>1. vouched = {p \in SshHosts \X HostKeys : Verdict(knownHosts.lines, p[1], p[2]) = "Match"}
  BY DEF SshInit
<1>2. LinesOK(knownHosts.lines)
  BY DEF SshInv, KnownTypes
<1>3. ASSUME NEW i \in DOMAIN knownHosts.lines, NEW h \in SshHosts,
             Names(knownHosts.lines[i], h), knownHosts.lines[i].key \in HostKeys
      PROVE  <<h, knownHosts.lines[i].key>> \in vouched
  <2> DEFINE k == knownHosts.lines[i].key
  <2>1. k \in HostKeys /\ \E j \in DOMAIN knownHosts.lines :
          Names(knownHosts.lines[j], h) /\ knownHosts.lines[j].key = k
    BY <1>3
  <2> HIDE DEF k
  <2>2. Verdict(knownHosts.lines, h, k) = "Match"
    BY <1>2, <2>1, VerdictMatches
  <2> QED BY <1>1, <2>1, <2>2 DEF k
<1>4. Clean(knownHosts.lines, vouched)
  BY <1>3 DEF Clean
<1>5. remover.base = <<>> /\ \A d \in Dialers : dial[d].base = <<>> /\ dial[d].at = "idle"
  BY DEF SshInit
<1>6. \A V : Clean(<<>>, V)
  BY DEF Clean
<1>7. \A d \in Dialers : Clean(dial[d].base, vouched) /\ ~Relied(dial[d])
  BY <1>5, <1>6 DEF Relied
<1> QED BY <1>1, <1>4, <1>5, <1>6, <1>7 DEF VouchInv

(* A step of one dial, by which more may be vouched for. *)
LEMMA VouchMoves ==
  ASSUME VouchInv, NEW d \in Dialers, Others(d), UNCHANGED remover,
         vouched \subseteq vouched', vouched' \subseteq SshHosts \X HostKeys,
         Clean(knownHosts'.lines, vouched'), Clean(dial'[d].base, vouched'),
         Relied(dial'[d]) => <<dial'[d].opt.host, dial'[d].key>> \in vouched'
  PROVE  VouchInv'
<1>1. ASSUME NEW e \in Dialers
      PROVE  /\ Clean(dial'[e].base, vouched')
             /\ Relied(dial'[e]) => <<dial'[e].opt.host, dial'[e].key>> \in vouched'
  <2>1. CASE e = d
    BY <2>1
  <2>2. CASE e # d
    <3>1. dial'[e] = dial[e]
      BY <2>2 DEF Others
    <3>2. Clean(dial[e].base, vouched)
          /\ (Relied(dial[e]) => <<dial[e].opt.host, dial[e].key>> \in vouched)
      BY DEF VouchInv
    <3>3. Clean(dial[e].base, vouched')
      BY <3>2, CleanMore
    <3> QED BY <3>1, <3>2, <3>3
  <2> QED BY <2>1, <2>2
<1>2. Clean(remover.base, vouched')
  BY CleanMore DEF VouchInv
<1>3. \A e \in Dialers : Relied(dial[e])' <=> Relied(dial'[e])
  BY DEF Relied
<1>4. \A lines : Clean(lines, vouched)' <=> Clean(lines, vouched')
  BY DEF Clean, Names
<1>5. /\ Clean(knownHosts.lines, vouched)' /\ Clean(remover.base, vouched)'
      /\ \A e \in Dialers : Clean(dial[e].base, vouched)'
  BY <1>1, <1>2 DEF Clean, Names
<1> QED BY <1>1, <1>3, <1>5 DEF VouchInv

LEMMA DialsVouch ==
  ASSUME SshInv, VouchInv, NEW d \in Dialers,
         \/ Dial(d) \/ TransportFails(d) \/ KeyOffered(d) \/ HostKeyAnswered(d)
         \/ SaveReads(d) \/ SaveFails(d) \/ ConfirmUnsaved(d) \/ Authenticate(d)
  PROVE  VouchInv'
<1> DEFINE c == dial[d]
<1>0. /\ DialOK(c) /\ Clean(c.base, vouched) /\ Clean(knownHosts.lines, vouched)
      /\ Relied(c) => <<c.opt.host, c.key>> \in vouched
      /\ vouched \subseteq SshHosts \X HostKeys /\ c.opt.host \in SshHosts
      /\ LinesOK(knownHosts.lines)
  BY SshAssumption DEF SshInv, VouchInv, DialOK, KnownTypes
<1>1. Clean(<<>>, vouched) /\ Others(d) /\ UNCHANGED <<knownHosts, remover>>
  <2>1. UNCHANGED <<knownHosts, remover>>
    BY DEF Dial, TransportFails, KeyOffered, HostKeyAnswered, SaveReads, SaveFails,
       ConfirmUnsaved, Authenticate
  <2>2. Others(d)
    BY DEF SshInv, Dial, TransportFails, KeyOffered, HostKeyAnswered, SaveReads, SaveFails,
       ConfirmUnsaved, Authenticate, Goes, Ends, Others
  <2> QED BY <2>1, <2>2 DEF Clean
<1>2. CASE Dial(d)
  <2>1. dial'[d].base = <<>> /\ dial'[d].at \in {"failed", "transport"} /\ vouched' = vouched
    BY <1>2 DEF Dial, SshInv
  <2>2. ~Relied(dial'[d])
    BY <2>1 DEF Relied
  <2> QED BY <1>0, <1>1, <2>1, <2>2, VouchMoves
<1>3. CASE TransportFails(d) \/ SaveFails(d) \/ Authenticate(d)
  <2>1. \A o, works, aborts : AuthOutcome(o, works, aborts) \in {"failed", "connected"}
    BY DEF AuthOutcome
  <2>2. PICK to : /\ Ends(d, to)
                  /\ \/ to = "failed"
                     \/ to \in {"auth", "confirm"} /\ c.at = "write"
                     \/ to = "connected" /\ c.at = "auth"
    BY <1>3, <2>1 DEF TransportFails, SaveFails, Authenticate, AfterFailedSave
  <2>3. dial'[d] = [c EXCEPT !.at = to, !.draft = <<>>, !.base = <<>>]
    BY <2>2 DEF Ends, SshInv
  <2>4. vouched' = vouched
    BY <1>3 DEF TransportFails, SaveFails, Authenticate
  <2> HIDE DEF c
  <2>5. /\ dial'[d].at = to /\ dial'[d].base = <<>>
        /\ dial'[d].opt = c.opt /\ dial'[d].key = c.key
    BY <1>0, <2>3 DEF DialOK
  <2>6. Relied(dial'[d]) => Relied(c)
    BY <2>2, <2>5 DEF Relied, c
  <2> QED BY <1>0, <1>1, <2>4, <2>5, <2>6, VouchMoves
<1>4. CASE KeyOffered(d)
  <2> DEFINE k == serverKey[c.opt.host]
             to == AfterReading(c.opt, k)
             read == LoadKnownHosts(c.opt.policy = "Strict")
  <2>1. k \in HostKeys
    BY <1>0 DEF SshInv
  <2>2. to \in {"auth", "failed", "prompt"}
    BY DEF AfterReading
  <2>3. dial'[d] = [c EXCEPT !.at = to, !.key = k] /\ vouched' = vouched
    BY <1>4 DEF KeyOffered, SshInv
  <2>4. read.lines = knownHosts.lines \/ read.lines = <<>>
    BY DEF LoadKnownHosts, SshInv, KnownTypes, FileStates
  <2>5. c.opt.policy # "Off" /\ to = "auth" => Verdict(read.lines, c.opt.host, k) = "Match"
    BY DEF AfterReading
  <2> HIDE DEF c, k, to, read
  <2>6. LinesOK(read.lines) /\ Clean(read.lines, vouched)
    <3>1. <<>> \in Seq(KnownLines)
      BY EmptySeq
    <3>2. CASE read.lines = <<>>
      BY <1>1, <3>1, <3>2 DEF LinesOK
    <3>3. CASE read.lines = knownHosts.lines
      BY <1>0, <3>3 DEF LinesOK
    <3> QED BY <2>4, <3>2, <3>3
  <2>7. c.opt.policy # "Off" /\ to = "auth" => <<c.opt.host, k>> \in vouched
    <3> HAVE c.opt.policy # "Off" /\ to = "auth"
    <3>1. PICK i \in DOMAIN read.lines : Names(read.lines[i], c.opt.host) /\ read.lines[i].key = k
      BY <1>0, <2>1, <2>5, <2>6, VerdictMatches
    <3> QED BY <1>0, <2>1, <2>6, <3>1 DEF Clean
  <2>8. dial'[d].at = to /\ dial'[d].base = c.base /\ dial'[d].opt = c.opt /\ dial'[d].key = k
    BY <1>0, <2>3 DEF DialOK
  <2>9. Relied(dial'[d]) => c.opt.policy # "Off" /\ to = "auth"
    BY <2>2, <2>8 DEF Relied
  <2> QED BY <1>0, <1>1, <2>3, <2>7, <2>8, <2>9, VouchMoves
<1>5. CASE HostKeyAnswered(d)
  <2>1. PICK to \in {"failed", "auth", "save"} :
          /\ Goes(d, to)
          /\ vouched' = IF to = "failed" THEN vouched ELSE vouched \cup {<<c.opt.host, c.key>>}
    BY <1>5 DEF HostKeyAnswered
  <2>2. c.key \in HostKeys
    BY <1>0, <1>5 DEF HostKeyAnswered, DialOK, Pending
  <2>3. dial'[d] = [c EXCEPT !.at = to]
    BY <2>1 DEF Goes, SshInv
  <2> HIDE DEF c
  <2>4. dial'[d].at = to /\ dial'[d].base = c.base /\ dial'[d].opt = c.opt /\ dial'[d].key = c.key
    BY <1>0, <2>3 DEF DialOK
  <2>5. vouched \subseteq vouched' /\ vouched' \subseteq SshHosts \X HostKeys
    BY <1>0, <2>1, <2>2
  <2>6. Relied(dial'[d]) => <<c.opt.host, c.key>> \in vouched'
    BY <2>1, <2>4 DEF Relied
  <2>7. Clean(knownHosts.lines, vouched') /\ Clean(c.base, vouched')
    BY <1>0, <2>5, CleanMore
  <2> QED BY <1>1, <2>4, <2>5, <2>6, <2>7, VouchMoves
<1>6. CASE ConfirmUnsaved(d)
  <2>1. PICK to \in {"failed", "auth"} : Goes(d, to)
    BY <1>6 DEF ConfirmUnsaved
  <2>2. c.at = "confirm" /\ vouched' = vouched
    BY <1>6 DEF ConfirmUnsaved
  <2>3. dial'[d] = [c EXCEPT !.at = to]
    BY <2>1 DEF Goes, SshInv
  <2> HIDE DEF c
  <2>4. dial'[d].at = to /\ dial'[d].base = c.base /\ dial'[d].opt = c.opt /\ dial'[d].key = c.key
    BY <1>0, <2>3 DEF DialOK
  <2>5. Relied(c)
    BY <2>2 DEF Relied
  <2> QED BY <1>0, <1>1, <2>2, <2>4, <2>5, VouchMoves
<1>7. CASE SaveReads(d)
  <2> DEFINE read == LoadKnownHosts(FALSE)
             out == SavedLines(read.lines, c.opt.host, c.key, c.opt.hash)
             to == AfterFailedSave(c.opt)
  <2>1. c.at = "save" /\ vouched' = vouched
    BY <1>7 DEF SaveReads
  <2>2. \/ dial'[d] = [c EXCEPT !.at = "write", !.base = read.lines, !.draft = out]
        \/ dial'[d] = [c EXCEPT !.at = to]
    BY <1>7 DEF SaveReads, Goes, SshInv
  <2>3. read.lines = knownHosts.lines \/ read.lines = <<>>
    BY DEF LoadKnownHosts, SshInv, KnownTypes, FileStates
  <2> HIDE DEF c, read, out, to
  <2>4. /\ dial'[d].base = read.lines \/ dial'[d].base = c.base
        /\ dial'[d].opt = c.opt /\ dial'[d].key = c.key
    BY <1>0, <2>2 DEF DialOK
  <2>5. Relied(c) /\ Clean(dial'[d].base, vouched)
    BY <1>0, <1>1, <2>1, <2>3, <2>4 DEF Relied
  <2> QED BY <1>0, <1>1, <2>1, <2>4, <2>5, VouchMoves
<1> QED BY <1>2, <1>3, <1>4, <1>5, <1>6, <1>7

LEMMA WritesVouch ==
  ASSUME SshInv, VouchInv, (\E d \in Dialers : SaveWrites(d)) \/ RemoveReads \/ RemoveWrites
  PROVE  VouchInv'
<1>1. ASSUME NEW d \in Dialers, SaveWrites(d) PROVE VouchInv'
  <2> DEFINE c == dial[d]
             out == SavedLines(c.base, c.opt.host, c.key, c.opt.hash)
  <2>1. /\ knownHosts' = [state |-> "present", lines |-> c.draft] /\ c.at = "write"
        /\ Ends(d, "auth") /\ remover' = remover /\ vouched' = vouched
    BY <1>1 DEF SaveWrites
  <2>2. DialOK(c) /\ Clean(c.base, vouched) /\ (Relied(c) => <<c.opt.host, c.key>> \in vouched)
    BY DEF SshInv, VouchInv
  <2>3. dial'[d] = [c EXCEPT !.at = "auth", !.draft = <<>>, !.base = <<>>] /\ Others(d)
    BY <2>1 DEF Ends, SshInv, Others
  <2> HIDE DEF c
  <2>4. Relied(c) /\ c.key \in HostKeys /\ c.opt \in DialOptions /\ LinesOK(c.base)
        /\ c.draft = out
    BY <2>1, <2>2 DEF DialOK, Pending, Relied
  <2>5. c.opt.host \in SshHosts /\ c.opt.hash \in BOOLEAN
    BY <2>4, SshAssumption
  <2>6. Clean(out, vouched)
    BY <2>2, <2>4, <2>5, SavedClean
  <2> HIDE DEF out
  <2>7. dial'[d].base = <<>> /\ dial'[d].opt = c.opt /\ dial'[d].key = c.key
    BY <2>2, <2>3 DEF DialOK
  <2>8. knownHosts'.lines = out /\ Clean(<<>>, vouched)
    BY <2>1, <2>4 DEF Clean
  <2>9. vouched \subseteq SshHosts \X HostKeys
    BY DEF VouchInv
  <2> QED BY <2>1, <2>2, <2>3, <2>4, <2>6, <2>7, <2>8, <2>9, VouchMoves
<1>2. ASSUME NEW e \in Dialers, dial' = dial, vouched' = vouched
      PROVE  /\ Clean(dial[e].base, vouched)'
             /\ Relied(dial[e])' => (<<dial[e].opt.host, dial[e].key>> \in vouched)'
  BY <1>2 DEF VouchInv, Clean, Names, Relied
<1>3. CASE RemoveReads
  <2>1. PICK h \in SshHosts :
          remover' = IF knownHosts.state = "present"
                        /\ RemovedLines(knownHosts.lines, h) # knownHosts.lines
                     THEN [at |-> "write", host |-> h, base |-> knownHosts.lines,
                           draft |-> RemovedLines(knownHosts.lines, h)]
                     ELSE remover
    BY <1>3 DEF RemoveReads
  <2>2. remover'.base = knownHosts.lines \/ remover'.base = remover.base
    BY <2>1
  <2>3. UNCHANGED <<knownHosts, dial, vouched>>
    BY <1>3 DEF RemoveReads
  <2>4. Clean(remover'.base, vouched) /\ Clean(knownHosts.lines, vouched)
    BY <2>2 DEF VouchInv
  <2>5. Clean(knownHosts.lines, vouched)' /\ Clean(remover.base, vouched)'
    BY <2>3, <2>4 DEF Clean, Names
  <2> QED BY <1>2, <2>3, <2>5 DEF VouchInv
<1>4. CASE RemoveWrites
  <2> DEFINE r == remover
             out == RemovedLines(r.base, r.host)
  <2>1. /\ knownHosts' = [state |-> "present", lines |-> r.draft] /\ r.at = "write"
        /\ remover' = [r EXCEPT !.at = "idle", !.draft = <<>>, !.base = <<>>]
        /\ UNCHANGED <<dial, vouched>>
    BY <1>4 DEF RemoveWrites
  <2>2. RemoverOK(r) /\ Clean(r.base, vouched)
    BY DEF SshInv, VouchInv
  <2> HIDE DEF r
  <2>3. r.host \in SshHosts /\ LinesOK(r.base) /\ r.draft = out /\ remover'.base = <<>>
    BY <2>1, <2>2 DEF RemoverOK
  <2>4. Clean(out, vouched) /\ Clean(<<>>, vouched)
    BY <2>2, <2>3, RemovedClean DEF Clean
  <2>5. Clean(knownHosts'.lines, vouched') /\ Clean(remover'.base, vouched')
    BY <2>1, <2>3, <2>4
  <2>6. Clean(knownHosts.lines, vouched)' /\ Clean(remover.base, vouched)'
    BY <2>5 DEF Clean, Names
  <2> QED BY <1>2, <2>1, <2>6 DEF VouchInv
<1> QED BY <1>1, <1>3, <1>4

LEMMA VouchSteps == SshInv /\ VouchInv /\ [SshNext]_sshVars => VouchInv'
<1> SUFFICES ASSUME SshInv, VouchInv, [SshNext]_sshVars PROVE VouchInv'
  OBVIOUS
<1>1. CASE ServerRekeyed \/ UNCHANGED sshVars
  <2>1. UNCHANGED <<knownHosts, dial, remover, vouched>>
    BY <1>1 DEF ServerRekeyed, sshVars
  <2> QED BY <2>1 DEF VouchInv, Clean, Names, Relied
<1> QED BY <1>1, DialsVouch, WritesVouch DEF SshNext

LEMMA SshSays == SshInv /\ VouchInv => SshTypeOK /\ AcceptedIsKnown /\ KeysAreVouchedFor
<1> SUFFICES ASSUME SshInv, VouchInv
             PROVE  SshTypeOK /\ AcceptedIsKnown /\ KeysAreVouchedFor
  OBVIOUS
<1>1. AcceptedIsKnown
  <2> SUFFICES ASSUME NEW p \in accepted PROVE Verdict(knownHosts.lines, p[1], p[2]) = "Match"
    BY DEF AcceptedIsKnown
  <2>1. p[1] \in SshHosts /\ p[2] \in HostKeys
    BY DEF SshInv, KeptInv
  <2>2. PICK i \in DOMAIN knownHosts.lines :
          knownHosts.lines[i].names = {HostToken[p[1]]} /\ knownHosts.lines[i].key = p[2]
    BY DEF SshInv, KeptInv, OwnLine
  <2>3. Names(knownHosts.lines[i], p[1]) /\ p[2] # UnparsedKey
    BY <2>1, <2>2, SshAssumption DEF Names
  <2> QED BY <2>2, <2>3 DEF Verdict, ToSet
<1>2. SshTypeOK
  <2>1. knownHosts \in [state : FileStates, lines : Seq(KnownLines)]
    BY DEF SshInv, KnownTypes, LinesOK
  <2>2. \A d \in Dialers : dial[d] \in [at : {"idle", "transport", "prompt", "save", "write",
        "confirm",
                                   "auth", "connected", "failed"},
                             opt : DialOptions, key : HostKeys \cup {UnparsedKey},
                             draft : Seq(KnownLines), base : Seq(KnownLines)]
    BY DEF SshInv, DialOK, LinesOK
  <2>3. remover \in [at : {"idle", "write"}, host : SshHosts,
                     draft : Seq(KnownLines), base : Seq(KnownLines)]
    BY DEF SshInv, RemoverOK, LinesOK
  <2>4. vouched \subseteq SshHosts \X HostKeys
    BY DEF VouchInv
  <2> QED BY <2>1, <2>2, <2>3, <2>4 DEF SshInv, KeptInv, SshTypeOK
<1>3. KeysAreVouchedFor
  <2>1. LinesOK(knownHosts.lines) /\ Clean(knownHosts.lines, vouched)
    BY DEF SshInv, KnownTypes, VouchInv
  <2>2. ASSUME NEW h \in SshHosts, NEW k \in HostKeys, Verdict(knownHosts.lines, h, k) = "Match"
        PROVE  <<h, k>> \in vouched
    <3>1. PICK i \in DOMAIN knownHosts.lines :
            Names(knownHosts.lines[i], h) /\ knownHosts.lines[i].key = k
      BY <2>1, <2>2, VerdictMatches
    <3> QED BY <2>1, <3>1 DEF Clean
  <2>3. \A d \in Dialers : dial[d].at \in {"auth", "connected"} /\ dial[d].opt.policy # "Off"
          => <<dial[d].opt.host, dial[d].key>> \in vouched
    BY DEF VouchInv, Relied
  <2> QED BY <2>2, <2>3 DEF KeysAreVouchedFor
<1> QED BY <1>1, <1>2, <1>3

(* A host key the user accepted for good is found by every later connect,   *)
(* and no session is opened over a key that was neither in the file nor     *)
(* accepted, for any number of hosts, connects, removals and keys, and      *)
(* whatever the file held to begin with.  (known_hosts.rs: save_host,       *)
(* remove_host, check_host; ssh_transport.rs: check_server_key)             *)
THEOREM AcceptedStaysKnown ==
  SshSpec => [](SshTypeOK /\ AcceptedIsKnown /\ KeysAreVouchedFor)
<1>1. SshInit => SshInv /\ VouchInv
  BY SshStarts, VouchStarts
<1>2. SshInv /\ VouchInv /\ [SshNext]_sshVars => (SshInv /\ VouchInv)'
  BY SshSteps, VouchSteps
<1> QED BY <1>1, <1>2, SshSays, PTL DEF SshSpec

-----------------------------------------------------------------------------
(* The proxy.                                                              *)
ByteKinds == {"version", "noAuth", "password", "noMethod", "strange", "welcome", "wrong",
              "granted", "rejected", "reserved", "ip4", "ip6", "name", "odd", "address",
              "length", "200", "newer200", "407", "500", "junk", "header", "blank", "banner"}
AnyByte == [is : ByteKinds, n : Nat]
BannerByte == Byte("banner", 0)

(* The replies of a proxy: one to a method, one to credentials, one that     *)
(* announces its own length, and one that ends with its only blank line.     *)
MethodReply(r) == Len(r) = 2
AuthReply(r) == Len(r) = 2
VerdictReply(r) ==
  /\ Len(r) >= 4
  /\ r[4].is # "odd" => Len(r) >= 5 /\ Len(r) = 4 + AddressBytes(r[4].is, r[5].n)
HeadReply(r) == Len(r) >= 2 /\ \A i \in 1..Len(r) : r[i].is = "blank" <=> i = Len(r)
(* What the proxy sends from a phase on: r, then the replies in rest. *)
Sends(phase, r, rest) ==
  /\ r \in Seq(AnyByte) /\ rest \in Seq(Seq(AnyByte))
  /\ phase = "method" =>
       /\ MethodReply(r) /\ rest # <<>>
       /\ r[2].is = "noAuth" => Len(rest) = 1 /\ VerdictReply(rest[1])
       /\ r[2].is = "password" => Len(rest) = 2 /\ AuthReply(rest[1]) /\ VerdictReply(rest[2])
  /\ phase = "auth" => AuthReply(r) /\ Len(rest) = 1 /\ VerdictReply(rest[1])
  /\ phase = "verdict" => VerdictReply(r) /\ rest = <<>>
  /\ phase = "head" => HeadReply(r) /\ rest = <<>>

(* The wire carries what is left of the reply r, then the target's bytes. *)
StreamOK(r) ==
  /\ Len(head) < Len(r)
  /\ IF closed THEN Len(head) + Len(wire) < Len(r)
     ELSE Len(head) + Len(wire) = Len(r) + banner
  /\ \A i \in 1..Len(wire) :
       wire[i] = IF i + Len(head) <= Len(r) THEN r[i + Len(head)] ELSE BannerByte
Stages == {"method", "auth", "verdict", "head"}
BannerOnly == Len(wire) = banner /\ \A i \in 1..Len(wire) : wire[i] = BannerByte
DialTypes ==
  /\ dialling \in [by: Dials, kind: {"socks5", "http"}, creds: BOOLEAN]
  /\ awaited \in Stages \cup DialEnded
  /\ head \in Seq(AnyByte) /\ wire \in Seq(AnyByte) /\ script \in Seq(Seq(AnyByte))
  /\ owed \in BOOLEAN /\ closed \in BOOLEAN /\ banner \in 0..BannerLength
  /\ Len(head) <= HeadLimit + 1
DialInv ==
  /\ DialTypes
  /\ script # <<>> => banner = 0
  /\ awaited \in Stages \ {"head"} => head = <<>>
  /\ awaited = "head" => Len(head) <= HeadLimit
  /\ awaited \in Stages /\ owed =>
       /\ wire = <<>> /\ head = <<>> /\ ~closed /\ banner = 0
       /\ script # <<>> /\ Sends(awaited, Head(script), Tail(script))
  /\ awaited \in Stages /\ ~owed =>
       \E r \in Seq(AnyByte) : Sends(awaited, r, script) /\ StreamOK(r)
  /\ awaited = "open" => BannerOnly

-----------------------------------------------------------------------------
(* What a proxy may send. *)
LEMMA ByteIs ==
  ASSUME NEW is \in ByteKinds, NEW n \in Nat
  PROVE  Byte(is, n) \in AnyByte /\ Byte(is, n).is = is /\ Byte(is, n).n = n
BY DEF Byte, AnyByte

LEMMA Joined ==
  ASSUME NEW T, NEW s \in Seq(T), NEW u \in Seq(T)
  PROVE  /\ s \o u \in Seq(T) /\ Len(s \o u) = Len(s) + Len(u)
         /\ \A i \in 1..Len(s) : (s \o u)[i] = s[i]
         /\ \A i \in 1..Len(u) : (s \o u)[Len(s) + i] = u[i]
<1> DEFINE w == s \o u
           n == Len(s)
           m == Len(u)
<1>1. /\ w \in Seq(T) /\ Len(w) = n + m
      /\ \A i \in 1..(n + m) : w[i] = IF i <= n THEN s[i] ELSE u[i - n]
  BY ConcatProperties
<1>2. n \in Nat /\ m \in Nat
  OBVIOUS
<1> HIDE DEF w, n, m
<1>3. \A i \in 1..n : w[i] = s[i]
  BY <1>1, <1>2
<1>4. \A i \in 1..m : w[n + i] = u[i]
  <2> SUFFICES ASSUME NEW i \in 1..m PROVE w[n + i] = u[i]
    OBVIOUS
  <2>1. n + i \in 1..(n + m) /\ ~(n + i <= n) /\ (n + i) - n = i
    BY <1>2
  <2> QED BY <1>1, <2>1
<1> QED BY <1>1, <1>3, <1>4 DEF w, n, m

LEMMA BytesAre ==
  ASSUME NEW is \in ByteKinds, NEW n \in Nat
  PROVE  Bytes(is, n) \in Seq(AnyByte) /\ Len(Bytes(is, n)) = n
         /\ \A i \in 1..n : Bytes(is, n)[i] = Byte(is, 0)
<1> DEFINE b == Byte(is, 0)
<1>1. b \in AnyByte
  BY ByteIs DEF ByteKinds
<1>2. Bytes(is, n) = [i \in 1..n |-> b]
  BY DEF Bytes
<1> HIDE DEF b
<1> QED BY <1>1, <1>2 DEF b

LEMMA AddressIs ==
  ASSUME NEW t \in {"ip4", "ip6", "name", "odd"}
  PROVE  /\ Address(t) \in Seq(AnyByte)
         /\ t = "odd" => Len(Address(t)) = 0
         /\ t # "odd" => Len(Address(t)) >= 1
                         /\ Len(Address(t)) = AddressBytes(t, Address(t)[1].n)
<1> DEFINE two == Bytes("address", 1 + 1)
           three == Bytes("address", 2 + 1)
           len == Byte("length", 1)
           a == Address(t)
<1>1. two \in Seq(AnyByte) /\ Len(two) = 2
  <2>1. 1 + 1 \in Nat /\ 1 + 1 = 2
    OBVIOUS
  <2> QED BY <2>1, BytesAre DEF ByteKinds
<1>01. three \in Seq(AnyByte) /\ Len(three) = 3
  <2>1. 2 + 1 \in Nat /\ 2 + 1 = 3
    OBVIOUS
  <2> QED BY <2>1, BytesAre DEF ByteKinds
<1>2. len \in AnyByte /\ len.n = 1
  BY ByteIs DEF ByteKinds
<1>3. a = CASE t = "ip4" -> two [] t = "ip6" -> three
            [] t = "name" -> <<len>> \o two [] OTHER -> <<>>
  BY DEF Address
<1> HIDE DEF two, three, len, a
<1> DEFINE Good == /\ a \in Seq(AnyByte)
                   /\ t = "odd" => Len(a) = 0
                   /\ t # "odd" => Len(a) >= 1 /\ Len(a) = AddressBytes(t, a[1].n)
<1>5. t = "ip4" => Good
  BY <1>1, <1>3 DEF AddressBytes
<1>6. t = "ip6" => Good
  BY <1>01, <1>3 DEF AddressBytes
<1>7. ASSUME t = "name" PROVE Good
  <2>1. a = <<len>> \o two
    BY <1>3, <1>7
  <2>2. <<len>> \in Seq(AnyByte) /\ Len(<<len>>) = 1 /\ <<len>>[1] = len
    BY <1>2
  <2>3. a \in Seq(AnyByte) /\ Len(a) = 3 /\ a[1] = len
    <3>1. /\ a \in Seq(AnyByte) /\ Len(a) = Len(<<len>>) + Len(two)
          /\ \A i \in 1..Len(<<len>>) : a[i] = <<len>>[i]
      BY <1>1, <2>1, <2>2, Joined
    <3> QED BY <1>1, <2>2, <3>1
  <2>4. AddressBytes(t, a[1].n) = 3
    BY <1>2, <1>7, <2>3 DEF AddressBytes
  <2> QED BY <1>7, <2>3, <2>4
<1>8. t = "odd" => Good
  BY <1>3
<1>9. Good
  BY <1>5, <1>6, <1>7, <1>8
<1> QED BY <1>9 DEF a

LEMMA VerdictIs ==
  ASSUME NEW v \in {"granted", "rejected"}, NEW t \in {"ip4", "ip6", "name", "odd"},
         NEW r,
         r = <<Byte("version", 5), Byte(v, 0), Byte("reserved", 0), Byte(t, 0)>> \o Address(t)
  PROVE  r \in Seq(AnyByte) /\ VerdictReply(r)
<1> DEFINE b1 == Byte("version", 5)
           b2 == Byte(v, 0)
           b3 == Byte("reserved", 0)
           b4 == Byte(t, 0)
           a == Address(t)
           start == <<b1, b2, b3, b4>>
<1>1. b1 \in AnyByte /\ b2 \in AnyByte /\ b3 \in AnyByte
  BY ByteIs DEF ByteKinds
<1>01. b4 \in AnyByte /\ b4.is = t
  BY ByteIs DEF ByteKinds
<1>2. a \in Seq(AnyByte) /\ (t = "odd" => Len(a) = 0)
      /\ (t # "odd" => Len(a) >= 1 /\ Len(a) = AddressBytes(t, a[1].n))
  BY AddressIs
<1>3. r = start \o a
  OBVIOUS
<1> HIDE DEF b1, b2, b3, b4, a
<1>4. start \in Seq(AnyByte) /\ Len(start) = 4 /\ start[4] = b4
  BY <1>1, <1>01
<1> HIDE DEF start
<1>5. /\ r \in Seq(AnyByte) /\ Len(r) = 4 + Len(a)
      /\ \A i \in 1..4 : r[i] = start[i]
      /\ \A i \in 1..Len(a) : r[4 + i] = a[i]
  <2>1. a \in Seq(AnyByte) /\ start \in Seq(AnyByte)
    BY <1>2, <1>4
  <2>2. /\ start \o a \in Seq(AnyByte) /\ Len(start \o a) = Len(start) + Len(a)
        /\ \A i \in 1..Len(start) : (start \o a)[i] = start[i]
        /\ \A i \in 1..Len(a) : (start \o a)[Len(start) + i] = a[i]
    BY <2>1, Joined
  <2> QED BY <1>3, <1>4, <2>2
<1>6. Len(a) \in Nat /\ r[4] = b4
  BY <1>2, <1>4, <1>5
<1>7. Len(a) >= 1 => r[5] = a[1]
  <2>1. Len(a) >= 1 => 1 \in 1..Len(a) /\ 4 + 1 = 5
    BY <1>6
  <2> QED BY <1>5, <2>1
<1> QED BY <1>01, <1>2, <1>5, <1>6, <1>7 DEF VerdictReply

(* The first of several replies and the others. *)
LEMMA FirstOfTwo ==
  ASSUME NEW T, NEW x \in T, NEW y \in T
  PROVE  <<x>> \o <<y>> = <<x, y>>
<1> DEFINE a == <<x>>
           b == <<y>>
           c == <<x, y>>
           s == a \o b
<1>1. a \in Seq(T) /\ Len(a) = 1 /\ a[1] = x /\ b \in Seq(T) /\ Len(b) = 1 /\ b[1] = y
  OBVIOUS
<1>01. c \in Seq(T) /\ Len(c) = 2 /\ c[1] = x /\ c[2] = y
  OBVIOUS
<1> HIDE DEF a, b, c
<1>2. /\ s \in Seq(T) /\ Len(s) = Len(a) + Len(b)
      /\ \A i \in 1..Len(a) : s[i] = a[i]
      /\ \A i \in 1..Len(b) : s[Len(a) + i] = b[i]
  BY <1>1, Joined
<1> HIDE DEF s
<1>3. Len(s) = 2 /\ s[1] = x /\ s[2] = y
  BY <1>1, <1>2
<1>4. s = c
  <2>1. \A i \in 1..Len(s) : i = 1 \/ i = 2
    BY <1>3
  <2>2. \A i \in 1..Len(s) : s[i] = c[i]
    BY <1>01, <1>3, <2>1
  <2> QED BY <1>01, <1>2, <1>3, <2>2, SeqEqual
<1> QED BY <1>4 DEF s, a, b, c

LEMMA FirstOfThree ==
  ASSUME NEW T, NEW x \in T, NEW y \in T, NEW z \in T
  PROVE  (<<x>> \o <<y>>) \o <<z>> = <<x, y, z>>
<1> DEFINE a == <<x, y>>
           b == <<z>>
           c == <<x, y, z>>
           s == a \o b
<1>0. <<x>> \o <<y>> = a
  BY FirstOfTwo
<1>1. /\ a \in Seq(T) /\ Len(a) = 2 /\ a[1] = x /\ a[2] = y
      /\ b \in Seq(T) /\ Len(b) = 1 /\ b[1] = z
  OBVIOUS
<1>01. c \in Seq(T) /\ Len(c) = 3 /\ c[1] = x /\ c[2] = y /\ c[3] = z
  OBVIOUS
<1> HIDE DEF a, b, c
<1>2. /\ s \in Seq(T) /\ Len(s) = Len(a) + Len(b)
      /\ \A i \in 1..Len(a) : s[i] = a[i]
      /\ \A i \in 1..Len(b) : s[Len(a) + i] = b[i]
  <2>1. a \in Seq(T) /\ b \in Seq(T)
    BY <1>1
  <2> QED BY ONLY <2>1, Joined
<1> HIDE DEF s
<1>3. Len(s) = 3 /\ s[1] = x /\ s[2] = y /\ s[3] = z
  BY <1>1, <1>2
<1>4. s = c
  <2>1. \A i \in 1..Len(s) : i = 1 \/ i = 2 \/ i = 3
    BY <1>3
  <2>2. \A i \in 1..Len(s) : s[i] = c[i]
    BY <1>01, <1>3, <2>1
  <2> QED BY <1>01, <1>2, <1>3, <2>2, SeqEqual
<1> QED BY <1>0, <1>4 DEF s, b, c

LEMMA SocksIs ==
  ASSUME NEW d \in [by: Dials, kind: {"socks5", "http"}, creds: BOOLEAN],
         NEW s \in SocksScripts(d)
  PROVE  s \in Seq(Seq(AnyByte)) /\ s # <<>> /\ Sends("method", Head(s), Tail(s))
<1>2. PICK m \in Methods(d), a \in {"welcome", "wrong"}, v \in {"granted", "rejected"},
        t \in {"ip4", "ip6", "name", "odd"} : s = SocksReplies(m, a, v, t)
  BY DEF SocksScripts
<1> DEFINE x == <<Byte("version", 5), Byte(m, 0)>>
           y == <<Byte("version", 1), Byte(a, 0)>>
           z == <<Byte("version", 5), Byte(v, 0), Byte("reserved", 0),
             Byte(t, 0)>> \o Address(t)
<1>3. m \in {"noAuth", "password", "noMethod", "strange"}
  BY DEF Methods
<1>4. x \in Seq(AnyByte) /\ Len(x) = 2 /\ x[2].is = m
  <2> DEFINE b == Byte("version", 5)
             c == Byte(m, 0)
  <2>1. b \in AnyByte /\ c \in AnyByte /\ c.is = m
    BY <1>3, ByteIs DEF ByteKinds
  <2> HIDE DEF b, c
  <2>2. <<b, c>> \in Seq(AnyByte) /\ Len(<<b, c>>) = 2 /\ <<b, c>>[2].is = m
    BY <2>1
  <2> QED BY <2>2 DEF b, c
<1>5. y \in Seq(AnyByte) /\ Len(y) = 2
  <2> DEFINE b == Byte("version", 1)
             c == Byte(a, 0)
  <2>1. b \in AnyByte /\ c \in AnyByte
    BY ByteIs DEF ByteKinds
  <2> HIDE DEF b, c
  <2>2. <<b, c>> \in Seq(AnyByte) /\ Len(<<b, c>>) = 2
    BY <2>1
  <2> QED BY <2>2 DEF b, c
<1>6. z \in Seq(AnyByte) /\ VerdictReply(z)
  BY VerdictIs
<1>7. s = (<<x>> \o (IF m = "password" THEN <<y>> ELSE <<>>)) \o <<z>>
  BY <1>2 DEF SocksReplies
<1>8. /\ x \in Seq(AnyByte) /\ y \in Seq(AnyByte) /\ z \in Seq(AnyByte)
      /\ Len(x) = 2 /\ x[2].is = m /\ Len(y) = 2 /\ VerdictReply(z)
  BY <1>4, <1>5, <1>6
<1> HIDE DEF x, y, z
<1>9. CASE m = "password"
  <2>0. s = (<<x>> \o <<y>>) \o <<z>>
    BY <1>7, <1>9
  <2>01. (<<x>> \o <<y>>) \o <<z>> = <<x, y, z>>
    BY <1>8, FirstOfThree
  <2>1. s = <<x, y, z>>
    BY <2>0, <2>01
  <2>2. Head(s) = x /\ Tail(s) = <<y, z>> /\ s \in Seq(Seq(AnyByte)) /\ s # <<>>
    BY <1>8, <2>1
  <2> DEFINE u == <<y, z>>
  <2>3. u \in Seq(Seq(AnyByte)) /\ Len(u) = 2 /\ u[1] = y /\ u[2] = z /\ u # <<>>
    BY <1>8
  <2> HIDE DEF u
  <2>4. Sends("method", x, u)
    BY <1>8, <1>9, <2>3 DEF Sends, MethodReply, AuthReply
  <2> QED BY <2>2, <2>4 DEF u
<1>10. CASE m # "password"
  <2>1. s = <<x, z>>
    <3>1. <<x>> \o <<>> = <<x>>
      OBVIOUS
    <3> QED BY <1>7, <1>8, <1>10, <3>1, FirstOfTwo
  <2>2. Head(s) = x /\ Tail(s) = <<z>> /\ s \in Seq(Seq(AnyByte)) /\ s # <<>>
    BY <1>8, <2>1
  <2> DEFINE u == <<z>>
  <2>3. u \in Seq(Seq(AnyByte)) /\ Len(u) = 1 /\ u[1] = z /\ u # <<>>
    BY <1>8
  <2> HIDE DEF u
  <2>4. Sends("method", x, u)
    BY <1>8, <1>10, <2>3 DEF Sends, MethodReply
  <2> QED BY <2>2, <2>4 DEF u
<1> QED BY <1>9, <1>10

LEMMA HttpIs ==
  ASSUME NEW s \in HttpScripts
  PROVE  s \in Seq(Seq(AnyByte)) /\ s # <<>> /\ Sends("head", Head(s), Tail(s))
<1>1. PICK st \in {"200", "newer200", "407", "500", "junk"}, k \in 0..HeadLimit :
        s = <<HttpReply(st, k)>>
  BY DEF HttpScripts
<1> DEFINE b == Byte(st, 0)
           h == Bytes("header", k)
           e == Byte("blank", 0)
           r == HttpReply(st, k)
<1>2. b \in AnyByte /\ b.is # "blank" /\ e \in AnyByte /\ e.is = "blank"
  <2>1. b \in AnyByte /\ b.is = st
    BY ByteIs DEF ByteKinds
  <2>2. e \in AnyByte /\ e.is = "blank"
    BY ByteIs DEF ByteKinds
  <2> HIDE DEF b, e
  <2> QED BY <2>1, <2>2
<1>3. k \in Nat /\ h \in Seq(AnyByte) /\ Len(h) = k /\ \A i \in 1..k : h[i].is # "blank"
  <2>1. k \in Nat
    BY DialAssumption
  <2>2. h \in Seq(AnyByte) /\ Len(h) = k /\ \A i \in 1..k : h[i] = Byte("header", 0)
    BY <2>1, BytesAre DEF ByteKinds
  <2>3. Byte("header", 0).is # "blank"
    BY DEF Byte
  <2> HIDE DEF h
  <2> QED BY <2>1, <2>2, <2>3
<1>03. r = (<<b>> \o h) \o <<e>>
  BY DEF HttpReply
<1> HIDE DEF b, h, e, r
<1> DEFINE f == <<b>>
           l == <<e>>
           fh == f \o h
<1>4. f \in Seq(AnyByte) /\ Len(f) = 1 /\ f[1] = b /\ l \in Seq(AnyByte) /\ Len(l) = 1
      /\ l[1] = e
  BY <1>2
<1>5. r = fh \o l
  BY <1>03
<1> HIDE DEF f, l
<1>6. /\ fh \in Seq(AnyByte) /\ Len(fh) = 1 + k
      /\ \A i \in 1..1 : fh[i] = f[i]
      /\ \A i \in 1..k : fh[1 + i] = h[i]
  <2>1. /\ fh \in Seq(AnyByte) /\ Len(fh) = Len(f) + Len(h)
        /\ \A i \in 1..Len(f) : fh[i] = f[i]
        /\ \A i \in 1..Len(h) : fh[Len(f) + i] = h[i]
    <3>1. f \in Seq(AnyByte) /\ h \in Seq(AnyByte)
      BY <1>3, <1>4
    <3> QED BY <3>1, Joined
  <2> HIDE DEF fh
  <2> QED BY <1>3, <1>4, <2>1
<1> HIDE DEF fh
<1>7. /\ r \in Seq(AnyByte) /\ Len(r) = 1 + k + 1 /\ \A i \in 1..(1 + k) : r[i] = fh[i]
      /\ r[1 + k + 1] = e
  <2>1. /\ r \in Seq(AnyByte) /\ Len(r) = Len(fh) + Len(l)
        /\ \A i \in 1..Len(fh) : r[i] = fh[i]
        /\ \A i \in 1..Len(l) : r[Len(fh) + i] = l[i]
    <3>1. fh \in Seq(AnyByte) /\ l \in Seq(AnyByte)
      BY <1>4, <1>6
    <3>2. /\ fh \o l \in Seq(AnyByte) /\ Len(fh \o l) = Len(fh) + Len(l)
          /\ \A i \in 1..Len(fh) : (fh \o l)[i] = fh[i]
          /\ \A i \in 1..Len(l) : (fh \o l)[Len(fh) + i] = l[i]
      BY <3>1, Joined
    <3> QED BY <1>5, <3>2
  <2> QED BY <1>4, <1>6, <2>1
<1>8. \A i \in 1..(1 + k) : r[i].is # "blank"
  <2> SUFFICES ASSUME NEW i \in 1..(1 + k) PROVE r[i].is # "blank"
    OBVIOUS
  <2>1. CASE i = 1
    <3>1. 1 \in 1..1 /\ 1 \in 1..(1 + k)
      BY <1>3
    <3>2. r[i] = b
      BY <1>4, <1>6, <1>7, <2>1, <3>1
    <3> QED BY <1>2, <3>2
  <2>2. CASE i # 1
    <3>1. i - 1 \in 1..k /\ 1 + (i - 1) = i
      BY <1>3, <2>2
    <3>2. r[i] = h[i - 1]
      BY <1>6, <1>7, <3>1
    <3> QED BY <1>3, <3>1, <3>2
  <2> QED BY <2>1, <2>2
<1>9. HeadReply(r)
  <2>1. Len(r) = k + 2 /\ Len(r) >= 2
    BY <1>3, <1>7
  <2>2. \A i \in 1..Len(r) : i # Len(r) => i \in 1..(1 + k)
    BY <1>3, <2>1
  <2>3. r[Len(r)].is = "blank"
    BY <1>2, <1>7
  <2> QED BY <1>8, <2>1, <2>2, <2>3 DEF HeadReply
<1>10. s = <<r>>
  BY <1>1 DEF r
<1>11. s \in Seq(Seq(AnyByte)) /\ s # <<>> /\ Head(s) = r /\ Tail(s) = <<>>
  <2>1. /\ <<r>> \in Seq(Seq(AnyByte)) /\ <<r>> # <<>> /\ Head(<<r>>) = r
        /\ Tail(<<r>>) = <<>>
    BY <1>7
  <2> QED BY <1>10, <2>1
<1>12. <<>> \in Seq(Seq(AnyByte))
  OBVIOUS
<1> QED BY <1>7, <1>9, <1>11, <1>12 DEF Sends

-----------------------------------------------------------------------------
LEMMA DialStarts == DialInit => DialInv
<1> SUFFICES ASSUME DialInit PROVE DialInv
  OBVIOUS
<1>1. script \in Seq(Seq(AnyByte)) /\ script # <<>>
      /\ Sends(awaited, Head(script), Tail(script))
      /\ awaited \in {"method", "head"}
  <2>1. CASE dialling.kind = "socks5"
    BY <2>1, SocksIs DEF DialInit
  <2>2. CASE dialling.kind # "socks5"
    BY <2>2, HttpIs DEF DialInit
  <2> QED BY <2>1, <2>2
<1>2. head = <<>> /\ wire = <<>> /\ owed = TRUE /\ closed = FALSE /\ banner = 0
      /\ dialling \in [by: Dials, kind: {"socks5", "http"}, creds: BOOLEAN]
  BY DEF DialInit
<1>3. DialTypes
  <2>1. Len(head) = 0 /\ head \in Seq(AnyByte) /\ wire \in Seq(AnyByte)
    BY <1>2
  <2>2. banner \in 0..BannerLength /\ Len(head) <= HeadLimit + 1
    BY <1>2, <2>1, DialAssumption
  <2> QED BY <1>1, <1>2, <2>1, <2>2 DEF DialTypes, Stages
<1> QED BY <1>1, <1>2, <1>3, DialAssumption DEF DialInv, DialEnded, Stages

LEMMA AnswersKeep == DialInv /\ ProxyAnswers => DialInv'
<1> SUFFICES ASSUME DialInv, ProxyAnswers PROVE DialInv'
  OBVIOUS
<1>1. /\ owed /\ ~closed /\ script # <<>> /\ awaited \notin DialEnded
      /\ script' = Tail(script) /\ owed' = FALSE
      /\ UNCHANGED <<dialling, awaited, head, banner>>
  BY DEF ProxyAnswers
<1>02. script \in Seq(Seq(AnyByte))
  BY DEF DialInv, DialTypes
<1>03. Head(script) \in Seq(AnyByte) /\ Tail(script) \in Seq(Seq(AnyByte))
  BY <1>02, <1>1, HeadTailProperties
<1>04. PICK r \in Seq(AnyByte) : r = Head(script)
  BY <1>03
<1>2. PICK cut \in 0..Len(r) : wire' = wire \o SubSeq(r, 1, cut) /\ closed' = (cut < Len(r))
  BY <1>04 DEF ProxyAnswers
<1>3. awaited \in Stages
  BY <1>1 DEF DialInv, DialTypes
<1>4. wire = <<>> /\ head = <<>> /\ banner = 0 /\ Sends(awaited, r, Tail(script))
  BY <1>04, <1>1, <1>3 DEF DialInv
<1>5. r \in Seq(AnyByte) /\ Len(r) \in Nat /\ Len(r) > 0
  <2>1. Len(r) = 2 \/ VerdictReply(r) \/ HeadReply(r)
    BY <1>3, <1>4 DEF Sends, MethodReply, AuthReply, Stages
  <2>2. Len(r) = 2 \/ Len(r) >= 4 \/ Len(r) >= 2
    BY <2>1, Zenon DEF VerdictReply, HeadReply
  <2> DEFINE n == Len(r)
  <2>3. n \in Nat /\ (n = 2 \/ n >= 4 \/ n >= 2)
    BY <2>2
  <2> HIDE DEF n
  <2>4. n \in Nat /\ n > 0
    BY <2>3
  <2> QED BY <2>4 DEF n
<1>6. cut \in Nat /\ cut <= Len(r)
  BY <1>2, <1>5
<1>7. /\ wire' \in Seq(AnyByte) /\ Len(wire') = cut
      /\ \A i \in 1..cut : wire'[i] = r[i]
  <2>1. SubSeq(r, 1, cut) \in Seq(AnyByte) /\ Len(SubSeq(r, 1, cut)) = cut
        /\ \A i \in 1..cut : SubSeq(r, 1, cut)[i] = r[i]
    BY <1>5, <1>6
  <2>2. wire' = SubSeq(r, 1, cut)
    BY <1>2, <1>4, <2>1
  <2> QED BY <2>1, <2>2
<1>8. Len(head') = 0 /\ banner' = 0 /\ closed' \in BOOLEAN
  BY <1>1, <1>2, <1>4
<1>9. StreamOK(r)'
  <2>1. \A i \in 1..cut : i + Len(head') = i /\ i <= Len(r)
    BY <1>5, <1>6, <1>8
  <2>2. \A i \in 1..Len(wire') :
          wire'[i] = IF i + Len(head') <= Len(r) THEN r[i + Len(head')] ELSE BannerByte
    BY <1>7, <2>1
  <2>3. closed' => cut < Len(r)
    BY <1>2
  <2>4. ~closed' => cut = Len(r)
    <3>1. cut < Len(r) => closed'
      BY <1>2
    <3>2. cut < Len(r) \/ cut = Len(r)
      BY <1>5, <1>6
    <3> QED BY <3>1, <3>2
  <2>5. Len(head') + cut = cut /\ Len(r) + banner' = Len(r)
    BY <1>5, <1>6, <1>8
  <2>6. Len(head') < Len(r) /\ Len(wire') = cut
    BY <1>5, <1>7, <1>8
  <2>7. IF closed' THEN Len(head') + Len(wire') < Len(r)
        ELSE Len(head') + Len(wire') = Len(r) + banner'
    BY <2>3, <2>4, <2>5, <2>6
  <2> QED BY <2>2, <2>6, <2>7 DEF StreamOK
<1>10. DialTypes'
  <2>1. script' \in Seq(Seq(AnyByte))
    BY <1>03, <1>1
  <2> QED BY <1>1, <1>7, <1>8, <2>1 DEF DialInv, DialTypes
<1>11. Sends(awaited, r, script)'
  BY <1>1, <1>4
<1>12. awaited' # "open" /\ ~owed' /\ head' = <<>>
  BY <1>1, <1>4 DEF DialEnded
<1> QED BY <1>3, <1>5, <1>8, <1>9, <1>10, <1>11, <1>12, DialAssumption DEF DialInv

LEMMA BannerKeeps == DialInv /\ TargetSpeaks => DialInv'
<1> SUFFICES ASSUME DialInv, TargetSpeaks PROVE DialInv'
  OBVIOUS
<1>1. /\ script = <<>> /\ ~closed /\ banner < BannerLength
      /\ banner' = banner + 1
      /\ wire' = Append(wire, Byte("banner", 0))
      /\ UNCHANGED <<dialling, awaited, owed, head, closed, script>>
  BY DEF TargetSpeaks
<1>2. wire \in Seq(AnyByte) /\ head \in Seq(AnyByte) /\ banner \in Nat
      /\ banner' \in 0..BannerLength /\ Len(wire) \in Nat /\ Len(head) \in Nat
  BY <1>1, DialAssumption DEF DialInv, DialTypes
<1>3. /\ wire' \in Seq(AnyByte) /\ Len(wire') = Len(wire) + 1
      /\ wire'[Len(wire) + 1] = BannerByte
      /\ \A i \in 1..Len(wire) : wire'[i] = wire[i]
  <2>1. BannerByte \in AnyByte
    BY ByteIs DEF ByteKinds, BannerByte
  <2> QED BY <1>1, <1>2, <2>1 DEF BannerByte
<1>4. DialTypes'
  BY <1>1, <1>2, <1>3 DEF DialInv, DialTypes
<1>5. awaited \in Stages => ~owed
  BY <1>1 DEF DialInv
<1>6. ASSUME NEW r \in Seq(AnyByte), StreamOK(r) PROVE StreamOK(r)'
  <2>1. Len(r) \in Nat /\ Len(head) < Len(r) /\ Len(head) + Len(wire) = Len(r) + banner
        /\ \A i \in 1..Len(wire) :
             wire[i] = IF i + Len(head) <= Len(r) THEN r[i + Len(head)] ELSE BannerByte
    BY <1>1, <1>6 DEF StreamOK
  <2>02. Len(head') = Len(head) /\ banner' = banner + 1 /\ Len(wire') = Len(wire) + 1
    BY <1>1, <1>3
  <2>2. Len(wire) + 1 + Len(head) > Len(r) /\ Len(head') + Len(wire') = Len(r) + banner'
    <3>1. Len(r) \in Nat /\ Len(head) + Len(wire) = Len(r) + banner
      BY <2>1
    <3>2. Len(head) \in Nat /\ Len(wire) \in Nat /\ banner \in Nat
      BY <1>2
    <3> QED BY <2>02, <3>1, <3>2
  <2>3. \A i \in 1..Len(wire') :
             wire'[i] = IF i + Len(head) <= Len(r) THEN r[i + Len(head)] ELSE BannerByte
    <3> SUFFICES ASSUME NEW i \in 1..Len(wire')
                 PROVE wire'[i] = IF i + Len(head) <= Len(r) THEN r[i + Len(head)]
                   ELSE BannerByte
      OBVIOUS
    <3>1. i \in 1..Len(wire) \/ i = Len(wire) + 1
      BY <1>2, <1>3
    <3>2. ~(Len(wire) + 1 + Len(head) <= Len(r))
      BY <1>2, <2>1, <2>2
    <3> QED BY <1>3, <2>1, <3>1, <3>2
  <2> QED BY <1>1, <2>1, <2>2, <2>3 DEF StreamOK
<1>7. awaited \in Stages /\ ~owed =>
        \E r \in Seq(AnyByte) : (Sends(awaited, r, script) /\ StreamOK(r))'
  <2> SUFFICES ASSUME awaited \in Stages, ~owed
               PROVE \E r \in Seq(AnyByte) : (Sends(awaited, r, script) /\ StreamOK(r))'
    OBVIOUS
  <2>1. PICK r \in Seq(AnyByte) : Sends(awaited, r, script) /\ StreamOK(r)
    BY DEF DialInv
  <2>2. Sends(awaited, r, script)' /\ StreamOK(r)'
    BY <1>1, <1>6, <2>1
  <2> QED BY <2>2
<1>8. BannerOnly => BannerOnly'
  BY <1>1, <1>2, <1>3 DEF BannerOnly
<1> QED BY <1>1, <1>4, <1>5, <1>7, <1>8 DEF DialInv

-----------------------------------------------------------------------------
(* A dial that ends without opening keeps what it must. *)
LEMMA EndsKeep ==
  ASSUME DialInv, NEW next \in DialEnded \ {"open"}, GoesTo(next), wire' \in Seq(AnyByte)
  PROVE  DialInv'
<1>1. awaited' = next /\ owed' = FALSE /\ UNCHANGED <<dialling, head, closed, script, banner>>
  BY DEF GoesTo
<1>2. awaited' \notin Stages /\ awaited' # "head" /\ awaited' # "open" /\ awaited' \in DialEnded
  BY <1>1 DEF DialEnded, Stages
<1>3. DialTypes'
  BY <1>1, <1>2 DEF DialInv, DialTypes
<1> QED BY <1>1, <1>2, <1>3 DEF DialInv

LEMMA WireRest ==
  ASSUME DialInv, NEW count \in Nat, Take(count)
  PROVE  /\ wire' \in Seq(AnyByte) /\ Len(wire') = Len(wire) - count /\ Len(wire) \in Nat
         /\ Len(wire) >= count
         /\ \A i \in 1..(Len(wire) - count) : wire'[i] = wire[i + count]
<1>1. wire \in Seq(AnyByte) /\ Len(wire) \in Nat
  BY DEF DialInv, DialTypes
<1>2. Len(wire) >= count /\ wire' = SubSeq(wire, count + 1, Len(wire))
  BY DEF Take
<1> QED BY <1>1, <1>2

(* A reply that is followed by others is read to its end. *)
LEMMA ReadsReply ==
  ASSUME DialInv, awaited \in {"method", "auth"}, Take(2)
  PROVE  /\ ~owed /\ wire' = <<>> /\ head = <<>> /\ ~closed /\ banner = 0
         /\ \E r \in Seq(AnyByte) : Sends(awaited, r, script) /\ r[2] = wire[2] /\ script # <<>>
<1>1. wire' \in Seq(AnyByte) /\ Len(wire') = Len(wire) - 2 /\ Len(wire) \in Nat
      /\ Len(wire) >= 2
  BY WireRest
<1>2. awaited \in Stages /\ head = <<>> /\ wire # <<>>
  <2>1. awaited \in Stages \ {"head"}
    BY DEF Stages
  <2> QED BY <1>1, <2>1 DEF DialInv
<1>3. ~owed
  BY <1>2 DEF DialInv
<1>4. PICK r \in Seq(AnyByte) : Sends(awaited, r, script) /\ StreamOK(r)
  BY <1>2, <1>3 DEF DialInv
<1>5. Len(r) = 2 /\ script # <<>>
  BY <1>4 DEF Sends, MethodReply, AuthReply
<1>6. banner = 0
  BY <1>5 DEF DialInv
<1>7. Len(head) = 0
  BY <1>2
<1>8. ~closed /\ Len(wire) = 2 /\ wire[2] = r[2]
  BY <1>1, <1>4, <1>5, <1>6, <1>7 DEF StreamOK
<1>9. wire' = <<>>
  BY <1>1, <1>8
<1> QED BY <1>2, <1>3, <1>4, <1>5, <1>6, <1>8, <1>9

LEMMA MethodKeeps == DialInv /\ (ReadMethod \/ ReadAuth) => DialInv'
<1> SUFFICES ASSUME DialInv, ReadMethod \/ ReadAuth PROVE DialInv'
  OBVIOUS
<1>1. awaited \in {"method", "auth"} /\ Take(2)
  BY DEF ReadMethod, ReadAuth
<1>2. /\ ~owed /\ wire' = <<>> /\ head = <<>> /\ ~closed /\ banner = 0
      /\ \E r \in Seq(AnyByte) : Sends(awaited, r, script) /\ r[2] = wire[2] /\ script # <<>>
  BY <1>1, ReadsReply
<1>3. PICK r \in Seq(AnyByte) : Sends(awaited, r, script) /\ r[2] = wire[2] /\ script # <<>>
  BY <1>2
<1>4. wire' \in Seq(AnyByte)
  BY <1>2
<1>5. \/ \E next \in {"denied", "invalid"} : GoesTo(next)
      \/ GoesTo("verdict") /\ (awaited = "auth" \/ wire[2].is = "noAuth")
      \/ GoesTo("auth") /\ awaited = "method" /\ wire[2].is = "password"
  BY <1>1 DEF ReadMethod, ReadAuth
<1>6. CASE \E next \in {"denied", "invalid"} : GoesTo(next)
  BY <1>4, <1>6, EndsKeep DEF DialEnded
<1>7. ASSUME NEW next \in {"verdict", "auth"}, GoesTo(next),
             next = "verdict" => awaited = "auth" \/ wire[2].is = "noAuth",
             next = "auth" => awaited = "method" /\ wire[2].is = "password"
      PROVE  DialInv'
  <2>1. awaited' = next /\ owed' = TRUE /\ UNCHANGED <<dialling, head, closed, script, banner>>
    BY <1>7 DEF GoesTo, DialEnded
  <2>2. script \in Seq(Seq(AnyByte)) /\ script # <<>>
    BY <1>3 DEF Sends
  <2>3. Head(script) = script[1] /\ Len(Tail(script)) = Len(script) - 1 /\ Len(script) \in Nat
        /\ Tail(script) \in Seq(Seq(AnyByte)) /\ script[1] \in Seq(AnyByte)
        /\ (Len(script) = 2 => Tail(script)[1] = script[2])
    BY <2>2
  <2>4. next = "verdict" => Len(script) = 1 /\ VerdictReply(script[1])
    BY <1>1, <1>3, <1>7 DEF Sends
  <2>5. next = "auth" => Len(script) = 2 /\ AuthReply(script[1]) /\ VerdictReply(script[2])
    BY <1>3, <1>7 DEF Sends
  <2>6. Sends(next, Head(script), Tail(script))
    <3>1. CASE next = "verdict"
      <4>1. Tail(script) = <<>>
        <5>1. Len(Tail(script)) = Len(script) - 1 /\ Len(script) = 1
          BY <2>3, <2>4, <3>1
        <5>2. Len(Tail(script)) = 0
          BY <5>1
        <5> QED BY <2>3, <5>2, EmptySeq
      <4> QED BY <2>3, <2>4, <3>1, <4>1 DEF Sends
    <3>2. CASE next = "auth"
      <4>0. Len(Tail(script)) = Len(script) - 1 /\ Len(script) = 2
        BY <2>3, <2>5, <3>2
      <4>2. Len(Tail(script)) = 1
        BY <4>0
      <4>3. Tail(script)[1] = script[2] /\ VerdictReply(script[2])
        BY <2>3, <2>5, <3>2, <4>0, Zenon
      <4>1. Len(Tail(script)) = 1 /\ VerdictReply(Tail(script)[1])
        BY <4>2, <4>3
      <4> QED BY <2>3, <2>5, <3>2, <4>1 DEF Sends
    <3> QED BY <3>1, <3>2
  <2>7. DialTypes'
    BY <1>4, <2>1 DEF DialInv, DialTypes, Stages
  <2>8. next # "head" /\ next # "open"
    OBVIOUS
  <2> QED BY <1>2, <2>1, <2>2, <2>6, <2>7, <2>8 DEF DialInv
<1> QED BY <1>1, <1>5, <1>6, <1>7

LEMMA VerdictKeeps == DialInv /\ ReadVerdict => DialInv'
<1> SUFFICES ASSUME DialInv, ReadVerdict PROVE DialInv'
  OBVIOUS
<1>1. awaited = "verdict" /\ Len(wire) >= 4
  BY DEF ReadVerdict
<1>2. CASE \E next \in {"refused", "invalid"} : Take(4) /\ GoesTo(next)
  <2>1. wire' \in Seq(AnyByte)
    BY <1>2, WireRest
  <2> QED BY <1>2, <2>1, EndsKeep DEF DialEnded
<1>3. CASE /\ wire[4].is # "odd" /\ Len(wire) >= 5
           /\ Take(4 + AddressBytes(wire[4].is, wire[5].n)) /\ GoesTo("open")
  <2> DEFINE count == 4 + AddressBytes(wire[4].is, wire[5].n)
  <2>1. wire \in Seq(AnyByte) /\ Len(wire) \in Nat /\ banner \in Nat /\ wire # <<>>
        /\ wire[5] \in AnyByte
    BY <1>1, <1>3, DialAssumption DEF DialInv, DialTypes
  <2>2. count \in Nat
    BY <2>1 DEF AnyByte, AddressBytes
  <2>3. awaited \in Stages /\ head = <<>> /\ ~owed
    <3>1. awaited \in Stages \ {"head"}
      BY <1>1 DEF Stages
    <3> QED BY <2>1, <3>1 DEF DialInv
  <2>4. PICK r \in Seq(AnyByte) : Sends(awaited, r, script) /\ StreamOK(r)
    BY <2>3 DEF DialInv
  <2>5. Len(head) = 0 /\ Len(r) \in Nat /\ VerdictReply(r)
    BY <1>1, <2>3, <2>4 DEF Sends
  <2>6. Len(r) >= 4 /\ wire[4] = r[4]
    BY <1>1, <2>1, <2>4, <2>5 DEF StreamOK, VerdictReply
  <2>7. Len(r) >= 5 /\ wire[5] = r[5] /\ count = Len(r)
    <3>1. Len(r) >= 5 /\ Len(r) = 4 + AddressBytes(r[4].is, r[5].n)
      BY <1>3, <2>5, <2>6 DEF VerdictReply
    <3>2. wire[5] = r[5]
      BY <1>3, <2>1, <2>4, <2>5, <3>1 DEF StreamOK
    <3> QED BY <2>6, <3>1, <3>2
  <2>8. Take(count) /\ GoesTo("open")
    BY <1>3
  <2> HIDE DEF count
  <2>9. /\ wire' \in Seq(AnyByte) /\ Len(wire') = Len(wire) - count /\ Len(wire) >= count
        /\ \A i \in 1..(Len(wire) - count) : wire'[i] = wire[i + count]
    BY <2>2, <2>8, WireRest
  <2>10. ~closed /\ Len(wire) = Len(r) + banner
    BY <2>1, <2>4, <2>5, <2>7, <2>9 DEF StreamOK
  <2>11. \A i \in 1..banner : wire'[i] = BannerByte
    <3> SUFFICES ASSUME NEW i \in 1..banner PROVE wire'[i] = BannerByte
      OBVIOUS
    <3>1. i \in 1..(Len(wire) - count) /\ i + count \in 1..Len(wire)
          /\ ~(i + count + Len(head) <= Len(r))
      BY <2>1, <2>5, <2>7, <2>10
    <3>2. wire[i + count] = BannerByte
      BY <2>4, <3>1 DEF StreamOK
    <3> QED BY <2>9, <3>1, <3>2
  <2>12. Len(wire') = banner
    BY <2>1, <2>5, <2>7, <2>9, <2>10
  <2>13. awaited' = "open" /\ owed' = FALSE
         /\ UNCHANGED <<dialling, head, closed, script, banner>>
    BY <2>8 DEF GoesTo, DialEnded
  <2>14. BannerOnly'
    BY <2>11, <2>12, <2>13 DEF BannerOnly
  <2>15. awaited' \notin Stages /\ awaited' \in DialEnded /\ awaited' # "head"
    BY <2>13 DEF Stages, DialEnded
  <2>16. DialTypes'
    BY <2>9, <2>13, <2>15 DEF DialInv, DialTypes
  <2> QED BY <2>13, <2>14, <2>15, <2>16 DEF DialInv
<1> QED BY <1>2, <1>3 DEF ReadVerdict

LEMMA HeadKeeps == DialInv /\ ReadHeadByte => DialInv'
<1> SUFFICES ASSUME DialInv, ReadHeadByte PROVE DialInv'
  OBVIOUS
<1>1. awaited = "head" /\ Take(1) /\ head' = Append(head, wire[1])
      /\ UNCHANGED <<dialling, owed, closed, script, banner>>
  BY DEF ReadHeadByte
<1>2. /\ wire' \in Seq(AnyByte) /\ Len(wire') = Len(wire) - 1 /\ Len(wire) \in Nat
      /\ Len(wire) >= 1
      /\ \A i \in 1..(Len(wire) - 1) : wire'[i] = wire[i + 1]
  BY <1>1, WireRest
<1>3. wire \in Seq(AnyByte) /\ head \in Seq(AnyByte) /\ Len(head) \in Nat /\ banner \in Nat
      /\ wire[1] \in AnyByte /\ wire # <<>> /\ Len(head) <= HeadLimit
  BY <1>1, <1>2, DialAssumption DEF DialInv, DialTypes
<1>4. head' \in Seq(AnyByte) /\ Len(head') = Len(head) + 1
  BY <1>1, <1>3
<1>5. awaited \in Stages /\ ~owed
  BY <1>1, <1>3 DEF DialInv, Stages
<1>6. PICK r \in Seq(AnyByte) : Sends(awaited, r, script) /\ StreamOK(r)
  BY <1>5 DEF DialInv
<1>7. Len(r) \in Nat /\ HeadReply(r) /\ Len(head) < Len(r) /\ r[Len(r)] \in AnyByte
  BY <1>1, <1>3, <1>6 DEF StreamOK, Sends
<1>8. wire[1] = r[1 + Len(head)]
  BY <1>2, <1>3, <1>6, <1>7 DEF StreamOK
<1>9. \A i \in 1..Len(wire') :
        wire'[i] = IF i + Len(head') <= Len(r) THEN r[i + Len(head')] ELSE BannerByte
  <2> SUFFICES ASSUME NEW i \in 1..Len(wire')
      PROVE wire'[i] = IF i + Len(head') <= Len(r) THEN r[i + Len(head')] ELSE BannerByte
    OBVIOUS
  <2>1. i \in 1..(Len(wire) - 1) /\ i + 1 \in 1..Len(wire)
        /\ (i + 1) + Len(head) = i + Len(head')
    BY <1>2, <1>3, <1>4
  <2>2. wire[i + 1] = IF (i + 1) + Len(head) <= Len(r) THEN r[(i + 1) + Len(head)]
        ELSE BannerByte
    BY <1>6, <2>1 DEF StreamOK
  <2> QED BY <1>2, <2>1, <2>2
<1>10. IF closed' THEN Len(head') + Len(wire') < Len(r)
       ELSE Len(head') + Len(wire') = Len(r) + banner'
  <2>1. closed' = closed /\ banner' = banner
    BY <1>1
  <2>2. Len(head') + Len(wire') = Len(head) + Len(wire)
    BY <1>2, <1>3, <1>4
  <2>3. IF closed THEN Len(head) + Len(wire) < Len(r)
        ELSE Len(head) + Len(wire) = Len(r) + banner
    BY <1>6 DEF StreamOK
  <2> QED BY <2>1, <2>2, <2>3
<1>11. CASE wire[1].is = "blank"
  <2>1. Len(head') = Len(r)
    BY <1>3, <1>4, <1>7, <1>8, <1>11 DEF HeadReply
  <2>2. ~closed' /\ Len(wire') = banner'
    BY <1>1, <1>2, <1>3, <1>7, <1>10, <2>1
  <2>3. \A i \in 1..Len(wire') : ~(i + Len(head') <= Len(r))
    BY <1>2, <1>7, <2>1
  <2>4. BannerOnly'
    BY <1>9, <2>2, <2>3 DEF BannerOnly
  <2>5. awaited' \in {"open", "denied", "invalid", "refused"}
    BY <1>11 DEF ReadHeadByte, HeadVerdict
  <2>6. awaited' \notin Stages /\ awaited' \in DialEnded /\ awaited' # "head"
    BY <2>5 DEF Stages, DialEnded
  <2>7. DialTypes'
    BY <1>1, <1>2, <1>3, <1>4, <2>6, DialAssumption DEF DialInv, DialTypes
  <2> QED BY <1>1, <2>4, <2>6, <2>7 DEF DialInv
<1>12. CASE wire[1].is # "blank" /\ HeadTooLong(Len(head'))
  <2>1. awaited' = "invalid"
    BY <1>12 DEF ReadHeadByte
  <2>2. awaited' \notin Stages /\ awaited' \in DialEnded /\ awaited' # "head"
        /\ awaited' # "open"
    BY <2>1 DEF Stages, DialEnded
  <2>3. DialTypes'
    BY <1>1, <1>2, <1>3, <1>4, <2>2, DialAssumption DEF DialInv, DialTypes
  <2> QED BY <1>1, <2>2, <2>3 DEF DialInv
<1>13. CASE wire[1].is # "blank" /\ ~HeadTooLong(Len(head'))
  <2>1. awaited' = "head" /\ awaited' \in Stages
    BY <1>13 DEF ReadHeadByte, Stages
  <2>2. Len(head') <= HeadLimit
    BY <1>3, <1>4, <1>13, DialAssumption DEF HeadTooLong
  <2>3. Len(head') < Len(r)
    <3>1. Len(head') # Len(r)
      <4> SUFFICES ASSUME Len(head') = Len(r) PROVE FALSE
        OBVIOUS
      <4>1. wire[1] = r[Len(r)]
        BY <1>3, <1>4, <1>8
      <4>2. r[Len(r)].is = "blank"
        BY <1>1, <1>6, <1>7 DEF Sends, HeadReply
      <4> QED BY <1>13, <4>1, <4>2
    <3> QED BY <1>3, <1>4, <1>7, <3>1
  <2>4. StreamOK(r)'
    BY <1>9, <1>10, <2>3 DEF StreamOK
  <2>5. Sends(awaited, r, script)'
    BY <1>1, <1>6, <2>1
  <2>6. DialTypes'
    BY <1>1, <1>2, <1>3, <1>4, <2>1, <2>2, DialAssumption DEF DialInv, DialTypes
  <2> QED BY <1>1, <1>5, <2>1, <2>2, <2>4, <2>5, <2>6 DEF DialInv, DialEnded, Stages
<1> QED BY <1>11, <1>12, <1>13

LEMMA DialKeeps == DialInv /\ [DialNext]_proxyVars => DialInv'
<1> SUFFICES ASSUME DialInv, [DialNext]_proxyVars PROVE DialInv'
  OBVIOUS
<1>1. CASE ProxyGone
  <2>1. wire' \in Seq(AnyByte) /\ GoesTo("eof")
    BY <1>1 DEF ProxyGone
  <2> QED BY <2>1, EndsKeep DEF DialEnded
<1>2. CASE DialTimesOut
  <2>1. wire' \in Seq(AnyByte) /\ GoesTo("timeout")
    BY <1>2 DEF DialTimesOut, DialInv, DialTypes
  <2> QED BY <2>1, EndsKeep DEF DialEnded
<1>3. CASE UNCHANGED proxyVars
  BY <1>3 DEF proxyVars, DialInv, DialTypes, BannerOnly, StreamOK
<1> QED BY <1>1, <1>2, <1>3, AnswersKeep, BannerKeeps, MethodKeeps, VerdictKeeps, HeadKeeps
        DEF DialNext, DialReads

LEMMA DialSays == DialInv => DialTypeOK /\ TunnelIsClean
<1> SUFFICES ASSUME DialInv PROVE DialTypeOK /\ TunnelIsClean
  OBVIOUS
<1>1. DialTypeOK
  BY DialAssumption DEF DialInv, DialTypes, DialTypeOK, Stages
<1>2. ASSUME awaited = "open" PROVE wire = Bytes("banner", banner)
  <2>1. banner \in Nat /\ wire \in Seq(AnyByte)
    BY DialAssumption DEF DialInv, DialTypes
  <2>2. Bytes("banner", banner) \in Seq(AnyByte) /\ Len(Bytes("banner", banner)) = banner
        /\ \A i \in 1..banner : Bytes("banner", banner)[i] = BannerByte
    BY <2>1, BytesAre DEF ByteKinds, BannerByte
  <2>3. Len(wire) = banner /\ \A i \in 1..banner : wire[i] = BannerByte
    BY <1>2 DEF DialInv, BannerOnly
  <2> DEFINE b == Bytes("banner", banner)
  <2> HIDE DEF b
  <2>4. wire = b
    BY <2>1, <2>2, <2>3 DEF b
  <2> QED BY <2>4 DEF b
<1> QED BY <1>1, <1>2 DEF TunnelIsClean

(* When a tunnel opens, the bytes of the peer are left on the wire and none *)
(* of the proxy's, for every reply a proxy may send and both ways the code  *)
(* dials.  (proxy.rs: connect_via_proxy; ftp.rs: socks5_connect,            *)
(* http_connect)                                                            *)
THEOREM TunnelsStayClean == DialSpec => [](DialTypeOK /\ TunnelIsClean)
BY DialStarts, DialKeeps, DialSays, PTL DEF DialSpec
-----------------------------------------------------------------------------
(* The saved sites.                                                        *)
RowRecs == [id : SiteIds \cup {NoId}, name : SiteNames]
ListOK(list) == list \in Seq(SiteRecords) /\ SitesApart(list)
IdsIn(list, ids) == \A i \in DOMAIN list : list[i].id \in ids \cup {NoId}
(* What the user last saved for the sites in a list is in the keyring. *)
Remembered(list, ring, saved) ==
  \A i \in DOMAIN list : list[i].id \in DOMAIN saved /\ saved[list[i].id].password # NoText =>
    ring[IdKey(list[i].id, "password")] = saved[list[i].id].password
TableOK(t) ==
  /\ t = [rows |-> t.rows, row |-> t.row, ascending |-> t.ascending]
  /\ t.rows \in Seq(RowRecs) /\ t.row \in 0..Len(t.rows) /\ t.ascending \in BOOLEAN
EditorOK(e) ==
  /\ DOMAIN e = {"open", "isAdd", "id", "name", "host", "password", "proxypass",
                 "routes", "sub", "editing", "merge"}
  /\ e.sub \in {"closed", "add", "edit"} /\ e.host \in SiteHosts \cup {NoText}
  /\ e.password \in SecretValues /\ e.proxypass \in SecretValues
SiteTypes ==
  /\ sitesFile = [torn |-> sitesFile.torn, list |-> sitesFile.list]
  /\ sitesFile.torn \in BOOLEAN /\ ListOK(sitesFile.list)
  /\ vault \in VaultType
  /\ TableOK(table) /\ EditorOK(editor)
  /\ hostKeys \subseteq SiteHosts /\ minted \subseteq SiteIds /\ DOMAIN given \subseteq minted
  /\ steady \in BOOLEAN /\ steps \in 0..MaxSiteSteps
SitesInv ==
  /\ SiteTypes
  /\ IdsIn(sitesFile.list, minted)
  /\ steady => vault.up /\ Remembered(sitesFile.list, vault.ring, given)

-----------------------------------------------------------------------------
(* Keys and vaults. *)
LEMMA KeysAre ==
  /\ \A i \in SiteIds \cup {NoId}, item \in Items : IdKey(i, item) \in SiteKeys
  /\ \A n \in SiteNames, item \in Items : NameKey(n, item) \in SiteKeys
  /\ \A i, j, x, y : IdKey(i, x) = IdKey(j, y) => i = j /\ x = y
  /\ \A i, n, x, y : IdKey(i, x) # NameKey(n, y)
  /\ "password" \in Items /\ "proxypass" \in Items /\ "password" # "proxypass"
<1>1. \A i \in SiteIds \cup {NoId}, item \in Items : IdKey(i, item) \in SiteKeys
  BY DEF IdKey, SiteKeys
<1>2. \A n \in SiteNames, item \in Items : NameKey(n, item) \in SiteKeys
  BY DEF NameKey, SiteKeys
<1>3. \A i, j, x, y : IdKey(i, x) = IdKey(j, y) => i = j /\ x = y
  BY DEF IdKey
<1>4. \A i, n, x, y : IdKey(i, x) # NameKey(n, y)
  BY DEF IdKey, NameKey
<1> QED BY <1>1, <1>2, <1>3, <1>4 DEF Items

LEMMA VaultIs ==
  ASSUME NEW v \in VaultType
  PROVE  /\ v = [up |-> v.up, ring |-> v.ring, legacy |-> v.legacy, plain |-> v.plain]
         /\ v.up \in BOOLEAN /\ v.ring \in [SiteKeys -> SecretValues]
         /\ v.legacy \in [SiteKeys -> SecretValues] /\ v.plain \in [SiteKeys -> SecretValues]
BY DEF VaultType

LEMMA NoSecret == NoText \in SecretValues
BY DEF SecretValues, Typed

(* A vault w that has kept the state of the keyring of v, and what its ring  *)
(* holds under the keys outside ks. *)
Follows(w, v, ks) == /\ w \in VaultType /\ w.up = v.up
                     /\ \A k \in SiteKeys \ ks : w.ring[k] = v.ring[k]
(* The vault v with another ring and another fallback file. *)
Refilled(v, ring, plain) ==
  [up |-> v.up, ring |-> ring, legacy |-> v.legacy, plain |-> plain]

LEMMA RefilledIs ==
  ASSUME NEW v \in VaultType, NEW ring \in [SiteKeys -> SecretValues],
         NEW plain \in [SiteKeys -> SecretValues]
  PROVE  /\ Refilled(v, ring, plain) \in VaultType
         /\ Refilled(v, ring, plain).up = v.up /\ Refilled(v, ring, plain).ring = ring
<1>1. v.up \in BOOLEAN /\ v.legacy \in [SiteKeys -> SecretValues]
  BY VaultIs
<1> QED BY <1>1 DEF VaultType, Refilled

LEMMA SecretsAre ==
  ASSUME NEW v \in VaultType, NEW k \in SiteKeys
  PROVE  /\ PrimarySecret(v, k) \in SecretValues /\ OldSecret(v, k) \in SecretValues
         /\ GetSecret(v, k) \in SecretValues
<1>0. /\ v.up \in BOOLEAN /\ v.ring \in [SiteKeys -> SecretValues]
      /\ v.legacy \in [SiteKeys -> SecretValues] /\ v.plain \in [SiteKeys -> SecretValues]
  BY VaultIs
<1>1. v.ring[k] \in SecretValues /\ v.plain[k] \in SecretValues /\ v.legacy[k] \in SecretValues
  BY <1>0
<1>2. PrimarySecret(v, k) \in SecretValues
  BY <1>0, <1>1, NoSecret DEF PrimarySecret, PlainGet
<1>3. OldSecret(v, k) \in SecretValues
  BY <1>0, <1>1, NoSecret DEF OldSecret
<1> QED BY <1>2, <1>3 DEF GetSecret

LEMMA MigratedIs ==
  ASSUME NEW v \in VaultType, NEW keys
  PROVE  /\ Follows(Migrated(v, keys), v, SiteKeys)
         /\ v.up => \A k \in SiteKeys : v.ring[k] # NoText
            => Migrated(v, keys).ring[k] = v.ring[k]
<1> DEFINE found == {k \in keys : PrimarySecret(v, k) = NoText /\ OldSecret(v, k) # NoText}
           ring == [k \in SiteKeys |-> IF k \in found THEN v.legacy[k] ELSE v.ring[k]]
           plain == [k \in SiteKeys |-> IF k \in found THEN NoText ELSE v.plain[k]]
           w == Migrated(v, keys)
<1>0. /\ v = [up |-> v.up, ring |-> v.ring, legacy |-> v.legacy, plain |-> v.plain]
      /\ v.up \in BOOLEAN /\ v.ring \in [SiteKeys -> SecretValues]
      /\ v.legacy \in [SiteKeys -> SecretValues] /\ v.plain \in [SiteKeys -> SecretValues]
  BY VaultIs
<1>1. w = Refilled(v, ring, plain)
  <2>1. w = [v EXCEPT !.ring = ring, !.plain = plain]
    BY DEF Migrated
  <2> HIDE DEF w, ring, plain
  <2> QED BY <1>0, <2>1 DEF Refilled
<1>2. v.up => \A k \in found : v.ring[k] = NoText
  <2>1. \A k \in found : PrimarySecret(v, k) = NoText
    OBVIOUS
  <2> QED BY <1>0, <2>1 DEF PrimarySecret
<1> HIDE DEF found
<1>3. ring \in [SiteKeys -> SecretValues] /\ plain \in [SiteKeys -> SecretValues]
  <2>1. \A k \in SiteKeys : v.ring[k] \in SecretValues /\ v.legacy[k] \in SecretValues
                            /\ v.plain[k] \in SecretValues
    BY <1>0
  <2> QED BY <2>1, NoSecret
<1>4. v.up => \A k \in SiteKeys : v.ring[k] # NoText => ring[k] = v.ring[k]
  BY <1>2
<1> HIDE DEF ring, plain, w
<1>5. w \in VaultType /\ w.up = v.up /\ w.ring = ring
  BY <1>1, <1>3, RefilledIs
<1>6. Follows(w, v, SiteKeys)
  BY <1>5 DEF Follows
<1> QED BY <1>4, <1>5, <1>6 DEF w

LEMMA RemoveSecretsIs ==
  ASSUME NEW v \in VaultType, NEW keys
  PROVE  Follows(RemoveSecrets(v, keys), v, keys)
<1> DEFINE ring == [k \in SiteKeys |-> IF v.up /\ k \in keys THEN NoText ELSE v.ring[k]]
           plain == [k \in SiteKeys |-> IF k \in keys THEN NoText ELSE v.plain[k]]
           w == RemoveSecrets(v, keys)
<1>0. /\ v = [up |-> v.up, ring |-> v.ring, legacy |-> v.legacy, plain |-> v.plain]
      /\ v.up \in BOOLEAN /\ v.ring \in [SiteKeys -> SecretValues]
      /\ v.legacy \in [SiteKeys -> SecretValues] /\ v.plain \in [SiteKeys -> SecretValues]
  BY VaultIs
<1>1. w = Refilled(v, ring, plain)
  <2>1. w = [v EXCEPT !.ring = ring, !.plain = plain]
    BY <1>0 DEF RemoveSecrets
  <2> HIDE DEF w, ring, plain
  <2> QED BY <1>0, <2>1 DEF Refilled
<1>3. ring \in [SiteKeys -> SecretValues] /\ plain \in [SiteKeys -> SecretValues]
  <2>1. \A k \in SiteKeys : v.ring[k] \in SecretValues /\ v.plain[k] \in SecretValues
    BY <1>0
  <2> QED BY <2>1, NoSecret
<1>4. \A k \in SiteKeys \ keys : ring[k] = v.ring[k]
  OBVIOUS
<1> HIDE DEF ring, plain, w
<1>5. w \in VaultType /\ w.up = v.up /\ w.ring = ring
  BY <1>1, <1>3, RefilledIs
<1>6. Follows(w, v, keys)
  BY <1>4, <1>5 DEF Follows
<1> QED BY <1>6 DEF w

LEMMA SetSecretIs ==
  ASSUME NEW v \in VaultType, NEW k \in SiteKeys, NEW x \in SecretValues
  PROVE  Follows(SetSecret(v, k, x), v, {k}) /\ (v.up => SetSecret(v, k, x).ring[k] = x)
<1> DEFINE w == SetSecret(v, k, x)
           ring == [v.ring EXCEPT ![k] = x]
           plain(y) == [v.plain EXCEPT ![k] = y]
<1>0. /\ v = [up |-> v.up, ring |-> v.ring, legacy |-> v.legacy, plain |-> v.plain]
      /\ v.ring \in [SiteKeys -> SecretValues] /\ v.plain \in [SiteKeys -> SecretValues]
  BY VaultIs
<1>1. /\ ring \in [SiteKeys -> SecretValues] /\ ring[k] = x
      /\ \A j \in SiteKeys \ {k} : ring[j] = v.ring[j]
  BY <1>0
<1>2. plain(x) \in [SiteKeys -> SecretValues] /\ plain(NoText) \in [SiteKeys -> SecretValues]
  BY <1>0, NoSecret
<1>3. \A y : PlainStore(v, k, y) = Refilled(v, v.ring, plain(y))
  <2> TAKE y
  <2>1. PlainStore(v, k, y) = [v EXCEPT !.plain = plain(y)]
    BY <1>0 DEF PlainStore
  <2> HIDE DEF plain
  <2> QED BY <1>0, <2>1 DEF Refilled
<1>4. CASE v.up
  <2>1. w = [PlainStore(v, k, NoText) EXCEPT !.ring[k] = x]
    BY <1>4 DEF SetSecret
  <2>2. w = Refilled(v, ring, plain(NoText))
    BY <1>0, <1>3, <2>1 DEF Refilled
  <2> HIDE DEF w, ring, plain
  <2>3. w \in VaultType /\ w.up = v.up /\ w.ring = ring
    BY <1>1, <1>2, <2>2, RefilledIs
  <2>4. Follows(w, v, {k}) /\ w.ring[k] = x
    BY <1>1, <2>3 DEF Follows
  <2> QED BY <2>4 DEF w
<1>5. CASE ~v.up /\ FallbackAllowed
  <2>1. w = Refilled(v, v.ring, plain(x))
    BY <1>3, <1>5 DEF SetSecret, FallbackOrErr
  <2> HIDE DEF w, ring, plain
  <2>2. w \in VaultType /\ w.up = v.up /\ w.ring = v.ring
    BY <1>0, <1>2, <2>1, RefilledIs
  <2>3. Follows(w, v, {k})
    BY <2>2 DEF Follows
  <2> QED BY <1>5, <2>3 DEF w
<1>6. CASE ~v.up /\ ~FallbackAllowed
  <2>1. w = v
    BY <1>6 DEF SetSecret, FallbackOrErr
  <2> HIDE DEF w
  <2>2. Follows(w, v, {k})
    BY <2>1 DEF Follows
  <2> QED BY <1>6, <2>2 DEF w
<1> QED BY <1>4, <1>5, <1>6

LEMMA RemoveSecretIs ==
  ASSUME NEW v \in VaultType, NEW k \in SiteKeys
  PROVE  Follows(RemoveSecret(v, k), v, {k})
<1> DEFINE w == RemoveSecret(v, k)
           ring == [v.ring EXCEPT ![k] = IF v.up THEN NoText ELSE @]
           plain == [v.plain EXCEPT ![k] = NoText]
<1>0. /\ v = [up |-> v.up, ring |-> v.ring, legacy |-> v.legacy, plain |-> v.plain]
      /\ v.up \in BOOLEAN
      /\ v.ring \in [SiteKeys -> SecretValues] /\ v.plain \in [SiteKeys -> SecretValues]
  BY VaultIs
<1>1. /\ ring \in [SiteKeys -> SecretValues]
      /\ (\A j \in SiteKeys \ {k} : ring[j] = v.ring[j])
  BY <1>0, NoSecret
<1>2. plain \in [SiteKeys -> SecretValues]
  BY <1>0, NoSecret
<1>3. w = Refilled(v, ring, plain)
  <2>1. w = [[v EXCEPT !.plain = plain] EXCEPT !.ring = ring]
    BY <1>0 DEF RemoveSecret, PlainStore
  <2> HIDE DEF w, ring, plain
  <2> QED BY <1>0, <2>1 DEF Refilled
<1> HIDE DEF w, ring, plain
<1>4. w \in VaultType /\ w.up = v.up /\ w.ring = ring
  BY <1>1, <1>2, <1>3, RefilledIs
<1>5. Follows(w, v, {k})
  BY <1>1, <1>4 DEF Follows
<1> QED BY <1>5 DEF w

LEMMA FollowsOn ==
  ASSUME NEW u, NEW v, NEW w, NEW ks, NEW ls, Follows(v, u, ks), Follows(w, v, ls)
  PROVE  Follows(w, u, ks \cup ls)
BY DEF Follows

(* What persisting the secrets of a saved site leaves in the vault. *)
LEMMA PersistedIs ==
  ASSUME NEW v \in VaultType, NEW id \in SiteIds, NEW opt,
         opt.password \in SecretValues, opt.proxypass \in SecretValues
  PROVE  /\ Follows(Persisted(v, id, opt), v, {IdKey(id, "password"), IdKey(id, "proxypass")})
         /\ v.up /\ opt.password # NoText =>
              Persisted(v, id, opt).ring[IdKey(id, "password")] = opt.password
<1> DEFINE k == IdKey(id, "password")
           l == IdKey(id, "proxypass")
           w == IF opt.password = NoText THEN v ELSE SetSecret(v, k, opt.password)
           x == IF opt.proxypass = NoText THEN RemoveSecret(w, l)
             ELSE SetSecret(w, l, opt.proxypass)
           typed == opt.password
           proxy == opt.proxypass
<1>1. k \in SiteKeys /\ l \in SiteKeys /\ k # l
  BY KeysAre
<1>2. Persisted(v, id, opt) = x
  BY DEF Persisted
<1>3. typed \in SecretValues /\ proxy \in SecretValues
  OBVIOUS
<1> HIDE DEF k, l, typed, proxy
<1>4. Follows(w, v, {k}) /\ (v.up /\ typed # NoText => w.ring[k] = typed)
  <2>1. CASE typed = NoText
    <3>1. w = v
      BY <2>1 DEF typed
    <3> HIDE DEF w
    <3> QED BY <2>1, <3>1 DEF Follows
  <2>2. CASE typed # NoText
    <3>1. w = SetSecret(v, k, typed)
      BY <2>2 DEF typed
    <3> HIDE DEF w
    <3> QED BY <1>1, <1>3, <3>1, SetSecretIs
  <2> QED BY <2>1, <2>2
<1>5. x = IF proxy = NoText THEN RemoveSecret(w, l) ELSE SetSecret(w, l, proxy)
  BY DEF proxy
<1> HIDE DEF w, x
<1>6. w \in VaultType
  BY <1>4 DEF Follows
<1>7. Follows(x, w, {l})
  <2>1. CASE proxy = NoText
    <3>1. x = RemoveSecret(w, l)
      BY <1>5, <2>1
    <3> QED BY <1>1, <1>6, <3>1, RemoveSecretIs
  <2>2. CASE proxy # NoText
    <3>1. x = SetSecret(w, l, proxy)
      BY <1>5, <2>2
    <3> QED BY <1>1, <1>3, <1>6, <3>1, SetSecretIs
  <2> QED BY <2>1, <2>2
<1>8. Follows(x, v, {k, l})
  <2>1. Follows(x, v, {k} \cup {l})
    BY <1>4, <1>7, FollowsOn
  <2>2. {k, l} = {k} \cup {l}
    OBVIOUS
  <2> QED BY <2>1, <2>2
<1>9. x.ring[k] = w.ring[k]
  BY <1>1, <1>7 DEF Follows
<1>10. v.up /\ typed # NoText => x.ring[k] = typed
  BY <1>4, <1>9
<1> QED BY <1>2, <1>8, <1>10 DEF k, l, typed

-----------------------------------------------------------------------------
(* What LoadSites leaves of a vault: the type, the keyring's state, and what *)
(* the sites' last saved passwords are. *)
LEMMA LoadKeeps ==
  ASSUME NEW v \in VaultType, NEW list
  PROVE  /\ LoadSites(v, list) \in VaultType /\ LoadSites(v, list).up = v.up
         /\ v.up => \A k \in SiteKeys : v.ring[k] # NoText
            => LoadSites(v, list).ring[k] = v.ring[k]
<1> DEFINE keys == UNION {Looked(v, list[i]) : i \in DOMAIN list}
<1>1. LoadSites(v, list) = Migrated(v, keys)
  BY DEF LoadSites
<1> HIDE DEF keys
<1>2. /\ Follows(Migrated(v, keys), v, SiteKeys)
      /\ v.up => \A k \in SiteKeys : v.ring[k] # NoText => Migrated(v, keys).ring[k] = v.ring[k]
  BY MigratedIs
<1> QED BY <1>1, <1>2 DEF Follows

LEMMA RememberedAfterLoad ==
  ASSUME NEW v \in VaultType, v.up, NEW list, NEW any, NEW saved,
         Remembered(list, v.ring, saved),
         \A i \in DOMAIN list : list[i].id \in SiteIds \cup {NoId}
  PROVE  Remembered(list, LoadSites(v, any).ring, saved)
<1> DEFINE w == LoadSites(v, any)
<1>1. \A i \in DOMAIN list : IdKey(list[i].id, "password") \in SiteKeys
  BY KeysAre
<1>2. \A k \in SiteKeys : v.ring[k] # NoText => w.ring[k] = v.ring[k]
  BY LoadKeeps
<1> HIDE DEF w
<1>3. Remembered(list, w.ring, saved)
  BY <1>1, <1>2 DEF Remembered
<1> QED BY <1>3 DEF w

-----------------------------------------------------------------------------
(* Sites in a list. *)
LEMMA SiteIs ==
  ASSUME NEW s \in SiteRecords
  PROVE  /\ s = [id |-> s.id, name |-> s.name, host |-> s.host, routes |-> s.routes]
         /\ s.id \in SiteIds \cup {NoId} /\ s.name \in SiteNames
         /\ s.host \in SiteHosts \cup {NoText}
<1> DEFINE routes == Seq([label : RouteLabels \cup SiteNames, host : SiteHosts])
           ids == SiteIds \cup {NoId}
           hosts == SiteHosts \cup {NoText}
<1>1. SiteRecords = [id : ids, name : SiteNames, host : hosts, routes : routes]
  BY DEF SiteRecords
<1> HIDE DEF routes, ids, hosts
<1>2. /\ s = [id |-> s.id, name |-> s.name, host |-> s.host, routes |-> s.routes]
      /\ s.id \in ids /\ s.name \in SiteNames /\ s.host \in hosts
  BY <1>1
<1> QED BY <1>2 DEF ids, hosts

(* A site whose options come from a dialog carries no routes. *)
LEMMA NewSite ==
  ASSUME NEW id \in SiteIds \cup {NoId}, NEW name \in SiteNames,
         NEW host \in SiteHosts \cup {NoText}
  PROVE  [id |-> id, name |-> name, host |-> host, routes |-> <<>>] \in SiteRecords
<1> DEFINE R == [label : RouteLabels \cup SiteNames, host : SiteHosts]
           routes == Seq(R)
           ids == SiteIds \cup {NoId}
           hosts == SiteHosts \cup {NoText}
<1>1. SiteRecords = [id : ids, name : SiteNames, host : hosts, routes : routes]
  BY DEF SiteRecords
<1> HIDE DEF R
<1>2. <<>> \in routes /\ id \in ids /\ host \in hosts
  OBVIOUS
<1> HIDE DEF routes, ids, hosts
<1> QED BY <1>1, <1>2

LEMMA MinIs ==
  ASSUME NEW I \in SUBSET Nat, I # {}
  PROVE  Min(I) \in I
<1>1. \E x \in I : \A y \in I : x <= y
  BY LeastNat
<1> QED BY <1>1 DEF Min

LEMMA SiteAtIs ==
  ASSUME NEW list \in Seq(SiteRecords), NEW name
  PROVE  /\ SiteAt(list, name) \in 0..Len(list)
         /\ SiteAt(list, name) # 0 => SiteAt(list, name) \in DOMAIN list
                                      /\ list[SiteAt(list, name)].name = name
         /\ SiteAt(list, name) = 0 => \A i \in DOMAIN list : list[i].name # name
<1> DEFINE I == {i \in 1..Len(list) : list[i].name = name}
           at == SiteAt(list, name)
<1>1. at = IF I # {} THEN Min(I) ELSE 0
  BY DEF SiteAt, SelectInSeq
<1>2. Len(list) \in Nat /\ DOMAIN list = 1..Len(list)
  OBVIOUS
<1>3. I \in SUBSET Nat
  BY <1>2
<1>4. \A i \in I : i \in 1..Len(list) /\ list[i].name = name
  OBVIOUS
<1>5. I = {} => \A i \in 1..Len(list) : list[i].name # name
  OBVIOUS
<1> HIDE DEF I, at
<1>6. I # {} => at \in I
  BY <1>1, <1>3, MinIs
<1>7. I # {} => at # 0
  BY <1>2, <1>4, <1>6
<1> QED BY <1>1, <1>2, <1>4, <1>5, <1>6, <1>7 DEF at

LEMMA SiteWithIdIs ==
  ASSUME NEW list \in Seq(SiteRecords), NEW id
  PROVE  /\ SiteWithId(list, id) \in 0..Len(list)
         /\ SiteWithId(list, id) # 0 => SiteWithId(list, id) \in DOMAIN list
                                        /\ list[SiteWithId(list, id)].id = id
         /\ SiteWithId(list, id) = 0 => \A i \in DOMAIN list : list[i].id # id
<1> DEFINE I == {i \in 1..Len(list) : list[i].id = id}
           at == SiteWithId(list, id)
<1>1. at = IF I # {} THEN Min(I) ELSE 0
  BY DEF SiteWithId, SelectInSeq
<1>2. Len(list) \in Nat /\ DOMAIN list = 1..Len(list)
  OBVIOUS
<1>3. I \in SUBSET Nat
  BY <1>2
<1>4. \A i \in I : i \in 1..Len(list) /\ list[i].id = id
  OBVIOUS
<1>5. I = {} => \A i \in 1..Len(list) : list[i].id # id
  OBVIOUS
<1> HIDE DEF I, at
<1>6. I # {} => at \in I
  BY <1>1, <1>3, MinIs
<1>7. I # {} => at # 0
  BY <1>2, <1>4, <1>6
<1> QED BY <1>1, <1>2, <1>4, <1>5, <1>6, <1>7 DEF at

LEMMA RowWithIdIs ==
  ASSUME NEW rows \in Seq(RowRecs), NEW id
  PROVE  RowWithId(rows, id) \in 0..Len(rows)
<1> DEFINE I == {i \in 1..Len(rows) : rows[i].id = id}
           at == RowWithId(rows, id)
<1>1. at = IF I # {} THEN Min(I) ELSE 0
  BY DEF RowWithId, SelectInSeq
<1>2. Len(rows) \in Nat
  OBVIOUS
<1>3. I \in SUBSET Nat /\ I \subseteq 1..Len(rows)
  BY <1>2
<1> HIDE DEF I, at
<1>6. I # {} => at \in I
  BY <1>1, <1>3, MinIs
<1>7. I # {} => at \in 1..Len(rows)
  BY <1>3, <1>6
<1>8. I = {} => at = 0
  BY <1>1
<1>9. at \in 0..Len(rows)
  BY <1>2, <1>7, <1>8
<1> QED BY <1>9 DEF at

(* The rows of a table are the sites, each once. *)
LEMMA RowsAre ==
  ASSUME NEW list \in Seq(SiteRecords), NEW ascending \in BOOLEAN
  PROVE  SortedRows(list, ascending) \in Seq(RowRecs)
<1> DEFINE D == DOMAIN list
           rank(i) == NameRank(list[i].name)
           ranking == {p \in D \X D : IF rank(p[1]) = rank(p[2]) THEN p[1] <= p[2]
                                    ELSE ascending <=> rank(p[1]) < rank(p[2])}
           row(s) == [id |-> s.id, name |-> s.name]
           rows == SortedRows(list, ascending)
<1>1. rows = [n \in D |-> row(list[Ordered(D, ranking)[n]])]
  BY DEF SortedRows
<1>2. Len(list) \in Nat /\ D = 1..Len(list)
  OBVIOUS
<1>3. \A i \in D : /\ list[i].name \in SiteNames
                   /\ list[i].id \in SiteIds \cup {NoId}
  BY SiteIs
<1>4. \A i \in D : rank(i) \in Nat
  <2> SUFFICES ASSUME NEW i \in D PROVE rank(i) \in Nat
    OBVIOUS
  <2>1. list[i].name \in SiteNames
    BY <1>3
  <2>2. \E k \in DOMAIN NameOrder : NameOrder[k] = list[i].name
    BY <2>1 DEF SiteNames
  <2>3. DOMAIN NameOrder \subseteq Nat
    BY SitesAssumption
  <2> QED BY <2>2, <2>3 DEF NameRank
<1>5. \A i, j \in D : <<i, j>> \in ranking <=> IF rank(i) = rank(j) THEN i <= j
                                             ELSE ascending <=> rank(i) < rank(j)
  OBVIOUS
<1> HIDE DEF ranking, rank, D
<1>6. TotalOrder(ranking, D)
  <2>1. \A i \in D : i \in Nat
    BY <1>2
  <2>2. \A i \in D : <<i, i>> \in ranking
    BY <1>5, <2>1
  <2>3. ASSUME NEW i \in D, NEW j \in D PROVE <<i, j>> \in ranking \/ <<j, i>> \in ranking
    <3>1. rank(i) \in Nat /\ rank(j) \in Nat /\ i \in Nat /\ j \in Nat
      BY <1>4, <2>1
    <3>2. CASE rank(i) = rank(j)
      <4>1. i <= j \/ j <= i
        BY <3>1
      <4> QED BY <1>5, <3>2, <4>1
    <3>3. CASE rank(i) # rank(j)
      <4>1. rank(i) < rank(j) <=> ~(rank(j) < rank(i))
        BY <3>1, <3>3
      <4> QED BY <1>5, <3>3, <4>1
    <3> QED BY <3>2, <3>3
  <2>4. ASSUME NEW i \in D, NEW j \in D, <<i, j>> \in ranking, <<j, i>> \in ranking
        PROVE  i = j
    <3>1. rank(i) \in Nat /\ rank(j) \in Nat /\ i \in Nat /\ j \in Nat
      BY <1>4, <2>1
    <3>2. CASE rank(i) = rank(j)
      <4>1. i <= j /\ j <= i
        BY <1>5, <2>4, <3>2
      <4> QED BY <3>1, <4>1
    <3>3. CASE rank(i) # rank(j)
      <4>1. (ascending <=> rank(i) < rank(j)) /\ (ascending <=> rank(j) < rank(i))
        BY <1>5, <2>4, <3>3
      <4>2. rank(i) < rank(j) \/ rank(j) < rank(i)
        BY <3>1, <3>3
      <4>3. ~(rank(i) < rank(j) /\ rank(j) < rank(i))
        BY <3>1
      <4> QED BY <4>1, <4>2, <4>3
    <3> QED BY <3>2, <3>3
  <2>5. \A i, j, k \in D : <<i, j>> \in ranking /\ <<j, k>> \in ranking => <<i, k>> \in ranking
    BY <1>4, <1>5, <2>1
  <2> QED BY <2>2, <2>3, <2>4, <2>5 DEF TotalOrder
<1>7. IsFiniteSet(D) /\ Cardinality(D) = Len(list)
  <2> DEFINE N == Len(list)
  <2>0. N \in Nat
    BY <1>2
  <2> HIDE DEF N
  <2>1. IsFiniteSet(1..N) /\ Cardinality(1..N) = N
    BY <2>0, FS_Interval
  <2> QED BY <1>2, <2>1 DEF N
<1>8. Ordered(D, ranking) \in [D -> D]
  BY <1>2, <1>6, <1>7, OrderedIs
<1>9. \A i \in D : row(list[i]) \in RowRecs
  BY <1>3 DEF RowRecs
<1> HIDE DEF row, rows
<1>10. rows \in [D -> RowRecs]
  BY <1>1, <1>8, <1>9
<1>11. rows \in [1..Len(list) -> RowRecs]
  BY <1>2, <1>10
<1>12. rows \in Seq(RowRecs)
  BY <1>2, <1>11
<1> QED BY <1>12 DEF rows

LEMMA RefreshedIs ==
  ASSUME TableOK(table), NEW list \in Seq(SiteRecords), NEW ascending \in BOOLEAN
  PROVE  TableOK(Refreshed(list, ascending))
<1> DEFINE rows == SortedRows(list, ascending)
           row == IF table.row = 0 THEN 0 ELSE RowWithId(rows, SelectedId)
<1>1. rows \in Seq(RowRecs)
  BY RowsAre
<1>2. Refreshed(list, ascending) = [rows |-> rows, ascending |-> ascending, row |-> row]
  BY DEF Refreshed
<1> HIDE DEF rows
<1>3. row \in 0..Len(rows)
  BY <1>1, RowWithIdIs
<1> HIDE DEF row
<1> QED BY <1>1, <1>2, <1>3 DEF TableOK

-----------------------------------------------------------------------------
(* Lists of sites. *)
LEMMA ListFacts ==
  ASSUME NEW list, ListOK(list)
  PROVE  /\ Len(list) \in Nat /\ DOMAIN list = 1..Len(list)
         /\ \A i \in DOMAIN list : list[i] \in SiteRecords
BY DEF ListOK

(* Every site of the list old but one at most is in the list new. *)
OneAtMost(old, new) ==
  \A i, j \in DOMAIN old :
    (~\E k \in DOMAIN new : new[k] = old[i]) /\ (~\E k \in DOMAIN new : new[k] = old[j])
      => i = j

LEMMA WithoutIs ==
  ASSUME NEW list, ListOK(list), NEW ids, IdsIn(list, ids), NEW name
  PROVE  /\ ListOK(Without(list, name)) /\ IdsIn(Without(list, name), ids)
         /\ \A n \in DOMAIN Without(list, name) :
              \E i \in DOMAIN list : Without(list, name)[n] = list[i] /\ list[i].name # name
         /\ OneAtMost(list, Without(list, name))
<1> DEFINE I == {i \in DOMAIN list : list[i].name # name}
           new == Without(list, name)
           N == Cardinality(I)
<1>1. new = Keep(list, I)
  BY DEF Without
<1>2. list \in Seq(SiteRecords) /\ Len(list) \in Nat /\ DOMAIN list = 1..Len(list)
      /\ SitesApart(list)
  BY ListFacts DEF ListOK
<1>3. I \in SUBSET (1..Len(list)) /\ \A i \in DOMAIN list : i \in I <=> list[i].name # name
  BY <1>2
<1> HIDE DEF I, new, N
<1>4. /\ new \in Seq(SiteRecords) /\ N \in Nat /\ Len(new) = N
      /\ \A n \in 1..N : \E i \in I : new[n] = list[i]
      /\ \A i \in I : \E n \in 1..N : new[n] = list[i]
  BY <1>1, <1>2, <1>3, KeepIs DEF N
<1>5. DOMAIN new = 1..N
  BY <1>4
<1>6. SitesApart(new)
  <2> SUFFICES ASSUME NEW m \in 1..N, NEW n \in 1..N, m # n
               PROVE  new[m].name # new[n].name /\ (new[m].id = new[n].id => new[m].id = NoId)
    BY <1>5 DEF SitesApart
  <2>0. m \in 1..Cardinality(I) /\ n \in 1..Cardinality(I)
    BY DEF N
  <2>1. \E i, j \in I : i # j /\ Keep(list, I)[m] = list[i] /\ Keep(list, I)[n] = list[j]
    BY ONLY <1>2, <1>3, <2>0, m # n, KeptApart
  <2> QED BY <1>1, <1>2, <1>3, <2>1 DEF SitesApart
<1>7. \A n \in DOMAIN new : \E i \in DOMAIN list : new[n] = list[i] /\ list[i].name # name
  BY <1>2, <1>3, <1>4, <1>5
<1>8. IdsIn(new, ids)
  BY <1>7 DEF IdsIn
<1>9. OneAtMost(list, new)
  <2> SUFFICES ASSUME NEW i \in DOMAIN list, NEW j \in DOMAIN list,
                      ~\E k \in DOMAIN new : new[k] = list[i],
                      ~\E k \in DOMAIN new : new[k] = list[j]
               PROVE  i = j
    BY DEF OneAtMost
  <2>1. i \notin I /\ j \notin I
    BY <1>4, <1>5
  <2>2. list[i].name = list[j].name
    BY <1>3, <2>1
  <2> QED BY <1>2, <2>2 DEF SitesApart
<1> QED BY <1>4, <1>6, <1>7, <1>8, <1>9 DEF new, ListOK

LEMMA NewIdIs ==
  ASSUME minted \subseteq SiteIds, minted # SiteIds
  PROVE  NewSiteId(minted) \in SiteIds \ minted
<1>1. \E id \in SiteIds : id \notin minted
  OBVIOUS
<1> QED BY <1>1 DEF NewSiteId

(* What replacing a site, or adding one, makes of a list, when the name and  *)
(* the id are no other site's.                                               *)
LEMMA ReplacedIs ==
  ASSUME NEW list, ListOK(list), NEW at \in DOMAIN list, NEW entry \in SiteRecords,
         \A i \in DOMAIN list : i # at => list[i].name # entry.name /\ list[i].id # entry.id
  PROVE  /\ ListOK([list EXCEPT ![at] = entry]) /\ OneAtMost(list, [list EXCEPT ![at] = entry])
         /\ \A n \in DOMAIN [list EXCEPT ![at] = entry] :
              \/ [list EXCEPT ![at] = entry][n] = entry
              \/ \E i \in DOMAIN list : [list EXCEPT ![at] = entry][n] = list[i]
<1> DEFINE new == [list EXCEPT ![at] = entry]
<1>1. list \in Seq(SiteRecords) /\ SitesApart(list)
  BY DEF ListOK
<1>2. new \in Seq(SiteRecords) /\ DOMAIN new = DOMAIN list
      /\ new[at] = entry /\ \A i \in DOMAIN list : i # at => new[i] = list[i]
  BY <1>1
<1> HIDE DEF new
<1>3. SitesApart(new)
  <2> SUFFICES ASSUME NEW i \in DOMAIN list, NEW j \in DOMAIN list, i # j
               PROVE  new[i].name # new[j].name /\ (new[i].id = new[j].id => new[i].id = NoId)
    BY <1>2 DEF SitesApart
  <2>1. CASE i = at
    BY <1>2, <2>1
  <2>2. CASE j = at
    BY <1>2, <2>2
  <2>3. CASE i # at /\ j # at
    BY <1>1, <1>2, <2>3 DEF SitesApart
  <2> QED BY <2>1, <2>2, <2>3
<1>4. OneAtMost(list, new)
  BY <1>2 DEF OneAtMost
<1>5. \A n \in DOMAIN new : new[n] = entry \/ \E i \in DOMAIN list : new[n] = list[i]
  BY <1>2
<1> QED BY <1>2, <1>3, <1>4, <1>5 DEF new, ListOK

LEMMA AddedIs ==
  ASSUME NEW list, ListOK(list), NEW entry \in SiteRecords,
         \A i \in DOMAIN list : list[i].name # entry.name /\ list[i].id # entry.id
  PROVE  /\ ListOK(Append(list, entry)) /\ OneAtMost(list, Append(list, entry))
         /\ \A n \in DOMAIN Append(list, entry) :
              \/ Append(list, entry)[n] = entry
              \/ \E i \in DOMAIN list : Append(list, entry)[n] = list[i]
<1> DEFINE new == Append(list, entry)
           N == Len(list)
<1>1. list \in Seq(SiteRecords) /\ SitesApart(list) /\ N \in Nat /\ DOMAIN list = 1..N
  BY DEF ListOK
<1>2. new \in Seq(SiteRecords) /\ DOMAIN new = 1..(N + 1)
      /\ new[N + 1] = entry /\ \A i \in 1..N : new[i] = list[i]
  BY <1>1
<1> HIDE DEF new, N
<1>3. \A n \in DOMAIN new : n \in 1..N \/ n = N + 1
  BY <1>1, <1>2
<1>4. SitesApart(new)
  <2> SUFFICES ASSUME NEW i \in DOMAIN new, NEW j \in DOMAIN new, i # j
               PROVE  new[i].name # new[j].name /\ (new[i].id = new[j].id => new[i].id = NoId)
    BY DEF SitesApart
  <2>1. CASE i = N + 1
    BY <1>1, <1>2, <1>3, <2>1
  <2>2. CASE j = N + 1
    BY <1>1, <1>2, <1>3, <2>2
  <2>3. CASE i # N + 1 /\ j # N + 1
    BY <1>1, <1>2, <1>3, <2>3 DEF SitesApart
  <2> QED BY <2>1, <2>2, <2>3
<1>5. \A i \in 1..N : i \in DOMAIN new
  BY <1>1, <1>2
<1>6. OneAtMost(list, new)
  BY <1>1, <1>2, <1>5 DEF OneAtMost
<1>7. \A n \in DOMAIN new : new[n] = entry \/ \E i \in DOMAIN list : new[n] = list[i]
  BY <1>1, <1>2, <1>3
<1> QED BY <1>2, <1>4, <1>6, <1>7 DEF new, ListOK

(* No other site has the name. *)
NameFree(list, name, existing) ==
  \A i \in DOMAIN list : list[i].name = name /\ existing # NoId => list[i].id = existing

(* A save changes one site or adds one, under an id that is no other's. *)
LEMMA SavedIs ==
  ASSUME NEW list, ListOK(list), IdsIn(list, minted), minted \subseteq SiteIds,
         minted # SiteIds,
         NEW name \in SiteNames, NEW opt, opt.host \in SiteHosts \cup {NoText}, NEW existing,
         NameFree(list, name, existing)
  PROVE  LET new == Saved(list, name, opt, existing) IN
         /\ new.id \in SiteIds /\ ListOK(new.list) /\ IdsIn(new.list, minted \cup {new.id})
         /\ OneAtMost(list, new.list)
         /\ \A n \in DOMAIN new.list :
              new.list[n].id # new.id => \E i \in DOMAIN list : new.list[n] = list[i]
<1> DEFINE byId == existing # NoId /\ SiteWithId(list, existing) # 0
           at == IF byId THEN SiteWithId(list, existing) ELSE SiteAt(list, name)
           id == IF at # 0 /\ list[at].id # NoId THEN list[at].id ELSE NewSiteId(minted)
           entry == EntryFromOptions(id, name, opt)
           l == IF at # 0 THEN [list EXCEPT ![at] = entry] ELSE Append(list, entry)
           new == Saved(list, name, opt, existing)
<1>1. new = [list |-> l, id |-> id]
  BY DEF Saved
<1>2. list \in Seq(SiteRecords) /\ SitesApart(list) /\ Len(list) \in Nat
      /\ DOMAIN list = 1..Len(list)
  BY ListFacts DEF ListOK
<1>3. NewSiteId(minted) \in SiteIds \ minted
  BY NewIdIs
<1>4. NoId \notin SiteIds
  BY SitesAssumption
<1>5. at # 0 => at \in DOMAIN list
  BY <1>2, SiteAtIs, SiteWithIdIs
<1>6. byId => at # 0 /\ list[at].id = existing
  BY <1>2, SiteWithIdIs
<1>7. ~byId /\ at # 0 => list[at].name = name
  BY <1>2, SiteAtIs
<1>8. ~byId /\ at = 0 => \A i \in DOMAIN list : list[i].name # name
  BY <1>2, SiteAtIs
<1>9. byId => existing # NoId
  OBVIOUS
<1>10. id = IF at # 0 /\ list[at].id # NoId THEN list[at].id ELSE NewSiteId(minted)
  OBVIOUS
<1>11. entry = [id |-> id, name |-> name, host |-> opt.host, routes |-> <<>>]
  BY DEF EntryFromOptions
<1>12. l = IF at # 0 THEN [list EXCEPT ![at] = entry] ELSE Append(list, entry)
  OBVIOUS
<1> HIDE DEF byId, at, id, entry, l, new
<1>13. id \in SiteIds
  BY <1>3, <1>5, <1>10 DEF IdsIn
<1>14. entry \in SiteRecords /\ entry.id = id /\ entry.name = name
  <2>1. entry \in SiteRecords
    BY <1>11, <1>13, NewSite
  <2> QED BY <1>11, <2>1
<1>15. ASSUME NEW i \in DOMAIN list, i # at PROVE list[i].id # id
  <2>1. CASE at # 0 /\ list[at].id # NoId
    BY <1>2, <1>5, <1>10, <1>15, <2>1 DEF SitesApart
  <2>2. CASE ~(at # 0 /\ list[at].id # NoId)
    BY <1>3, <1>4, <1>10, <2>2 DEF IdsIn
  <2> QED BY <2>1, <2>2
<1>16. ASSUME NEW i \in DOMAIN list, i # at PROVE list[i].name # name
  <2>1. CASE byId
    <3>1. list[i].name = name => list[i].id = existing
      BY <1>9, <2>1 DEF NameFree
    <3>2. list[i].id = list[at].id => list[i].id = NoId
      BY <1>2, <1>5, <1>6, <1>16, <2>1 DEF SitesApart
    <3> QED BY <1>6, <1>9, <2>1, <3>1, <3>2
  <2>2. CASE ~byId /\ at # 0
    BY <1>2, <1>5, <1>7, <1>16, <2>2 DEF SitesApart
  <2>3. CASE ~byId /\ at = 0
    BY <1>8, <2>3
  <2> QED BY <2>1, <2>2, <2>3
<1>17. /\ ListOK(l) /\ OneAtMost(list, l)
       /\ \A n \in DOMAIN l : l[n] = entry \/ \E i \in DOMAIN list : l[n] = list[i]
  <2>1. CASE at # 0
    <3>1. l = [list EXCEPT ![at] = entry]
      BY <1>12, <2>1
    <3> QED BY <1>5, <1>14, <1>15, <1>16, <2>1, <3>1, ReplacedIs
  <2>2. CASE at = 0
    <3>1. l = Append(list, entry)
      BY <1>12, <2>2
    <3>2. \A i \in DOMAIN list : i # at
      BY <1>2, <2>2
    <3> QED BY <1>14, <1>15, <1>16, <3>1, <3>2, AddedIs
  <2> QED BY <2>1, <2>2
<1>18. IdsIn(l, minted \cup {id})
  BY <1>14, <1>17 DEF IdsIn
<1>19. \A n \in DOMAIN l : l[n].id # id => \E i \in DOMAIN list : l[n] = list[i]
  BY <1>14, <1>17
<1>20. new.list = l /\ new.id = id
  BY <1>1
<1> QED BY <1>13, <1>17, <1>18, <1>19, <1>20 DEF new

-----------------------------------------------------------------------------
(* Importing. *)
LEMMA AliasesAre ==
  ASSUME NEW list \in Seq(SiteRecords)
  PROVE  /\ NewAliases(list) \in Seq(SiteHosts)
         /\ \A n \in DOMAIN NewAliases(list), i \in DOMAIN list :
              list[i].name # NewAliases(list)[n]
         /\ \A m, n \in DOMAIN NewAliases(list) : m # n
            => NewAliases(list)[m] # NewAliases(list)[n]
<1> DEFINE A == SiteAliases
           K == {k \in DOMAIN A : SiteAt(list, A[k]) = 0 /\ \A j \in 1..(k - 1) : A[j] # A[k]}
           new == NewAliases(list)
           N == Cardinality(K)
<1>1. new = Keep(A, K)
  BY DEF NewAliases
<1>2. A \in Seq(SiteHosts) /\ Len(A) \in Nat /\ DOMAIN A = 1..Len(A)
  BY SitesAssumption
<1>3. K \in SUBSET (1..Len(A))
  BY <1>2
<1>4. \A k \in K : SiteAt(list, A[k]) = 0 /\ \A j \in 1..(k - 1) : A[j] # A[k]
  OBVIOUS
<1> HIDE DEF A, K, new, N
<1>5. /\ new \in Seq(SiteHosts) /\ N \in Nat /\ Len(new) = N
      /\ \A n \in 1..N : \E k \in K : new[n] = A[k]
  BY <1>1, <1>2, <1>3, KeepIs DEF N
<1>6. DOMAIN new = 1..N
  BY <1>5
<1>7. \A n \in DOMAIN new, i \in DOMAIN list : list[i].name # new[n]
  BY <1>4, <1>5, <1>6, SiteAtIs
<1>8. ASSUME NEW m \in DOMAIN new, NEW n \in DOMAIN new, m # n PROVE new[m] # new[n]
  <2>1. \E i, j \in K : i # j /\ new[m] = A[i] /\ new[n] = A[j]
    <3>1. m \in 1..Cardinality(K) /\ n \in 1..Cardinality(K)
      BY <1>6 DEF N
    <3>2. \E i, j \in K : i # j /\ Keep(A, K)[m] = A[i] /\ Keep(A, K)[n] = A[j]
      <4>1. A \in Seq(SiteHosts) /\ K \in SUBSET (1..Len(A)) /\ m # n
        BY <1>2, <1>3, <1>8
      <4> QED BY ONLY <3>1, <4>1, KeptApart, SMTT(60)
    <3> QED BY <1>1, <3>2
  <2>2. PICK i \in K, j \in K : i # j /\ new[m] = A[i] /\ new[n] = A[j]
    BY <2>1
  <2>3. i \in Nat /\ j \in Nat /\ i >= 1 /\ j >= 1
    BY <1>2, <1>3
  <2>4. i \in 1..(j - 1) \/ j \in 1..(i - 1)
    BY <2>2, <2>3
  <2> QED BY <1>4, <2>2, <2>4
<1> QED BY <1>5, <1>7, <1>8 DEF new

(* An import keeps every site and adds sites of their own. *)
LEMMA ImportedIs ==
  ASSUME NEW list, ListOK(list), IdsIn(list, minted), minted \subseteq SiteIds,
         NewSiteIds(list) # {}
  PROVE  LET new == Imported(list) IN
         /\ ListOK(new.list) /\ IdsIn(new.list, new.used)
         /\ minted \subseteq new.used /\ new.used \subseteq SiteIds
         /\ \A i \in DOMAIN list : i \in DOMAIN new.list /\ new.list[i] = list[i]
         /\ \A n \in DOMAIN new.list : new.list[n].id \notin minted
            \/ \E i \in DOMAIN list : new.list[n] = list[i]
<1> DEFINE A == NewAliases(list)
           ids == CHOOSE f \in NewSiteIds(list) : TRUE
           B == [n \in DOMAIN A |-> AliasSite(ids[n], A[n])]
           l == list \o B
           used == minted \cup {ids[n] : n \in DOMAIN ids}
           new == Imported(list)
           N == Len(list)
           M == Len(A)
<1>1. new = [list |-> l, used |-> used]
  BY DEF Imported
<1>2. list \in Seq(SiteRecords) /\ SitesApart(list) /\ N \in Nat /\ DOMAIN list = 1..N
  BY DEF ListOK
<1>3. /\ A \in Seq(SiteHosts) /\ M \in Nat /\ DOMAIN A = 1..M
      /\ \A n \in DOMAIN A, i \in DOMAIN list : list[i].name # A[n]
      /\ \A m, n \in DOMAIN A : m # n => A[m] # A[n]
  BY <1>2, AliasesAre
<1>4. ids \in NewSiteIds(list)
  OBVIOUS
<1> HIDE DEF A, ids
<1>5. ids \in [DOMAIN A -> SiteIds \ minted] /\ \A m, n \in DOMAIN A : m # n => ids[m] # ids[n]
  BY <1>4 DEF NewSiteIds, A, IsInjective
<1>6. NoId \notin SiteIds
  BY SitesAssumption
<1>7. \A n \in 1..M : /\ AliasSite(ids[n], A[n]).id = ids[n]
                      /\ AliasSite(ids[n], A[n]).name = A[n]
                      /\ ids[n] \in SiteIds \ minted
                      /\ AliasSite(ids[n], A[n]) \in SiteRecords
  <2> SUFFICES ASSUME NEW n \in 1..M
               PROVE  /\ AliasSite(ids[n], A[n]).id = ids[n]
                      /\ AliasSite(ids[n], A[n]).name = A[n]
                      /\ ids[n] \in SiteIds \ minted /\ AliasSite(ids[n], A[n]) \in SiteRecords
    OBVIOUS
  <2>1. A[n] \in SiteHosts /\ A[n] \in SiteNames /\ ids[n] \in SiteIds \ minted
    BY <1>3, <1>5, SitesAssumption
  <2>2. [id |-> ids[n], name |-> A[n], host |-> A[n], routes |-> <<>>] \in SiteRecords
    BY <2>1, NewSite
  <2> QED BY <2>1, <2>2 DEF AliasSite
<1>8. B \in Seq(SiteRecords) /\ Len(B) = M /\ \A n \in 1..M : B[n] = AliasSite(ids[n], A[n])
  <2>1. B = [n \in 1..M |-> AliasSite(ids[n], A[n])]
    BY <1>3
  <2> HIDE DEF B
  <2> QED BY <1>3, <1>7, <2>1
<1> HIDE DEF B, M, N
<1>9. /\ l \in Seq(SiteRecords) /\ Len(l) = N + M
      /\ \A i \in 1..N : l[i] = list[i]
      /\ \A n \in 1..M : l[N + n] = B[n]
  <2>1. /\ list \o B \in Seq(SiteRecords) /\ Len(list \o B) = Len(list) + Len(B)
        /\ \A i \in 1..(Len(list) + Len(B)) :
             (list \o B)[i] = IF i <= Len(list) THEN list[i] ELSE B[i - Len(list)]
    BY <1>2, <1>8, ConcatProperties
  <2>2. Len(list) = N
    BY DEF N
  <2> HIDE DEF l
  <2>3. l = list \o B
    BY DEF l
  <2>4. /\ l \in Seq(SiteRecords) /\ Len(l) = N + M
        /\ \A i \in 1..(N + M) : l[i] = IF i <= N THEN list[i] ELSE B[i - N]
    BY <1>8, <2>1, <2>2, <2>3
  <2>5. \A i \in 1..N : l[i] = list[i]
    BY <1>2, <1>3, <2>4
  <2>6. ASSUME NEW n \in 1..M PROVE l[N + n] = B[n]
    <3>1. N + n \in 1..(N + M) /\ ~(N + n <= N) /\ (N + n) - N = n
      BY <1>2, <1>3
    <3> QED BY <2>4, <3>1
  <2> QED BY <2>4, <2>5, <2>6
<1>10. DOMAIN l = 1..(N + M) /\ \A i \in DOMAIN list : i \in DOMAIN l
  BY <1>2, <1>3, <1>9
<1> HIDE DEF l, used, new
<1>11. ASSUME NEW i \in DOMAIN l
       PROVE  i \in DOMAIN list \/ \E n \in 1..M : i = N + n
  <2>1. i \in 1..N \/ (i - N \in 1..M /\ i = N + (i - N))
    BY <1>2, <1>3, <1>10
  <2> QED BY <1>2, <2>1
<1>12. \A i \in DOMAIN l :
         \/ i \in DOMAIN list /\ l[i] = list[i]
         \/ \E n \in 1..M : i = N + n /\ l[i].id = ids[n] /\ l[i].name = A[n]
  <2>1. ASSUME NEW i \in DOMAIN list PROVE l[i] = list[i]
    BY <1>2, <1>9
  <2>2. ASSUME NEW n \in 1..M PROVE l[N + n].id = ids[n] /\ l[N + n].name = A[n]
    BY <1>7, <1>8, <1>9
  <2> QED BY <1>11, <2>1, <2>2
<1>13. \A i \in DOMAIN list, n \in 1..M : list[i].name # A[n] /\ list[i].id # ids[n]
  BY <1>3, <1>6, <1>7 DEF IdsIn
<1>14. \A m, n \in 1..M : m # n => A[m] # A[n] /\ ids[m] # ids[n]
  BY <1>3, <1>5
<1>15. SitesApart(l)
  <2> SUFFICES ASSUME NEW i \in DOMAIN l, NEW j \in DOMAIN l, i # j
               PROVE  l[i].name # l[j].name /\ (l[i].id = l[j].id => l[i].id = NoId)
    BY DEF SitesApart
  <2>1. CASE i \in DOMAIN list /\ l[i] = list[i] /\ j \in DOMAIN list /\ l[j] = list[j]
    BY <1>2, <2>1 DEF SitesApart
  <2>2. CASE i \in DOMAIN list /\ l[i] = list[i]
             /\ \E n \in 1..M : j = N + n /\ l[j].id = ids[n] /\ l[j].name = A[n]
    BY <1>13, <2>2
  <2>3. CASE j \in DOMAIN list /\ l[j] = list[j]
             /\ \E n \in 1..M : i = N + n /\ l[i].id = ids[n] /\ l[i].name = A[n]
    BY <1>13, <2>3
  <2>4. CASE /\ \E n \in 1..M : i = N + n /\ l[i].id = ids[n] /\ l[i].name = A[n]
             /\ \E n \in 1..M : j = N + n /\ l[j].id = ids[n] /\ l[j].name = A[n]
    BY <1>14, <2>4
  <2> QED BY <1>12, <2>1, <2>2, <2>3, <2>4
<1>16. /\ minted \subseteq used /\ used \subseteq SiteIds /\ \A n \in 1..M : ids[n] \in used
  BY <1>3, <1>5, <1>7 DEF used
<1>17. IdsIn(l, used)
  BY <1>12, <1>16 DEF IdsIn
<1>18. \A n \in DOMAIN l : l[n].id \notin minted \/ \E i \in DOMAIN list : l[n] = list[i]
  BY <1>7, <1>12
<1>19. \A i \in DOMAIN list : i \in DOMAIN l /\ l[i] = list[i]
  BY <1>2, <1>9, <1>10
<1>20. new.list = l /\ new.used = used
  BY <1>1
<1>21. ListOK(l)
  BY <1>9, <1>15 DEF ListOK
<1> QED BY <1>16, <1>17, <1>18, <1>19, <1>20, <1>21 DEF new

-----------------------------------------------------------------------------
(* The steps. *)
LEMMA ListIs ==
  ASSUME SitesInv
  PROVE  /\ ListOK(SiteList) /\ IdsIn(SiteList, minted)
         /\ steady => Remembered(SiteList, vault.ring, given)
         /\ \A i \in DOMAIN SiteList : SiteList[i].id \in SiteIds \cup {NoId}
<1>1. ListOK(<<>>) /\ IdsIn(<<>>, minted) /\ Remembered(<<>>, vault.ring, given)
  <2>1. <<>> \in Seq(SiteRecords) /\ DOMAIN <<>> = {}
    BY EmptySeq
  <2> QED BY <2>1 DEF ListOK, SitesApart, IdsIn, Remembered
<1>2. /\ ListOK(sitesFile.list) /\ IdsIn(sitesFile.list, minted)
      /\ steady => Remembered(sitesFile.list, vault.ring, given)
      /\ minted \subseteq SiteIds
  BY DEF SitesInv, SiteTypes
<1>3. SiteList = <<>> \/ SiteList = sitesFile.list
  BY DEF SiteList
<1> QED BY <1>1, <1>2, <1>3 DEF IdsIn

(* A step that only reads the sites. *)
LEMMA ReadingKeeps ==
  ASSUME SitesInv, KeepSites, vault' \in {vault, LoadSites(vault, SiteList)},
         TableOK(table'), EditorOK(editor'), steps' \in 0..MaxSiteSteps
  PROVE  SitesInv'
<1>0. /\ sitesFile' = sitesFile
      /\ sitesFile = [torn |-> sitesFile.torn, list |-> sitesFile.list]
      /\ sitesFile.torn \in BOOLEAN /\ ListOK(sitesFile.list)
      /\ hostKeys' = hostKeys /\ minted' = minted /\ given' = given /\ steady' = steady
      /\ hostKeys \subseteq SiteHosts /\ minted \subseteq SiteIds
      /\ DOMAIN given \subseteq minted
      /\ steady \in BOOLEAN /\ IdsIn(sitesFile.list, minted)
  BY DEF SitesInv, SiteTypes, KeepSites
<1>1. /\ vault \in VaultType
      /\ steady => vault.up /\ Remembered(sitesFile.list, vault.ring, given)
  BY DEF SitesInv, SiteTypes
<1>2. \A i \in DOMAIN sitesFile.list : sitesFile.list[i].id \in SiteIds \cup {NoId}
  BY <1>0 DEF IdsIn
<1>3. /\ vault' \in VaultType
      /\ steady => vault'.up /\ Remembered(sitesFile.list, vault'.ring, given)
  <2>1. CASE vault' = vault
    BY <1>1, <2>1
  <2>2. CASE vault' = LoadSites(vault, SiteList)
    <3>1. LoadSites(vault, SiteList) \in VaultType /\ LoadSites(vault, SiteList).up = vault.up
      BY <1>1, LoadKeeps
    <3>2. steady => Remembered(sitesFile.list, LoadSites(vault, SiteList).ring, given)
      BY <1>1, <1>2, RememberedAfterLoad
    <3> QED BY <1>1, <2>2, <3>1, <3>2
  <2> QED BY <2>1, <2>2
<1>4. SiteTypes'
  BY <1>0, <1>3 DEF SiteTypes
<1>5. /\ IdsIn(sitesFile.list, minted)'
      /\ (steady => vault.up /\ Remembered(sitesFile.list, vault.ring, given))'
  BY <1>0, <1>3
<1> QED BY <1>4, <1>5 DEF SitesInv

(* A step that writes the list l to the sites file. *)
LEMMA WritingKeeps ==
  ASSUME SitesInv, NEW l, ListOK(l), NEW w \in VaultType, w.up = vault.up, NEW any,
         sitesFile' = [torn |-> FALSE, list |-> l], vault' \in {w, LoadSites(w, any)},
         TableOK(table'), EditorOK(editor'), steps' \in 0..MaxSiteSteps,
         hostKeys' \subseteq SiteHosts, minted' \subseteq SiteIds, IdsIn(l, minted'),
         DOMAIN given' \subseteq minted', steady' = steady,
         steady => Remembered(l, w.ring, given')
  PROVE  SitesInv'
<1>1. steady \in BOOLEAN /\ (steady => vault.up)
  BY DEF SitesInv, SiteTypes
<1>2. \A i \in DOMAIN l : l[i].id \in SiteIds \cup {NoId}
  BY DEF IdsIn
<1>3. vault' \in VaultType /\ (steady => vault'.up /\ Remembered(l, vault'.ring, given'))
  <2>1. CASE vault' = w
    BY <1>1, <2>1
  <2>2. CASE vault' = LoadSites(w, any)
    <3>1. LoadSites(w, any) \in VaultType /\ LoadSites(w, any).up = w.up
      BY LoadKeeps
    <3>2. steady => Remembered(l, LoadSites(w, any).ring, given')
      BY <1>1, <1>2, RememberedAfterLoad
    <3> QED BY <1>1, <2>2, <3>1, <3>2
  <2> QED BY <2>1, <2>2
<1>4. sitesFile'.torn = FALSE /\ sitesFile'.list = l
      /\ sitesFile' = [torn |-> sitesFile'.torn, list |-> sitesFile'.list]
  OBVIOUS
<1>5. SiteTypes'
  BY <1>1, <1>3, <1>4 DEF SiteTypes
<1>6. /\ IdsIn(sitesFile.list, minted)'
      /\ (steady => vault.up /\ Remembered(sitesFile.list, vault.ring, given))'
  BY <1>3, <1>4
<1> QED BY <1>5, <1>6 DEF SitesInv

(* What is remembered of the other sites outlives a change of one site's     *)
(* secrets.                                                                  *)
LeftAlone(l, old, saved, ks) ==
  \A n \in DOMAIN l : l[n].id \in DOMAIN saved =>
    /\ \E i \in DOMAIN old : l[n] = old[i]
    /\ IdKey(l[n].id, "password") \in SiteKeys \ ks
LEMMA RememberedApart ==
  ASSUME NEW old, NEW l, NEW v, NEW w, NEW ks, Follows(w, v, ks), NEW saved,
         Remembered(old, v.ring, saved),
         LeftAlone(l, old, saved, ks)
  PROVE  Remembered(l, w.ring, saved)
<1> SUFFICES ASSUME NEW n \in DOMAIN l, l[n].id \in DOMAIN saved,
                    saved[l[n].id].password # NoText
             PROVE  w.ring[IdKey(l[n].id, "password")] = saved[l[n].id].password
  BY DEF Remembered
<1>1. v.ring[IdKey(l[n].id, "password")] = saved[l[n].id].password
  BY DEF Remembered, LeftAlone
<1>2. w.ring[IdKey(l[n].id, "password")] = v.ring[IdKey(l[n].id, "password")]
  BY DEF Follows, LeftAlone
<1> QED BY <1>1, <1>2

LEMMA TypesAre ==
  ASSUME SitesInv
  PROVE  /\ TableOK(table) /\ EditorOK(editor) /\ steps \in 0..MaxSiteSteps
         /\ vault \in VaultType /\ minted \subseteq SiteIds /\ DOMAIN given \subseteq minted
         /\ hostKeys \subseteq SiteHosts
         /\ table.ascending \in BOOLEAN
BY DEF SitesInv, SiteTypes, TableOK

LEMMA ActsIs ==
  ASSUME SitesInv, Acts
  PROVE  steps' \in 0..MaxSiteSteps
BY SitesAssumption DEF SitesInv, SiteTypes, Acts

(* A step that keeps the invariant and changes one site at most. *)
SitesStep ==
  SitesInv' /\ (~sitesFile'.torn /\ ~sitesFile.torn
    => OneAtMost(sitesFile.list, sitesFile'.list))

LEMMA ReadingSteps ==
  ASSUME SitesInv, KeepSites, vault' \in {vault, LoadSites(vault, SiteList)},
         TableOK(table'), EditorOK(editor'), steps' \in 0..MaxSiteSteps
  PROVE  SitesStep
<1>1. SitesInv'
  BY ReadingKeeps
<1>2. OneAtMost(sitesFile.list, sitesFile'.list)
  BY DEF KeepSites, OneAtMost
<1> QED BY <1>1, <1>2 DEF SitesStep

LEMMA WritingSteps ==
  ASSUME SitesInv, NEW l, ListOK(l), NEW w \in VaultType, w.up = vault.up, NEW any,
         sitesFile' = [torn |-> FALSE, list |-> l], vault' \in {w, LoadSites(w, any)},
         TableOK(table'), EditorOK(editor'), steps' \in 0..MaxSiteSteps,
         hostKeys' \subseteq SiteHosts, minted' \subseteq SiteIds, IdsIn(l, minted'),
         DOMAIN given' \subseteq minted', steady' = steady,
         steady => Remembered(l, w.ring, given'), OneAtMost(SiteList, l)
  PROVE  SitesStep
<1>1. SitesInv'
  BY WritingKeeps
<1>2. ~sitesFile.torn => OneAtMost(sitesFile.list, sitesFile'.list)
  BY DEF SiteList
<1> QED BY <1>1, <1>2 DEF SitesStep

LEMMA SiteSecretIs ==
  ASSUME NEW v \in VaultType, NEW s \in SiteRecords, NEW item \in Items
  PROVE  SiteSecret(v, s, item) \in SecretValues
<1>1. IdKey(s.id, item) \in SiteKeys /\ NameKey(s.name, item) \in SiteKeys
  BY SiteIs, KeysAre
<1>2. GetSecret(v, IdKey(s.id, item)) \in SecretValues
      /\ GetSecret(v, NameKey(s.name, item)) \in SecretValues
  BY <1>1, SecretsAre
<1> QED BY <1>2 DEF SiteSecret

LEMMA BlankEditors ==
  /\ EditorOK(ClosedEditor) /\ EditorOK(BlankEditor)
  /\ EditorOK([BlankEditor EXCEPT !.isAdd = TRUE])
<1>1. EditorOK(ClosedEditor)
  BY NoSecret DEF EditorOK, ClosedEditor
<1>2. BlankEditor =
        [open |-> TRUE, isAdd |-> FALSE, id |-> NoId, name |-> NoText, host |-> NoText,
         password |-> NoText, proxypass |-> NoText, routes |-> <<>>, sub |-> "closed",
         editing |-> editor.editing, merge |-> FALSE]
  <2>1. BlankEditor = [ClosedEditor EXCEPT !.open = TRUE, !.editing = editor.editing]
    BY DEF BlankEditor
  <2> QED BY <2>1 DEF ClosedEditor
<1>3. EditorOK(BlankEditor)
  BY <1>2, NoSecret DEF EditorOK
<1>4. EditorOK([BlankEditor EXCEPT !.isAdd = TRUE])
  BY <1>3 DEF EditorOK
<1> QED BY <1>1, <1>3, <1>4

LEMMA PopulatedIs ==
  ASSUME vault \in VaultType, NEW s \in SiteRecords
  PROVE  EditorOK(Populated(s))
<1> DEFINE p == SiteSecret(vault, s, "password")
           q == SiteSecret(vault, s, "proxypass")
<1>1. p \in SecretValues /\ q \in SecretValues
  BY KeysAre, SiteSecretIs
<1>2. s.host \in SiteHosts \cup {NoText}
  BY SiteIs
<1>3. Populated(s) =
        [BlankEditor EXCEPT !.id = s.id, !.name = s.name, !.host = s.host, !.password = p,
                            !.proxypass = q, !.routes = s.routes]
  BY DEF Populated
<1> HIDE DEF p, q
<1> DEFINE e == Populated(s)
           blank == BlankEditor
<1>4. /\ DOMAIN blank = {"open", "isAdd", "id", "name", "host", "password", "proxypass",
                         "routes", "sub", "editing", "merge"}
      /\ blank.sub = "closed"
  BY DEF BlankEditor, ClosedEditor
<1> HIDE DEF blank
<1>5. /\ DOMAIN e = {"open", "isAdd", "id", "name", "host", "password", "proxypass",
                     "routes", "sub", "editing", "merge"}
      /\ e.sub = "closed" /\ e.host = s.host /\ e.password = p /\ e.proxypass = q
  <2>1. e = [blank EXCEPT !.id = s.id, !.name = s.name, !.host = s.host, !.password = p,
                          !.proxypass = q, !.routes = s.routes]
    BY <1>3 DEF blank
  <2> HIDE DEF e
  <2> QED BY ONLY <1>4, <2>1
<1> HIDE DEF e
<1>6. EditorOK(e)
  BY <1>1, <1>2, <1>5 DEF EditorOK
<1> QED BY <1>6 DEF e

(* The clicks that leave the sites as they are. *)
LEMMA TableClicks ==
  ASSUME SitesInv,
         \/ (\E i \in DOMAIN table.rows : SelectRow(i)) \/ SortRequested \/ NewRequested
            \/ EditRequested
         \/ (\E name \in SiteNames : SaveRefused(name)) \/ ConnectRequested
  PROVE  SitesStep
<1>0. /\ TableOK(table) /\ EditorOK(editor) /\ vault \in VaultType
      /\ table.ascending \in BOOLEAN
      /\ (Acts => steps' \in 0..MaxSiteSteps)
  BY TypesAre, ActsIs
<1>1. SiteList \in Seq(SiteRecords) /\ DOMAIN SiteList = 1..Len(SiteList)
      /\ Len(SiteList) \in Nat
  BY ListIs, ListFacts DEF ListOK
<1>2. CASE \E i \in DOMAIN table.rows : SelectRow(i)
  <2>0. PICK i \in DOMAIN table.rows : SelectRow(i)
    BY <1>2
  <2>1. KeepSites /\ vault' = LoadSites(vault, SiteList) /\ editor' = editor /\ Acts
        /\ table' = [table EXCEPT !.row = i]
    BY <2>0 DEF SelectRow
  <2>2. TableOK(table')
    BY <1>0, <2>1 DEF TableOK
  <2> QED BY <1>0, <2>1, <2>2, ReadingSteps
<1>3. CASE SortRequested
  <2>1. KeepSites /\ vault' = LoadSites(vault, SiteList) /\ editor' = editor /\ Acts
        /\ table' = Refreshed(SiteList, ~table.ascending)
    BY <1>3 DEF SortRequested
  <2>2. TableOK(table')
    BY <1>0, <1>1, <2>1, RefreshedIs
  <2> QED BY <1>0, <2>1, <2>2, ReadingSteps
<1>4. CASE NewRequested
  <2>1. KeepSites /\ vault' = vault /\ table' = table /\ Acts
        /\ editor' = [BlankEditor EXCEPT !.isAdd = TRUE]
    BY <1>4 DEF NewRequested
  <2>2. EditorOK(editor')
    BY <2>1, BlankEditors
  <2> QED BY <1>0, <2>1, <2>2, ReadingSteps
<1>5. CASE EditRequested
  <2> DEFINE at == SiteAt(SiteList, table.rows[table.row].name)
  <2>1. KeepSites /\ vault' = LoadSites(vault, SiteList) /\ table' = table /\ Acts
        /\ editor' = IF at = 0 THEN BlankEditor ELSE Populated(SiteList[at])
    BY <1>5 DEF EditRequested
  <2>2. at # 0 => SiteList[at] \in SiteRecords
    BY <1>1, SiteAtIs
  <2> HIDE DEF at
  <2>3. EditorOK(editor')
    BY <1>0, <2>1, <2>2, BlankEditors, PopulatedIs
  <2> QED BY <1>0, <2>1, <2>3, ReadingSteps
<1>6. CASE \E name \in SiteNames : SaveRefused(name)
  <2>1. KeepSites /\ vault' = LoadSites(vault, SiteList) /\ table' = table /\ editor' = editor
        /\ Acts
    BY <1>6 DEF SaveRefused
  <2> QED BY <1>0, <2>1, ReadingSteps
<1>7. CASE ConnectRequested
  <2>1. KeepSites /\ vault' = LoadSites(vault, SiteList) /\ editor' = ClosedEditor /\ Acts
        /\ table' = [rows |-> SortedRows(SiteList, TRUE), row |-> 0, ascending |-> TRUE]
    BY <1>7 DEF ConnectRequested
  <2>2. TableOK(table')
    <3> DEFINE rows == SortedRows(SiteList, TRUE)
    <3>1. rows \in Seq(RowRecs)
      BY <1>1, RowsAre
    <3>10. table' = [rows |-> rows, row |-> 0, ascending |-> TRUE]
      BY <2>1
    <3> HIDE DEF rows
    <3>2. Len(rows) \in Nat
      BY <3>1
    <3>3. table'.rows = rows /\ table'.row = 0 /\ table'.ascending = TRUE
      BY <3>10
    <3>4. table'.row \in 0..Len(table'.rows)
      BY <3>2, <3>3
    <3>5. table' = [rows |-> table'.rows, row |-> table'.row, ascending |-> table'.ascending]
      BY <3>10
    <3> QED BY <3>1, <3>3, <3>4, <3>5 DEF TableOK
  <2> QED BY <1>0, <2>1, <2>2, BlankEditors, ReadingSteps
<1> QED BY <1>2, <1>3, <1>4, <1>5, <1>6, <1>7

(* The clicks in the editor's list of routes. *)
LEMMA RouteSteps ==
  ASSUME SitesInv,
         \/ RouteAddRequested
         \/ \E i \in DOMAIN editor.routes : RouteEditRequested(i) \/ RouteRemoveRequested(i)
         \/ \E label \in RouteLabels, host \in SiteHosts : RouteSaveRequested(label, host)
         \/ RouteEditorCancelled \/ MergeOpenRequested \/ MergeCancelled
  PROVE  SitesStep
<1>0. EditorOK(editor) /\ TableOK(table)
  BY TypesAre
<1>1. /\ KeepSites /\ Acts /\ table' = table /\ vault' \in {vault, LoadSites(vault, SiteList)}
      /\ EditorOK(editor')
  <2>1. CASE RouteAddRequested
    <3>1. /\ KeepSites /\ Acts /\ table' = table /\ vault' = vault
          /\ editor' = [editor EXCEPT !.sub = "add"]
      BY <2>1, Zenon DEF RouteAddRequested
    <3>9. EditorOK(editor')
      BY <1>0, <3>1 DEF EditorOK
    <3> QED BY <3>1, <3>9
  <2>2. CASE \E i \in DOMAIN editor.routes : RouteEditRequested(i)
    <3>1. PICK i : RouteEditRequested(i)
      BY <2>2
    <3>2. /\ KeepSites /\ Acts /\ table' = table /\ vault' = vault
          /\ editor' = [editor EXCEPT !.sub = "edit", !.editing = i]
      BY <3>1, Zenon DEF RouteEditRequested
    <3>9. EditorOK(editor')
      BY <1>0, <3>2 DEF EditorOK
    <3> QED BY <3>2, <3>9
  <2>3. CASE \E i \in DOMAIN editor.routes : RouteRemoveRequested(i)
    <3>1. PICK i : RouteRemoveRequested(i)
      BY <2>3
    <3>2. /\ KeepSites /\ Acts /\ table' = table /\ vault' = vault
          /\ editor' = [editor EXCEPT !.routes = RemoveAt(@, i)]
      BY <3>1, Zenon DEF RouteRemoveRequested
    <3>3. \E x : editor' = [editor EXCEPT !.routes = x]
      BY <3>2, Zenon
    <3>9. EditorOK(editor')
      BY <1>0, <3>3 DEF EditorOK
    <3> QED BY <3>2, <3>9
  <2>4. CASE \E label \in RouteLabels, host \in SiteHosts : RouteSaveRequested(label, host)
    <3>1. PICK label, host : RouteSaveRequested(label, host)
      BY <2>4
    <3>2. /\ KeepSites /\ Acts /\ table' = table /\ vault' = vault
          /\ \E x : editor' = [editor EXCEPT !.routes = x, !.sub = "closed", !.editing = 0]
      BY <3>1, Zenon DEF RouteSaveRequested
    <3>9. EditorOK(editor')
      BY <1>0, <3>2 DEF EditorOK
    <3> QED BY <3>2, <3>9
  <2>5. CASE RouteEditorCancelled
    <3>1. /\ KeepSites /\ Acts /\ table' = table /\ vault' = vault
          /\ editor' = [editor EXCEPT !.sub = "closed", !.editing = 0]
      BY <2>5, Zenon DEF RouteEditorCancelled
    <3>9. EditorOK(editor')
      BY <1>0, <3>1 DEF EditorOK
    <3> QED BY <3>1, <3>9
  <2>6. CASE MergeOpenRequested
    <3>1. /\ KeepSites /\ Acts /\ table' = table /\ vault' = LoadSites(vault, SiteList)
          /\ editor' = [editor EXCEPT !.merge = TRUE]
      BY <2>6, Zenon DEF MergeOpenRequested
    <3>9. EditorOK(editor')
      BY <1>0, <3>1 DEF EditorOK
    <3> QED BY <3>1, <3>9
  <2>7. CASE MergeCancelled
    <3>1. /\ KeepSites /\ Acts /\ table' = table /\ vault' = vault
          /\ editor' = [editor EXCEPT !.merge = FALSE]
      BY <2>7, Zenon DEF MergeCancelled
    <3>9. EditorOK(editor')
      BY <1>0, <3>1 DEF EditorOK
    <3> QED BY <3>1, <3>9
  <2> QED BY <2>1, <2>2, <2>3, <2>4, <2>5, <2>6, <2>7
<1>2. steps' \in 0..MaxSiteSteps
  BY <1>1, ActsIs
<1> QED BY <1>0, <1>1, <1>2, ReadingSteps

(* A deletion takes the site and its own secrets, no other's. *)
LEMMA DeletedKeeps ==
  ASSUME SitesInv, NEW name, Deleted(name), EditorOK(editor'), steps' \in 0..MaxSiteSteps,
         minted' = minted, given' = given, steady' = steady
  PROVE  SitesStep
<1> DEFINE gone == {SiteList[i] : i \in {j \in DOMAIN SiteList : SiteList[j].name = name}}
           keys == {IdKey(s.id, item) : s \in gone, item \in Items}
                     \cup {NameKey(name, item) : item \in Items}
           w == IF sitePrefs.deleteSecrets THEN RemoveSecrets(vault, keys) ELSE vault
           l == Without(SiteList, name)
<1>0. /\ TableOK(table) /\ table.ascending \in BOOLEAN /\ vault \in VaultType
      /\ minted \subseteq SiteIds /\ DOMAIN given \subseteq minted
      /\ hostKeys \subseteq SiteHosts
  BY TypesAre
<1>1. /\ ListOK(SiteList) /\ IdsIn(SiteList, minted)
      /\ steady => Remembered(SiteList, vault.ring, given)
  BY ListIs
<1>2. NoId \notin SiteIds
  BY SitesAssumption
<1>3. /\ sitesFile' = [torn |-> FALSE, list |-> l] /\ vault' = LoadSites(w, l)
      /\ table' = Refreshed(l, table.ascending)
      /\ hostKeys' = IF sitePrefs.deleteSecrets THEN HostKeysWithout(gone) ELSE hostKeys
  BY DEF Deleted
<1>4. \A s, i, item : s \in gone /\ IdKey(i, "password") = IdKey(s.id, item) => i = s.id
  BY KeysAre
<1>5. \A i, item : IdKey(i, "password") # NameKey(name, item)
  BY KeysAre
<1>6. \A s \in gone : \E j \in DOMAIN SiteList : s = SiteList[j] /\ SiteList[j].name = name
  OBVIOUS
<1>7. \A k \in keys : \/ \E s \in gone, item \in Items : k = IdKey(s.id, item)
                      \/ \E item \in Items : k = NameKey(name, item)
  OBVIOUS
<1>8. Follows(w, vault, keys)
  <2>1. CASE sitePrefs.deleteSecrets
    <3>1. w = RemoveSecrets(vault, keys)
      BY <2>1
    <3> HIDE DEF w, keys
    <3> QED BY <1>0, <3>1, RemoveSecretsIs
  <2>2. CASE ~sitePrefs.deleteSecrets
    <3>1. w = vault
      BY <2>2
    <3> HIDE DEF w, keys
    <3> QED BY <1>0, <3>1 DEF Follows
  <2> QED BY <2>1, <2>2
<1>9. hostKeys' \subseteq SiteHosts
  BY <1>0, <1>3 DEF HostKeysWithout
<1> HIDE DEF gone, keys, w, l
<1>10. /\ ListOK(l) /\ IdsIn(l, minted) /\ OneAtMost(SiteList, l)
       /\ \A n \in DOMAIN l : \E i \in DOMAIN SiteList : l[n] = SiteList[i]
          /\ SiteList[i].name # name
  BY <1>1, WithoutIs DEF l
<1>11. ASSUME NEW n \in DOMAIN l, l[n].id \in DOMAIN given
       PROVE  /\ \E i \in DOMAIN SiteList : l[n] = SiteList[i]
              /\ IdKey(l[n].id, "password") \in SiteKeys \ keys
  <2>1. PICK i \in DOMAIN SiteList : l[n] = SiteList[i] /\ SiteList[i].name # name
    BY <1>10
  <2>2. l[n].id \in SiteIds /\ l[n].id # NoId
    BY <1>0, <1>2, <1>11
  <2>3. IdKey(l[n].id, "password") \in SiteKeys
    BY <2>2, KeysAre
  <2>4. ASSUME NEW s \in gone, s.id = l[n].id PROVE FALSE
    <3>1. PICK j \in DOMAIN SiteList : s = SiteList[j] /\ SiteList[j].name = name
      BY <1>6
    <3> QED BY <1>1, <2>1, <2>2, <2>4, <3>1 DEF ListOK, SitesApart
  <2>5. IdKey(l[n].id, "password") \notin keys
    <3> SUFFICES ASSUME IdKey(l[n].id, "password") \in keys PROVE FALSE
      OBVIOUS
    <3>1. CASE \E s \in gone, item \in Items : IdKey(l[n].id, "password") = IdKey(s.id, item)
      <4>1. PICK s \in gone, item \in Items : IdKey(l[n].id, "password") = IdKey(s.id, item)
        BY <3>1
      <4> QED BY <1>4, <2>4, <4>1
    <3>2. CASE \E item \in Items : IdKey(l[n].id, "password") = NameKey(name, item)
      BY <1>5, <3>2
    <3> QED BY <1>7, <3>1, <3>2
  <2> QED BY <2>1, <2>3, <2>5
<1>12. steady => Remembered(l, w.ring, given)
  <2>1. LeftAlone(l, SiteList, given, keys)
    BY <1>11 DEF LeftAlone
  <2> SUFFICES ASSUME steady PROVE Remembered(l, w.ring, given)
    OBVIOUS
  <2>2. Remembered(SiteList, vault.ring, given)
    BY <1>1
  <2> QED BY <1>8, <2>1, <2>2, RememberedApart
<1>13. w \in VaultType /\ w.up = vault.up
  BY <1>8 DEF Follows
<1>14. TableOK(table')
  BY <1>0, <1>3, <1>10, RefreshedIs DEF ListOK
<1> QED BY <1>0, <1>3, <1>9, <1>10, <1>12, <1>13, <1>14, WritingSteps

LEMMA DeleteSteps ==
  ASSUME SitesInv, DeleteRequested
  PROVE  SitesStep
<1>1. EditorOK(editor) /\ steps' \in 0..MaxSiteSteps
  BY TypesAre, ActsIs DEF DeleteRequested
<1>2. /\ Deleted(table.rows[table.row].name) /\ editor' = [editor EXCEPT !.open = FALSE]
      /\ minted' = minted /\ given' = given /\ steady' = steady
  BY DEF DeleteRequested
<1>3. EditorOK(editor')
  BY <1>1, <1>2 DEF EditorOK
<1> QED BY <1>1, <1>2, <1>3, DeletedKeeps

LEMMA MergeSteps ==
  ASSUME SitesInv, NEW name, NEW delete, MergeConfirmed(name, delete)
  PROVE  SitesStep
<1>1. EditorOK(editor) /\ TableOK(table) /\ steps' \in 0..MaxSiteSteps
  BY TypesAre, ActsIs DEF MergeConfirmed
<1>2. /\ \E x : editor' = [editor EXCEPT !.merge = FALSE, !.routes = x]
      /\ \/ Deleted(name) /\ minted' = minted /\ given' = given /\ steady' = steady
         \/ vault' = LoadSites(vault, SiteList) /\ table' = table /\ KeepSites
  BY Zenon DEF MergeConfirmed
<1>3. EditorOK(editor')
  BY <1>1, <1>2 DEF EditorOK
<1>4. CASE Deleted(name) /\ minted' = minted /\ given' = given /\ steady' = steady
  BY <1>1, <1>3, <1>4, DeletedKeeps
<1>5. CASE vault' = LoadSites(vault, SiteList) /\ table' = table /\ KeepSites
  BY <1>1, <1>3, <1>5, ReadingSteps
<1> QED BY <1>2, <1>4, <1>5

LEMMA ImportSteps ==
  ASSUME SitesInv, ImportRequested
  PROVE  SitesStep
<1> DEFINE new == Imported(SiteList)
           l == new.list
<1>0. /\ TableOK(table) /\ EditorOK(editor) /\ table.ascending \in BOOLEAN
      /\ vault \in VaultType
      /\ minted \subseteq SiteIds /\ DOMAIN given \subseteq minted
      /\ hostKeys \subseteq SiteHosts
      /\ steps' \in 0..MaxSiteSteps
  BY TypesAre, ActsIs DEF ImportRequested
<1>1. /\ ListOK(SiteList) /\ IdsIn(SiteList, minted)
      /\ steady => Remembered(SiteList, vault.ring, given)
  BY ListIs
<1>2. /\ NewSiteIds(SiteList) # {} /\ minted' = new.used /\ vault' = LoadSites(vault, l)
      /\ table' = Refreshed(l, table.ascending)
      /\ sitesFile' = IF l = SiteList THEN sitesFile ELSE [torn |-> FALSE, list |-> l]
      /\ editor' = editor /\ hostKeys' = hostKeys /\ given' = given /\ steady' = steady
  BY DEF ImportRequested
<1>3. /\ ListOK(l) /\ IdsIn(l, new.used) /\ minted \subseteq new.used
      /\ new.used \subseteq SiteIds
      /\ \A i \in DOMAIN SiteList : i \in DOMAIN l /\ l[i] = SiteList[i]
      /\ \A n \in DOMAIN l : l[n].id \notin minted
         \/ \E i \in DOMAIN SiteList : l[n] = SiteList[i]
  BY <1>0, <1>1, <1>2, ImportedIs
<1> HIDE DEF new
<1>4. OneAtMost(SiteList, l)
  BY <1>3 DEF OneAtMost
<1>5. steady => Remembered(l, vault.ring, given)
  BY <1>0, <1>1, <1>3 DEF Remembered
<1>6. TableOK(table')
  BY <1>0, <1>2, <1>3, RefreshedIs DEF ListOK
<1>7. CASE l # SiteList
  <2>1. sitesFile' = [torn |-> FALSE, list |-> l]
    BY <1>2, <1>7
  <2>2. DOMAIN given' \subseteq minted' /\ IdsIn(l, minted') /\ minted' \subseteq SiteIds
    BY <1>0, <1>2, <1>3
  <2> HIDE DEF l
  <2> QED BY <1>0, <1>2, <1>3, <1>4, <1>5, <1>6, <2>1, <2>2, WritingSteps
<1>8. CASE l = SiteList
  <2> HIDE DEF l
  <2>1. IdsIn(sitesFile.list, minted)
    BY DEF SitesInv
  <2>2. steady => Remembered(sitesFile.list, vault.ring, given) /\ vault.up
    BY DEF SitesInv
  <2>3. sitesFile' = sitesFile
    BY <1>2, <1>8
  <2>4. IdsIn(sitesFile.list, minted')
    BY <1>2, <1>3, <2>1 DEF IdsIn
  <2>5. vault' \in VaultType /\ vault'.up = vault.up
    BY <1>0, <1>2, LoadKeeps
  <2>6. \A i \in DOMAIN sitesFile.list : sitesFile.list[i].id \in SiteIds \cup {NoId}
    BY <1>0, <2>1 DEF IdsIn
  <2>7. steady => Remembered(sitesFile.list, vault'.ring, given)
    BY <1>0, <1>2, <2>2, <2>6, RememberedAfterLoad
  <2>8. SiteTypes'
    <3>1. sitesFile = [torn |-> sitesFile.torn, list |-> sitesFile.list]
          /\ sitesFile.torn \in BOOLEAN /\ ListOK(sitesFile.list) /\ steady \in BOOLEAN
      BY DEF SitesInv, SiteTypes
    <3>2. minted' \subseteq SiteIds /\ DOMAIN given' \subseteq minted'
      BY <1>0, <1>2, <1>3
    <3> QED BY <1>0, <1>2, <1>6, <2>3, <2>5, <3>1, <3>2 DEF SiteTypes
  <2>9. SitesInv'
    BY <1>2, <2>2, <2>3, <2>4, <2>5, <2>7, <2>8 DEF SitesInv
  <2>10. OneAtMost(sitesFile.list, sitesFile'.list)
    BY <2>3 DEF OneAtMost
  <2> QED BY <2>9, <2>10 DEF SitesStep
<1> QED BY <1>7, <1>8

-----------------------------------------------------------------------------
(* Saving. *)
OptionsOK(opt) == /\ opt.host \in SiteHosts \cup {NoText}
                  /\ opt.password \in SecretValues /\ opt.proxypass \in SecretValues

LEMMA GaveIs ==
  ASSUME NEW id, NEW opt
  PROVE  /\ \A i : i \in DOMAIN Gave(id, opt) <=> i \in DOMAIN given \/ i = id
         /\ Gave(id, opt)[id] = opt
         /\ \A i \in DOMAIN given : i # id => Gave(id, opt)[i] = given[i]
BY DEF Gave

(* The vault a save leaves remembers what was typed, and the other sites'.   *)
LEMMA SaveRemembers ==
  ASSUME SitesInv, minted # SiteIds, NEW name \in SiteNames, NEW opt, OptionsOK(opt),
         NEW existing, NameFree(SiteList, name, existing),
         NEW w, NEW renamed, \A k \in renamed : \E n, item : k = NameKey(n, item),
         Follows(w, Persisted(LoadSites(vault, SiteList),
           Saved(SiteList, name, opt, existing).id, opt), renamed)
  PROVE  LET new == Saved(SiteList, name, opt, existing) IN
         /\ w \in VaultType /\ w.up = vault.up
         /\ steady => Remembered(new.list, w.ring, Gave(new.id, opt))
         /\ new.id \in SiteIds /\ ListOK(new.list) /\ IdsIn(new.list, minted \cup {new.id})
         /\ OneAtMost(SiteList, new.list)
<1> DEFINE new == Saved(SiteList, name, opt, existing)
           id == new.id
           l == new.list
           v == LoadSites(vault, SiteList)
           p == Persisted(v, id, opt)
           k == IdKey(id, "password")
           ks == {k, IdKey(id, "proxypass")}
<1>0. vault \in VaultType /\ minted \subseteq SiteIds /\ DOMAIN given \subseteq minted
      /\ (steady => vault.up)
  BY TypesAre DEF SitesInv
<1>1. /\ ListOK(SiteList) /\ IdsIn(SiteList, minted)
      /\ (steady => Remembered(SiteList, vault.ring, given))
      /\ \A i \in DOMAIN SiteList : SiteList[i].id \in SiteIds \cup {NoId}
  BY ListIs
<1>2. opt.host \in SiteHosts \cup {NoText} /\ opt.password \in SecretValues
      /\ opt.proxypass \in SecretValues
  BY DEF OptionsOK
<1>3. /\ id \in SiteIds /\ ListOK(l) /\ IdsIn(l, minted \cup {id}) /\ OneAtMost(SiteList, l)
      /\ \A n \in DOMAIN l : l[n].id # id => \E i \in DOMAIN SiteList : l[n] = SiteList[i]
  BY <1>0, <1>1, <1>2, SavedIs
<1>4. Follows(w, p, renamed)
  OBVIOUS
<1>5. v \in VaultType /\ v.up = vault.up /\ (steady => Remembered(SiteList, v.ring, given))
  BY <1>0, <1>1, LoadKeeps, RememberedAfterLoad
<1> HIDE DEF new, v
<1>6. Follows(p, v, ks) /\ (v.up /\ opt.password # NoText => p.ring[k] = opt.password)
  BY <1>2, <1>3, <1>5, PersistedIs
<1> HIDE DEF p
<1>7. k \in SiteKeys /\ \A i \in SiteIds : i # id
      => IdKey(i, "password") \in SiteKeys \ (ks \cup renamed)
  <2>1. k \in SiteKeys
    BY <1>3, KeysAre
  <2>2. ASSUME NEW i \in SiteIds, i # id
        PROVE  IdKey(i, "password") \in SiteKeys \ (ks \cup renamed)
    <3>1. IdKey(i, "password") \in SiteKeys /\ IdKey(i, "password") # k
          /\ IdKey(i, "password") # IdKey(id, "proxypass")
          /\ \A n, item : IdKey(i, "password") # NameKey(n, item)
      BY <2>2, KeysAre
    <3> QED BY <3>1
  <2> QED BY <2>1, <2>2
<1>8. k \notin renamed
  BY KeysAre
<1> HIDE DEF id, l, k, ks
<1>9. Follows(w, v, ks \cup renamed)
  BY <1>4, <1>6, FollowsOn
<1>10. w \in VaultType /\ w.up = vault.up
  BY <1>5, <1>9 DEF Follows
<1>11. w.ring[k] = p.ring[k]
  BY <1>4, <1>7, <1>8 DEF Follows
<1>12. ASSUME steady PROVE Remembered(l, w.ring, Gave(id, opt))
  <2> SUFFICES ASSUME NEW n \in DOMAIN l, l[n].id \in DOMAIN Gave(id, opt),
                      Gave(id, opt)[l[n].id].password # NoText
               PROVE  w.ring[IdKey(l[n].id, "password")] = Gave(id, opt)[l[n].id].password
    BY DEF Remembered
  <2>1. CASE l[n].id = id
    <3>1. Gave(id, opt)[id] = opt /\ IdKey(l[n].id, "password") = k
      BY <2>1, GaveIs DEF k
    <3> QED BY <1>0, <1>5, <1>6, <1>11, <1>12, <2>1, <3>1
  <2>2. CASE l[n].id # id
    <3>1. l[n].id \in DOMAIN given /\ Gave(id, opt)[l[n].id] = given[l[n].id]
          /\ l[n].id \in SiteIds
      <4>1. l[n].id \in DOMAIN given
        BY <2>2, GaveIs
      <4> QED BY <1>0, <2>2, <4>1, GaveIs
    <3>2. PICK i \in DOMAIN SiteList : l[n] = SiteList[i]
      BY <1>3, <2>2
    <3>3. v.ring[IdKey(l[n].id, "password")] = given[l[n].id].password
      BY <1>5, <1>12, <3>1, <3>2 DEF Remembered
    <3>4. w.ring[IdKey(l[n].id, "password")] = v.ring[IdKey(l[n].id, "password")]
      BY <1>7, <1>9, <2>2, <3>1 DEF Follows
    <3> QED BY <3>1, <3>3, <3>4
  <2> QED BY <2>1, <2>2
<1> QED BY <1>3, <1>10, <1>12 DEF new, l, id

LEMMA SaveSteps ==
  ASSUME SitesInv, NEW typed \in SiteNames \cup {NoText},
         NEW password \in Typed \cup {editor.password},
         NEW proxypass \in Typed \cup {editor.proxypass},
         NEW jump \in BOOLEAN, NEW host \in (IF editor.isAdd THEN SiteHosts ELSE {editor.host}),
         SaveRequested(typed, host, password, proxypass, jump)
  PROVE  SitesStep
<1> DEFINE name == AutoName(typed, host)
           opt == EditorOptions(host, password, proxypass, jump)
           new == Saved(SiteList, name, opt, editor.id)
           old == IF editor.id = NoId THEN 0 ELSE SiteWithId(SiteList, editor.id)
           renamed == IF old # 0 /\ SiteList[old].name # name
                      THEN {NameKey(SiteList[old].name, item) : item \in Items} ELSE {}
           p == Persisted(LoadSites(vault, SiteList), new.id, opt)
           w == RemoveSecrets(p, renamed)
           t == Refreshed(new.list, table.ascending)
<1>0. /\ TableOK(table) /\ EditorOK(editor) /\ table.ascending \in BOOLEAN
      /\ vault \in VaultType
      /\ minted \subseteq SiteIds /\ DOMAIN given \subseteq minted
      /\ hostKeys \subseteq SiteHosts
  BY TypesAre
<1>1. /\ Acts /\ minted # SiteIds /\ name # NoText /\ ~DuplicateName(name)
      /\ sitesFile' = [torn |-> FALSE, list |-> new.list]
      /\ vault' = LoadSites(w, new.list)
      /\ minted' = minted \cup {new.id}
      /\ table' = (IF editor.id = NoId THEN t
                   ELSE [t EXCEPT !.row = RowWithId(t.rows, new.id)])
      /\ editor' = [editor EXCEPT !.open = FALSE]
      /\ given' = Gave(new.id, opt)
      /\ hostKeys' = hostKeys /\ steady' = steady
  BY DEF SaveRequested
<1>2. steps' \in 0..MaxSiteSteps
  BY <1>1, ActsIs
<1>3. name \in SiteNames
  <2>1. editor.isAdd => host \in SiteNames
    BY SitesAssumption
  <2>2. typed # NoText => typed \in SiteNames
    OBVIOUS
  <2> QED BY <1>1, <2>1, <2>2 DEF AutoName
<1>4. OptionsOK(opt)
  <2>1. host \in SiteHosts \cup {NoText} /\ password \in SecretValues
        /\ proxypass \in SecretValues
    BY <1>0 DEF EditorOK, SecretValues
  <2>2. opt.host = host /\ opt.password = password
        /\ opt.proxypass = (IF jump THEN NoText ELSE proxypass)
    BY DEF EditorOptions
  <2> HIDE DEF opt
  <2> QED BY <2>1, <2>2, NoSecret DEF OptionsOK
<1>5. NameFree(SiteList, name, editor.id)
  BY <1>1 DEF DuplicateName, NameFree
<1>6. \A k \in renamed : \E n, item : k = NameKey(n, item)
  OBVIOUS
<1>7. EditorOK(editor')
  BY <1>0, <1>1 DEF EditorOK
<1> HIDE DEF name, opt, renamed
<1>8. Follows(w, p, renamed)
  <2>1. LoadSites(vault, SiteList) \in VaultType
    BY <1>0, LoadKeeps
  <2>2. new.id \in SiteIds
    <3>1. ListOK(SiteList) /\ IdsIn(SiteList, minted)
      BY ListIs
    <3> QED BY <1>0, <1>1, <1>3, <1>4, <1>5, <3>1, SavedIs DEF OptionsOK
  <2>3. p \in VaultType
    <3>1. Follows(p, LoadSites(vault, SiteList),
          {IdKey(new.id, "password"), IdKey(new.id, "proxypass")})
      BY <1>4, <2>1, <2>2, PersistedIs DEF OptionsOK
    <3> QED BY <3>1 DEF Follows
  <2> HIDE DEF p
  <2> QED BY <2>3, RemoveSecretsIs
<1> HIDE DEF w
<1>9. /\ w \in VaultType /\ w.up = vault.up
      /\ steady => Remembered(new.list, w.ring, Gave(new.id, opt))
      /\ new.id \in SiteIds /\ ListOK(new.list) /\ IdsIn(new.list, minted \cup {new.id})
      /\ OneAtMost(SiteList, new.list)
  BY <1>1, <1>3, <1>4, <1>5, <1>6, <1>8, SaveRemembers
<1> DEFINE l == new.list
           id == new.id
<1>10. TableOK(table')
  <2>1. TableOK(t)
    BY <1>0, <1>9, RefreshedIs DEF ListOK
  <2>2. table' = t \/ table' = [t EXCEPT !.row = RowWithId(t.rows, id)]
    BY <1>1
  <2> HIDE DEF t, id, new
  <2>3. RowWithId(t.rows, id) \in 0..Len(t.rows)
    BY <2>1, RowWithIdIs DEF TableOK
  <2> QED BY <2>1, <2>2, <2>3 DEF TableOK
<1>11. DOMAIN given' \subseteq minted' /\ minted' \subseteq SiteIds
  <2> DEFINE i == new.id
  <2>1. given' = Gave(i, opt) /\ minted' = minted \cup {i} /\ i \in SiteIds
    BY <1>1, <1>9
  <2> HIDE DEF i, new, opt
  <2> QED BY <1>0, <2>1, GaveIs
<1>12. /\ sitesFile' = [torn |-> FALSE, list |-> l] /\ vault' = LoadSites(w, l)
       /\ ListOK(l) /\ IdsIn(l, minted') /\ OneAtMost(SiteList, l)
       /\ steady => Remembered(l, w.ring, given')
  BY <1>1, <1>9
<1> HIDE DEF l
<1> QED BY <1>0, <1>1, <1>2, <1>7, <1>9, <1>10, <1>11, <1>12, WritingSteps

LEMMA QuickSaveSteps ==
  ASSUME SitesInv, NEW typed \in SiteNames \cup {NoText}, NEW host \in SiteHosts,
         NEW password \in Typed, QuickSaves(typed, host, password)
  PROVE  SitesStep
<1> DEFINE opt == [host |-> host, password |-> password, proxypass |-> NoText, routes |-> <<>>]
           name == IF typed = NoText THEN DefaultQuickSiteName(opt) ELSE typed
           new == Saved(SiteList, name, opt, NoId)
           w == Persisted(LoadSites(vault, SiteList), new.id, opt)
           l == new.list
<1>0. /\ TableOK(table) /\ EditorOK(editor) /\ vault \in VaultType
      /\ minted \subseteq SiteIds /\ DOMAIN given \subseteq minted
      /\ hostKeys \subseteq SiteHosts
  BY TypesAre
<1>1. /\ Acts /\ minted # SiteIds
      /\ sitesFile' = [torn |-> FALSE, list |-> l]
      /\ vault' = w
      /\ minted' = minted \cup {new.id}
      /\ given' = Gave(new.id, opt)
      /\ table' = table /\ editor' = editor /\ hostKeys' = hostKeys /\ steady' = steady
  BY DEF QuickSaves
<1>2. steps' \in 0..MaxSiteSteps
  BY <1>1, ActsIs
<1>3. name \in SiteNames
  BY SitesAssumption DEF DefaultQuickSiteName
<1>4. OptionsOK(opt)
  BY NoSecret DEF OptionsOK, SecretValues
<1> HIDE DEF name, opt
<1>5. NameFree(SiteList, name, NoId)
  BY DEF NameFree
<1>6. w \in VaultType
  <2>1. LoadSites(vault, SiteList) \in VaultType
    BY <1>0, LoadKeeps
  <2>2. new.id \in SiteIds
    <3>1. ListOK(SiteList) /\ IdsIn(SiteList, minted)
      BY ListIs
    <3> QED BY <1>0, <1>1, <1>3, <1>4, <1>5, <3>1, SavedIs DEF OptionsOK
  <2>3. Follows(w, LoadSites(vault, SiteList),
        {IdKey(new.id, "password"), IdKey(new.id, "proxypass")})
    BY <1>4, <2>1, <2>2, PersistedIs DEF OptionsOK
  <2> QED BY <2>3 DEF Follows
<1>7. Follows(w, w, {})
  BY <1>6 DEF Follows
<1>8. \A k \in {} : \E n, item : k = NameKey(n, item)
  OBVIOUS
<1>9. /\ w.up = vault.up /\ (steady => Remembered(l, w.ring, Gave(new.id, opt)))
      /\ new.id \in SiteIds /\ ListOK(l) /\ IdsIn(l, minted \cup {new.id})
      /\ OneAtMost(SiteList, l)
  <2> DEFINE none == {}
  <2>1. Follows(w, Persisted(LoadSites(vault, SiteList), Saved(SiteList, name, opt, NoId).id,
        opt), none)
    BY <1>7
  <2>2. \A k \in none : \E n, item : k = NameKey(n, item)
    BY <1>8
  <2> HIDE DEF w, none
  <2> QED BY <1>1, <1>3, <1>4, <1>5, <2>1, <2>2, SaveRemembers
<1> HIDE DEF w
<1>10. DOMAIN given' \subseteq minted' /\ minted' \subseteq SiteIds
  <2> DEFINE i == new.id
  <2>1. given' = Gave(i, opt) /\ minted' = minted \cup {i} /\ i \in SiteIds
    BY <1>1, <1>9
  <2> HIDE DEF i, new, opt
  <2> QED BY <1>0, <2>1, GaveIs
<1>11. /\ IdsIn(l, minted') /\ (steady => Remembered(l, w.ring, given'))
  BY <1>1, <1>9
<1> HIDE DEF l, new
<1> QED BY <1>0, <1>1, <1>2, <1>6, <1>9, <1>10, <1>11, WritingSteps


-----------------------------------------------------------------------------
(* The keyring comes and goes, and the program may die while it writes.      *)
LEMMA KeyringSteps ==
  ASSUME SitesInv, KeyringTurns
  PROVE  SitesStep
<1>0. vault \in VaultType
  BY TypesAre
<1>1. /\ vault' = [vault EXCEPT !.up = ~@] /\ steady' = FALSE /\ sitesFile' = sitesFile
      /\ table' = table /\ editor' = editor /\ hostKeys' = hostKeys /\ minted' = minted
      /\ given' = given /\ steps' = steps
  BY DEF KeyringTurns
<1>2. vault' \in VaultType
  <2>1. /\ vault = [up |-> vault.up, ring |-> vault.ring, legacy |-> vault.legacy,
           plain |-> vault.plain]
        /\ vault.up \in BOOLEAN /\ vault.ring \in [SiteKeys -> SecretValues]
        /\ vault.legacy \in [SiteKeys -> SecretValues]
        /\ vault.plain \in [SiteKeys -> SecretValues]
    BY <1>0, VaultIs
  <2> DEFINE up == ~vault.up
  <2>2. vault' = [vault EXCEPT !.up = up] /\ up \in BOOLEAN
    BY <1>1
  <2> HIDE DEF up
  <2>3. vault' = [up |-> up, ring |-> vault.ring, legacy |-> vault.legacy,
        plain |-> vault.plain]
    BY <2>1, <2>2
  <2> QED BY <2>1, <2>2, <2>3 DEF VaultType
<1>3. SiteTypes'
  BY <1>1, <1>2 DEF SitesInv, SiteTypes
<1>4. SitesInv'
  BY <1>1, <1>3 DEF SitesInv
<1>5. OneAtMost(sitesFile.list, sitesFile'.list)
  BY <1>1 DEF OneAtMost
<1> QED BY <1>4, <1>5 DEF SitesStep

LEMMA CrashSteps ==
  ASSUME SitesInv, DiesWriting
  PROVE  SitesStep
<1>1. /\ sitesFile' = [sitesFile EXCEPT !.torn = TRUE] /\ steady' = FALSE
      /\ table' = [rows |-> <<>>, row |-> 0, ascending |-> TRUE]
      /\ editor' = ClosedEditor /\ vault' = vault /\ hostKeys' = hostKeys /\ minted' = minted
      /\ given' = given /\ steps' = steps
  BY DEF DiesWriting
<1>2. sitesFile = [torn |-> sitesFile.torn, list |-> sitesFile.list] /\ ListOK(sitesFile.list)
      /\ IdsIn(sitesFile.list, minted)
  BY DEF SitesInv, SiteTypes
<1>3. sitesFile' = [torn |-> TRUE, list |-> sitesFile.list]
  BY <1>1, <1>2
<1>4. TableOK(table') /\ EditorOK(editor')
  <2>1. EditorOK(editor')
    BY <1>1, BlankEditors
  <2>2. table'.rows = <<>> /\ table'.row = 0 /\ table'.ascending = TRUE
        /\ table' = [rows |-> table'.rows, row |-> table'.row, ascending |-> table'.ascending]
    BY <1>1
  <2>3. <<>> \in Seq(RowRecs) /\ Len(<<>>) = 0
    BY EmptySeq
  <2>4. table'.row \in 0..Len(table'.rows)
    BY <2>2, <2>3
  <2> QED BY <2>1, <2>2, <2>3, <2>4 DEF TableOK
<1>5. sitesFile'.torn = TRUE /\ sitesFile'.list = sitesFile.list
      /\ sitesFile' = [torn |-> sitesFile'.torn, list |-> sitesFile'.list]
  BY <1>3
<1>6. /\ vault' \in VaultType /\ hostKeys' \subseteq SiteHosts /\ minted' \subseteq SiteIds
      /\ DOMAIN given' \subseteq minted' /\ steps' \in 0..MaxSiteSteps
  BY <1>1, TypesAre
<1>7. SiteTypes'
  BY <1>1, <1>2, <1>4, <1>5, <1>6 DEF SiteTypes
<1>8. SitesInv'
  BY <1>1, <1>2, <1>5, <1>7 DEF SitesInv
<1> QED BY <1>5, <1>8 DEF SitesStep

LEMMA SitesSteps ==
  ASSUME SitesInv, [SitesNext]_siteVars
  PROVE  SitesStep
<1>1. CASE \/ (\E i \in DOMAIN table.rows : SelectRow(i)) \/ SortRequested \/ NewRequested
           \/ EditRequested \/ (\E name \in SiteNames : SaveRefused(name)) \/ ConnectRequested
  BY <1>1, TableClicks
<1>2. CASE RouteClicks
  <2>1. CASE \E name \in SiteNames, delete \in BOOLEAN : MergeConfirmed(name, delete)
    BY <2>1, MergeSteps
  <2>2. CASE \/ RouteAddRequested
             \/ \E i \in DOMAIN editor.routes : RouteEditRequested(i) \/ RouteRemoveRequested(i)
             \/ \E label \in RouteLabels, host \in SiteHosts : RouteSaveRequested(label, host)
             \/ RouteEditorCancelled \/ MergeOpenRequested \/ MergeCancelled
    BY <2>2, RouteSteps
  <2> QED BY <1>2, <2>1, <2>2 DEF RouteClicks
<1>3. CASE DeleteRequested
  BY <1>3, DeleteSteps
<1>4. CASE ImportRequested
  BY <1>4, ImportSteps
<1>5. CASE \E name \in SiteNames \cup {NoText}, password \in Typed \cup {editor.password},
              proxypass \in Typed \cup {editor.proxypass}, jump \in BOOLEAN,
              host \in (IF editor.isAdd THEN SiteHosts ELSE {editor.host}) :
             SaveRequested(name, host, password, proxypass, jump)
  BY <1>5, SaveSteps
<1>6. CASE \E name \in SiteNames \cup {NoText}, host \in SiteHosts, password \in Typed :
             QuickSaves(name, host, password)
  BY <1>6, QuickSaveSteps
<1>7. CASE KeyringTurns
  BY <1>7, KeyringSteps
<1>8. CASE DiesWriting
  BY <1>8, CrashSteps
<1>9. CASE UNCHANGED siteVars
  <2>1. /\ sitesFile' = sitesFile /\ vault' = vault /\ sitePrefs' = sitePrefs /\ table' = table
        /\ editor' = editor /\ hostKeys' = hostKeys /\ minted' = minted /\ given' = given
        /\ steady' = steady /\ steps' = steps
    BY <1>9 DEF siteVars
  <2>2. SiteTypes'
    BY <2>1 DEF SitesInv, SiteTypes
  <2>3. SitesInv'
    BY <2>1, <2>2 DEF SitesInv
  <2>4. OneAtMost(sitesFile.list, sitesFile'.list)
    BY <2>1 DEF OneAtMost
  <2> QED BY <2>3, <2>4 DEF SitesStep
<1> QED BY <1>1, <1>2, <1>3, <1>4, <1>5, <1>6, <1>7, <1>8, <1>9, Zenon DEF SitesNext

LEMMA SitesStarts == SitesInit => SitesInv
<1> SUFFICES ASSUME SitesInit PROVE SitesInv
  OBVIOUS
<1> DEFINE l == sitesFile.list
           rows == SortedRows(l, TRUE)
<1>1. /\ sitesFile \in [torn : {FALSE}, list : SiteFiles] /\ vault \in Vaults
      /\ table = [rows |-> rows, row |-> 0, ascending |-> TRUE]
      /\ editor = ClosedEditor /\ hostKeys = SiteHosts
      /\ minted = {l[i].id : i \in DOMAIN l} \ {NoId}
      /\ given = <<>> /\ steady = vault.up /\ steps = 0
  BY DEF SitesInit
<1>2. sitesFile = [torn |-> sitesFile.torn, list |-> l] /\ sitesFile.torn = FALSE
      /\ l \in SiteFiles
  BY <1>1
<1>3. ListOK(l) /\ vault \in VaultType
  BY <1>1, <1>2, SitesAssumption DEF ListOK
<1>4. rows \in Seq(RowRecs)
  BY <1>3, RowsAre DEF ListOK
<1>5. minted \subseteq SiteIds /\ IdsIn(l, minted)
  <2>1. \A i \in DOMAIN l : l[i].id \in SiteIds \cup {NoId}
    <3>1. \A i \in DOMAIN l : l[i] \in SiteRecords
      BY <1>3, ListFacts
    <3> QED BY <3>1, SiteIs
  <2> QED BY <1>1, <2>1 DEF IdsIn
<1> HIDE DEF l, rows
<1>6. TableOK(table)
  <2>1. Len(rows) \in Nat
    BY <1>4
  <2>2. table.rows = rows /\ table.row = 0 /\ table.ascending = TRUE
        /\ table = [rows |-> table.rows, row |-> table.row, ascending |-> table.ascending]
    BY <1>1
  <2>3. table.row \in 0..Len(table.rows)
    BY <2>1, <2>2
  <2> QED BY <1>4, <2>2, <2>3 DEF TableOK
<1>7. EditorOK(editor)
  BY <1>1, BlankEditors
<1>8. DOMAIN given = {}
  BY <1>1, EmptySeq
<1>9. steps \in 0..MaxSiteSteps /\ steady \in BOOLEAN
  <2>1. vault.up \in BOOLEAN
    BY <1>3, VaultIs
  <2> QED BY <1>1, <2>1, SitesAssumption
<1>10. SiteTypes
  BY <1>1, <1>2, <1>3, <1>5, <1>6, <1>7, <1>8, <1>9 DEF SiteTypes, l
<1>11. steady => vault.up /\ Remembered(l, vault.ring, given)
  BY <1>1, <1>8 DEF Remembered
<1> QED BY <1>5, <1>10, <1>11 DEF SitesInv, l

(* What the invariant says: the run's two properties. *)
LEMMA SitesSay == SitesInv => SitesTypeOK /\ LastSavedIsUsed
<1> SUFFICES ASSUME SitesInv PROVE SitesTypeOK /\ LastSavedIsUsed
  OBVIOUS
<1>1. SitesTypeOK
  <2>1. TableOK(table) /\ EditorOK(editor) /\ ListOK(sitesFile.list)
    BY DEF SitesInv, SiteTypes
  <2>2. table.row \in 0..Len(table.rows)
    BY <2>1 DEF TableOK
  <2>3. editor.sub \in {"closed", "add", "edit"}
    BY <2>1 DEF EditorOK
  <2>4. sitesFile.list \in Seq(SiteRecords)
    BY <2>1 DEF ListOK
  <2> QED BY <2>2, <2>3, <2>4 DEF SitesInv, SiteTypes, SitesTypeOK
<1>2. ASSUME steady, NEW i \in DOMAIN SiteList, SiteList[i].id \in DOMAIN given,
             given[SiteList[i].id].password # NoText
      PROVE  SiteSecret(vault, SiteList[i], "password") = given[SiteList[i].id].password
  <2> DEFINE s == SiteList[i]
             k == IdKey(s.id, "password")
  <2>1. Remembered(SiteList, vault.ring, given) /\ vault.up
    BY <1>2, ListIs DEF SitesInv
  <2>2. vault.ring[k] = given[s.id].password
    BY <1>2, <2>1 DEF Remembered
  <2> HIDE DEF k
  <2>3. PrimarySecret(vault, k) = given[s.id].password
    BY <2>1, <2>2 DEF PrimarySecret
  <2>4. GetSecret(vault, k) = given[s.id].password
    BY <1>2, <2>3 DEF GetSecret
  <2>5. GetSecret(vault, IdKey(s.id, "password")) # NoText
    BY <1>2, <2>4 DEF k
  <2> QED BY <2>4, <2>5 DEF SiteSecret, k
<1>3. LastSavedIsUsed
  BY <1>2 DEF LastSavedIsUsed
<1> QED BY <1>1, <1>3

(* A session signs in with what was last saved for its site: no edit,       *)
(* rename, import or deletion of another site, and no move of a secret      *)
(* between the stores, changes it.  (site_manager.rs: save_site_inner,      *)
(* delete_site, upsert_imported_sites; secrets.rs: set_secret, get_secret)  *)
THEOREM SavedSitesAreUsed == SitesSpec => [](SitesTypeOK /\ LastSavedIsUsed)
<1>1. SitesInv /\ [SitesNext]_siteVars => SitesInv'
  BY SitesSteps DEF SitesStep
<1> QED BY <1>1, SitesStarts, SitesSay, PTL DEF SitesSpec

LEMMA OneSiteSteps ==
  ASSUME SitesInv, [SitesNext]_siteVars, ~sitesFile'.torn, ~sitesFile.torn
  PROVE  LET kept == {i \in DOMAIN sitesFile.list :
                        \E j \in DOMAIN sitesFile'.list :
                          sitesFile'.list[j] = sitesFile.list[i]}
         IN \A i, j \in DOMAIN sitesFile.list : i \notin kept /\ j \notin kept => i = j
<1>1. OneAtMost(sitesFile.list, sitesFile'.list)
  BY SitesSteps DEF SitesStep
<1> QED BY <1>1 DEF OneAtMost

(* A save, a rename or a deletion changes one site of the file at most, for *)
(* any list of sites and any ranking it is shown in.  (site_manager.rs:       *)
(* upsert_by_name, delete_site, refresh_rows_from_sites)                    *)
THEOREM OneSiteIsChanged == SitesSpec => OneSiteAtATime
<1>1. SitesInv /\ [SitesNext]_siteVars => SitesInv'
  BY SitesSteps DEF SitesStep
<1> QED BY <1>1, SitesStarts, OneSiteSteps, PTL DEF SitesSpec, OneSiteAtATime
-----------------------------------------------------------------------------
(* The configuration.                                                      *)
Values == STRING \ {NoValue}
ReaderRecs == [file : STRING, at : Nat, block : Nat, todo : Seq(STRING)]
BlockRecs ==
  [pats : SUBSET Patterns, vals : [Params -> Values \cup {NoValue}], ids : Seq(Values)]
ReadRecs == [pats : SUBSET Patterns, block : Nat, param : Keywords, value : Values]

(* A reader is at a line of a file, inside a block only after a Host line    *)
(* with no Match line since, and a file's Include lines nest so far and no   *)
(* further.                                                                  *)
InsideHost(r) ==
  \E j \in 1..(r.at - 1) :
    /\ j \in DOMAIN texts[r.file] /\ texts[r.file][j].kw = "host"
    /\ \A k \in j..(r.at - 1) : texts[r.file][k].kw # "match"
(* Without an Include inside a Host block, only the file being read is in a  *)
(* block, the last one begun.                                                *)
ReadersFit(rs, n) ==
  /\ rs \in Seq(ReaderRecs)
  /\ Len(rs) <= IncludeDepth + 1
  /\ \A i \in DOMAIN rs :
       /\ rs[i].file \in DOMAIN texts /\ rs[i].at >= 1 /\ rs[i].block <= n
       /\ rs[i].todo # <<>> => Len(rs) - i + 1 <= IncludeDepth
       /\ rs[i].block # NoBlock => InsideHost(rs[i])
       /\ ~IncludeInBlock =>
            /\ i # 1 \/ rs[i].todo # <<>> => rs[i].block = NoBlock
            /\ rs[i].block \in {NoBlock, n}
ReadersOK == ReadersFit(readers, Len(blocks))
ResolvedInv ==
  ~IncludeInBlock =>
    \A h \in HostNames, p \in Keywords : ResolvedValue(h, p) = FirstObtained(h, p)
ConfigInv ==
  /\ texts \in ConfigTexts /\ visited \subseteq DOMAIN texts
  /\ blocks \in Seq(BlockRecs) /\ readLines \in Seq(ReadRecs)
  /\ ReadersOK /\ ResolvedInv

-----------------------------------------------------------------------------
(* The first of some places of a sequence. *)
LEMMA FirstPlace ==
  ASSUME NEW I \in SUBSET Nat, I # {}
  PROVE  LET first == CHOOSE i \in I : \A j \in I : i <= j IN
         first \in I /\ \A j \in I : first <= j
<1>1. \E i \in I : \A j \in I : i <= j
  BY LeastNat
<1> QED BY <1>1

LEMMA FirstOfIs ==
  ASSUME NEW s, NEW I \in SUBSET Nat
  PROVE  /\ I = {} => FirstOf(s, I) = NoValue
         /\ I # {} => \E i \in I : FirstOf(s, I) = s[i] /\ \A j \in I : i <= j
<1>1. I = {} => FirstOf(s, I) = NoValue
  BY DEF FirstOf
<1>2. ASSUME I # {} PROVE \E i \in I : FirstOf(s, I) = s[i] /\ \A j \in I : i <= j
  <2> DEFINE first == CHOOSE i \in I : \A j \in I : i <= j
  <2>1. first \in I /\ \A j \in I : first <= j
    BY <1>2, FirstPlace
  <2>2. FirstOf(s, I) = s[first]
    BY <1>2 DEF FirstOf
  <2> HIDE DEF first
  <2> QED BY <2>1, <2>2
<1> QED BY <1>1, <1>2

(* A first value stays the first when places are added after it, and when    *)
(* there was none, the first added is.                                       *)
LEMMA FirstOfSame ==
  ASSUME NEW s, NEW t, NEW I \in SUBSET Nat, \A i \in I : s[i] = t[i]
  PROVE  FirstOf(s, I) = FirstOf(t, I)
<1>1. PICK a : I # {} => a \in I /\ FirstOf(s, I) = s[a] /\ \A j \in I : a <= j
  BY FirstOfIs
<1>2. PICK b : I # {} => b \in I /\ FirstOf(t, I) = t[b] /\ \A j \in I : b <= j
  BY FirstOfIs
<1>3. I # {} => a = b
  <2> SUFFICES ASSUME I # {} PROVE a = b
    OBVIOUS
  <2>1. a \in Nat /\ b \in Nat /\ a <= b /\ b <= a
    BY <1>1, <1>2
  <2> QED BY <2>1
<1>4. I = {} => FirstOf(s, I) = FirstOf(t, I)
  BY FirstOfIs
<1> QED BY <1>1, <1>2, <1>3, <1>4

LEMMA FirstOfMore ==
  ASSUME NEW s, NEW I \in SUBSET Nat, NEW n \in Nat, \A i \in I : i < n
  PROVE  FirstOf(s, I \cup {n}) = IF I = {} THEN s[n] ELSE FirstOf(s, I)
<1>0. I \cup {n} \in SUBSET Nat /\ I \cup {n} # {}
  OBVIOUS
<1> DEFINE J == I \cup {n}
<1>1. \A j : j \in J <=> j \in I \/ j = n
  OBVIOUS
<1>2. J \in SUBSET Nat /\ J # {}
  BY <1>0
<1> HIDE DEF J
<1>3. PICK b \in J : FirstOf(s, J) = s[b] /\ \A j \in J : b <= j
  BY <1>2, FirstOfIs
<1>4. CASE I = {}
  BY <1>1, <1>3, <1>4 DEF J
<1>5. CASE I # {}
  <2>1. PICK a \in I : FirstOf(s, I) = s[a] /\ \A j \in I : a <= j
    BY <1>5, FirstOfIs
  <2>2. a \in J /\ a \in Nat /\ b \in Nat /\ b <= a /\ a < n
    BY <1>1, <1>2, <1>3, <2>1
  <2>3. b \in I
    BY <1>1, <2>2
  <2>4. a = b
    BY <2>1, <2>2, <2>3
  <2> QED BY <1>3, <1>5, <2>1, <2>4 DEF J
<1> QED BY <1>4, <1>5

-----------------------------------------------------------------------------
(* What blocks and lines say. *)
Says(bs, h, p) ==
  {i \in DOMAIN bs : BlockMatches(bs[i].pats, h) /\ BlockValue(bs[i], p) # NoValue}
BlockValues(bs, p) == [i \in DOMAIN bs |-> BlockValue(bs[i], p)]
LinesSaying(ls, h, p) == {i \in DOMAIN ls : ls[i].param = p /\ BlockMatches(ls[i].pats, h)}
LineValues(ls) == [i \in DOMAIN ls |-> ls[i].value]

LEMMA ResolvedIs ==
  ASSUME NEW h, NEW p
  PROVE  /\ ResolvedValue(h, p) = FirstOf(BlockValues(blocks, p), Says(blocks, h, p))
         /\ FirstObtained(h, p) = FirstOf(LineValues(readLines), LinesSaying(readLines, h, p))
         /\ LinesFor(h, p) = LinesSaying(readLines, h, p) /\ ReadValues = LineValues(readLines)
<1>1. {i \in Matching(h) : BlockValue(blocks[i], p) # NoValue} = Says(blocks, h, p)
  BY DEF Matching, Says
<1>2. ResolvedValue(h, p) = FirstOf(BlockValues(blocks, p), Says(blocks, h, p))
  BY <1>1 DEF ResolvedValue, BlockValues
<1>3. LinesFor(h, p) = LinesSaying(readLines, h, p) /\ ReadValues = LineValues(readLines)
  BY DEF LinesFor, ReadValues, LineValues, LinesSaying
<1> QED BY <1>2, <1>3 DEF FirstObtained

LEMMA BlockIs ==
  ASSUME NEW b \in BlockRecs
  PROVE  /\ b = [pats |-> b.pats, vals |-> b.vals, ids |-> b.ids]
         /\ b.pats \in SUBSET Patterns /\ b.vals \in [Params -> Values \cup {NoValue}]
         /\ b.ids \in Seq(Values) /\ DOMAIN b.ids = 1..Len(b.ids) /\ Len(b.ids) \in Nat
<1> DEFINE P == SUBSET Patterns
           F == [Params -> Values \cup {NoValue}]
           S == Seq(Values)
<1>1. BlockRecs = [pats : P, vals : F, ids : S]
  BY DEF BlockRecs
<1> HIDE DEF P, F, S
<1>2. b = [pats |-> b.pats, vals |-> b.vals, ids |-> b.ids] /\ b.pats \in P /\ b.vals \in F
      /\ b.ids \in S
  BY <1>1
<1>3. b.ids \in S => DOMAIN b.ids = 1..Len(b.ids) /\ Len(b.ids) \in Nat
  BY DEF S
<1> QED BY <1>2, <1>3 DEF P, F, S

LEMMA BlockMade ==
  ASSUME NEW pats \in SUBSET Patterns, NEW vals \in [Params -> Values \cup {NoValue}],
         NEW ids \in Seq(Values)
  PROVE  [pats |-> pats, vals |-> vals, ids |-> ids] \in BlockRecs
<1> DEFINE P == SUBSET Patterns
           F == [Params -> Values \cup {NoValue}]
           S == Seq(Values)
<1>1. BlockRecs = [pats : P, vals : F, ids : S]
  BY DEF BlockRecs
<1>2. pats \in P /\ vals \in F /\ ids \in S
  OBVIOUS
<1> HIDE DEF P, F, S
<1> QED BY <1>1, <1>2

LEMMA IdsAre ==
  ASSUME NEW ids \in Seq(Values)
  PROVE  /\ FirstOf(ids, DOMAIN ids) = IF ids = <<>> THEN NoValue ELSE ids[1]
         /\ ids # <<>> => ids[1] \in Values
<1> DEFINE D == DOMAIN ids
<1>1. Len(ids) \in Nat /\ D = 1..Len(ids) /\ (ids = <<>> <=> Len(ids) = 0)
  BY EmptySeq
<1>2. D \in SUBSET Nat
  BY <1>1
<1>3. CASE ids = <<>>
  <2>1. D = {}
    BY <1>1, <1>3
  <2> HIDE DEF D
  <2>2. FirstOf(ids, D) = NoValue
    BY <1>2, <2>1, FirstOfIs
  <2> QED BY <1>3, <2>2 DEF D
<1>4. CASE ids # <<>>
  <2>1. 1 \in D
    BY <1>1, <1>4
  <2>2. ids[1] \in Values
    BY <2>1
  <2> HIDE DEF D
  <2>3. PICK a \in D : FirstOf(ids, D) = ids[a] /\ \A j \in D : a <= j
    BY <1>2, <2>1, FirstOfIs
  <2>4. a = 1
    BY <1>1, <2>1, <2>3
  <2> QED BY <1>4, <2>2, <2>3, <2>4 DEF D
<1> QED BY <1>3, <1>4

LEMMA ValueIs ==
  ASSUME NEW b \in BlockRecs, NEW p \in Keywords
  PROVE  BlockValue(b, p) \in Values \cup {NoValue}
<1>1. CASE p = "identityfile"
  BY <1>1, BlockIs, IdsAre DEF BlockValue
<1>2. CASE p # "identityfile"
  <2>1. p \in Params
    BY <1>2 DEF Keywords
  <2> QED BY <1>2, <2>1, BlockIs DEF BlockValue
<1> QED BY <1>1, <1>2

LEMMA NewBlockIs ==
  ASSUME NEW pats \in SUBSET Patterns
  PROVE  /\ NewBlock(pats) \in BlockRecs
         /\ \A p \in Keywords : BlockValue(NewBlock(pats), p) = NoValue
<1> DEFINE vals == [p \in Params |-> NoValue]
<1>1. NewBlock(pats) = [pats |-> pats, vals |-> vals, ids |-> <<>>]
  BY DEF NewBlock
<1>2. vals \in [Params -> Values \cup {NoValue}] /\ <<>> \in Seq(Values)
  BY EmptySeq
<1>3. \A p \in Params : vals[p] = NoValue
  OBVIOUS
<1> HIDE DEF vals
<1>4. NewBlock(pats) \in BlockRecs
  BY <1>1, <1>2, BlockMade
<1>5. NewBlock(pats).vals = vals /\ NewBlock(pats).ids = <<>>
  BY <1>1
<1>6. ASSUME NEW p \in Keywords PROVE BlockValue(NewBlock(pats), p) = NoValue
  <2>1. CASE p = "identityfile"
    BY <1>2, <1>5, <2>1, IdsAre DEF BlockValue
  <2>2. CASE p # "identityfile"
    BY <1>3, <1>5, <2>2 DEF BlockValue, Keywords
  <2> QED BY <2>1, <2>2
<1> QED BY <1>4, <1>6

LEMMA FilledIs ==
  ASSUME NEW b \in BlockRecs, NEW kw \in Keywords, NEW v \in Values
  PROVE  /\ Filled(b, kw, v) \in BlockRecs /\ Filled(b, kw, v).pats = b.pats
         /\ BlockValue(Filled(b, kw, v), kw)
              = IF BlockValue(b, kw) = NoValue THEN v ELSE BlockValue(b, kw)
         /\ \A p \in Keywords : p # kw => BlockValue(Filled(b, kw, v), p) = BlockValue(b, p)
<1> DEFINE w == Filled(b, kw, v)
<1>0. /\ b = [pats |-> b.pats, vals |-> b.vals, ids |-> b.ids]
      /\ b.pats \in SUBSET Patterns /\ b.vals \in [Params -> Values \cup {NoValue}]
      /\ b.ids \in Seq(Values)
  BY BlockIs
<1>1. v # NoValue
  BY DEF Values
<1>2. ASSUME NEW c, c = b
      PROVE  /\ c \in BlockRecs /\ c.pats = b.pats
             /\ \A p \in Keywords : BlockValue(c, p) = BlockValue(b, p)
  BY <1>2
<1>3. CASE kw = "identityfile"
  <2>1. CASE v \in ToSet(b.ids)
    <3>1. w = b
      BY <1>3, <2>1 DEF Filled
    <3>2. b.ids # <<>>
      <4>1. b.ids = <<>> => ToSet(b.ids) = {}
        BY EmptySeq DEF ToSet
      <4> QED BY <2>1, <4>1
    <3>3. BlockValue(b, kw) # NoValue
      <4>1. b.ids[1] \in Values
        BY <1>0, <3>2, IdsAre
      <4>2. BlockValue(b, kw) = b.ids[1]
        BY <1>0, <1>3, <3>2, IdsAre DEF BlockValue
      <4> QED BY <4>1, <4>2 DEF Values
    <3> HIDE DEF w
    <3> QED BY <3>1, <3>3 DEF w
  <2>2. CASE v \notin ToSet(b.ids)
    <3> DEFINE ids == Append(b.ids, v)
    <3>1. w = [b EXCEPT !.ids = ids]
      BY <1>3, <2>2 DEF Filled
    <3>2. ids \in Seq(Values) /\ ids # <<>> /\ ids[1] = IF b.ids = <<>> THEN v ELSE b.ids[1]
      <4>1. ids \in Seq(Values) /\ Len(ids) = Len(b.ids) + 1 /\ Len(b.ids) \in Nat
            /\ ids[Len(b.ids) + 1] = v /\ \A i \in 1..Len(b.ids) : ids[i] = b.ids[i]
        BY <1>0
      <4>2. b.ids = <<>> <=> Len(b.ids) = 0
        BY <1>0, EmptySeq
      <4>3. b.ids # <<>> => 1 \in 1..Len(b.ids)
        BY <4>1, <4>2
      <4>4. Len(ids) # 0
        BY <4>1
      <4> HIDE DEF ids
      <4> QED BY <4>1, <4>2, <4>3, <4>4, EmptySeq
    <3> HIDE DEF ids, w
    <3>3. w = [pats |-> b.pats, vals |-> b.vals, ids |-> ids]
      BY <1>0, <3>1
    <3>4. w \in BlockRecs
      BY <1>0, <3>2, <3>3, BlockMade
    <3>5. w.pats = b.pats /\ w.vals = b.vals /\ w.ids = ids
      BY <3>3
    <3>6. BlockValue(w, kw) = IF b.ids = <<>> THEN v ELSE b.ids[1]
      BY <1>3, <3>2, <3>5, IdsAre DEF BlockValue
    <3>7. BlockValue(b, kw) = IF b.ids = <<>> THEN NoValue ELSE b.ids[1]
      BY <1>0, <1>3, IdsAre DEF BlockValue
    <3>8. b.ids # <<>> => b.ids[1] # NoValue
      BY <1>0, IdsAre DEF Values
    <3>9. \A p \in Keywords : p # kw => BlockValue(w, p) = BlockValue(b, p)
      BY <1>3, <3>5 DEF BlockValue
    <3> QED BY <3>4, <3>5, <3>6, <3>7, <3>8, <3>9 DEF w
  <2> QED BY <2>1, <2>2
<1>4. CASE kw # "identityfile"
  <2>0. kw \in Params
    BY <1>4 DEF Keywords
  <2>1. BlockValue(b, kw) = b.vals[kw]
    BY <1>4 DEF BlockValue
  <2>2. CASE b.vals[kw] # NoValue
    <3>1. w = b
      BY <1>4, <2>2 DEF Filled
    <3> HIDE DEF w
    <3> QED BY <2>1, <2>2, <3>1 DEF w
  <2>3. CASE b.vals[kw] = NoValue
    <3> DEFINE vals == [b.vals EXCEPT ![kw] = v]
    <3>1. w = [b EXCEPT !.vals = vals]
      BY <1>0, <1>4, <2>3 DEF Filled
    <3>2. /\ vals \in [Params -> Values \cup {NoValue}] /\ vals[kw] = v
          /\ \A p \in Params : p # kw => vals[p] = b.vals[p]
      BY <1>0, <2>0
    <3> HIDE DEF vals, w
    <3>3. w = [pats |-> b.pats, vals |-> vals, ids |-> b.ids]
      BY <1>0, <3>1
    <3>4. w \in BlockRecs
      BY <1>0, <3>2, <3>3, BlockMade
    <3>5. w.pats = b.pats /\ w.vals = vals /\ w.ids = b.ids
      BY <3>3
    <3>6. BlockValue(w, kw) = v
      BY <1>4, <3>2, <3>5 DEF BlockValue
    <3>7. \A p \in Keywords : p # kw => BlockValue(w, p) = BlockValue(b, p)
      BY <3>2, <3>5 DEF BlockValue, Keywords
    <3> QED BY <2>1, <2>3, <3>4, <3>5, <3>6, <3>7 DEF w
  <2> QED BY <2>2, <2>3
<1> QED BY <1>3, <1>4

(* A new block resolves nothing. *)
LEMMA NewBlockSays ==
  ASSUME NEW bs \in Seq(BlockRecs), NEW pats \in SUBSET Patterns, NEW h, NEW p \in Keywords
  PROVE  LET cs == Append(bs, NewBlock(pats)) IN
         FirstOf(BlockValues(cs, p), Says(cs, h, p))
           = FirstOf(BlockValues(bs, p), Says(bs, h, p))
<1> DEFINE b == NewBlock(pats)
           cs == Append(bs, b)
           N == Len(bs)
<1>1. b \in BlockRecs /\ BlockValue(b, p) = NoValue
  BY NewBlockIs
<1> HIDE DEF b
<1>2. /\ cs \in Seq(BlockRecs) /\ N \in Nat /\ DOMAIN bs = 1..N /\ DOMAIN cs = 1..(N + 1)
      /\ cs[N + 1] = b /\ \A i \in 1..N : cs[i] = bs[i]
  BY <1>1
<1> HIDE DEF cs, N
<1>3. \A i : i \in DOMAIN cs <=> i \in DOMAIN bs \/ i = N + 1
  BY <1>2
<1>4. Says(cs, h, p) = Says(bs, h, p)
  BY <1>1, <1>2, <1>3 DEF Says
<1>5. Says(bs, h, p) \in SUBSET Nat
  BY <1>2 DEF Says
<1>6. \A i \in Says(bs, h, p) : BlockValues(cs, p)[i] = BlockValues(bs, p)[i]
  <2>1. \A i \in Says(bs, h, p) : i \in DOMAIN bs
    BY DEF Says
  <2> QED BY <1>2, <1>3, <2>1 DEF BlockValues
<1>7. FirstOf(BlockValues(cs, p), Says(bs, h, p)) = FirstOf(BlockValues(bs, p), Says(bs, h, p))
  BY <1>5, <1>6, FirstOfSame
<1> QED BY <1>4, <1>7 DEF cs, b

LEMMA ReadIs ==
  ASSUME NEW ls \in Seq(ReadRecs), NEW i \in DOMAIN ls
  PROVE  ls[i].value \in Values
<1> DEFINE P == SUBSET Patterns
           V == Values
<1>1. ReadRecs = [pats : P, block : Nat, param : Keywords, value : V]
  BY DEF ReadRecs
<1> HIDE DEF P, V
<1>2. ls[i] \in ReadRecs
  OBVIOUS
<1> QED BY <1>1, <1>2 DEF V

(* Nothing said is nothing obtained. *)
LEMMA NothingSaid ==
  ASSUME NEW bs \in Seq(BlockRecs), NEW ls \in Seq(ReadRecs), NEW h, NEW p \in Keywords
  PROVE  /\ FirstOf(BlockValues(bs, p), Says(bs, h, p)) = NoValue <=> Says(bs, h, p) = {}
         /\ FirstOf(LineValues(ls), LinesSaying(ls, h, p)) = NoValue
            <=> LinesSaying(ls, h, p) = {}
<1> DEFINE S == Says(bs, h, p)
           L == LinesSaying(ls, h, p)
<1>1. S \in SUBSET Nat /\ \A i \in S : i \in DOMAIN bs /\ BlockValue(bs[i], p) # NoValue
  BY DEF Says
<1>2. L \in SUBSET Nat /\ \A i \in L : i \in DOMAIN ls
  BY DEF LinesSaying
<1> HIDE DEF S, L
<1>3. \A i \in S : BlockValues(bs, p)[i] # NoValue
  BY <1>1 DEF BlockValues
<1>4. \A i \in L : LineValues(ls)[i] # NoValue
  <2>1. \A i \in DOMAIN ls : ls[i].value \in Values
    BY ReadIs
  <2> QED BY <1>2, <2>1 DEF LineValues, Values
<1>5. FirstOf(BlockValues(bs, p), S) = NoValue <=> S = {}
  BY <1>1, <1>3, FirstOfIs
<1>6. FirstOf(LineValues(ls), L) = NoValue <=> L = {}
  BY <1>2, <1>4, FirstOfIs
<1> QED BY <1>5, <1>6 DEF S, L

(* A parameter read into the last block is the last one obtained. *)
LEMMA ParamSays ==
  ASSUME NEW bs \in Seq(BlockRecs), bs # <<>>, NEW ls \in Seq(ReadRecs), NEW h,
         NEW kw \in Keywords, NEW v \in Values, NEW p \in Keywords,
         NEW line, line.pats = bs[Len(bs)].pats, line.param = kw, line.value = v,
         FirstOf(BlockValues(bs, p), Says(bs, h, p))
           = FirstOf(LineValues(ls), LinesSaying(ls, h, p))
  PROVE  LET cs == [bs EXCEPT ![Len(bs)] = Filled(@, kw, v)]
             ms == Append(ls, line)
         IN FirstOf(BlockValues(cs, p), Says(cs, h, p))
           = FirstOf(LineValues(ms), LinesSaying(ms, h, p))
<1> DEFINE N == Len(bs)
           M == Len(ls)
           b == bs[N]
           c == Filled(b, kw, v)
           cs == [bs EXCEPT ![N] = c]
           ms == Append(ls, line)
           S == Says(bs, h, p)
           L == LinesSaying(ls, h, p)
<1>1. N \in Nat /\ N # 0 /\ DOMAIN bs = 1..N /\ N \in 1..N /\ b \in BlockRecs
  BY EmptySeq
<1>2. /\ c.pats = b.pats
      /\ BlockValue(c, kw) = IF BlockValue(b, kw) = NoValue THEN v ELSE BlockValue(b, kw)
      /\ p # kw => BlockValue(c, p) = BlockValue(b, p)
  BY <1>1, FilledIs
<1>3. DOMAIN cs = 1..N /\ cs[N] = c /\ \A i \in 1..N : i # N => cs[i] = bs[i]
  BY <1>1
<1>4. line.pats = b.pats /\ line.param = kw /\ line.value = v
  OBVIOUS
<1>5. M \in Nat /\ DOMAIN ls = 1..M /\ DOMAIN ms = 1..(M + 1)
      /\ ms[M + 1] = line /\ \A i \in 1..M : ms[i] = ls[i]
  OBVIOUS
<1>6. S \in SUBSET (1..N) /\ \A i \in 1..N : i \in S <=> BlockMatches(bs[i].pats, h)
      /\ BlockValue(bs[i], p) # NoValue
  BY <1>1 DEF Says
<1>7. L \in SUBSET (1..M) /\ \A i \in 1..M : i \in L <=> ls[i].param = p
      /\ BlockMatches(ls[i].pats, h)
  BY <1>5 DEF LinesSaying
<1>8. bs[N] = b
  OBVIOUS
<1>9. /\ FirstOf(BlockValues(bs, p), S) = NoValue <=> S = {}
      /\ FirstOf(LineValues(ls), L) = NoValue <=> L = {}
  BY NothingSaid
<1>10. FirstOf(BlockValues(bs, p), S) = FirstOf(LineValues(ls), L)
  OBVIOUS
<1> HIDE DEF N, M, b, c, cs, ms, S, L
<1>11. /\ \A i : i \in Says(cs, h, p) <=> i \in 1..N /\ BlockMatches(cs[i].pats, h)
          /\ BlockValue(cs[i], p) # NoValue
       /\ \A i : i \in LinesSaying(ms, h, p) <=> i \in 1..(M + 1) /\ ms[i].param = p
          /\ BlockMatches(ms[i].pats, h)
  BY <1>3, <1>5 DEF Says, LinesSaying
<1>12. /\ \A i \in 1..N : BlockValues(cs, p)[i] = BlockValue(cs[i], p)
       /\ \A i \in 1..N : BlockValues(bs, p)[i] = BlockValue(bs[i], p)
       /\ \A i \in 1..(M + 1) : LineValues(ms)[i] = ms[i].value
       /\ \A i \in 1..M : LineValues(ls)[i] = ls[i].value
  BY <1>1, <1>3, <1>5 DEF BlockValues, LineValues
<1>13. FirstOf(LineValues(ms), L) = FirstOf(LineValues(ls), L)
  <2>1. \A i \in L : LineValues(ms)[i] = LineValues(ls)[i]
    <3> SUFFICES ASSUME NEW i \in L PROVE LineValues(ms)[i] = LineValues(ls)[i]
      OBVIOUS
    <3>1. i \in 1..M /\ i \in 1..(M + 1)
      BY <1>5, <1>7
    <3> QED BY <1>5, <1>12, <3>1
  <2>2. L \in SUBSET Nat
    BY <1>5, <1>7
  <2> QED BY <2>1, <2>2, FirstOfSame
<1>14. S \in SUBSET Nat
  BY <1>1, <1>6
<1>15. CASE ~(kw = p /\ BlockMatches(b.pats, h))
  <2>1. Says(cs, h, p) = S
    <3>1. ASSUME NEW i \in 1..N PROVE i \in Says(cs, h, p) <=> i \in S
      <4>1. CASE i # N
        BY <1>3, <1>6, <1>11, <4>1
      <4>2. CASE i = N
        BY <1>2, <1>3, <1>6, <1>8, <1>11, <1>15, <4>2
      <4> QED BY <4>1, <4>2
    <3>2. \A i : i \in Says(cs, h, p) => i \in 1..N
      BY <1>11
    <3>3. \A i : i \in S => i \in 1..N
      BY <1>6
    <3> QED BY <3>1, <3>2, <3>3
  <2>2. \A i \in S : BlockValues(cs, p)[i] = BlockValues(bs, p)[i]
    <3> SUFFICES ASSUME NEW i \in S PROVE BlockValues(cs, p)[i] = BlockValues(bs, p)[i]
      OBVIOUS
    <3>1. i \in 1..N
      BY <1>6
    <3>2. BlockValue(cs[i], p) = BlockValue(bs[i], p)
      <4>1. CASE i # N
        BY <1>3, <3>1, <4>1
      <4>2. CASE i = N
        BY <1>2, <1>3, <1>6, <1>8, <1>15, <3>1, <4>2
      <4> QED BY <4>1, <4>2
    <3> QED BY <1>12, <3>1, <3>2
  <2>3. FirstOf(BlockValues(cs, p), S) = FirstOf(BlockValues(bs, p), S)
    BY <1>14, <2>2, FirstOfSame
  <2>4. LinesSaying(ms, h, p) = L
    <3>1. ASSUME NEW i \in 1..M PROVE i \in LinesSaying(ms, h, p) <=> i \in L
      BY <1>5, <1>7, <1>11
    <3>2. M + 1 \notin LinesSaying(ms, h, p)
      BY <1>4, <1>5, <1>11, <1>15
    <3>3. \A i : i \in 1..(M + 1) => i \in 1..M \/ i = M + 1
      BY <1>5
    <3>4. \A i : i \in LinesSaying(ms, h, p) => i \in 1..(M + 1)
      BY <1>11
    <3>5. \A i : i \in L => i \in 1..M
      BY <1>7
    <3> QED BY <3>1, <3>2, <3>3, <3>4, <3>5
  <2> QED BY <1>8, <1>10, <1>13, <2>1, <2>3, <2>4 DEF N, b, c, cs, ms
<1>16. CASE kw = p /\ BlockMatches(b.pats, h)
  <2>1. LinesSaying(ms, h, p) = L \cup {M + 1}
    <3>1. ASSUME NEW i \in 1..M PROVE i \in LinesSaying(ms, h, p) <=> i \in L
      BY <1>5, <1>7, <1>11
    <3>2. M + 1 \in LinesSaying(ms, h, p)
      BY <1>4, <1>5, <1>11, <1>16
    <3>3. \A i : i \in 1..(M + 1) => i \in 1..M \/ i = M + 1
      BY <1>5
    <3>4. \A i : i \in LinesSaying(ms, h, p) => i \in 1..(M + 1)
      BY <1>11
    <3>5. \A i : i \in L => i \in 1..M
      BY <1>7
    <3> QED BY <3>1, <3>2, <3>3, <3>4, <3>5
  <2>2. FirstOf(LineValues(ms), LinesSaying(ms, h, p)) = IF L = {} THEN v
        ELSE FirstOf(LineValues(ls), L)
    <3>0. \A i \in L : i \in 1..M
      BY <1>7
    <3>1. L \in SUBSET Nat /\ M + 1 \in Nat /\ \A i \in L : i < M + 1
      BY <1>5, <3>0
    <3>2. LineValues(ms)[M + 1] = v
      BY <1>4, <1>5, <1>12
    <3>3. FirstOf(LineValues(ms), L \cup {M + 1}) = IF L = {} THEN LineValues(ms)[M + 1]
          ELSE FirstOf(LineValues(ms), L)
      BY <3>1, FirstOfMore
    <3> QED BY <1>13, <2>1, <3>2, <3>3
  <2>3. \A i \in 1..N : i # N => (i \in Says(cs, h, p) <=> i \in S)
    BY <1>3, <1>6, <1>11
  <2>4. N \in Says(cs, h, p)
    <3>1. BlockValue(cs[N], p) # NoValue
      BY <1>2, <1>3, <1>16 DEF Values
    <3> QED BY <1>1, <1>2, <1>3, <1>11, <1>16, <3>1
  <2>5. /\ \A i : i \in Says(cs, h, p) => i \in 1..N
        /\ \A i : i \in S => i \in 1..N
    BY <1>6, <1>11
  <2>6. CASE N \in S
    <3>1. Says(cs, h, p) = S
      <4>1. ASSUME NEW i \in 1..N PROVE i \in Says(cs, h, p) <=> i \in S
        <5>1. CASE i # N
          BY <2>3, <5>1
        <5>2. CASE i = N
          BY <2>4, <2>6, <5>2
        <5> QED BY <5>1, <5>2
      <4> QED BY <2>5, <4>1
    <3>2. BlockValue(c, p) = BlockValue(b, p)
      BY <1>2, <1>6, <1>8, <1>16, <2>6
    <3>3. \A i \in S : BlockValues(cs, p)[i] = BlockValues(bs, p)[i]
      BY <1>3, <1>8, <1>12, <2>5, <3>2
    <3>4. FirstOf(BlockValues(cs, p), S) = FirstOf(BlockValues(bs, p), S)
      BY <1>14, <3>3, FirstOfSame
    <3>5. L # {}
      BY <1>9, <1>10, <2>6
    <3> QED BY <1>8, <1>10, <2>2, <3>1, <3>4, <3>5 DEF N, b, c, cs, ms
  <2>7. CASE N \notin S
    <3>1. Says(cs, h, p) = S \cup {N}
      BY <2>3, <2>4, <2>5, <2>7
    <3>2. \A i \in S : i < N
      BY <1>1, <1>14, <2>5, <2>7
    <3>3. FirstOf(BlockValues(cs, p), S \cup {N}) = IF S = {} THEN BlockValues(cs, p)[N]
          ELSE FirstOf(BlockValues(cs, p), S)
      BY <1>1, <1>14, <3>2, FirstOfMore
    <3>4. BlockValues(cs, p)[N] = v
      <4>1. BlockValue(b, kw) = NoValue
        BY <1>1, <1>6, <1>8, <1>16, <2>7
      <4> QED BY <1>1, <1>2, <1>3, <1>12, <1>16, <4>1
    <3>5. \A i \in S : BlockValues(cs, p)[i] = BlockValues(bs, p)[i]
      BY <1>3, <1>12, <2>5, <2>7
    <3>6. FirstOf(BlockValues(cs, p), S) = FirstOf(BlockValues(bs, p), S)
      BY <1>14, <3>5, FirstOfSame
    <3>7. S = {} <=> L = {}
      BY <1>9, <1>10
    <3> QED BY <1>8, <1>10, <2>2, <3>1, <3>3, <3>4, <3>6, <3>7 DEF N, b, c, cs, ms
  <2> QED BY <2>6, <2>7
<1> QED BY <1>15, <1>16

-----------------------------------------------------------------------------
(* The readers. *)
LEMMA TextsAre ==
  ASSUME texts \in ConfigTexts
  PROVE  /\ RootFile \in DOMAIN texts
         /\ \A f \in DOMAIN texts :
              /\ f \in STRING /\ Len(texts[f]) \in Nat /\ DOMAIN texts[f] = 1..Len(texts[f])
              /\ \A i \in DOMAIN texts[f] : LineOK(texts[f][i])
BY ConfigAssumption

LEMMA ReaderIs ==
  ASSUME NEW r \in ReaderRecs
  PROVE  /\ r = [file |-> r.file, at |-> r.at, block |-> r.block, todo |-> r.todo]
         /\ r.file \in STRING /\ r.at \in Nat /\ r.block \in Nat /\ r.todo \in Seq(STRING)
<1> DEFINE S == Seq(STRING)
<1>1. ReaderRecs = [file : STRING, at : Nat, block : Nat, todo : S]
  BY DEF ReaderRecs
<1> HIDE DEF S
<1> QED BY <1>1 DEF S

LEMMA ReaderMade ==
  ASSUME NEW f \in STRING, NEW a \in Nat, NEW b \in Nat, NEW todo \in Seq(STRING)
  PROVE  [file |-> f, at |-> a, block |-> b, todo |-> todo] \in ReaderRecs
<1> DEFINE S == Seq(STRING)
<1>1. ReaderRecs = [file : STRING, at : Nat, block : Nat, todo : S] /\ todo \in S
  BY DEF ReaderRecs
<1> HIDE DEF S
<1> QED BY <1>1

LEMMA ReaderMoved ==
  ASSUME NEW q \in ReaderRecs, NEW b, NEW todo
  PROVE  /\ [Advanced(q) EXCEPT !.block = b]
              = [file |-> q.file, at |-> q.at + 1, block |-> b, todo |-> q.todo]
         /\ [Advanced(q) EXCEPT !.todo = todo]
              = [file |-> q.file, at |-> q.at + 1, block |-> q.block, todo |-> todo]
         /\ [q EXCEPT !.todo = todo]
              = [file |-> q.file, at |-> q.at, block |-> q.block, todo |-> todo]
         /\ Advanced(q) = [file |-> q.file, at |-> q.at + 1, block |-> q.block, todo |-> q.todo]
<1>1. q = [file |-> q.file, at |-> q.at, block |-> q.block, todo |-> q.todo]
  BY ReaderIs
<1>2. PICK f, a, k, s : f = q.file /\ a = q.at /\ k = q.block /\ s = q.todo
  OBVIOUS
<1>3. q = [file |-> f, at |-> a, block |-> k, todo |-> s]
  BY <1>1, <1>2
<1>4. Advanced(q) = [file |-> f, at |-> a + 1, block |-> k, todo |-> s]
  BY <1>3 DEF Advanced
<1>5. [q EXCEPT !.todo = todo] = [file |-> f, at |-> a, block |-> k, todo |-> todo]
  BY <1>3
<1>6. [Advanced(q) EXCEPT !.block = b] = [file |-> f, at |-> a + 1, block |-> b, todo |-> s]
  BY <1>4
<1>7. [Advanced(q) EXCEPT !.todo = todo]
         = [file |-> f, at |-> a + 1, block |-> k, todo |-> todo]
  BY <1>4
<1> QED BY <1>2, <1>4, <1>5, <1>6, <1>7

LEMMA FitsNext ==
  ASSUME NEW rs, NEW n, ReadersFit(rs, n), texts' = texts, readers' = rs, Len(blocks') = n
  PROVE  ReadersOK'
BY DEF ReadersFit, ReadersOK, InsideHost, IncludeInBlock

(* What the reader on top becomes. *)
TopFits(r, n) ==
  /\ r \in ReaderRecs /\ r.file \in DOMAIN texts /\ r.at >= 1 /\ r.block <= n
  /\ r.todo # <<>> => Len(readers) <= IncludeDepth
  /\ r.block # NoBlock => InsideHost(r)
  /\ ~IncludeInBlock => (r.todo # <<>> => r.block = NoBlock) /\ r.block \in {NoBlock, n}

LEMMA TopMoves ==
  ASSUME ReadersOK, readers # <<>>, NEW r, NEW n \in Nat, TopFits(r, n),
         Len(blocks) \in Nat, Len(blocks) <= n
  PROVE  ReadersFit([readers EXCEPT ![1] = r], n)
<1> DEFINE rs == [readers EXCEPT ![1] = r]
           N == Len(readers)
<1>1. /\ readers \in Seq(ReaderRecs) /\ N \in Nat /\ DOMAIN readers = 1..N /\ N # 0
      /\ N <= IncludeDepth + 1
  BY EmptySeq DEF ReadersOK, ReadersFit
<1>2. r \in ReaderRecs
  BY DEF TopFits
<1>3. /\ rs \in Seq(ReaderRecs) /\ Len(rs) = N /\ DOMAIN rs = 1..N /\ rs[1] = r
      /\ \A i \in 1..N : i # 1 => rs[i] = readers[i]
  BY <1>1, <1>2
<1> HIDE DEF rs, N
<1>4. ASSUME NEW i \in 1..N
      PROVE  /\ rs[i].file \in DOMAIN texts /\ rs[i].at >= 1 /\ rs[i].block <= n
             /\ rs[i].todo # <<>> => N - i + 1 <= IncludeDepth
             /\ rs[i].block # NoBlock => InsideHost(rs[i])
             /\ ~IncludeInBlock =>
                  /\ i # 1 \/ rs[i].todo # <<>> => rs[i].block = NoBlock
                  /\ rs[i].block \in {NoBlock, n}
  <2>1. CASE i = 1
    <3>1. N - i + 1 = N
      BY <1>1, <2>1
    <3> QED BY <1>3, <2>1, <3>1 DEF TopFits, N
  <2>2. CASE i # 1
    <3>1. rs[i] = readers[i]
      BY <1>3, <2>2
    <3>2. readers[i] \in ReaderRecs
      BY <1>1
    <3>3. readers[i].block \in Nat
      BY <3>2, ReaderIs
    <3>4. /\ readers[i].file \in DOMAIN texts /\ readers[i].at >= 1
          /\ readers[i].block <= Len(blocks)
          /\ readers[i].todo # <<>> => N - i + 1 <= IncludeDepth
          /\ readers[i].block # NoBlock => InsideHost(readers[i])
          /\ ~IncludeInBlock => readers[i].block = NoBlock
      BY <1>1, <2>2 DEF ReadersOK, ReadersFit, N
    <3>5. readers[i].block <= n
      BY <3>3, <3>4
    <3> QED BY <2>2, <3>1, <3>4, <3>5
  <2> QED BY <2>1, <2>2
<1>5. ReadersFit(rs, n)
  BY <1>1, <1>3, <1>4 DEF ReadersFit
<1> QED BY <1>5 DEF rs

(* The reader on top. *)
LEMMA TopIs ==
  ASSUME ConfigInv, readers # <<>>
  PROVE  /\ Top \in ReaderRecs /\ Top.file \in DOMAIN texts /\ Top.at >= 1
         /\ Top.file \in STRING /\ Top.at \in Nat /\ Top.block \in Nat
         /\ Top.todo \in Seq(STRING)
         /\ Top.block <= Len(blocks) /\ Len(blocks) \in Nat /\ Len(readers) \in Nat
         /\ readers \in Seq(ReaderRecs) /\ IncludeDepth \in Nat
         /\ Top.todo # <<>> => Len(readers) <= IncludeDepth
         /\ Top.block # NoBlock => InsideHost(Top)
         /\ ~IncludeInBlock =>
              (Top.todo # <<>> => Top.block = NoBlock) /\ Top.block \in {NoBlock, Len(blocks)}
<1>1. /\ readers \in Seq(ReaderRecs) /\ Len(readers) \in Nat /\ DOMAIN readers = 1..Len(readers)
      /\ Len(readers) # 0
  BY EmptySeq DEF ConfigInv, ReadersOK, ReadersFit
<1>2. 1 \in DOMAIN readers /\ Len(readers) - 1 + 1 = Len(readers)
  BY <1>1
<1>3. Top \in ReaderRecs
  BY <1>1, <1>2 DEF Top
<1>4. Top.file \in STRING /\ Top.at \in Nat /\ Top.block \in Nat /\ Top.todo \in Seq(STRING)
  BY <1>3, ReaderIs
<1>5. Len(blocks) \in Nat
  BY DEF ConfigInv
<1> QED BY <1>1, <1>2, <1>3, <1>4, <1>5, ConfigAssumption DEF ConfigInv, ReadersOK, ReadersFit,
  Top

(* A line of the file on top. *)
LEMMA LineIsOK ==
  ASSUME ConfigInv, NEW kw, LineIs(kw)
  PROVE  /\ readers # <<>> /\ Top.todo = <<>>
         /\ Top.at \in DOMAIN texts[Top.file] /\ texts[Top.file][Top.at].kw = kw
         /\ LineOK(texts[Top.file][Top.at])
<1>1. readers # <<>> /\ Top.todo = <<>> /\ Top.at <= Len(texts[Top.file])
      /\ texts[Top.file][Top.at].kw = kw
  BY DEF LineIs, Reading
<1>2. Top.file \in DOMAIN texts /\ Top.at >= 1 /\ Top.at \in Nat
  BY <1>1, TopIs
<1>3. texts \in ConfigTexts
  BY DEF ConfigInv
<1>4. Len(texts[Top.file]) \in Nat /\ DOMAIN texts[Top.file] = 1..Len(texts[Top.file])
      /\ \A i \in DOMAIN texts[Top.file] : LineOK(texts[Top.file][i])
  BY <1>2, <1>3, TextsAre
<1>5. Top.at \in DOMAIN texts[Top.file]
  BY <1>1, <1>2, <1>4
<1> QED BY <1>1, <1>4, <1>5

(* Past a line that is no Match line a reader stays inside its block. *)
LEMMA StaysInside ==
  ASSUME ConfigInv, NEW kw, LineIs(kw), kw # "match", NEW r, r.file = Top.file,
         r.at = Top.at + 1,
         InsideHost(Top)
  PROVE  InsideHost(r)
<1>1. readers # <<>> /\ texts[Top.file][Top.at].kw = kw
  BY LineIsOK
<1>2. Top.at \in Nat /\ Top.at >= 1
  BY <1>1, TopIs
<1>3. PICK j \in 1..(Top.at - 1) :
        /\ j \in DOMAIN texts[Top.file] /\ texts[Top.file][j].kw = "host"
        /\ \A k \in j..(Top.at - 1) : texts[Top.file][k].kw # "match"
  BY DEF InsideHost
<1>4. j \in 1..(r.at - 1) /\ \A k \in j..(r.at - 1) : k = Top.at \/ k \in j..(Top.at - 1)
  BY <1>2, <1>3
<1>5. \A k \in j..(r.at - 1) : texts[r.file][k].kw # "match"
  BY <1>1, <1>3, <1>4
<1> QED BY <1>3, <1>4, <1>5 DEF InsideHost

-----------------------------------------------------------------------------
(* The steps. *)
LEMMA ResolvedNext ==
  ASSUME NEW h, NEW p
  PROVE  /\ ResolvedValue(h, p)' = FirstOf(BlockValues(blocks', p), Says(blocks', h, p))
         /\ FirstObtained(h, p)' =
              FirstOf(LineValues(readLines'), LinesSaying(readLines', h, p))
<1>1. {i \in Matching(h)' : BlockValue(blocks'[i], p) # NoValue} = Says(blocks', h, p)
  BY DEF Matching, Says
<1>2. ResolvedValue(h, p)' = FirstOf(BlockValues(blocks', p), Says(blocks', h, p))
  BY <1>1 DEF ResolvedValue, BlockValues
<1>3. FirstObtained(h, p)' = FirstOf(LineValues(readLines'), LinesSaying(readLines', h, p))
  BY DEF FirstObtained, LinesFor, ReadValues, LineValues, LinesSaying
<1> QED BY <1>2, <1>3

(* A step that only moves the reader on top. *)
LEMMA OnlyMoves ==
  ASSUME ConfigInv, readers # <<>>, NEW r, TopFits(r, Len(blocks)),
         readers' = [readers EXCEPT ![1] = r],
         UNCHANGED <<texts, visited, blocks, readLines>>
  PROVE  ConfigInv'
<1>1. Len(blocks) \in Nat /\ Len(blocks) <= Len(blocks)
  BY DEF ConfigInv
<1>2. ReadersOK
  BY DEF ConfigInv
<1>3. PICK rs : rs = [readers EXCEPT ![1] = r]
  OBVIOUS
<1>4. ReadersFit(rs, Len(blocks))
  BY <1>1, <1>2, <1>3, TopMoves
<1>5. PICK n : n = Len(blocks)
  OBVIOUS
<1>6. ReadersOK'
  BY <1>3, <1>4, <1>5, FitsNext
<1>7. ResolvedInv'
  BY DEF ConfigInv, ResolvedInv, IncludeInBlock, ResolvedValue, Matching, FirstObtained,
     LinesFor, ReadValues
<1> QED BY <1>6, <1>7 DEF ConfigInv

LEMMA HostLineKeeps ==
  ASSUME ConfigInv, HostLine
  PROVE  ConfigInv'
<1> DEFINE N == Len(blocks)
           r == [Advanced(Top) EXCEPT !.block = N + 1]
<1>1. /\ LineIs("host") /\ blocks' = Append(blocks, NewBlock(Argument))
      /\ readers' = [readers EXCEPT ![1] = r]
      /\ UNCHANGED <<texts, visited, readLines>>
  BY DEF HostLine, Top
<1>2. /\ readers # <<>> /\ Top.todo = <<>>
      /\ Top.at \in DOMAIN texts[Top.file] /\ texts[Top.file][Top.at].kw = "host"
      /\ Argument \in SUBSET Patterns
  BY <1>1, LineIsOK DEF LineOK, Argument
<1>3. /\ Top \in ReaderRecs /\ Top.file \in DOMAIN texts /\ Top.at >= 1 /\ Top.at \in Nat
      /\ N \in Nat /\ Top.file \in STRING
  BY <1>2, TopIs
<1>4. r = [file |-> Top.file, at |-> Top.at + 1, block |-> N + 1, todo |-> <<>>]
  BY <1>2, <1>3, ReaderMoved
<1> HIDE DEF r, N
<1>5. r.file = Top.file /\ r.at = Top.at + 1 /\ r.block = N + 1 /\ r.todo = <<>>
  BY <1>4
<1>6. r \in ReaderRecs
  <2>1. Top.todo \in Seq(STRING) /\ Top.at + 1 \in Nat /\ N + 1 \in Nat
    BY <1>2, <1>3, TopIs
  <2> QED BY <1>2, <1>3, <1>4, <2>1, ReaderMade
<1>7. InsideHost(r)
  <2>1. Top.at \in 1..(r.at - 1) /\ \A k \in Top.at..(r.at - 1) : k = Top.at
    BY <1>3, <1>5
  <2> QED BY <1>2, <1>5, <2>1 DEF InsideHost
<1>8. TopFits(r, N + 1)
  BY <1>3, <1>5, <1>6, <1>7 DEF TopFits
<1>9. N + 1 \in Nat /\ N <= N + 1
  BY <1>3
<1>10. PICK rs : rs = [readers EXCEPT ![1] = r]
  OBVIOUS
<1>11. ReadersFit(rs, N + 1)
  <2>1. ReadersOK
    BY DEF ConfigInv
  <2> QED BY <1>2, <1>3, <1>8, <1>9, <1>10, <2>1, TopMoves DEF N
<1>12. PICK n : n = N + 1
  OBVIOUS
<1>13. blocks \in Seq(BlockRecs) /\ NewBlock(Argument) \in BlockRecs
  BY <1>2, NewBlockIs DEF ConfigInv
<1>14. blocks' \in Seq(BlockRecs) /\ Len(blocks') = N + 1
  BY <1>1, <1>13 DEF N
<1>15. ReadersOK'
  BY <1>1, <1>10, <1>11, <1>12, <1>14, FitsNext
<1>16. ResolvedInv'
  <2> SUFFICES ASSUME ~IncludeInBlock, NEW h \in HostNames, NEW p \in Keywords
               PROVE  ResolvedValue(h, p)' = FirstObtained(h, p)'
    BY <1>1 DEF ResolvedInv, IncludeInBlock
  <2>1. ResolvedValue(h, p) = FirstObtained(h, p)
    BY DEF ConfigInv, ResolvedInv
  <2>2. FirstOf(BlockValues(blocks', p), Says(blocks', h, p))
          = FirstOf(BlockValues(blocks, p), Says(blocks, h, p))
    BY <1>1, <1>2, <1>13, NewBlockSays
  <2> QED BY <1>1, <2>1, <2>2, ResolvedIs, ResolvedNext
<1> QED BY <1>1, <1>14, <1>15, <1>16 DEF ConfigInv

LEMMA MatchLineKeeps ==
  ASSUME ConfigInv, MatchLine
  PROVE  ConfigInv'
<1> DEFINE r == [Advanced(Top) EXCEPT !.block = NoBlock]
<1>1. /\ LineIs("match") /\ readers' = [readers EXCEPT ![1] = r]
      /\ UNCHANGED <<texts, visited, blocks, readLines>>
  BY DEF MatchLine, Top
<1>2. readers # <<>> /\ Top.todo = <<>>
  BY <1>1, LineIsOK
<1>3. /\ Top \in ReaderRecs /\ Top.file \in DOMAIN texts /\ Top.at >= 1 /\ Top.at \in Nat
      /\ Top.file \in STRING /\ Len(blocks) \in Nat
  BY <1>2, TopIs
<1>4. r = [file |-> Top.file, at |-> Top.at + 1, block |-> 0, todo |-> <<>>]
  BY <1>2, <1>3, ReaderMoved DEF NoBlock
<1> HIDE DEF r
<1>5. r.file = Top.file /\ r.at = Top.at + 1 /\ r.block = 0 /\ r.todo = <<>>
  BY <1>4
<1>6. r \in ReaderRecs
  <2>1. Top.todo \in Seq(STRING) /\ Top.at + 1 \in Nat /\ 0 \in Nat
    BY <1>2, <1>3, TopIs
  <2> QED BY <1>2, <1>3, <1>4, <2>1, ReaderMade
<1>7. TopFits(r, Len(blocks))
  BY <1>3, <1>5, <1>6 DEF TopFits, NoBlock
<1> QED BY <1>1, <1>2, <1>7, OnlyMoves

LEMMA IncludeLineKeeps ==
  ASSUME ConfigInv, IncludeLine
  PROVE  ConfigInv'
<1> DEFINE todo == IF Depth < IncludeDepth THEN Argument ELSE <<>>
           r == [Advanced(Top) EXCEPT !.todo = todo]
<1>1. /\ LineIs("include") /\ readers' = [readers EXCEPT ![1] = r]
      /\ UNCHANGED <<texts, visited, blocks, readLines>>
  BY DEF IncludeLine, Top
<1>2. /\ readers # <<>> /\ Top.todo = <<>> /\ Argument \in Seq(STRING)
      /\ Top.at \in DOMAIN texts[Top.file] /\ texts[Top.file][Top.at].kw = "include"
  BY <1>1, LineIsOK DEF LineOK, Argument
<1>3. /\ Top \in ReaderRecs /\ Top.file \in DOMAIN texts /\ Top.at >= 1 /\ Top.at \in Nat
      /\ Top.file \in STRING /\ Top.block \in Nat /\ Top.block <= Len(blocks)
      /\ Len(readers) \in Nat /\ IncludeDepth \in Nat
      /\ Top.block # NoBlock => InsideHost(Top)
      /\ ~IncludeInBlock => Top.block \in {NoBlock, Len(blocks)}
  BY <1>2, TopIs
<1>4. /\ todo \in Seq(STRING)
      /\ todo # <<>> => Len(readers) <= IncludeDepth
  <2>1. CASE Depth < IncludeDepth
    <3>1. Len(readers) <= IncludeDepth
      BY <1>3, <2>1 DEF Depth
    <3> QED BY <1>2, <2>1, <3>1
  <2>2. CASE ~(Depth < IncludeDepth)
    <3>1. Top.todo = <<>> /\ Top.todo \in Seq(STRING)
      BY <1>2, TopIs
    <3> QED BY <2>2, <3>1
  <2> QED BY <2>1, <2>2
<1> HIDE DEF todo
<1>5. r = [file |-> Top.file, at |-> Top.at + 1, block |-> Top.block, todo |-> todo]
  BY <1>3, ReaderMoved
<1> HIDE DEF r
<1>6. r.file = Top.file /\ r.at = Top.at + 1 /\ r.block = Top.block /\ r.todo = todo
  BY <1>5
<1>7. r \in ReaderRecs
  <2>1. Top.at + 1 \in Nat
    BY <1>3
  <2> QED BY <1>3, <1>4, <1>5, <2>1, ReaderMade
<1>8. r.at >= 1
  BY <1>3, <1>6
<1>9. r.block # NoBlock => InsideHost(r)
  BY <1>1, <1>3, <1>6, StaysInside
<1>10. ~IncludeInBlock => Top.block = NoBlock
  <2> SUFFICES ASSUME Top.block # NoBlock PROVE IncludeInBlock
    OBVIOUS
  <2>1. InsideHost(Top)
    BY <1>3
  <2>2. PICK j \in 1..(Top.at - 1) :
          /\ j \in DOMAIN texts[Top.file] /\ texts[Top.file][j].kw = "host"
          /\ \A k \in j..(Top.at - 1) : texts[Top.file][k].kw # "match"
    BY <2>1 DEF InsideHost
  <2>3. j < Top.at /\ \A k \in j..Top.at : k = Top.at \/ k \in j..(Top.at - 1)
    BY <1>3, <2>2
  <2>4. \A k \in j..Top.at : texts[Top.file][k].kw # "match"
    BY <1>2, <2>2, <2>3
  <2> QED BY <1>2, <1>3, <2>2, <2>3, <2>4 DEF IncludeInBlock
<1>11. TopFits(r, Len(blocks))
  BY <1>3, <1>4, <1>6, <1>7, <1>8, <1>9, <1>10 DEF TopFits
<1> QED BY <1>1, <1>2, <1>11, OnlyMoves

(* A reader put on top of the others. *)
LEMMA PushFits ==
  ASSUME NEW rs, NEW n \in Nat, ReadersFit(rs, n), rs # <<>>, Len(rs) <= IncludeDepth,
         ~IncludeInBlock => rs[1].block = NoBlock, NEW f \in DOMAIN texts, f \in STRING,
         IncludeDepth \in Nat
  PROVE  ReadersFit(<<Reader(f, NoBlock)>> \o rs, n)
<1> DEFINE r == Reader(f, NoBlock)
           N == Len(rs)
           qs == <<r>> \o rs
<1>1. r = [file |-> f, at |-> 1, block |-> 0, todo |-> <<>>]
  BY DEF Reader, NoBlock
<1>2. r.file = f /\ r.at = 1 /\ r.block = 0 /\ r.todo = <<>>
  BY <1>1
<1>3. r \in ReaderRecs
  BY <1>1, ReaderMade, EmptySeq
<1>4. rs \in Seq(ReaderRecs) /\ N \in Nat /\ DOMAIN rs = 1..N /\ N # 0
  BY EmptySeq DEF ReadersFit
<1> HIDE DEF r
<1>5. /\ qs \in Seq(ReaderRecs) /\ Len(qs) = N + 1 /\ qs[1] = r
      /\ \A i \in 1..N : qs[i + 1] = rs[i]
  <2>1. <<r>> \in Seq(ReaderRecs) /\ Len(<<r>>) = 1 /\ <<r>>[1] = r
    BY <1>3
  <2> DEFINE one == <<r>>
  <2> HIDE DEF one
  <2>2. /\ one \o rs \in Seq(ReaderRecs) /\ Len(one \o rs) = Len(one) + N
        /\ \A i \in 1..(Len(one) + N) :
             (one \o rs)[i] = IF i <= Len(one) THEN one[i] ELSE rs[i - Len(one)]
    BY <1>4, <2>1, ConcatProperties DEF one
  <2>3. 1 \in 1..(1 + N) /\ \A i \in 1..N : i + 1 \in 1..(1 + N) /\ ~(i + 1 <= 1)
        /\ i + 1 - 1 = i
    BY <1>4
  <2>4. Len(one) = 1 /\ one[1] = r
    BY <2>1 DEF one
  <2>5. (one \o rs)[1] = r /\ \A i \in 1..N : (one \o rs)[i + 1] = rs[i]
    BY <2>2, <2>3, <2>4
  <2> QED BY <1>4, <2>2, <2>4, <2>5 DEF one
<1>6. DOMAIN qs = 1..(N + 1) /\ Len(qs) <= IncludeDepth + 1
  BY <1>4, <1>5
<1> HIDE DEF qs, N
<1>7. ASSUME NEW i \in 1..(N + 1)
      PROVE  /\ qs[i].file \in DOMAIN texts /\ qs[i].at >= 1 /\ qs[i].block <= n
             /\ qs[i].todo # <<>> => (N + 1) - i + 1 <= IncludeDepth
             /\ qs[i].block # NoBlock => InsideHost(qs[i])
             /\ ~IncludeInBlock =>
                  /\ i # 1 \/ qs[i].todo # <<>> => qs[i].block = NoBlock
                  /\ qs[i].block \in {NoBlock, n}
  <2>1. CASE i = 1
    BY <1>2, <1>5, <2>1 DEF NoBlock
  <2>2. CASE i # 1
    <3>1. PICK k \in 1..N : i = k + 1
      <4>1. i - 1 \in 1..N /\ i = (i - 1) + 1
        BY <1>4, <2>2
      <4> QED BY <4>1
    <3>2. qs[i] = rs[k] /\ (N + 1) - i + 1 = N - k + 1
      BY <1>4, <1>5, <3>1
    <3>3. /\ rs[k].file \in DOMAIN texts /\ rs[k].at >= 1 /\ rs[k].block <= n
          /\ rs[k].todo # <<>> => N - k + 1 <= IncludeDepth
          /\ rs[k].block # NoBlock => InsideHost(rs[k])
          /\ ~IncludeInBlock => rs[k].block = NoBlock
      BY <1>4, <3>1 DEF ReadersFit, N
    <3> QED BY <3>2, <3>3
  <2> QED BY <2>1, <2>2
<1>8. ReadersFit(qs, n)
  BY <1>5, <1>6, <1>7 DEF ReadersFit
<1> QED BY <1>8 DEF qs, r

LEMMA IncludeFileKeeps ==
  ASSUME ConfigInv, IncludeFile
  PROVE  ConfigInv'
<1> DEFINE f == Head(Top.todo)
           r == [Top EXCEPT !.todo = Tail(@)]
           rest == [readers EXCEPT ![1] = r]
<1>1. /\ readers # <<>> /\ Top.todo # <<>>
      /\ [readers EXCEPT ![1].todo = Tail(@)] = rest
      /\ UNCHANGED <<texts, blocks, readLines>>
  <2>1. [readers EXCEPT ![1].todo = Tail(@)] = rest
    BY DEF Top
  <2> QED BY <2>1 DEF IncludeFile
<1>2. \/ readers' = rest /\ visited' = visited
      \/ /\ f \in DOMAIN texts /\ readers' = <<Reader(f, NoBlock)>> \o rest
         /\ visited' = visited \cup {f}
  BY <1>1 DEF IncludeFile
<1>3. /\ Top \in ReaderRecs /\ Top.file \in DOMAIN texts /\ Top.at >= 1 /\ Top.at \in Nat
      /\ Top.file \in STRING /\ Top.block \in Nat /\ Top.block <= Len(blocks)
      /\ Len(readers) \in Nat /\ IncludeDepth \in Nat /\ Top.todo \in Seq(STRING)
      /\ Len(blocks) \in Nat /\ readers \in Seq(ReaderRecs)
      /\ Len(readers) <= IncludeDepth
      /\ Top.block # NoBlock => InsideHost(Top)
      /\ ~IncludeInBlock => Top.block = NoBlock
  BY <1>1, TopIs
<1>4. Tail(Top.todo) \in Seq(STRING)
  BY <1>1, <1>3, HeadTailProperties
<1>5. r = [file |-> Top.file, at |-> Top.at, block |-> Top.block, todo |-> Tail(Top.todo)]
  BY <1>3, ReaderMoved
<1> HIDE DEF r
<1>6. r.file = Top.file /\ r.at = Top.at /\ r.block = Top.block
  BY <1>5
<1>7. r \in ReaderRecs
  BY <1>3, <1>4, <1>5, ReaderMade
<1>8. r.block # NoBlock => InsideHost(r)
  BY <1>3, <1>6 DEF InsideHost
<1>9. TopFits(r, Len(blocks))
  BY <1>3, <1>6, <1>7, <1>8 DEF TopFits, NoBlock
<1>10. CASE readers' = rest /\ visited' = visited
  BY <1>1, <1>9, <1>10, OnlyMoves
<1>11. CASE /\ f \in DOMAIN texts /\ readers' = <<Reader(f, NoBlock)>> \o rest
            /\ visited' = visited \cup {f}
  <2>1. Len(blocks) <= Len(blocks) /\ ReadersOK
    BY <1>3 DEF ConfigInv
  <2>2. ReadersFit(rest, Len(blocks))
    BY <1>1, <1>3, <1>9, <2>1, TopMoves
  <2>3. rest # <<>> /\ Len(rest) = Len(readers) /\ rest[1] = r
    BY <1>1, <1>3, <1>7, EmptySeq
  <2> HIDE DEF rest
  <2>4. f \in STRING
    <3>1. texts \in ConfigTexts
      BY DEF ConfigInv
    <3> QED BY <1>11, <3>1, TextsAre
  <2> HIDE DEF f
  <2>5. ReadersFit(<<Reader(f, NoBlock)>> \o rest, Len(blocks))
    BY <1>3, <1>6, <1>11, <2>2, <2>3, <2>4, PushFits
  <2>6. PICK qs, n : qs = <<Reader(f, NoBlock)>> \o rest /\ n = Len(blocks)
    OBVIOUS
  <2>7. ReadersOK'
    BY <1>1, <1>11, <2>5, <2>6, FitsNext
  <2>8. ResolvedInv'
    BY <1>1 DEF ConfigInv, ResolvedInv, IncludeInBlock, ResolvedValue, Matching, FirstObtained,
     LinesFor, ReadValues
  <2> QED BY <1>1, <1>11, <2>7, <2>8 DEF ConfigInv
<1> QED BY <1>2, <1>10, <1>11

LEMMA FileEndsKeeps ==
  ASSUME ConfigInv, FileEnds
  PROVE  ConfigInv'
<1> DEFINE N == Len(readers)
           rs == Tail(readers)
<1>1. readers # <<>> /\ readers' = rs /\ UNCHANGED <<texts, visited, blocks, readLines>>
  BY DEF FileEnds, Reading
<1>2. readers \in Seq(ReaderRecs) /\ N \in Nat /\ DOMAIN readers = 1..N /\ N # 0
      /\ N <= IncludeDepth + 1 /\ IncludeDepth \in Nat
  BY <1>1, EmptySeq, ConfigAssumption DEF ConfigInv, ReadersOK, ReadersFit
<1>3. /\ rs \in Seq(ReaderRecs) /\ Len(rs) = N - 1
      /\ \A i \in 1..(N - 1) : rs[i] = readers[i + 1]
  BY <1>1, <1>2, HeadTailProperties
<1>4. DOMAIN rs = 1..(N - 1)
  BY <1>3
<1> HIDE DEF rs, N
<1>5. ASSUME NEW i \in 1..(N - 1)
      PROVE  /\ rs[i].file \in DOMAIN texts /\ rs[i].at >= 1 /\ rs[i].block <= Len(blocks)
             /\ rs[i].todo # <<>> => (N - 1) - i + 1 <= IncludeDepth
             /\ rs[i].block # NoBlock => InsideHost(rs[i])
             /\ ~IncludeInBlock => rs[i].block = NoBlock
  <2>1. PICK k \in 1..N : k = i + 1 /\ k # 1 /\ (N - 1) - i + 1 = N - k + 1
    <3>1. i + 1 \in 1..N /\ i + 1 # 1 /\ (N - 1) - i + 1 = N - (i + 1) + 1
      BY <1>2
    <3> QED BY <3>1
  <2>2. rs[i] = readers[k]
    BY <1>3, <2>1
  <2>3. /\ readers[k].file \in DOMAIN texts /\ readers[k].at >= 1
        /\ readers[k].block <= Len(blocks)
        /\ readers[k].todo # <<>> => N - k + 1 <= IncludeDepth
        /\ readers[k].block # NoBlock => InsideHost(readers[k])
        /\ ~IncludeInBlock => readers[k].block = NoBlock
    BY <1>2, <2>1 DEF ConfigInv, ReadersOK, ReadersFit, N
  <2> QED BY <2>1, <2>2, <2>3
<1>6. N - 1 <= IncludeDepth + 1
  BY <1>2
<1>7. ReadersFit(rs, Len(blocks))
  BY <1>3, <1>4, <1>5, <1>6 DEF ReadersFit
<1>8. PICK qs, n : qs = rs /\ n = Len(blocks)
  OBVIOUS
<1>9. ReadersOK'
  BY <1>1, <1>7, <1>8, FitsNext
<1>10. ResolvedInv'
  BY <1>1 DEF ConfigInv, ResolvedInv, IncludeInBlock, ResolvedValue, Matching, FirstObtained,
     LinesFor, ReadValues
<1> QED BY <1>1, <1>9, <1>10 DEF ConfigInv

LEMMA ReadMade ==
  ASSUME NEW pats \in SUBSET Patterns, NEW n \in Nat, NEW kw \in Keywords, NEW v \in Values
  PROVE  [pats |-> pats, block |-> n, param |-> kw, value |-> v] \in ReadRecs
<1> DEFINE P == SUBSET Patterns
           V == Values
<1>1. ReadRecs = [pats : P, block : Nat, param : Keywords, value : V] /\ pats \in P /\ v \in V
  BY DEF ReadRecs
<1> HIDE DEF P, V
<1> QED BY <1>1

LEMMA ParamLineKeeps ==
  ASSUME ConfigInv, ParamLine
  PROVE  ConfigInv'
<1>1. PICK kw \in Keywords :
         /\ LineIs(kw)
         /\ IF Top.block = NoBlock THEN UNCHANGED <<blocks, readLines>>
            ELSE /\ blocks' = [blocks EXCEPT ![Top.block] = Filled(@, kw, Argument)]
                 /\ readLines' = Append(readLines, [pats |-> blocks[Top.block].pats,
                        block |-> Top.block, param |-> kw, value |-> Argument])
  BY DEF ParamLine
<1> DEFINE r == Advanced(Top)
           N == Len(blocks)
           k == Top.block
<1>2. readers' = [readers EXCEPT ![1] = r] /\ UNCHANGED <<texts, visited>>
  BY DEF ParamLine, Top
<1>3. /\ readers # <<>> /\ Top.todo = <<>> /\ Argument \in Values
  BY <1>1, LineIsOK DEF LineOK, Argument, Values
<1>4. /\ Top \in ReaderRecs /\ Top.file \in DOMAIN texts /\ Top.at >= 1 /\ Top.at \in Nat
      /\ N \in Nat /\ Top.file \in STRING /\ k \in Nat /\ k <= N
      /\ k # NoBlock => InsideHost(Top)
      /\ ~IncludeInBlock => k \in {NoBlock, N}
  BY <1>3, TopIs
<1>5. r = [file |-> Top.file, at |-> Top.at + 1, block |-> k, todo |-> <<>>]
  BY <1>3, <1>4, ReaderMoved
<1> HIDE DEF r
<1>6. r.file = Top.file /\ r.at = Top.at + 1 /\ r.block = k /\ r.todo = <<>> /\ r.at >= 1
  <2>1. Top.at + 1 >= 1
    BY <1>4
  <2> QED BY <1>5, <2>1
<1>7. r \in ReaderRecs
  <2>1. Top.todo \in Seq(STRING) /\ Top.at + 1 \in Nat
    BY <1>3, <1>4, TopIs
  <2> QED BY <1>3, <1>4, <1>5, <2>1, ReaderMade
<1>8. r.block # NoBlock => InsideHost(r)
  <2>1. kw # "match"
    BY DEF Keywords, Params
  <2> QED BY <1>1, <1>4, <1>6, <2>1, StaysInside
<1>9. TopFits(r, N)
  BY <1>4, <1>6, <1>7, <1>8 DEF TopFits
<1>10. CASE k = NoBlock
  <2>1. UNCHANGED <<texts, visited, blocks, readLines>>
    BY <1>1, <1>2, <1>10
  <2> QED BY <1>2, <1>3, <1>9, <2>1, OnlyMoves
<1>11. CASE k # NoBlock
  <2> DEFINE b == blocks[k]
             v == Argument
             c == Filled(b, kw, v)
             line == [pats |-> b.pats, block |-> k, param |-> kw, value |-> v]
  <2>1. /\ blocks' = [blocks EXCEPT ![k] = c] /\ readLines' = Append(readLines, line)
    BY <1>1, <1>11
  <2>2. blocks \in Seq(BlockRecs) /\ readLines \in Seq(ReadRecs) /\ DOMAIN blocks = 1..N
    BY DEF ConfigInv
  <2>3. k \in 1..N
    BY <1>4, <1>11 DEF NoBlock
  <2>4. b \in BlockRecs
    BY <2>2, <2>3
  <2>5. c \in BlockRecs
    BY <1>3, <2>4, FilledIs
  <2>6. line \in ReadRecs
    BY <1>3, <1>4, <2>4, BlockIs, ReadMade
  <2>7. blocks' \in Seq(BlockRecs) /\ Len(blocks') = N
    <3> HIDE DEF c
    <3> QED BY <2>1, <2>2, <2>3, <2>5
  <2>8. readLines' \in Seq(ReadRecs)
    <3> HIDE DEF line
    <3> QED BY <2>1, <2>2, <2>6
  <2>9. PICK rs, n : rs = [readers EXCEPT ![1] = r] /\ n = N
    OBVIOUS
  <2>10. ReadersFit(rs, n)
    <3>1. N <= N /\ ReadersOK
      BY <1>4 DEF ConfigInv
    <3> QED BY <1>3, <1>4, <1>9, <2>9, <3>1, TopMoves
  <2>11. ReadersOK'
    BY <1>2, <2>7, <2>9, <2>10, FitsNext
  <2>12. ResolvedInv'
    <3> SUFFICES ASSUME ~IncludeInBlock, NEW h \in HostNames, NEW p \in Keywords
                 PROVE  ResolvedValue(h, p)' = FirstObtained(h, p)'
      BY <1>2 DEF ResolvedInv, IncludeInBlock
    <3>1. k = N
      BY <1>4, <1>11
    <3>2. FirstOf(BlockValues(blocks, p), Says(blocks, h, p))
            = FirstOf(LineValues(readLines), LinesSaying(readLines, h, p))
      <4>1. ResolvedValue(h, p) = FirstObtained(h, p)
        BY DEF ConfigInv, ResolvedInv
      <4> QED BY <4>1, ResolvedIs
    <3>3. blocks # <<>>
      BY <2>2, <2>3
    <3>4. PICK bs, ls, w, l : bs = blocks /\ ls = readLines /\ w = v /\ l = line
      OBVIOUS
    <3>5. bs \in Seq(BlockRecs) /\ bs # <<>> /\ ls \in Seq(ReadRecs) /\ w \in Values
          /\ l.pats = bs[Len(bs)].pats /\ l.param = kw /\ l.value = w
          /\ FirstOf(BlockValues(bs, p), Says(bs, h, p))
               = FirstOf(LineValues(ls), LinesSaying(ls, h, p))
      BY <1>3, <2>2, <3>1, <3>2, <3>3, <3>4
    <3>6. blocks' = [bs EXCEPT ![Len(bs)] = Filled(@, kw, w)] /\ readLines' = Append(ls, l)
      BY <2>1, <3>1, <3>4
    <3>7. FirstOf(BlockValues(blocks', p), Says(blocks', h, p))
            = FirstOf(LineValues(readLines'), LinesSaying(readLines', h, p))
      <4>1. LET cs == [bs EXCEPT ![Len(bs)] = Filled(@, kw, w)]
                ms == Append(ls, l)
            IN FirstOf(BlockValues(cs, p), Says(cs, h, p))
                 = FirstOf(LineValues(ms), LinesSaying(ms, h, p))
        BY <3>5, ParamSays
      <4> QED BY ONLY <3>6, <4>1
    <3> QED BY <3>7, ResolvedNext
  <2> QED BY <1>2, <2>7, <2>8, <2>11, <2>12 DEF ConfigInv
<1> QED BY <1>10, <1>11

LEMMA ConfigStarts ==
  ConfigInit => ConfigInv
<1> SUFFICES ASSUME ConfigInit PROVE ConfigInv
  OBVIOUS
<1> DEFINE r == Reader(RootFile, NoBlock)
<1>1. texts \in ConfigTexts /\ readers = <<r>> /\ visited = {} /\ blocks = <<>>
      /\ readLines = <<>>
  BY DEF ConfigInit
<1>2. RootFile \in DOMAIN texts /\ RootFile \in STRING /\ IncludeDepth \in Nat
  BY <1>1, TextsAre, ConfigAssumption
<1>3. r = [file |-> RootFile, at |-> 1, block |-> 0, todo |-> <<>>]
  BY DEF Reader, NoBlock
<1>4. r \in ReaderRecs
  BY <1>2, <1>3, ReaderMade, EmptySeq
<1>5. r.file = RootFile /\ r.at = 1 /\ r.block = 0 /\ r.todo = <<>>
  BY <1>3
<1> HIDE DEF r
<1>6. blocks \in Seq(BlockRecs) /\ readLines \in Seq(ReadRecs) /\ Len(blocks) = 0
      /\ DOMAIN blocks = {} /\ DOMAIN readLines = {}
  BY <1>1
<1>7. /\ readers \in Seq(ReaderRecs) /\ Len(readers) = 1 /\ readers[1] = r
      /\ DOMAIN readers = {1}
  BY <1>1, <1>4
<1>8. ReadersOK
  BY <1>2, <1>5, <1>6, <1>7 DEF ReadersOK, ReadersFit, NoBlock
<1>9. ResolvedInv
  <2> SUFFICES ASSUME NEW h \in HostNames, NEW p \in Keywords
               PROVE  ResolvedValue(h, p) = FirstObtained(h, p)
    BY DEF ResolvedInv
  <2>1. Says(blocks, h, p) = {} /\ LinesSaying(readLines, h, p) = {}
    BY <1>6 DEF Says, LinesSaying
  <2> QED BY <2>1, FirstOfIs, ResolvedIs
<1> QED BY <1>1, <1>6, <1>8, <1>9 DEF ConfigInv

LEMMA ConfigSteps ==
  ConfigInv /\ [ConfigNext]_configVars => ConfigInv'
<1> SUFFICES ASSUME ConfigInv, [ConfigNext]_configVars PROVE ConfigInv'
  OBVIOUS
<1>1. CASE UNCHANGED <<texts, readers, visited, blocks, readLines>>
  <2>1. ReadersOK'
    <3>1. ReadersFit(readers, Len(blocks)) /\ readers' = readers /\ texts' = texts
          /\ Len(blocks') = Len(blocks)
      BY <1>1 DEF ConfigInv, ReadersOK
    <3> QED BY <3>1, FitsNext
  <2>2. ResolvedInv'
    BY <1>1 DEF ConfigInv, ResolvedInv, IncludeInBlock, ResolvedValue, Matching, FirstObtained,
     LinesFor, ReadValues
  <2> QED BY <1>1, <2>1, <2>2 DEF ConfigInv
<1>2. CASE BuildCandidates
  BY <1>1, <1>2 DEF BuildCandidates
<1>3. CASE RunConnect
  BY <1>1, <1>3 DEF RunConnect
<1>4. CASE UNCHANGED configVars
  BY <1>1, <1>4 DEF configVars
<1> QED
  BY <1>2, <1>3, <1>4, HostLineKeeps, MatchLineKeeps, IncludeLineKeeps, IncludeFileKeeps,
     ParamLineKeeps, FileEndsKeeps DEF ConfigNext

(* A block holds of each parameter the first value read into it. *)
LinesOf(ls, n, p) == {i \in DOMAIN ls : ls[i].block = n /\ ls[i].param = p}
Holds(bs, ls) ==
  /\ \A i \in DOMAIN ls : ls[i].block \in DOMAIN bs /\ ls[i].pats = bs[ls[i].block].pats
  /\ \A n \in DOMAIN bs, p \in Keywords :
       BlockValue(bs[n], p) = FirstOf(LineValues(ls), LinesOf(ls, n, p))
BlocksInv == Holds(blocks, readLines)

LEMMA BlocksStart ==
  ConfigInit => BlocksInv
<1> SUFFICES ASSUME ConfigInit PROVE BlocksInv
  OBVIOUS
<1>1. DOMAIN blocks = {} /\ DOMAIN readLines = {}
  BY EmptySeq DEF ConfigInit
<1> QED BY <1>1 DEF BlocksInv, Holds

LEMMA HostLineFills ==
  ASSUME ConfigInv, BlocksInv, HostLine
  PROVE  BlocksInv'
<1> DEFINE N == Len(blocks)
           b == NewBlock(Argument)
<1>1. LineIs("host") /\ blocks' = Append(blocks, b) /\ readLines' = readLines
  BY DEF HostLine
<1>2. Argument \in SUBSET Patterns /\ blocks \in Seq(BlockRecs)
  BY <1>1, LineIsOK DEF LineOK, Argument, ConfigInv
<1>3. b \in BlockRecs /\ \A p \in Keywords : BlockValue(b, p) = NoValue
  BY <1>2, NewBlockIs
<1> HIDE DEF b
<1>4. /\ N \in Nat /\ DOMAIN blocks = 1..N /\ DOMAIN blocks' = 1..(N + 1)
      /\ blocks'[N + 1] = b /\ \A i \in 1..N : blocks'[i] = blocks[i]
  BY <1>1, <1>2, <1>3
<1> HIDE DEF N
<1>5. \A i \in DOMAIN readLines : readLines[i].block \in 1..N
      /\ readLines[i].pats = blocks[readLines[i].block].pats
  BY <1>4 DEF BlocksInv, Holds
<1>6. \A i \in DOMAIN readLines' : readLines'[i].block \in DOMAIN blocks'
      /\ readLines'[i].pats = blocks'[readLines'[i].block].pats
  BY <1>1, <1>4, <1>5
<1>7. ASSUME NEW n \in DOMAIN blocks', NEW p \in Keywords
      PROVE  BlockValue(blocks'[n], p) = FirstOf(LineValues(readLines'), LinesOf(readLines', n, p))
  <2>1. CASE n \in 1..N
    BY <1>1, <1>4, <2>1 DEF BlocksInv, Holds
  <2>2. CASE n = N + 1
    <3>1. LinesOf(readLines, n, p) = {}
      BY <1>4, <1>5, <2>2 DEF LinesOf
    <3>2. FirstOf(LineValues(readLines), LinesOf(readLines, n, p)) = NoValue
      BY <3>1 DEF FirstOf
    <3> QED BY <1>1, <1>3, <1>4, <2>2, <3>2
  <2> QED BY <1>4, <2>1, <2>2
<1> QED BY <1>6, <1>7 DEF BlocksInv, Holds

(* One more value for the parameter kw of block k. *)
LEMMA LineFills ==
  ASSUME NEW bs \in Seq(BlockRecs), NEW ls \in Seq(ReadRecs), NEW k \in DOMAIN bs,
         NEW kw \in Keywords, NEW v \in Values, NEW n \in DOMAIN bs, NEW p \in Keywords,
         NEW line, line.block = k, line.param = kw, line.value = v,
         BlockValue(bs[n], p) = FirstOf(LineValues(ls), LinesOf(ls, n, p))
  PROVE  LET c == [bs EXCEPT ![k] = Filled(@, kw, v)]
             ms == Append(ls, line)
         IN BlockValue(c[n], p) = FirstOf(LineValues(ms), LinesOf(ms, n, p))
<1> DEFINE M == Len(ls)
           ms == Append(ls, line)
           b == bs[n]
           d == Filled(b, kw, v)
           c == [bs EXCEPT ![k] = Filled(@, kw, v)]
           L == LinesOf(ls, n, p)
<1>1. M \in Nat /\ DOMAIN ls = 1..M /\ DOMAIN ms = 1..(M + 1)
      /\ ms[M + 1] = line /\ \A i \in 1..M : ms[i] = ls[i]
  OBVIOUS
<1>2. b \in BlockRecs /\ (n = k => c[n] = d) /\ (n # k => c[n] = b)
  OBVIOUS
<1>3. /\ BlockValue(d, kw) = IF BlockValue(b, kw) = NoValue THEN v ELSE BlockValue(b, kw)
      /\ p # kw => BlockValue(d, p) = BlockValue(b, p)
  BY <1>2, FilledIs
<1> HIDE DEF M, ms, b, d, c
<1>4. L \in SUBSET Nat /\ (\A i \in L : i \in 1..M)
      /\ \A i \in 1..M : i \in L <=> ls[i].block = n /\ ls[i].param = p
  BY <1>1 DEF LinesOf
<1>5. \A i : i \in LinesOf(ms, n, p) <=> i \in L \/ (i = M + 1 /\ k = n /\ kw = p)
  <2>1. \A i : i \in 1..(M + 1) <=> i \in 1..M \/ i = M + 1
    BY <1>1
  <2>2. \A i : i \in LinesOf(ms, n, p) <=> i \in 1..(M + 1) /\ ms[i].block = n /\ ms[i].param = p
    BY <1>1 DEF LinesOf
  <2>3. M + 1 \notin 1..M
    BY <1>1
  <2> HIDE DEF L
  <2> QED BY <1>1, <1>4, <2>1, <2>2, <2>3
<1>6. \A i \in L : LineValues(ms)[i] = LineValues(ls)[i] /\ LineValues(ls)[i] # NoValue
  <2> SUFFICES ASSUME NEW i \in L
               PROVE  LineValues(ms)[i] = LineValues(ls)[i] /\ LineValues(ls)[i] # NoValue
    OBVIOUS
  <2>1. i \in 1..M /\ i \in 1..(M + 1)
    BY <1>1, <1>4
  <2>2. ls[i].value \in Values
    BY <1>1, <2>1, ReadIs
  <2> QED BY <1>1, <2>1, <2>2 DEF LineValues, Values
<1>7. FirstOf(LineValues(ms), L) = FirstOf(LineValues(ls), L)
  BY <1>4, <1>6, FirstOfSame
<1>8. BlockValue(b, p) = FirstOf(LineValues(ls), L)
  BY DEF b
<1> HIDE DEF L
<1>9. CASE k = n /\ kw = p
  <2>1. LinesOf(ms, n, p) = L \cup {M + 1}
    BY <1>5, <1>9
  <2>2. M + 1 \in Nat /\ \A i \in L : i < M + 1
    BY <1>1, <1>4
  <2>3. FirstOf(LineValues(ms), L \cup {M + 1}) = IF L = {} THEN LineValues(ms)[M + 1]
        ELSE FirstOf(LineValues(ms), L)
    BY <1>4, <2>2, FirstOfMore
  <2>4. LineValues(ms)[M + 1] = v
    BY <1>1 DEF LineValues
  <2>5. L = {} <=> FirstOf(LineValues(ls), L) = NoValue
    BY <1>4, <1>6, FirstOfIs
  <2> QED BY <1>2, <1>3, <1>7, <1>8, <1>9, <2>1, <2>3, <2>4, <2>5 DEF c, ms
<1>10. CASE ~(k = n /\ kw = p)
  <2>1. LinesOf(ms, n, p) = L
    BY <1>5, <1>10
  <2>2. BlockValue(c[n], p) = BlockValue(b, p)
    BY <1>2, <1>3, <1>10
  <2> QED BY <1>7, <1>8, <2>1, <2>2 DEF c, ms
<1> QED BY <1>9, <1>10

LEMMA ParamLineFills ==
  ASSUME ConfigInv, BlocksInv, ParamLine
  PROVE  BlocksInv'
<1>1. PICK kw \in Keywords :
         /\ LineIs(kw)
         /\ IF Top.block = NoBlock THEN UNCHANGED <<blocks, readLines>>
            ELSE /\ blocks' = [blocks EXCEPT ![Top.block] = Filled(@, kw, Argument)]
                 /\ readLines' = Append(readLines, [pats |-> blocks[Top.block].pats,
                        block |-> Top.block, param |-> kw, value |-> Argument])
  BY DEF ParamLine
<1> DEFINE k == Top.block
           v == Argument
           line == [pats |-> blocks[k].pats, block |-> k, param |-> kw, value |-> v]
<1>2. v \in Values /\ readers # <<>> /\ Top.todo = <<>>
  BY <1>1, LineIsOK DEF LineOK, Argument, Values
<1>3. blocks \in Seq(BlockRecs) /\ readLines \in Seq(ReadRecs)
  BY DEF ConfigInv
<1>4. k = NoBlock \/ k \in DOMAIN blocks
  <2>1. k \in Nat /\ k <= Len(blocks)
    BY <1>2, TopIs
  <2> HIDE DEF k
  <2> QED BY <1>3, <2>1 DEF NoBlock
<1>5. CASE k = NoBlock
  <2>1. UNCHANGED <<blocks, readLines>>
    BY <1>1, <1>5
  <2> QED BY <2>1 DEF BlocksInv
<1>6. CASE k # NoBlock
  <2>1. /\ blocks' = [blocks EXCEPT ![k] = Filled(@, kw, v)] /\ readLines' = Append(readLines, line)
        /\ k \in DOMAIN blocks
    BY <1>1, <1>4, <1>6
  <2>2. line.block = k /\ line.param = kw /\ line.value = v /\ line.pats = blocks[k].pats
    OBVIOUS
  <2> HIDE DEF k, v, line
  <2>3. /\ DOMAIN blocks' = DOMAIN blocks
        /\ \A n \in DOMAIN blocks : blocks'[n].pats = blocks[n].pats
    <3>1. blocks[k] \in BlockRecs
      BY <1>3, <2>1
    <3>2. Filled(blocks[k], kw, v).pats = blocks[k].pats
      BY <1>2, <3>1, FilledIs
    <3> QED BY <1>3, <2>1, <3>2
  <2>4. \A i \in DOMAIN readLines' :
          \/ i \in DOMAIN readLines /\ readLines'[i] = readLines[i]
          \/ readLines'[i] = line
    BY <1>3, <2>1
  <2>5. \A i \in DOMAIN readLines' : readLines'[i].block \in DOMAIN blocks'
        /\ readLines'[i].pats = blocks'[readLines'[i].block].pats
    BY <2>1, <2>2, <2>3, <2>4 DEF BlocksInv, Holds
  <2>6. ASSUME NEW n \in DOMAIN blocks, NEW p \in Keywords
        PROVE  BlockValue(blocks'[n], p)
                 = FirstOf(LineValues(readLines'), LinesOf(readLines', n, p))
    <3>1. BlockValue(blocks[n], p) = FirstOf(LineValues(readLines), LinesOf(readLines, n, p))
      BY DEF BlocksInv, Holds
    <3>2. LET c == [blocks EXCEPT ![k] = Filled(@, kw, v)]
              ms == Append(readLines, line)
          IN BlockValue(c[n], p) = FirstOf(LineValues(ms), LinesOf(ms, n, p))
      BY <1>2, <1>3, <2>1, <2>2, <3>1, LineFills
    <3> QED BY ONLY <2>1, <3>2
  <2> QED BY <2>3, <2>5, <2>6 DEF BlocksInv, Holds
<1> QED BY <1>5, <1>6

LEMMA BlocksSteps ==
  ConfigInv /\ BlocksInv /\ [ConfigNext]_configVars => BlocksInv'
<1> SUFFICES ASSUME ConfigInv, BlocksInv, [ConfigNext]_configVars PROVE BlocksInv'
  OBVIOUS
<1>1. CASE UNCHANGED <<blocks, readLines>>
  BY <1>1 DEF BlocksInv
<1>2. CASE MatchLine \/ IncludeLine \/ IncludeFile \/ FileEnds \/ BuildCandidates \/ RunConnect
  BY <1>1, <1>2 DEF MatchLine, IncludeLine, IncludeFile, FileEnds, BuildCandidates, RunConnect
<1>3. CASE UNCHANGED configVars
  BY <1>1, <1>3 DEF configVars
<1> QED BY <1>2, <1>3, HostLineFills, ParamLineFills DEF ConfigNext

(* So the blocks that match say what their first lines said. *)
LEMMA BlocksResolve ==
  ASSUME ConfigInv, BlocksInv, NEW h, NEW p \in Keywords
  PROVE  ResolvedValue(h, p) = FirstInBlocks(h, p)
<1> DEFINE V == LineValues(readLines)
           S == Says(blocks, h, p)
           L == LinesSaying(readLines, h, p)
           F == {i \in L : \A j \in L : readLines[i].block <= readLines[j].block}
           of(n) == LinesOf(readLines, n, p)
<1>1. ResolvedValue(h, p) = FirstOf(BlockValues(blocks, p), S)
      /\ FirstInBlocks(h, p) = FirstOf(V, F)
  BY ResolvedIs DEF FirstInBlocks
<1>2. blocks \in Seq(BlockRecs) /\ readLines \in Seq(ReadRecs)
  BY DEF ConfigInv
<1>3. \A i \in DOMAIN readLines : V[i] # NoValue
  <2>1. \A i \in DOMAIN readLines : readLines[i].value \in Values
    BY <1>2, ReadIs
  <2> QED BY <2>1 DEF LineValues, Values
<1>4. \A n : of(n) \in SUBSET Nat /\ of(n) \subseteq DOMAIN readLines
  BY <1>2 DEF LinesOf
<1>5. \A n \in DOMAIN blocks : BlockValue(blocks[n], p) = FirstOf(V, of(n))
  BY DEF BlocksInv, Holds
<1>6. \A n : FirstOf(V, of(n)) = NoValue <=> of(n) = {}
  <2> HIDE DEF V, of
  <2> QED BY <1>3, <1>4, FirstOfIs
<1>7. \A i \in DOMAIN readLines : readLines[i].block \in DOMAIN blocks
      /\ readLines[i].pats = blocks[readLines[i].block].pats
  BY DEF BlocksInv, Holds
<1>8. \A n : n \in S <=> n \in DOMAIN blocks /\ BlockMatches(blocks[n].pats, h) /\ of(n) # {}
  BY <1>5, <1>6 DEF Says
<1>9. /\ L \subseteq DOMAIN readLines
      /\ \A i \in DOMAIN readLines : i \in L <=>
           readLines[i].param = p /\ BlockMatches(blocks[readLines[i].block].pats, h)
  BY <1>7 DEF LinesSaying
<1>10. \A i, n : i \in of(n) <=> i \in DOMAIN readLines /\ readLines[i].block = n
                                 /\ readLines[i].param = p
  BY DEF LinesOf
<1>11. S \in SUBSET Nat /\ F \in SUBSET Nat
  BY <1>2, <1>8, <1>9
<1> HIDE DEF V, S, L, of
<1>12. \A i \in L : readLines[i].block \in S
  BY <1>7, <1>8, <1>9, <1>10
<1>13. \A n \in S : \E i \in L : i \in of(n)
  BY <1>8, <1>9, <1>10
<1>14. CASE S = {}
  <2>1. F = {}
    BY <1>12, <1>14
  <2> HIDE DEF F
  <2> QED BY <1>1, <1>11, <1>14, <2>1, FirstOfIs
<1>15. CASE S # {}
  <2>1. PICK a \in S : FirstOf(BlockValues(blocks, p), S) = BlockValues(blocks, p)[a]
                       /\ \A n \in S : a <= n
    BY <1>11, <1>15, FirstOfIs
  <2>2. a \in DOMAIN blocks /\ a \in Nat /\ BlockMatches(blocks[a].pats, h)
    BY <1>8, <1>11, <2>1
  <2>3. BlockValues(blocks, p)[a] = FirstOf(V, of(a))
    BY <1>5, <2>2 DEF BlockValues
  <2>4. PICK m \in L : readLines[m].block = a
    BY <1>10, <1>13, <2>1
  <2>5. ASSUME NEW i \in F PROVE i \in of(a)
    <3>1. i \in L /\ readLines[i].block <= a /\ readLines[i].block \in S
      BY <1>12, <2>4
    <3>2. readLines[i].block = a
      BY <1>11, <2>1, <2>2, <3>1
    <3> QED BY <1>9, <1>10, <3>1, <3>2
  <2>6. ASSUME NEW i \in of(a) PROVE i \in F
    <3>1. i \in L /\ readLines[i].block = a
      BY <1>9, <1>10, <2>2
    <3> QED BY <1>12, <2>1, <3>1
  <2>7. F = of(a)
    BY <2>5, <2>6
  <2> QED BY <1>1, <2>1, <2>3, <2>7
<1> QED BY <1>14, <1>15

LEMMA ConfigSays ==
  ConfigInv /\ BlocksInv => ConfigTypeOK /\ FirstObtainedWins
<1> SUFFICES ASSUME ConfigInv, BlocksInv PROVE ConfigTypeOK /\ FirstObtainedWins
  OBVIOUS
<1>1. ConfigTypeOK
  <2>1. \A i \in DOMAIN readers : readers[i].block \in 0..Len(blocks)
    <3> SUFFICES ASSUME NEW i \in DOMAIN readers PROVE readers[i].block \in 0..Len(blocks)
      OBVIOUS
    <3>1. readers[i] \in ReaderRecs /\ readers[i].block <= Len(blocks) /\ Len(blocks) \in Nat
      BY DEF ConfigInv, ReadersOK, ReadersFit
    <3>2. readers[i].block \in Nat
      BY <3>1, ReaderIs
    <3> QED BY <3>1, <3>2
  <2> QED BY <2>1 DEF ConfigInv, ConfigTypeOK, ReadersOK, ReadersFit
<1>2. FirstObtainedWins
  <2>1. ASSUME NEW h \in HostNames, NEW p \in Keywords
        PROVE  /\ ResolvedValue(h, p) = FirstInBlocks(h, p)
               /\ ~IncludeInBlock => ResolvedValue(h, p) = FirstObtained(h, p)
    BY BlocksResolve DEF ConfigInv, ResolvedInv
  <2> QED BY <2>1 DEF FirstObtainedWins
<1> QED BY <1>1, <1>2

-----------------------------------------------------------------------------
(* The candidates of a site. *)
Fields == {"host", "user", "port", "key", "jump", "proxy", "own"}
Transported(o) ==
  /\ DOMAIN o = Fields
  /\ o.own = "direct" => ~Tunnelled(o)
  /\ o.own # "primary" => ~(o.jump # NoValue /\ o.proxy # NoValue)

LEMMA DefaultsAre ==
  ASSUME NEW o, DOMAIN o = Fields, NEW allowJump
  PROVE  LET d == WithDefaults(o, allowJump) IN
         /\ DOMAIN d = Fields /\ d.own = o.own /\ d.proxy = o.proxy
         /\ ~(allowJump /\ o.jump = NoValue /\ o.proxy = NoValue) => d.jump = o.jump
<1> DEFINE r == Resolve(o.host)
           jump == allowJump /\ o.jump = NoValue /\ o.proxy = NoValue
           hostv == Else(r["hostname"], o.host)
           userv == Else(o.user, r["user"])
           portv == Else(o.port, r["port"])
           keyv == Else(o.key, ResolvedKey(o.host))
           jumpv == IF jump THEN r["proxyjump"] ELSE o.jump
           d == [o EXCEPT !.host = hostv, !.user = userv, !.port = portv, !.key = keyv,
                          !.jump = jumpv]
<1>1. WithDefaults(o, allowJump) = d
  BY DEF WithDefaults
<1>2. ~jump => jumpv = o.jump
  OBVIOUS
<1> HIDE DEF hostv, userv, portv, keyv, jumpv
<1>3. DOMAIN d = Fields /\ d.own = o.own /\ d.proxy = o.proxy /\ d.jump = jumpv
  BY DEF Fields
<1> HIDE DEF d
<1> QED BY <1>1, <1>2, <1>3

LEMMA PrimaryIs ==
  ASSUME NEW site
  PROVE  DOMAIN Primary(site) = Fields /\ Primary(site).own = "primary"
<1> DEFINE o == [host |-> site.host, user |-> site.user, port |-> site.port, key |-> site.key,
                 jump |-> site.jump, proxy |-> site.proxy, own |-> "primary"]
<1>1. DOMAIN o = Fields /\ o.own = "primary"
  BY DEF Fields
<1>2. Primary(site) = WithDefaults(o, TRUE)
  BY DEF Primary
<1> HIDE DEF o
<1>3. PICK a \in BOOLEAN : a = TRUE
  OBVIOUS
<1>4. DOMAIN WithDefaults(o, a) = Fields /\ WithDefaults(o, a).own = "primary"
  BY <1>1, DefaultsAre
<1> QED BY <1>2, <1>3, <1>4

LEMMA RouteCandidateIs ==
  ASSUME NEW site, NEW route
  PROVE  Transported(RouteCandidate(site, route))
<1> DEFINE o == RouteOptions(site, route)
           allow == route.jump # NoValue
           d == WithDefaults(o, allow)
<1>1. /\ DOMAIN o = Fields /\ o.jump = route.jump
      /\ o.jump # NoValue => o.proxy = NoValue
      /\ o.own \in {"tunnel", "direct"}
      /\ o.own = "direct" => o.jump = NoValue /\ o.proxy = NoValue
  BY DEF RouteOptions, Fields
<1>2. RouteCandidate(site, route) = d
  BY DEF RouteCandidate
<1>3. ~(allow /\ o.jump = NoValue /\ o.proxy = NoValue)
  BY <1>1
<1> HIDE DEF o, allow
<1>4. DOMAIN d = Fields /\ d.own = o.own /\ d.proxy = o.proxy /\ d.jump = o.jump
  BY <1>1, <1>3, DefaultsAre
<1> HIDE DEF d
<1> QED BY <1>1, <1>2, <1>4 DEF Transported, Tunnelled

LEMMA CandidatesKeep ==
  ASSUME NEW site \in SiteOptions
  PROVE  \A i \in DOMAIN Candidates(site) : Transported(Candidates(site)[i])
<1> DEFINE R == DOMAIN site.routes
           rc(i) == RouteCandidate(site, site.routes[i])
           p == Primary(site)
           lan == [p EXCEPT !.jump = NoValue, !.proxy = NoValue, !.own = "direct"]
           S == {p, lan} \cup {rc(i) : i \in R}
           rs == [i \in R |-> rc(i)]
           one == <<p>>
           cs == one \o rs
           ls == LanCandidates(cs)
<1>1. Candidates(site) = cs \o ls
  BY DEF Candidates
<1>2. Len(site.routes) \in Nat /\ R = 1..Len(site.routes)
  BY ConfigAssumption
<1>3. \A s \in S : Transported(s)
  <2>1. Transported(p) /\ DOMAIN p = Fields
    BY PrimaryIs DEF Transported
  <2>2. \A i \in R : Transported(rc(i))
    BY RouteCandidateIs
  <2> HIDE DEF p
  <2>3. Transported(lan)
    <3>1. DOMAIN lan = Fields /\ lan.jump = NoValue /\ lan.proxy = NoValue
          /\ lan.own = "direct"
      BY <2>1 DEF Fields
    <3> HIDE DEF lan
    <3> QED BY <3>1 DEF Transported, Tunnelled
  <2> HIDE DEF lan, rc
  <2> QED BY <2>1, <2>2, <2>3
<1>4. p \in S /\ lan \in S /\ \A i \in R : rc(i) \in S
  OBVIOUS
<1> HIDE DEF S, rc
<1>5. rs \in Seq(S)
  BY <1>2, <1>4
<1>6. one \in Seq(S) /\ one[1] = p /\ Len(one) = 1
  BY <1>4
<1> HIDE DEF p, R, one, rs
<1>7. cs \in Seq(S) /\ cs[1] = p
  <2>1. cs \in Seq(S) /\ Len(cs) = Len(one) + Len(rs)
        /\ \A i \in 1..Len(one) + Len(rs) :
             cs[i] = IF i <= Len(one) THEN one[i] ELSE rs[i - Len(one)]
    BY <1>5, <1>6, ConcatProperties
  <2>2. Len(rs) \in Nat
    BY <1>5
  <2>3. 1 \in 1..Len(one) + Len(rs) /\ 1 <= Len(one)
    BY <1>6, <2>2
  <2> QED BY <1>6, <2>1, <2>3
<1> HIDE DEF cs
<1>8. ls \in Seq(S)
  <2>1. \/ ls = <<>>
        \/ ls = <<[cs[1] EXCEPT !.jump = NoValue, !.proxy = NoValue, !.own = "direct"]>>
    BY DEF LanCandidates
  <2>2. ls = <<>> \/ ls = <<lan>>
    BY <1>7, <2>1
  <2> HIDE DEF lan, ls
  <2>3. <<>> \in Seq(S) /\ <<lan>> \in Seq(S)
    BY <1>4, EmptySeq
  <2> QED BY <2>2, <2>3
<1> HIDE DEF ls
<1>9. cs \o ls \in Seq(S)
  BY <1>7, <1>8, ConcatProperties
<1>10. \A i \in DOMAIN (cs \o ls) : (cs \o ls)[i] \in S
  BY <1>9
<1> QED BY <1>1, <1>3, <1>10

(* What is dialled for a candidate: its own way, or a jump host of the       *)
(* configuration.                                                            *)
DialsFor(o, c) ==
  \/ SameWay(o, c)
  \/ /\ c.jump = NoValue
     /\ SameWay(o, [c EXCEPT !.jump = o.jump])
     /\ o.jump = ResolvedValue(c.host, "proxyjump")

LEMMA DialFollows ==
  ASSUME NEW c, DOMAIN c = Fields
  PROVE  DialsFor(WithUserConfig(c), c)
<1> DEFINE r == Resolve(c.host)
           hostv == Else(r["hostname"], c.host)
           userv == Else(c.user, r["user"])
           portv == Else(c.port, r["port"])
           keyv == Else(c.key, ResolvedKey(c.host))
           jumpv == Else(c.jump, r["proxyjump"])
           d == [c EXCEPT !.host = hostv, !.user = userv, !.port = portv, !.key = keyv,
                          !.jump = jumpv]
<1>1. WithUserConfig(c) = d
  BY DEF WithUserConfig
<1>2. /\ c.jump # NoValue => jumpv = c.jump
      /\ c.jump = NoValue => jumpv = ResolvedValue(c.host, "proxyjump")
  BY DEF Else, Resolve, Params
<1> HIDE DEF hostv, userv, portv, keyv, jumpv
<1>3. d.own = c.own /\ d.proxy = c.proxy /\ d.jump = jumpv
  BY DEF Fields
<1>4. PICK e : e = [c EXCEPT !.jump = jumpv]
  OBVIOUS
<1>5. e.own = c.own /\ e.proxy = c.proxy /\ e.jump = jumpv
  BY <1>4 DEF Fields
<1> HIDE DEF d
<1> HIDE DEF jumpv
<1>6. ASSUME c.jump # NoValue PROVE DialsFor(d, c)
  <2>1. SameWay(d, c)
    BY <1>2, <1>3, <1>6 DEF SameWay
  <2> QED BY <2>1 DEF DialsFor
<1>7. ASSUME c.jump = NoValue PROVE DialsFor(d, c)
  <2>1. SameWay(d, e) /\ e = [c EXCEPT !.jump = d.jump]
    BY <1>3, <1>4, <1>5 DEF SameWay
  <2>2. SameWay(d, [c EXCEPT !.jump = d.jump])
    BY ONLY <2>1
  <2>3. d.jump = ResolvedValue(c.host, "proxyjump")
    BY <1>2, <1>3, <1>7
  <2> QED BY <1>7, <2>2, <2>3 DEF DialsFor
<1> QED BY <1>1, <1>6, <1>7

(* The candidates are built once the files have been read, and what is       *)
(* dialled is made of one of them.                                           *)
RoutesInv ==
  /\ options # <<>> => Parsed
  /\ \A i \in DOMAIN options : Transported(options[i])
  /\ dialled # NoValue => options # <<>> /\ \E i \in DOMAIN options : DialsFor(dialled, options[i])

LEMMA RoutesStart ==
  ConfigInit => RoutesInv
BY EmptySeq DEF ConfigInit, RoutesInv

LEMMA RoutesStep ==
  RoutesInv /\ [ConfigNext]_configVars => RoutesInv'
<1> SUFFICES ASSUME RoutesInv, [ConfigNext]_configVars PROVE RoutesInv'
  OBVIOUS
<1>1. CASE UNCHANGED configVars
  <2>1. /\ UNCHANGED <<options, dialled, readers>>
        /\ \A c : DialsFor(dialled, c)' <=> DialsFor(dialled, c)
    BY <1>1 DEF configVars, DialsFor, ResolvedValue, Matching
  <2> QED BY <2>1 DEF RoutesInv, Parsed
<1>2. CASE BuildCandidates
  <2>1. PICK site \in SiteOptions : options' = Candidates(site)
    BY <1>2 DEF BuildCandidates
  <2>2. Parsed /\ options = <<>> /\ dialled' = dialled /\ readers' = readers
    BY <1>2 DEF BuildCandidates
  <2>3. dialled = NoValue
    BY <2>2 DEF RoutesInv
  <2> QED BY <2>1, <2>2, <2>3, CandidatesKeep DEF RoutesInv, Parsed
<1>3. CASE RunConnect
  <2>1. PICK i \in DOMAIN options : dialled' = WithUserConfig(options[i])
    BY <1>3 DEF RunConnect
  <2>2. UNCHANGED <<options, readers, blocks>> /\ options # <<>>
    BY <1>3 DEF RunConnect
  <2>3. DialsFor(dialled', options[i])
    BY <2>1, DialFollows DEF RoutesInv, Transported
  <2>4. DialsFor(dialled, options[i])'
    BY <2>2, <2>3 DEF DialsFor, ResolvedValue, Matching
  <2> QED BY <2>2, <2>4 DEF RoutesInv, Parsed
<1>4. CASE HostLine \/ MatchLine \/ IncludeLine \/ IncludeFile \/ ParamLine \/ FileEnds
  <2>1. readers # <<>> /\ UNCHANGED <<options, dialled>>
    BY <1>4 DEF HostLine, MatchLine, IncludeLine, IncludeFile, ParamLine, FileEnds, LineIs,
       Reading
  <2>2. options = <<>> /\ dialled = NoValue
    BY <2>1 DEF RoutesInv, Parsed
  <2> QED BY <2>1, <2>2, EmptySeq DEF RoutesInv
<1> QED BY <1>1, <1>2, <1>3, <1>4 DEF ConfigNext

LEMMA RoutesSay ==
  RoutesInv => RoutesKeepTransport
BY DEF RoutesInv, Transported, RoutesKeepTransport, DialsFor

(* However the files include one another, skip a file or fill a block later *)
(* on, what is resolved for a host is the first value of the first block    *)
(* that matches it and has one, which is the first value read for it where  *)
(* no Include stands inside a Host block.  A candidate keeps the transport  *)
(* of its route, and what is dialled for it goes that way, or through the   *)
(* jump host the configuration has for the host the candidate was resolved  *)
(* to.  (ssh_config.rs: parse_lines, include, resolve; routing.rs:          *)
(* build_candidates; connect.rs: apply_ssh_config_defaults, run_connect)    *)
THEOREM ConfigIsFollowed ==
  ConfigSpec => [](ConfigTypeOK /\ FirstObtainedWins /\ RoutesKeepTransport)
<1> QED
  BY ConfigStarts, ConfigSteps, ConfigSays, BlocksStart, BlocksSteps, RoutesStart, RoutesStep,
     RoutesSay, PTL DEF ConfigSpec
-----------------------------------------------------------------------------
(* The routes.                                                             *)
ProbeRecs == [label : Labels, up : {"reachable", "unreachable"}, lat : Nat, lan : BOOLEAN,
              failed : RouteTimes \cup {NoRoute}]
Docs == [CacheKeys -> CacheEntry \cup {NoRoute}]

(* Probes are one per route of the key, and no failure is later than the     *)
(* cached probes may be served.                                              *)
Indexed(ps, k) ==
  /\ Len(ps) = Cardinality(k)
  /\ \A i, j \in DOMAIN ps : ps[i].label = ps[j].label => i = j
  /\ \A i \in DOMAIN ps : ps[i].label \in k
  /\ \A l \in k : \E i \in DOMAIN ps : ps[i].label = l
EntryOK(e, k, t) ==
  /\ Indexed(e.probes, k) /\ e.updated <= t
  /\ \A i \in DOMAIN e.probes :
       e.probes[i].failed # NoRoute =>
         e.probes[i].failed <= t /\ e.probes[i].failed <= e.updated + Ttl
Doc(d, t) ==
  /\ d \in Docs
  /\ \A k \in CacheKeys : d[k] # NoRoute => EntryOK(d[k], k, t)

(* A sequence that has each element of a set, once.                          *)
Lists(s, S) ==
  /\ s \in Seq(S) /\ IsFiniteSet(S) /\ Len(s) = Cardinality(S)
  /\ \A x \in S : \E n \in 1..Len(s) : s[n] = x

(* What an entry, or its absence, remembers of marks m and success w at t.   *)
Remembers(e, k, m, w, t) ==
  /\ e = NoRoute => \A l \in k : ~InBackoff(m[l], t)
  /\ e # NoRoute =>
       /\ e.good # NoRoute => e.good = w
       /\ \A i \in DOMAIN e.probes :
            LET p == e.probes[i] IN
            /\ p.failed # NoRoute => p.failed = m[p.label]
            /\ InBackoff(m[p.label], t) => p.failed = m[p.label]
FileRemembers(t) ==
  \A k \in CacheKeys : Remembers(cacheFile[k], k, marks[k], worked[k], t)

(* The file holds what a loaded or saved, but for what a itself would prune. *)
Prunable(e, t) == e # NoRoute /\ e.updated < t - PruneAge
FollowsFile(a) ==
  \A k \in CacheKeys :
    \/ cacheFile[k] = loaded[a][k]
    \/ cacheFile[k] = NoRoute /\ Prunable(loaded[a][k], began[a])

RouteTypes ==
  /\ savedSite \in Sites /\ clock \in RouteTimes /\ overwritten \in BOOLEAN
  /\ Doc(cacheFile, clock)
  /\ stage \in [RouteAgents -> {"idle", "probing", "trying"}]
  /\ cands \in [RouteAgents -> Sites \cup {<<>>}]
  /\ began \in [RouteAgents -> RouteTimes] /\ \A a \in RouteAgents : began[a] <= clock
  /\ loaded \in [RouteAgents -> Docs \cup {NoRoute}]
  /\ order \in [RouteAgents -> Seq(Nat)] /\ attempt \in [RouteAgents -> Nat]
  /\ marks \in [CacheKeys -> [Labels -> RouteTimes \cup {NoRoute}]]
  /\ worked \in [CacheKeys -> Labels \cup {NoRoute}]
  /\ avoid \in [RouteAgents -> SUBSET Labels] /\ current \in SUBSET RouteAgents

LanTried(a) ==
  \A j \in DOMAIN order[a] : \A i \in 1 .. j - 1 :
    ReachedLan(a, order[a][j]) /\ TriedRoute(a, j) \notin avoid[a] => ReachedLan(a, order[a][i])
BackoffTried(a) ==
  \A j \in DOMAIN order[a] : \A i \in 1 .. j - 1 :
    TriedRoute(a, i) \in avoid[a] => TriedRoute(a, j) \in avoid[a]
Pinned(a) == loaded[a] = NoRoute /\ Len(order[a]) = 1
Routed(a) ==
  LET k == CacheKey(cands[a]) IN
  /\ Doc(loaded[a], began[a])
  /\ loaded[a][k] # NoRoute /\ began[a] <= loaded[a][k].updated + Ttl
  /\ Lists(order[a], DOMAIN cands[a])
  /\ ~overwritten => LanTried(a) /\ BackoffTried(a)
AgentOK(a) ==
  /\ stage[a] = "idle" => loaded[a] = NoRoute
  /\ stage[a] = "probing" => cands[a] \in Sites /\ Doc(loaded[a], began[a])
  /\ stage[a] = "trying" => /\ cands[a] \in Sites /\ attempt[a] \in 1..Len(order[a])
                            /\ Pinned(a) \/ Routed(a)
CurrentOK(a) ==
  /\ stage[a] # "idle" /\ Doc(loaded[a], began[a])
  /\ stage[a] = "probing" => cacheFile = loaded[a]
  /\ FollowsFile(a) /\ FileRemembers(began[a])
RouteInv ==
  /\ RouteTypes
  /\ \A a \in RouteAgents : AgentOK(a)
  /\ ~overwritten => FileRemembers(clock) /\ \A a \in current : CurrentOK(a)

-----------------------------------------------------------------------------
(* Lists of sets. *)
LEMMA ListsAre ==
  ASSUME NEW s, NEW S, Lists(s, S)
  PROVE  /\ s \in Seq(S) /\ Len(s) \in Nat /\ DOMAIN s = 1..Len(s) /\ Len(s) = Cardinality(S)
         /\ IsFiniteSet(S) /\ \A n \in 1..Len(s) : s[n] \in S
         /\ \A x \in S : \E n \in 1..Len(s) : s[n] = x
BY DEF Lists

LEMMA OrderLists ==
  ASSUME NEW S, IsFiniteSet(S), NEW R, TotalOrder(R, S)
  PROVE  Lists(Ordered(S, R), S)
<1> DEFINE s == Ordered(S, R)
           N == Cardinality(S)
<1>1. /\ N \in Nat /\ s \in [1..N -> S]
      /\ \A x \in S : \E n \in 1..N : s[n] = x
  BY OrderedIs
<1> HIDE DEF s, N
<1>2. s \in Seq(S) /\ Len(s) = N
  BY <1>1
<1> QED BY <1>1, <1>2 DEF Lists, s, N

LEMMA AscendingLists ==
  ASSUME NEW S, S \subseteq Nat, IsFiniteSet(S)
  PROVE  Lists(Ascending(S), S)
<1> DEFINE s == Ascending(S)
           N == Cardinality(S)
<1>1. /\ N \in Nat /\ s \in [1..N -> S]
      /\ \A x \in S : \E n \in 1..N : s[n] = x
  BY AscendingIs
<1> HIDE DEF s, N
<1>2. s \in Seq(S) /\ Len(s) = N
  BY <1>1
<1> QED BY <1>1, <1>2 DEF Lists, s, N

(* One list after another. *)
LEMMA ListsBoth ==
  ASSUME NEW s, NEW S, NEW t, NEW T, Lists(s, S), Lists(t, T), S \cap T = {}
  PROVE  /\ Lists(s \o t, S \cup T)
         /\ Len(s \o t) = Len(s) + Len(t)
         /\ \A n \in 1..Len(s) : (s \o t)[n] = s[n]
         /\ \A n \in 1..Len(t) : (s \o t)[Len(s) + n] = t[n]
<1> DEFINE M == Len(s)
           N == Len(t)
           q == s \o t
           U == S \cup T
<1>1. /\ s \in Seq(S) /\ M \in Nat /\ M = Cardinality(S) /\ IsFiniteSet(S)
      /\ \A n \in 1..M : s[n] \in S
      /\ \A x \in S : \E n \in 1..M : s[n] = x
  BY ListsAre
<1>2. /\ t \in Seq(T) /\ N \in Nat /\ N = Cardinality(T) /\ IsFiniteSet(T)
      /\ \A n \in 1..N : t[n] \in T
      /\ \A x \in T : \E n \in 1..N : t[n] = x
  BY ListsAre
<1>3. s \in Seq(U) /\ t \in Seq(U)
  <2>1. S \subseteq U /\ T \subseteq U
    OBVIOUS
  <2> HIDE DEF U
  <2> QED BY <1>1, <1>2, <2>1
<1>4. IsFiniteSet(U) /\ Cardinality(U) = M + N
  <2>1. Cardinality(S \cap T) = 0
    BY FS_EmptySet
  <2>2. /\ IsFiniteSet(U)
        /\ Cardinality(U) = Cardinality(S) + Cardinality(T) - Cardinality(S \cap T)
    BY <1>1, <1>2, FS_Union
  <2> QED BY <1>1, <1>2, <2>1, <2>2
<1>5. \A x \in U : x \in S \/ x \in T
  OBVIOUS
<1> HIDE DEF U
<1>6. /\ q \in Seq(U) /\ Len(q) = M + N
      /\ \A i \in 1..M + N : q[i] = IF i <= M THEN s[i] ELSE t[i - M]
  BY <1>3, ConcatProperties
<1> HIDE DEF M, N, q
<1>7. \A n \in 1..M : n \in 1..M + N /\ q[n] = s[n]
  BY <1>1, <1>2, <1>6
<1>8. \A n \in 1..N : M + n \in 1..M + N /\ q[M + n] = t[n]
  <2> SUFFICES ASSUME NEW n \in 1..N PROVE M + n \in 1..M + N /\ q[M + n] = t[n]
    OBVIOUS
  <2>1. M + n \in 1..M + N /\ ~(M + n <= M) /\ (M + n) - M = n
    BY <1>1, <1>2
  <2> QED BY <1>6, <2>1
<1>9. \A x \in U : \E n \in 1..M + N : q[n] = x
  <2> SUFFICES ASSUME NEW x \in U PROVE \E n \in 1..M + N : q[n] = x
    OBVIOUS
  <2>1. CASE x \in S
    BY <1>1, <1>7, <2>1
  <2>2. CASE x \in T
    BY <1>2, <1>8, <2>2
  <2> QED BY <1>5, <2>1, <2>2
<1>10. Lists(q, U)
  BY <1>4, <1>6, <1>9 DEF Lists
<1> QED BY <1>6, <1>7, <1>8, <1>10 DEF M, N, q, U

(* A list split in two, the places D last. *)
LEMMA SplitLists ==
  ASSUME NEW s, NEW S, Lists(s, S), NEW D \in SUBSET (1..Len(s))
  PROVE  LET C == (1..Len(s)) \ D
             q == Keep(s, C) \o Keep(s, D) IN
         /\ Lists(q, S)
         /\ Cardinality(C) \in Nat /\ Cardinality(C) <= Len(q)
         /\ \A n \in 1..Len(q) : n <= Cardinality(C) => q[n] = s[Ascending(C)[n]]
         /\ \A n \in 1..Len(q) : n > Cardinality(C) => \E d \in D : q[n] = s[d]
<1> DEFINE L == Len(s)
           C == (1..L) \ D
           x == Keep(s, C)
           y == Keep(s, D)
           q == x \o y
           M == Cardinality(C)
           N == Cardinality(D)
<1>1. /\ s \in Seq(S) /\ L \in Nat /\ DOMAIN s = 1..L /\ L = Cardinality(S) /\ IsFiniteSet(S)
      /\ \A v \in S : \E n \in 1..L : s[n] = v
  BY ListsAre
<1>2. C \in SUBSET (1..L) /\ D \in SUBSET (1..L) /\ C \cap D = {} /\ C \cup D = 1..L
  OBVIOUS
<1>3. IsFiniteSet(C) /\ IsFiniteSet(D) /\ M + N = L /\ M \in Nat /\ N \in Nat
  <2>1. IsFiniteSet(1..L) /\ Cardinality(1..L) = L
    BY <1>1, FS_Interval
  <2>2. IsFiniteSet(C) /\ IsFiniteSet(D)
    BY <1>2, <2>1, FS_Subset
  <2>3. M \in Nat /\ N \in Nat
    BY <2>2, FS_CardinalityType
  <2> HIDE DEF C, L
  <2>4. Cardinality(C \cup D) = Cardinality(C) + Cardinality(D) - Cardinality(C \cap D)
        /\ Cardinality(C \cap D) = 0
    BY <1>2, <2>2, FS_Union, FS_EmptySet
  <2>5. Cardinality(C \cup D) = L
    BY <1>2, <2>1
  <2> HIDE DEF M, N
  <2>6. L = M + N - 0
    BY <2>4, <2>5 DEF M, N
  <2> QED BY <2>2, <2>3, <2>6
<1> HIDE DEF L, C
<1>4. /\ x \in Seq(S) /\ Len(x) = M
      /\ \A i \in C : \E n \in 1..M : x[n] = s[i]
  BY <1>1, <1>2, KeepIs DEF L
<1>5. /\ y \in Seq(S) /\ Len(y) = N
      /\ \A n \in 1..N : \E i \in D : y[n] = s[i]
      /\ \A i \in D : \E n \in 1..N : y[n] = s[i]
  BY <1>1, <1>2, KeepIs DEF L
<1>6. \A n \in 1..M : x[n] = s[Ascending(C)[n]]
  BY <1>3 DEF Keep
<1> HIDE DEF x, y, M, N
<1>7. /\ q \in Seq(S) /\ Len(q) = M + N
      /\ \A i \in 1..M + N : q[i] = IF i <= M THEN x[i] ELSE y[i - M]
  <2>0. x \in Seq(S) /\ y \in Seq(S)
    BY <1>4, <1>5
  <2>1. /\ q \in Seq(S) /\ Len(q) = Len(x) + Len(y)
        /\ \A i \in 1..Len(x) + Len(y) : q[i] = IF i <= Len(x) THEN x[i] ELSE y[i - Len(x)]
    BY ONLY <2>0, ConcatProperties
  <2> HIDE DEF q
  <2> QED BY <1>4, <1>5, <2>1
<1> HIDE DEF q
<1>8. \A n \in 1..M : n \in 1..M + N /\ q[n] = x[n]
  BY <1>3, <1>7
<1>9. \A n \in 1..N : M + n \in 1..M + N /\ q[M + n] = y[n]
  <2> SUFFICES ASSUME NEW n \in 1..N PROVE M + n \in 1..M + N /\ q[M + n] = y[n]
    OBVIOUS
  <2>1. M + n \in 1..M + N /\ ~(M + n <= M) /\ (M + n) - M = n
    BY <1>3
  <2> QED BY <1>7, <2>1
<1>10. \A v \in S : \E n \in 1..M + N : q[n] = v
  <2> SUFFICES ASSUME NEW v \in S PROVE \E n \in 1..M + N : q[n] = v
    OBVIOUS
  <2>1. PICK i \in 1..L : s[i] = v
    BY <1>1
  <2>2. CASE i \in C
    BY <1>4, <1>8, <2>1, <2>2
  <2>3. CASE i \in D
    <3>1. PICK n \in 1..N : y[n] = s[i]
      BY <1>5, <2>3
    <3> QED BY <1>9, <2>1, <3>1
  <2> QED BY <1>2, <2>2, <2>3
<1>11. Lists(q, S)
  BY <1>1, <1>3, <1>7, <1>10 DEF Lists
<1>12. \A n \in 1..M + N : n <= M => q[n] = s[Ascending(C)[n]]
  BY <1>3, <1>6, <1>8
<1>13. \A n \in 1..M + N : n > M => \E d \in D : q[n] = s[d]
  <2> SUFFICES ASSUME NEW n \in 1..M + N, n > M PROVE \E d \in D : q[n] = s[d]
    OBVIOUS
  <2>1. n - M \in 1..N /\ ~(n <= M)
    BY <1>3
  <2>2. q[n] = y[n - M]
    BY <1>7, <2>1
  <2>3. PICK d \in D : y[n - M] = s[d]
    BY <1>5, <2>1
  <2> QED BY <2>2, <2>3
<1>14. M <= M + N
  BY <1>3
<1> QED BY <1>3, <1>7, <1>11, <1>12, <1>13, <1>14 DEF L, C, x, y, q, M

(* A list with one of its elements moved to the front. *)
LEMMA FrontLists ==
  ASSUME NEW s, NEW S, Lists(s, S), NEW p \in 1..Len(s)
  PROVE  Lists(<<s[p]>> \o Keep(s, DOMAIN s \ {p}), S)
<1> DEFINE L == Len(s)
           C == DOMAIN s \ {p}
           x == <<s[p]>>
           y == Keep(s, C)
           q == x \o y
           N == Cardinality(C)
<1>1. /\ s \in Seq(S) /\ L \in Nat /\ DOMAIN s = 1..L /\ L = Cardinality(S) /\ IsFiniteSet(S)
      /\ \A v \in S : \E n \in 1..L : s[n] = v
  BY ListsAre
<1>2. C \in SUBSET (1..L) /\ \A i \in 1..L : i \in C \/ i = p
  BY <1>1
<1>3. N \in Nat /\ N = L - 1
  <2>1. IsFiniteSet(DOMAIN s) /\ Cardinality(DOMAIN s) = L
    BY <1>1, FS_Interval
  <2>2. p \in DOMAIN s
    BY <1>1
  <2>3. Cardinality(C) = Cardinality(DOMAIN s) - 1 /\ IsFiniteSet(C)
    BY <2>1, <2>2, FS_RemoveElement
  <2>4. Cardinality(C) \in Nat
    BY <2>3, FS_CardinalityType
  <2> QED BY <2>1, <2>3, <2>4
<1>4. s[p] \in S
  BY <1>1
<1>5. x \in Seq(S) /\ Len(x) = 1 /\ x[1] = s[p]
  BY <1>4
<1> HIDE DEF C, L, x
<1>6. /\ y \in Seq(S) /\ Len(y) = N
      /\ \A i \in C : \E n \in 1..N : y[n] = s[i]
  BY <1>1, <1>2, KeepIs DEF L
<1> HIDE DEF y, N
<1>7. /\ q \in Seq(S) /\ Len(q) = Len(x) + Len(y)
      /\ \A i \in 1..Len(x) + Len(y) : q[i] = IF i <= Len(x) THEN x[i] ELSE y[i - Len(x)]
  BY <1>5, <1>6, ConcatProperties
<1> HIDE DEF q
<1>8. Len(q) = L /\ 1 \in 1..L /\ q[1] = s[p]
  <2>1. Len(x) + Len(y) = L /\ p \in 1..L
    BY <1>1, <1>3, <1>5, <1>6 DEF L
  <2>2. 1 \in 1..L
    BY <1>1, <2>1
  <2> QED BY <1>5, <1>7, <2>1, <2>2
<1>9. \A n \in 1..N : 1 + n \in 1..L /\ q[1 + n] = y[n]
  <2> SUFFICES ASSUME NEW n \in 1..N PROVE 1 + n \in 1..L /\ q[1 + n] = y[n]
    OBVIOUS
  <2>1. 1 + n \in 1..L /\ ~(1 + n <= 1) /\ (1 + n) - 1 = n
    BY <1>1, <1>3
  <2>2. Len(x) + Len(y) = L
    BY <1>7, <1>8
  <2> QED BY <1>5, <1>7, <2>1, <2>2
<1>10. \A v \in S : \E n \in 1..L : q[n] = v
  <2> SUFFICES ASSUME NEW v \in S PROVE \E n \in 1..L : q[n] = v
    OBVIOUS
  <2>1. PICK i \in 1..L : s[i] = v
    BY <1>1
  <2>2. CASE i \in C
    BY <1>6, <1>9, <2>1, <2>2
  <2>3. CASE i = p
    BY <1>8, <2>1, <2>3
  <2> QED BY <1>2, <2>1, <2>2, <2>3
<1>11. Lists(q, S)
  BY <1>1, <1>7, <1>8, <1>10 DEF Lists
<1> QED BY <1>11 DEF q, x, y, C

-----------------------------------------------------------------------------
(* Ranking. *)
Measured(res, n) ==
  /\ n \in Nat /\ DOMAIN res = 1..n
  /\ \A i \in 1..n : /\ res[i].up \in {"reachable", "unreachable", "unprobeable"}
                     /\ res[i].lat \in Nat /\ res[i].lan \in BOOLEAN
LanAt(res, i) == res[i].up = "reachable" /\ res[i].lan

LEMMA LatencyLists ==
  ASSUME NEW res, NEW n, Measured(res, n), NEW S \in SUBSET (1..n)
  PROVE  Lists(ByLatency(res, S), S)
<1> DEFINE before(i, j) == \/ res[i].lat < res[j].lat
                           \/ res[i].lat = res[j].lat /\ i <= j
           R == {p \in S \X S : before(p[1], p[2])}
<1>1. \A i \in S : i \in Nat /\ res[i].lat \in Nat
  BY DEF Measured
<1>2. \A i, j \in S : <<i, j>> \in R <=> before(i, j)
  OBVIOUS
<1>3. IsFiniteSet(S)
  <2>1. IsFiniteSet(1..n)
    BY FS_Interval DEF Measured
  <2> QED BY <2>1, FS_Subset
<1>4. ByLatency(res, S) = Ordered(S, R)
  BY DEF ByLatency
<1> HIDE DEF R
<1>5. TotalOrder(R, S)
  BY <1>1, <1>2 DEF TotalOrder
<1> QED BY <1>3, <1>4, <1>5, OrderLists

LEMMA StickyLists ==
  ASSUME NEW ord, NEW S, Lists(ord, S), NEW res, NEW sticky
  PROVE  Lists(StickyWithinClass(ord, res, sticky), S)
<1> DEFINE at == {p \in DOMAIN ord : res[ord[p]].label = sticky}
           first == CHOOSE q \in at : \A r \in at : q <= r
           rest == Keep(ord, DOMAIN ord \ {first})
           front == <<ord[first]>> \o rest
           t == StickyWithinClass(ord, res, sticky)
<1>0. t = IF at = {} THEN ord
          ELSE IF rest # <<>> /\ ChallengerWins(res[ord[first]].lat, res[rest[1]].lat)
               THEN ord ELSE front
  BY Zenon DEF StickyWithinClass
<1> HIDE DEF t
<1>1. at = {} => t = ord
  BY <1>0
<1>2. at # {} => t = ord \/ t = front
  <2> HIDE DEF at, first, rest, front
  <2> QED BY <1>0
<1>3. DOMAIN ord = 1..Len(ord) /\ Len(ord) \in Nat
  BY ListsAre
<1>4. at \in SUBSET Nat /\ \A p \in at : p \in 1..Len(ord)
  BY <1>3
<1> HIDE DEF at
<1>5. at # {} => first \in at
  BY <1>4, FirstPlace
<1> HIDE DEF first
<1>6. at # {} => Lists(front, S)
  BY <1>4, <1>5, FrontLists
<1> HIDE DEF front
<1> QED BY <1>1, <1>2, <1>6 DEF t

(* The order of the probes lists them all, the reachable LAN ones first. *)
LEMMA RankLists ==
  ASSUME NEW res, NEW n, Measured(res, n), NEW sticky
  PROVE  LET r == RankProbes(res, sticky) IN
         /\ Lists(r, 1..n)
         /\ \A j \in 1..Len(r) : \A i \in 1..Len(r) :
              i < j /\ LanAt(res, r[j]) => LanAt(res, r[i])
<1> DEFINE of(u) == {i \in DOMAIN res : res[i].up = u}
           A == {i \in of("reachable") : res[i].lan}
           B == of("reachable") \ A
           C == of("unprobeable")
           D == of("unreachable")
           sa == StickyWithinClass(ByLatency(res, A), res, sticky)
           sb == StickyWithinClass(ByLatency(res, B), res, sticky)
           sc == InOrder(C)
           sd == InOrder(D)
           r == RankProbes(res, sticky)
<1>1. r = ((sa \o sb) \o sc) \o sd
  BY DEF RankProbes
<1>2. /\ A \in SUBSET (1..n) /\ B \in SUBSET (1..n) /\ C \in SUBSET (1..n)
      /\ D \in SUBSET (1..n)
      /\ A \cap B = {} /\ (A \cup B) \cap C = {} /\ (A \cup B \cup C) \cap D = {}
      /\ A \cup B \cup C \cup D = 1..n
      /\ \A i \in 1..n : i \in A <=> LanAt(res, i)
      /\ n \in Nat
  BY DEF Measured, LanAt
<1> HIDE DEF A, B, C, D, r
<1>3. IsFiniteSet(C) /\ IsFiniteSet(D) /\ C \subseteq Nat /\ D \subseteq Nat
  <2>1. IsFiniteSet(1..n)
    BY <1>2, FS_Interval
  <2> QED BY <1>2, <2>1, FS_Subset
<1>4. Lists(sa, A) /\ Lists(sb, B)
  <2>1. Lists(ByLatency(res, A), A) /\ Lists(ByLatency(res, B), B)
    BY <1>2, LatencyLists
  <2> QED BY <2>1, StickyLists
<1>5. Lists(sc, C) /\ Lists(sd, D)
  BY <1>3, AscendingLists DEF InOrder
<1> HIDE DEF sa, sb, sc, sd
<1> DEFINE s2 == sa \o sb
           s3 == s2 \o sc
           s4 == s3 \o sd
<1>6. /\ Lists(s2, A \cup B)
      /\ Len(s2) = Len(sa) + Len(sb)
      /\ \A m \in 1..Len(sa) : s2[m] = sa[m]
      /\ \A m \in 1..Len(sb) : s2[Len(sa) + m] = sb[m]
  <2>1. Lists(sa, A) /\ Lists(sb, B) /\ A \cap B = {}
    BY <1>2, <1>4
  <2> QED BY ONLY <2>1, ListsBoth
<1> HIDE DEF s2
<1>7. /\ Lists(s3, A \cup B \cup C)
      /\ Len(s3) = Len(s2) + Len(sc)
      /\ \A m \in 1..Len(s2) : s3[m] = s2[m]
      /\ \A m \in 1..Len(sc) : s3[Len(s2) + m] = sc[m]
  <2>1. Lists(s2, A \cup B) /\ Lists(sc, C) /\ (A \cup B) \cap C = {}
    BY <1>2, <1>5, <1>6
  <2> QED BY ONLY <2>1, ListsBoth
<1> HIDE DEF s3
<1>8. /\ Lists(s4, A \cup B \cup C \cup D)
      /\ Len(s4) = Len(s3) + Len(sd)
      /\ \A m \in 1..Len(s3) : s4[m] = s3[m]
      /\ \A m \in 1..Len(sd) : s4[Len(s3) + m] = sd[m]
  <2>1. Lists(s3, A \cup B \cup C) /\ Lists(sd, D) /\ (A \cup B \cup C) \cap D = {}
    BY <1>2, <1>5, <1>7
  <2> QED BY ONLY <2>1, ListsBoth
<1>9. r = s4
  BY <1>1 DEF s2, s3
<1> HIDE DEF s4
<1>10. /\ Len(sa) \in Nat /\ Len(sb) \in Nat /\ Len(sc) \in Nat /\ Len(sd) \in Nat
       /\ \A m \in 1..Len(sa) : sa[m] \in A
       /\ \A m \in 1..Len(sb) : sb[m] \in B
       /\ \A m \in 1..Len(sc) : sc[m] \in C
       /\ \A m \in 1..Len(sd) : sd[m] \in D
  BY <1>4, <1>5, ListsAre
<1>11. \A m \in 1..Len(s4) : m <= Len(sa) => s4[m] \in A
  <2> SUFFICES ASSUME NEW m \in 1..Len(s4), m <= Len(sa) PROVE s4[m] \in A
    OBVIOUS
  <2>1. m \in 1..Len(sa) /\ m \in 1..Len(s2) /\ m \in 1..Len(s3)
    BY <1>6, <1>7, <1>8, <1>10
  <2> QED BY <1>6, <1>7, <1>8, <1>10, <2>1
<1>12. \A m \in 1..Len(s4) : m > Len(sa) => s4[m] \in B \cup C \cup D
  <2> SUFFICES ASSUME NEW m \in 1..Len(s4), m > Len(sa) PROVE s4[m] \in B \cup C \cup D
    OBVIOUS
  <2>1. CASE m > Len(s3)
    <3>1. PICK e \in 1..Len(sd) : m = Len(s3) + e
      <4>1. m - Len(s3) \in 1..Len(sd) /\ m = Len(s3) + (m - Len(s3))
        BY <1>6, <1>7, <1>8, <1>10, <2>1
      <4> QED BY <4>1
    <3>2. s4[Len(s3) + e] = sd[e] /\ sd[e] \in D
      <4>1. Len(s3) \in Nat
        BY <1>6, <1>7, <1>10
      <4> QED BY <1>8, <1>10, <4>1
    <3> QED BY <3>1, <3>2
  <2>2. CASE m <= Len(s3) /\ m > Len(s2)
    <3>1. PICK e \in 1..Len(sc) : m = Len(s2) + e
      <4>1. m - Len(s2) \in 1..Len(sc) /\ m = Len(s2) + (m - Len(s2))
        BY <1>6, <1>7, <1>8, <1>10, <2>2
      <4> QED BY <4>1
    <3>2. m \in 1..Len(s3)
      BY <1>6, <1>7, <1>8, <1>10, <2>2
    <3>3. s3[m] \in C
      <4>1. s3[Len(s2) + e] = sc[e] /\ sc[e] \in C
        <5>1. Len(s2) \in Nat
          BY <1>6, <1>10
        <5> QED BY <1>7, <1>10, <5>1
      <4> QED BY <3>1, <4>1
    <3> QED BY <1>8, <3>2, <3>3
  <2>3. CASE m <= Len(s2)
    <3>1. PICK e \in 1..Len(sb) : m = Len(sa) + e
      <4>1. m - Len(sa) \in 1..Len(sb) /\ m = Len(sa) + (m - Len(sa))
        BY <1>6, <1>7, <1>8, <1>10, <2>3
      <4> QED BY <4>1
    <3>2. m \in 1..Len(s2) /\ m \in 1..Len(s3)
      BY <1>6, <1>7, <1>8, <1>10, <2>3
    <3>3. s2[m] \in B
      <4>1. s2[Len(sa) + e] = sb[e] /\ sb[e] \in B
        BY <1>6, <1>10
      <4> QED BY <3>1, <4>1
    <3> QED BY <1>7, <1>8, <3>2, <3>3
  <2> QED BY <1>6, <1>7, <1>8, <1>10, <2>1, <2>2, <2>3
<1>13. Lists(r, 1..n)
  BY <1>2, <1>8, <1>9
<1>14. Len(r) \in Nat /\ \A m \in 1..Len(r) : r[m] \in 1..n
  BY <1>13, ListsAre
<1>15. ASSUME NEW j \in 1..Len(r), NEW i \in 1..Len(r), i < j, LanAt(res, r[j])
       PROVE  LanAt(res, r[i])
  <2>1. r[j] \in A
    BY <1>2, <1>14, <1>15
  <2>2. r[j] \notin B \cup C \cup D
    BY <1>2, <2>1
  <2>3. ~(j > Len(sa))
    BY <1>9, <1>12, <1>15, <2>2
  <2>4. i <= Len(sa)
    BY <1>10, <1>14, <1>15, <2>3
  <2>5. r[i] \in A
    BY <1>9, <1>11, <1>15, <2>4
  <2> QED BY <1>2, <1>14, <1>15, <2>5
<1> QED BY <1>13, <1>15 DEF r

(* The order of the attempts: the demoted last, the others as ranked. *)
Demoted(c, d, t, i) == c[i] \in BackoffLabels(d, CacheKey(c), t)

LEMMA AttemptsAre ==
  ASSUME NEW res, NEW n, Measured(res, n), NEW c, NEW d, NEW t
  PROVE  LET o == AttemptOrder(c, res, d, t) IN
         /\ Lists(o, 1..n)
         /\ \A j \in 1..Len(o) : \A i \in 1..Len(o) : i < j =>
              /\ Demoted(c, d, t, o[i]) => Demoted(c, d, t, o[j])
              /\ LanAt(res, o[j]) /\ ~Demoted(c, d, t, o[j]) => LanAt(res, o[i])
<1> DEFINE r == RankProbes(res, StickyLabel(d, CacheKey(c)))
           L == Len(r)
           M == {m \in DOMAIN r : c[r[m]] \in BackoffLabels(d, CacheKey(c), t)}
           K == (1..L) \ M
           o == Keep(r, K) \o Keep(r, M)
           N == Cardinality(K)
<1>1. /\ Lists(r, 1..n)
      /\ \A j \in 1..L : \A i \in 1..L : i < j /\ LanAt(res, r[j]) => LanAt(res, r[i])
  BY RankLists
<1>2. L \in Nat /\ DOMAIN r = 1..L
  BY <1>1, ListsAre
<1>3. AttemptOrder(c, res, d, t) = o
  BY <1>2 DEF AttemptOrder
<1>4. /\ M \in SUBSET (1..L) /\ K \in SUBSET (1..L) /\ K \subseteq Nat
      /\ \A m \in 1..L : m \in M <=> Demoted(c, d, t, r[m])
      /\ \A m \in 1..L : m \in K <=> m \notin M
  BY <1>2 DEF Demoted
<1> HIDE DEF r, M
<1>5. /\ Lists(o, 1..n)
      /\ N \in Nat /\ N <= Len(o)
      /\ \A m \in 1..Len(o) : m <= N => o[m] = r[Ascending(K)[m]]
      /\ \A m \in 1..Len(o) : m > N => \E e \in M : o[m] = r[e]
  BY <1>1, <1>4, SplitLists
<1>6. /\ Ascending(K) \in [1..N -> K]
      /\ \A k, l \in 1..N : k < l => Ascending(K)[k] < Ascending(K)[l]
  <2>1. IsFiniteSet(1..L)
    BY <1>2, FS_Interval
  <2>2. IsFiniteSet(K)
    BY <1>4, <2>1, FS_Subset
  <2> QED BY <1>4, <2>2, AscendingIs
<1>7. Len(o) \in Nat
  BY <1>5, ListsAre
<1> HIDE DEF K, L, o, N
<1>8. \A m \in 1..Len(o) : m <= N => ~Demoted(c, d, t, o[m])
  <2> SUFFICES ASSUME NEW m \in 1..Len(o), m <= N PROVE ~Demoted(c, d, t, o[m])
    OBVIOUS
  <2>1. m \in 1..N
    BY <1>5, <1>7
  <2>2. PICK e \in K : e = Ascending(K)[m]
    BY <1>6, <2>1
  <2>3. e \in 1..L /\ e \notin M
    BY <1>4
  <2>4. o[m] = r[e]
    BY <1>5, <2>2
  <2>5. ~Demoted(c, d, t, r[e])
    BY <1>4, <2>3
  <2> QED BY <2>4, <2>5
<1>9. \A m \in 1..Len(o) : m > N => Demoted(c, d, t, o[m])
  BY <1>4, <1>5
<1>10. ASSUME NEW j \in 1..Len(o), NEW i \in 1..Len(o), i < j
       PROVE  /\ Demoted(c, d, t, o[i]) => Demoted(c, d, t, o[j])
              /\ LanAt(res, o[j]) /\ ~Demoted(c, d, t, o[j]) => LanAt(res, o[i])
  <2>1. CASE j > N
    BY <1>9, <2>1
  <2>2. CASE ~(j > N)
    <3>1. i \in 1..N /\ j \in 1..N /\ i <= N /\ j <= N
      BY <1>5, <1>7, <1>10, <2>2
    <3>2. ~Demoted(c, d, t, o[i])
      BY <1>8, <3>1
    <3>3. Ascending(K)[i] \in 1..L /\ Ascending(K)[j] \in 1..L
          /\ Ascending(K)[i] < Ascending(K)[j]
      BY <1>4, <1>6, <1>10, <3>1
    <3>4. o[i] = r[Ascending(K)[i]] /\ o[j] = r[Ascending(K)[j]]
      BY <1>5, <3>1
    <3>5. LanAt(res, o[j]) => LanAt(res, o[i])
      BY <1>1, <3>3, <3>4 DEF L
    <3> QED BY <3>2, <3>5
  <2> QED BY <2>1, <2>2
<1> QED BY <1>3, <1>5, <1>10

-----------------------------------------------------------------------------
(* Sites and their keys. *)
LEMMA CandidatesAre ==
  ASSUME NEW c \in Sites
  PROVE  /\ c \in Seq(Labels) /\ Len(c) \in Nat /\ DOMAIN c = 1..Len(c)
         /\ CacheKey(c) \in CacheKeys /\ Len(c) = Cardinality(CacheKey(c))
         /\ \A i \in 1..Len(c) : c[i] \in CacheKey(c) /\ c[i] \in Labels
         /\ \A l \in CacheKey(c) : \E i \in 1..Len(c) : c[i] = l
         /\ \A i, j \in 1..Len(c) : c[i] = c[j] => i = j
<1> DEFINE n == Len(c)
           k == ToSet(c)
<1>1. c \in Seq(Labels) /\ n \in Nat /\ DOMAIN c = 1..n /\ \A i \in 1..n : c[i] \in Labels
  BY RouteAssumption
<1>2. \A i, j \in 1..n : c[i] = c[j] => i = j
  <2>1. IsInjective(c)
    BY RouteAssumption
  <2> QED BY <1>1, <2>1 DEF IsInjective
<1>3. k \in CacheKeys
  BY DEF CacheKeys
<1>4. /\ \A i \in 1..n : c[i] \in k
      /\ \A l \in k : \E i \in 1..n : c[i] = l
  BY <1>1 DEF ToSet
<1> HIDE DEF k, n
<1>5. c \in Surjection(1..n, k) /\ c \in Injection(1..n, k)
  <2>1. c \in [1..n -> k]
    BY <1>1, <1>4 DEF n
  <2> QED BY <1>2, <1>4, <2>1 DEF Surjection, Injection, IsInjective
<1>6. n = Cardinality(k)
  <2>1. IsFiniteSet(1..n) /\ Cardinality(1..n) = n
    BY <1>1, FS_Interval
  <2> QED BY <1>5, <2>1, FS_Surjection
<1> QED BY <1>1, <1>2, <1>3, <1>4, <1>6 DEF CacheKey, k, n

LEMMA KeyIs ==
  ASSUME NEW k \in CacheKeys
  PROVE  k \subseteq Labels
<1>1. PICK s \in Sites : k = CacheKey(s)
  BY DEF CacheKeys, CacheKey
<1> QED BY <1>1, CandidatesAre

LEMMA TimesAre ==
  /\ MaxRouteTime \in Nat /\ Ttl \in Nat /\ Backoff \in Nat /\ PruneAge \in Nat
  /\ Ttl <= PruneAge /\ Backoff + Ttl <= PruneAge + 1
  /\ RouteTimes \subseteq Nat /\ NoRoute \notin RouteTimes
  /\ NoRoute \notin Labels /\ NoRoute \notin CacheEntry /\ 0 \in RouteTimes
BY RouteAssumption DEF RouteTimes

LEMMA ResultsAre ==
  ASSUME NEW c \in Sites, NEW res \in Results(c)
  PROVE  Measured(res, Len(c)) /\ \A i \in 1..Len(c) : res[i].label = c[i]
<1>1. Len(c) \in Nat /\ DOMAIN c = 1..Len(c) /\ \A i \in 1..Len(c) : c[i] \in Labels
  BY CandidatesAre
<1>2. PICK o \in {f \in [DOMAIN c -> UNION {Outcomes[l] : l \in Labels}] :
                    \A i \in DOMAIN c : f[i] \in Outcomes[c[i]]} :
         res = [i \in DOMAIN c |-> [label |-> c[i], up |-> o[i].up, lat |-> o[i].lat,
                                    lan |-> o[i].lan]]
  BY DEF Results
<1>3. \A i \in 1..Len(c) : o[i] \in Outcomes[c[i]]
  BY <1>1
<1>4. \A i \in 1..Len(c) : o[i] \in ProbeStatus
  BY <1>1, <1>3, RouteAssumption
<1>5. \A i \in 1..Len(c) : /\ o[i].up \in {"reachable", "unreachable", "unprobeable"}
                           /\ o[i].lat \in Nat /\ o[i].lan \in BOOLEAN
  BY <1>4 DEF ProbeStatus
<1>6. DOMAIN res = 1..Len(c)
  BY <1>1, <1>2
<1>7. \A i \in 1..Len(c) : /\ res[i].label = c[i] /\ res[i].up = o[i].up
                           /\ res[i].lat = o[i].lat /\ res[i].lan = o[i].lan
  BY <1>1, <1>2
<1> QED BY <1>1, <1>5, <1>6, <1>7 DEF Measured

-----------------------------------------------------------------------------
(* The cache document. *)
LEMMA ProbeIs ==
  ASSUME NEW p \in ProbeRecs
  PROVE  /\ p = [label |-> p.label, up |-> p.up, lat |-> p.lat, lan |-> p.lan,
                 failed |-> p.failed]
         /\ p.label \in Labels /\ p.up \in {"reachable", "unreachable"} /\ p.lat \in Nat
         /\ p.lan \in BOOLEAN /\ p.failed \in RouteTimes \cup {NoRoute}
BY DEF ProbeRecs

LEMMA ProbeMade ==
  ASSUME NEW l \in Labels, NEW u \in {"reachable", "unreachable"}, NEW lat \in Nat,
         NEW lan \in BOOLEAN, NEW f \in RouteTimes \cup {NoRoute}
  PROVE  [label |-> l, up |-> u, lat |-> lat, lan |-> lan, failed |-> f] \in ProbeRecs
BY DEF ProbeRecs

LEMMA EntryIs ==
  ASSUME NEW e \in CacheEntry
  PROVE  /\ e = [updated |-> e.updated, good |-> e.good, probes |-> e.probes]
         /\ e.updated \in RouteTimes /\ e.good \in Labels \cup {NoRoute}
         /\ e.probes \in Seq(ProbeRecs) /\ Len(e.probes) \in Nat
         /\ DOMAIN e.probes = 1..Len(e.probes)
         /\ \A i \in 1..Len(e.probes) : e.probes[i] \in ProbeRecs
<1> DEFINE S == Seq(ProbeRecs)
           G == Labels \cup {NoRoute}
<1>1. CacheEntry = [updated : RouteTimes, good : G, probes : S]
  BY DEF CacheEntry, ProbeRecs
<1> HIDE DEF S, G
<1>2. /\ e = [updated |-> e.updated, good |-> e.good, probes |-> e.probes]
      /\ e.updated \in RouteTimes /\ e.good \in G /\ e.probes \in S
  BY <1>1
<1>3. e.probes \in S =>
        /\ Len(e.probes) \in Nat /\ DOMAIN e.probes = 1..Len(e.probes)
        /\ \A i \in 1..Len(e.probes) : e.probes[i] \in ProbeRecs
  BY DEF S
<1> QED BY <1>2, <1>3 DEF S, G

LEMMA EntryMade ==
  ASSUME NEW u \in RouteTimes, NEW g \in Labels \cup {NoRoute}, NEW ps \in Seq(ProbeRecs)
  PROVE  [updated |-> u, good |-> g, probes |-> ps] \in CacheEntry
<1> DEFINE S == Seq(ProbeRecs)
           G == Labels \cup {NoRoute}
<1>1. CacheEntry = [updated : RouteTimes, good : G, probes : S]
  BY DEF CacheEntry, ProbeRecs
<1>2. g \in G /\ ps \in S
  OBVIOUS
<1> HIDE DEF S, G
<1> QED BY <1>1, <1>2

LEMMA DocIs ==
  ASSUME NEW d, NEW t, Doc(d, t), NEW k \in CacheKeys
  PROVE  /\ d \in Docs /\ DOMAIN d = CacheKeys /\ d[k] \in CacheEntry \cup {NoRoute}
         /\ d[k] # NoRoute =>
              /\ d[k] \in CacheEntry /\ EntryOK(d[k], k, t)
              /\ Len(d[k].probes) = Cardinality(k)
BY DEF Doc, Docs, EntryOK, Indexed

LEMMA FailedIs ==
  ASSUME NEW d, NEW t, Doc(d, t), NEW k \in CacheKeys, d[k] # NoRoute,
         NEW i \in DOMAIN d[k].probes
  PROVE  FailedAt(d, k, d[k].probes[i].label) = d[k].probes[i].failed
<1> DEFINE l == d[k].probes[i].label
           at == {j \in DOMAIN d[k].probes : d[k].probes[j].label = l}
<1>1. Indexed(d[k].probes, k)
  BY DocIs DEF EntryOK
<1>2. at = {i}
  BY <1>1 DEF Indexed
<1>3. FailedAt(d, k, l) = IF at = {} THEN NoRoute
      ELSE d[k].probes[CHOOSE j \in at : TRUE].failed
  BY DEF FailedAt
<1> HIDE DEF at, l
<1>4. (CHOOSE j \in at : TRUE) = i
  BY <1>2
<1> QED BY <1>2, <1>3, <1>4 DEF l

LEMMA FailedType ==
  ASSUME NEW d, NEW t, Doc(d, t), NEW k \in CacheKeys, NEW l \in k
  PROVE  /\ FailedAt(d, k, l) \in RouteTimes \cup {NoRoute}
         /\ FailedAt(d, k, l) # NoRoute => d[k] # NoRoute /\ FailedAt(d, k, l) <= t
         /\ d[k] # NoRoute => \E i \in DOMAIN d[k].probes :
              d[k].probes[i].label = l /\ FailedAt(d, k, l) = d[k].probes[i].failed
<1>1. CASE d[k] = NoRoute
  BY <1>1 DEF FailedAt
<1>2. CASE d[k] # NoRoute
  <2>1. d[k] \in CacheEntry /\ EntryOK(d[k], k, t)
    BY <1>2, DocIs
  <2>2. PICK i \in DOMAIN d[k].probes : d[k].probes[i].label = l
    BY <2>1 DEF EntryOK, Indexed
  <2>3. FailedAt(d, k, l) = d[k].probes[i].failed
    BY <1>2, <2>2, FailedIs
  <2>4. d[k].probes[i] \in ProbeRecs
    BY <2>1, EntryIs
  <2>5. d[k].probes[i].failed \in RouteTimes \cup {NoRoute}
    BY <2>4, ProbeIs
  <2>6. d[k].probes[i].failed # NoRoute => d[k].probes[i].failed <= t
    BY <2>1 DEF EntryOK
  <2> QED BY <1>2, <2>2, <2>3, <2>5, <2>6
<1> QED BY <1>1, <1>2

(* A document is one at any later time. *)
LEMMA DocLater ==
  ASSUME NEW d, NEW t \in RouteTimes, Doc(d, t), NEW u \in RouteTimes, t <= u
  PROVE  Doc(d, u)
<1>1. t \in Nat /\ u \in Nat
  BY TimesAre
<1>2. d \in Docs
  BY DEF Doc
<1>3. ASSUME NEW k \in CacheKeys, d[k] # NoRoute PROVE EntryOK(d[k], k, u)
  <2>1. d[k] \in CacheEntry /\ EntryOK(d[k], k, t)
    BY <1>3, DocIs
  <2>2. d[k].updated \in Nat
    BY <2>1, EntryIs, TimesAre
  <2>3. ASSUME NEW i \in DOMAIN d[k].probes, d[k].probes[i].failed # NoRoute
        PROVE  d[k].probes[i].failed <= u /\ d[k].probes[i].failed <= d[k].updated + Ttl
    <3>1. d[k].probes[i] \in ProbeRecs
      BY <2>1, EntryIs
    <3>2. d[k].probes[i].failed \in Nat
      BY <2>3, <3>1, ProbeIs, TimesAre
    <3>3. d[k].probes[i].failed <= t /\ d[k].probes[i].failed <= d[k].updated + Ttl
      BY <2>1, <2>3 DEF EntryOK
    <3> QED BY <1>1, <3>2, <3>3
  <2>4. Indexed(d[k].probes, k) /\ d[k].updated <= t
    BY <2>1 DEF EntryOK
  <2>5. d[k].updated <= u
    BY <1>1, <2>2, <2>4
  <2> QED BY <2>3, <2>4, <2>5 DEF EntryOK
<1> QED BY <1>2, <1>3 DEF Doc

LEMMA KeptIs ==
  ASSUME NEW d, NEW t, Doc(d, t), NEW u
  PROVE  /\ Doc(Kept(d, u), t)
         /\ \A k \in CacheKeys : Kept(d, u)[k] = IF d[k] = NoRoute \/ Prunable(d[k], u)
                                                THEN NoRoute ELSE d[k]
<1> DEFINE e == Kept(d, u)
<1>1. \A k \in CacheKeys : e[k] = IF d[k] = NoRoute \/ Prunable(d[k], u) THEN NoRoute ELSE d[k]
  BY DEF Kept, Prunable
<1>2. e = [k \in CacheKeys |-> IF d[k] = NoRoute \/ d[k].updated < u - PruneAge
                               THEN NoRoute ELSE d[k]]
  BY DEF Kept
<1>3. \A k \in CacheKeys : d[k] \in CacheEntry \cup {NoRoute}
  BY DocIs
<1>4. e \in Docs
  BY <1>2, <1>3 DEF Docs
<1> HIDE DEF e
<1>5. Doc(e, t)
  BY <1>1, <1>4 DEF Doc
<1> QED BY <1>1, <1>5 DEF e

(* The probes of a cached entry, as a fresh connect reads them. *)
LEMMA FreshIs ==
  ASSUME NEW d, NEW t, Doc(d, t), NEW c \in Sites, d[CacheKey(c)] # NoRoute
  PROVE  LET k == CacheKey(c)
             res == FreshProbes(d, k) IN
         /\ Measured(res, Len(c)) /\ DOMAIN res = 1..Len(c) /\ DOMAIN d[k].probes = 1..Len(c)
         /\ \A i \in 1..Len(c) :
              /\ res[i].label = d[k].probes[i].label /\ res[i].up = d[k].probes[i].up
              /\ res[i].lat = d[k].probes[i].lat /\ res[i].lan = d[k].probes[i].lan
<1> DEFINE k == CacheKey(c)
           n == Len(c)
           ps == d[k].probes
           res == FreshProbes(d, k)
<1>1. k \in CacheKeys /\ n \in Nat /\ n = Cardinality(k)
  BY CandidatesAre
<1> HIDE DEF k, n
<1>2. d[k] \in CacheEntry /\ EntryOK(d[k], k, t)
  BY <1>1, DocIs DEF k
<1>3. DOMAIN ps = 1..n /\ \A i \in 1..n : ps[i] \in ProbeRecs
  BY <1>1, <1>2, EntryIs DEF EntryOK, Indexed
<1>4. \A i \in 1..n : /\ ps[i].up \in {"reachable", "unreachable"} /\ ps[i].lat \in Nat
                      /\ ps[i].lan \in BOOLEAN
  BY <1>3, ProbeIs
<1>5. res = [i \in DOMAIN ps |-> [label |-> ps[i].label, up |-> ps[i].up, lat |-> ps[i].lat,
                                  lan |-> ps[i].lan]]
  BY DEF FreshProbes
<1> HIDE DEF ps, res
<1>6. /\ DOMAIN res = 1..n
      /\ \A i \in 1..n : /\ res[i].label = ps[i].label /\ res[i].up = ps[i].up
                         /\ res[i].lat = ps[i].lat /\ res[i].lan = ps[i].lan
  BY <1>3, <1>5
<1>7. Measured(res, n)
  BY <1>1, <1>4, <1>6 DEF Measured
<1> QED BY <1>3, <1>6, <1>7 DEF k, n, ps, res

(* A route is demoted if the entry remembers that it is in back-off.         *)
LEMMA BackoffIs ==
  ASSUME NEW d, NEW t, Doc(d, t), NEW k \in CacheKeys, NEW l \in k, NEW m, NEW w, NEW u,
         Remembers(d[k], k, m, w, u)
  PROVE  l \in BackoffLabels(d, k, u) <=> InBackoff(m[l], u)
<1>1. CASE d[k] = NoRoute
  BY <1>1 DEF BackoffLabels, Remembers
<1>2. CASE d[k] # NoRoute
  <2> DEFINE ps == d[k].probes
  <2>1. EntryOK(d[k], k, t)
    BY <1>2, DocIs
  <2>2. PICK i \in DOMAIN ps : ps[i].label = l
    BY <2>1 DEF EntryOK, Indexed
  <2>3. \A j \in DOMAIN ps : ps[j].label = l => j = i
    BY <2>1, <2>2 DEF EntryOK, Indexed
  <2>4. BackoffLabels(d, k, u) = {p.label : p \in {q \in ToSet(ps) : InBackoff(q.failed, u)}}
    BY <1>2 DEF BackoffLabels
  <2>5. /\ ps[i].failed # NoRoute => ps[i].failed = m[l]
        /\ InBackoff(m[l], u) => ps[i].failed = m[l]
    BY <1>2, <2>2 DEF Remembers
  <2> HIDE DEF ps
  <2>6. l \in BackoffLabels(d, k, u) <=> InBackoff(ps[i].failed, u)
    BY <2>2, <2>3, <2>4 DEF ToSet
  <2>7. InBackoff(ps[i].failed, u) => ps[i].failed # NoRoute
    BY DEF InBackoff
  <2> QED BY <2>5, <2>6, <2>7
<1> QED BY <1>1, <1>2

(* The order a connect makes of what it measured or read. *)
Tried(o, c, ps, V) ==
  /\ \A j \in DOMAIN o : \A i \in 1 .. j - 1 :
       LanAt(ps, o[j]) /\ c[o[j]] \notin V => LanAt(ps, o[i])
  /\ \A j \in DOMAIN o : \A i \in 1 .. j - 1 : c[o[i]] \in V => c[o[j]] \in V

LEMMA TriedIs ==
  ASSUME NEW d, NEW t, Doc(d, t), NEW c \in Sites, d[CacheKey(c)] # NoRoute,
         NEW res, Measured(res, Len(c)),
         \A i \in 1..Len(c) : LanAt(res, i) <=> LanAt(FreshProbes(d, CacheKey(c)), i),
         NEW m, NEW w, Remembers(d[CacheKey(c)], CacheKey(c), m, w, t)
  PROVE  Tried(AttemptOrder(c, res, d, t), c, FreshProbes(d, CacheKey(c)),
               {l \in Labels : InBackoff(m[l], t)})
<1> DEFINE k == CacheKey(c)
           n == Len(c)
           ps == FreshProbes(d, k)
           o == AttemptOrder(c, res, d, t)
           V == {l \in Labels : InBackoff(m[l], t)}
<1>1. /\ n \in Nat /\ k \in CacheKeys
      /\ \A i \in 1..n : c[i] \in k /\ c[i] \in Labels
      /\ \A i, j \in 1..n : c[i] = c[j] => i = j
  BY CandidatesAre
<1>2. \A i \in 1..n : Demoted(c, d, t, i) <=> c[i] \in V
  BY <1>1, BackoffIs DEF Demoted
<1>3. /\ Lists(o, 1..n)
      /\ \A j \in 1..Len(o) : \A i \in 1..Len(o) : i < j =>
           /\ Demoted(c, d, t, o[i]) => Demoted(c, d, t, o[j])
           /\ LanAt(res, o[j]) /\ ~Demoted(c, d, t, o[j]) => LanAt(res, o[i])
  BY AttemptsAre
<1>4. DOMAIN o = 1..Len(o) /\ Len(o) \in Nat /\ \A j \in 1..Len(o) : o[j] \in 1..n
  BY <1>3, ListsAre
<1>5. DOMAIN ps = 1..n
  BY FreshIs
<1>6. \A j \in DOMAIN o : \A i \in 1 .. j - 1 : i \in DOMAIN o /\ i < j
  BY <1>4
<1>7. \A i \in 1..n : LanAt(res, i) <=> LanAt(ps, i)
  OBVIOUS
<1> HIDE DEF k, n, ps, o, V
<1>9. ASSUME NEW j \in DOMAIN o, NEW i \in 1 .. j - 1
      PROVE  /\ c[o[i]] \in V => c[o[j]] \in V
             /\ LanAt(ps, o[j]) /\ c[o[j]] \notin V => LanAt(ps, o[i])
  <2>1. i \in 1..Len(o) /\ j \in 1..Len(o) /\ i < j /\ o[i] \in 1..n /\ o[j] \in 1..n
    BY <1>4, <1>6
  <2>2. /\ Demoted(c, d, t, o[i]) => Demoted(c, d, t, o[j])
        /\ LanAt(res, o[j]) /\ ~Demoted(c, d, t, o[j]) => LanAt(res, o[i])
    BY <1>3, <2>1
  <2> QED BY <1>2, <1>7, <2>1, <2>2
<1> QED BY <1>9 DEF Tried, k, n, ps, o, V

(* What measuring, failing over and connecting write. *)
LEMMA RecordIs ==
  ASSUME NEW d, NEW t \in RouteTimes, Doc(d, t), NEW c \in Sites, NEW res \in Results(c)
  PROVE  LET k == CacheKey(c)
             e == RecordProbes(d, k, res, t) IN
         /\ Doc(e, t) /\ e[k] # NoRoute /\ e[k].updated = t
         /\ e[k].good = StickyLabel(d, k)
         /\ DOMAIN e[k].probes = 1..Len(c)
         /\ \A i \in 1..Len(c) : /\ e[k].probes[i].label = c[i]
                                 /\ e[k].probes[i].failed = FailedAt(d, k, c[i])
         /\ \A i \in 1..Len(c) : LanAt(res, i) <=> LanAt(FreshProbes(e, k), i)
         /\ \A j \in CacheKeys : j # k => e[j] = d[j]
<1> DEFINE k == CacheKey(c)
           n == Len(c)
           up(i) == IF res[i].up = "reachable" THEN "reachable" ELSE "unreachable"
           ps == [i \in DOMAIN res |->
                   [label |-> res[i].label, lat |-> res[i].lat, lan |-> res[i].lan,
                    up |-> up(i), failed |-> FailedAt(d, k, res[i].label)]]
           x == [updated |-> t, good |-> StickyLabel(d, k), probes |-> ps]
           e == RecordProbes(d, k, res, t)
<1>1. /\ n \in Nat /\ k \in CacheKeys /\ n = Cardinality(k)
      /\ \A i \in 1..n : c[i] \in k /\ c[i] \in Labels
      /\ \A l \in k : \E i \in 1..n : c[i] = l
      /\ \A i, j \in 1..n : c[i] = c[j] => i = j
  BY CandidatesAre
<1>2. /\ DOMAIN res = 1..n
      /\ \A i \in 1..n : /\ res[i].label = c[i] /\ res[i].lat \in Nat /\ res[i].lan \in BOOLEAN
  BY ResultsAre DEF Measured
<1> HIDE DEF k, n
<1>3. /\ DOMAIN ps = 1..n
      /\ \A i \in 1..n : /\ ps[i].label = c[i] /\ ps[i].lat = res[i].lat /\ ps[i].up = up(i)
                         /\ ps[i].lan = res[i].lan /\ ps[i].failed = FailedAt(d, k, c[i])
  BY <1>2
<1>4. \A i \in 1..n : ps[i] \in ProbeRecs
  <2> SUFFICES ASSUME NEW i \in 1..n PROVE ps[i] \in ProbeRecs
    OBVIOUS
  <2>1. FailedAt(d, k, c[i]) \in RouteTimes \cup {NoRoute}
    BY <1>1, FailedType
  <2>2. up(i) \in {"reachable", "unreachable"}
    OBVIOUS
  <2>3. ps[i] = [label |-> c[i], up |-> up(i), lat |-> res[i].lat, lan |-> res[i].lan,
                 failed |-> FailedAt(d, k, c[i])]
    BY <1>2
  <2> HIDE DEF up, ps
  <2> QED BY <1>1, <1>2, <2>1, <2>2, <2>3, ProbeMade
<1>5. ps \in Seq(ProbeRecs) /\ Len(ps) = n
  BY <1>1, <1>2, <1>4
<1>6. StickyLabel(d, k) \in Labels \cup {NoRoute}
  <2>1. CASE d[k] = NoRoute
    BY <2>1 DEF StickyLabel
  <2>2. CASE d[k] # NoRoute
    <3>1. d[k] \in CacheEntry
      BY <1>1, <2>2, DocIs
    <3> QED BY <2>2, <3>1, EntryIs DEF StickyLabel
  <2> QED BY <2>1, <2>2
<1>7. e = [d EXCEPT ![k] = x]
  BY Zenon DEF RecordProbes
<1> HIDE DEF ps
<1>8. x \in CacheEntry /\ x.updated = t /\ x.good = StickyLabel(d, k) /\ x.probes = ps
  BY <1>5, <1>6, EntryMade
<1>9. EntryOK(x, k, t)
  <2>1. Indexed(ps, k)
    BY <1>1, <1>3, <1>5 DEF Indexed
  <2>2. t \in Nat /\ Ttl \in Nat
    BY TimesAre
  <2>3. \A i \in DOMAIN ps : ps[i].failed # NoRoute => ps[i].failed <= t
        /\ ps[i].failed <= t + Ttl
    <3> SUFFICES ASSUME NEW i \in 1..n, ps[i].failed # NoRoute
                 PROVE  ps[i].failed <= t /\ ps[i].failed <= t + Ttl
      BY <1>3
    <3>1. ps[i].failed = FailedAt(d, k, c[i]) /\ c[i] \in k
      BY <1>1, <1>3
    <3>2. ps[i].failed \in RouteTimes \cup {NoRoute} /\ ps[i].failed <= t
      BY <1>1, <3>1, FailedType
    <3>3. ps[i].failed \in Nat
      BY <3>2, TimesAre
    <3> QED BY <2>2, <3>2, <3>3
  <2> HIDE DEF x
  <2> QED BY <1>8, <2>1, <2>2, <2>3 DEF EntryOK
<1> HIDE DEF x, e
<1>10. d \in Docs /\ DOMAIN d = CacheKeys
  BY <1>1, DocIs
<1>11. /\ e[k] = x /\ \A j \in CacheKeys : j # k => e[j] = d[j]
       /\ e \in Docs
  BY <1>1, <1>7, <1>8, <1>10 DEF Docs
<1>12. Doc(e, t)
  <2>1. \A j \in CacheKeys : d[j] # NoRoute => EntryOK(d[j], j, t)
    BY DEF Doc
  <2> QED BY <1>9, <1>11, <2>1 DEF Doc
<1>13. x # NoRoute
  BY <1>8, TimesAre
<1>14. \A i \in 1..n : LanAt(res, i) <=> LanAt(FreshProbes(e, k), i)
  <2>1. \A i \in 1..n : FreshProbes(e, k)[i].up = ps[i].up
        /\ FreshProbes(e, k)[i].lan = ps[i].lan
    BY <1>8, <1>11, <1>12, <1>13, FreshIs DEF k, n
  <2> QED BY <1>3, <2>1 DEF LanAt
<1> QED BY <1>3, <1>8, <1>11, <1>12, <1>13, <1>14 DEF k, n, e

(* A route's failure set to f, or, with f = NoRoute, forgotten. *)
LEMMA MarkedIs ==
  ASSUME NEW d, NEW t \in RouteTimes, Doc(d, t), NEW k \in CacheKeys, d[k] # NoRoute,
         NEW l \in k, NEW f \in RouteTimes \cup {NoRoute},
         f # NoRoute => f <= t /\ f <= d[k].updated + Ttl
  PROVE  LET e == Marked(d, k, l, f) IN
         /\ Doc(e, t) /\ e[k] # NoRoute /\ e[k].updated = d[k].updated /\ e[k].good = d[k].good
         /\ DOMAIN e[k].probes = DOMAIN d[k].probes
         /\ \A i \in DOMAIN d[k].probes :
              /\ e[k].probes[i].label = d[k].probes[i].label
              /\ e[k].probes[i].failed =
                   IF d[k].probes[i].label = l THEN f ELSE d[k].probes[i].failed
         /\ FreshProbes(e, k) = FreshProbes(d, k)
         /\ \A j \in CacheKeys : j # k => e[j] = d[j]
<1> DEFINE ps == d[k].probes
           qs == [i \in DOMAIN ps |-> IF ps[i].label = l THEN [ps[i] EXCEPT !.failed = f]
                                      ELSE ps[i]]
           x == [d[k] EXCEPT !.probes = qs]
           e == Marked(d, k, l, f)
<1>1. /\ d \in Docs /\ DOMAIN d = CacheKeys
      /\ d[k] \in CacheEntry /\ EntryOK(d[k], k, t)
  BY DocIs
<1>2. e = [d EXCEPT ![k] = x]
  BY DEF Marked
<1>3. /\ d[k] = [updated |-> d[k].updated, good |-> d[k].good, probes |-> ps]
      /\ d[k].updated \in RouteTimes /\ d[k].good \in Labels \cup {NoRoute}
      /\ ps \in Seq(ProbeRecs) /\ Len(ps) \in Nat /\ DOMAIN ps = 1..Len(ps)
      /\ \A i \in 1..Len(ps) : ps[i] \in ProbeRecs
  BY <1>1, EntryIs
<1> HIDE DEF ps
<1>4. \A i \in 1..Len(ps) : /\ ps[i] = [label |-> ps[i].label, up |-> ps[i].up,
                                        lat |-> ps[i].lat, lan |-> ps[i].lan,
                                        failed |-> ps[i].failed]
                            /\ ps[i].label \in Labels
                            /\ ps[i].up \in {"reachable", "unreachable"}
                            /\ ps[i].lat \in Nat /\ ps[i].lan \in BOOLEAN
                            /\ ps[i].failed \in RouteTimes \cup {NoRoute}
  BY <1>3, ProbeIs
<1>5. \A i \in 1..Len(ps) :
        /\ qs[i].label = ps[i].label /\ qs[i].up = ps[i].up
        /\ qs[i].lat = ps[i].lat /\ qs[i].lan = ps[i].lan
        /\ qs[i].failed = IF ps[i].label = l THEN f ELSE ps[i].failed
        /\ qs[i] \in ProbeRecs
  <2> SUFFICES ASSUME NEW i \in 1..Len(ps)
               PROVE  /\ qs[i].label = ps[i].label /\ qs[i].up = ps[i].up
                      /\ qs[i].lat = ps[i].lat /\ qs[i].lan = ps[i].lan
                      /\ qs[i].failed = IF ps[i].label = l THEN f ELSE ps[i].failed
                      /\ qs[i] \in ProbeRecs
    OBVIOUS
  <2> DEFINE p == ps[i]
             q == [p EXCEPT !.failed = f]
             r == [label |-> p.label, up |-> p.up, lat |-> p.lat, lan |-> p.lan, failed |-> f]
  <2>1. qs[i] = IF p.label = l THEN q ELSE p
    BY <1>3
  <2>2. p = [label |-> p.label, up |-> p.up, lat |-> p.lat, lan |-> p.lan, failed |-> p.failed]
    BY <1>4
  <2>3. q = r
    <3> HIDE DEF p
    <3> QED BY <2>2
  <2>4. r \in ProbeRecs
    BY <1>4, ProbeMade
  <2>5. p \in ProbeRecs
    BY <1>3
  <2>6. CASE p.label = l
    <3>1. qs[i] = r
      BY <2>1, <2>3, <2>6
    <3> QED BY <2>4, <2>6, <3>1
  <2>7. CASE p.label # l
    BY <2>1, <2>5, <2>7
  <2> QED BY <2>6, <2>7
<1>6. DOMAIN qs = 1..Len(ps)
  BY <1>3
<1> HIDE DEF qs
<1>7. qs \in Seq(ProbeRecs) /\ Len(qs) = Len(ps)
  <2>1. qs = [i \in 1..Len(ps) |-> qs[i]]
    BY <1>6 DEF qs
  <2>2. qs \in [1..Len(ps) -> ProbeRecs]
    BY <1>5, <2>1
  <2> QED BY <1>3, <2>2
<1>8. x = [updated |-> d[k].updated, good |-> d[k].good, probes |-> qs]
  BY <1>3
<1>9. /\ x \in CacheEntry /\ x.updated = d[k].updated /\ x.good = d[k].good /\ x.probes = qs
  <2>1. [updated |-> d[k].updated, good |-> d[k].good, probes |-> qs] \in CacheEntry
    BY <1>3, <1>7, EntryMade
  <2> HIDE DEF x
  <2> QED BY <1>8, <2>1
<1> HIDE DEF x
<1>10. EntryOK(x, k, t)
  <2>1. /\ Indexed(ps, k) /\ d[k].updated <= t
        /\ \A i \in DOMAIN ps : ps[i].failed # NoRoute =>
             ps[i].failed <= t /\ ps[i].failed <= d[k].updated + Ttl
    BY <1>1 DEF EntryOK, ps
  <2>2. Indexed(qs, k)
    <3>1. Len(qs) = Cardinality(k)
      BY <1>7, <2>1 DEF Indexed
    <3>2. DOMAIN qs = DOMAIN ps /\ \A i \in DOMAIN ps : qs[i].label = ps[i].label
      BY <1>3, <1>5, <1>6
    <3> QED BY <2>1, <3>1, <3>2 DEF Indexed
  <2>3. \A i \in DOMAIN qs : qs[i].failed # NoRoute =>
             qs[i].failed <= t /\ qs[i].failed <= d[k].updated + Ttl
    BY <1>3, <1>5, <1>6, <2>1
  <2> QED BY <1>9, <2>1, <2>2, <2>3 DEF EntryOK
<1> HIDE DEF e
<1>11. /\ e[k] = x /\ \A j \in CacheKeys : j # k => e[j] = d[j]
       /\ e \in Docs
  BY <1>1, <1>2, <1>9 DEF Docs
<1>12. Doc(e, t)
  <2>1. \A j \in CacheKeys : d[j] # NoRoute => EntryOK(d[j], j, t)
    BY DEF Doc
  <2> QED BY <1>10, <1>11, <2>1 DEF Doc
<1>13. x # NoRoute
  BY <1>9, TimesAre
<1>14. FreshProbes(e, k) = FreshProbes(d, k)
  <2>1. FreshProbes(d, k) = [i \in DOMAIN ps |-> [label |-> ps[i].label, up |-> ps[i].up,
                                                  lat |-> ps[i].lat, lan |-> ps[i].lan]]
    BY DEF FreshProbes, ps
  <2>2. FreshProbes(e, k) = [i \in DOMAIN qs |-> [label |-> qs[i].label, up |-> qs[i].up,
                                                  lat |-> qs[i].lat, lan |-> qs[i].lan]]
    BY <1>9, <1>11 DEF FreshProbes
  <2> QED BY <1>3, <1>5, <1>6, <2>1, <2>2
<1> QED BY <1>3, <1>5, <1>6, <1>9, <1>11, <1>12, <1>13, <1>14 DEF ps, e

LEMMA SuccessIs ==
  ASSUME NEW d, NEW t \in RouteTimes, Doc(d, t), NEW k \in CacheKeys, d[k] # NoRoute,
         NEW l \in k
  PROVE  LET e == RecordSuccess(d, k, l) IN
         /\ Doc(e, t) /\ e[k] # NoRoute /\ e[k].updated = d[k].updated /\ e[k].good = l
         /\ DOMAIN e[k].probes = DOMAIN d[k].probes
         /\ \A i \in DOMAIN d[k].probes :
              /\ e[k].probes[i].label = d[k].probes[i].label
              /\ e[k].probes[i].failed =
                   IF d[k].probes[i].label = l THEN NoRoute ELSE d[k].probes[i].failed
         /\ \A j \in CacheKeys : j # k => e[j] = d[j]
<1> DEFINE b == Marked(d, k, l, NoRoute)
           x == [b[k] EXCEPT !.good = l]
           e == RecordSuccess(d, k, l)
<1>1. /\ Doc(b, t) /\ b[k] # NoRoute /\ b[k].updated = d[k].updated
      /\ DOMAIN b[k].probes = DOMAIN d[k].probes
      /\ \A i \in DOMAIN d[k].probes :
           /\ b[k].probes[i].label = d[k].probes[i].label
           /\ b[k].probes[i].failed =
                IF d[k].probes[i].label = l THEN NoRoute ELSE d[k].probes[i].failed
      /\ \A j \in CacheKeys : j # k => b[j] = d[j]
  BY MarkedIs
<1>2. e = [b EXCEPT ![k] = x]
  BY DEF RecordSuccess
<1> HIDE DEF b, e
<1>3. b \in Docs /\ DOMAIN b = CacheKeys /\ b[k] \in CacheEntry /\ EntryOK(b[k], k, t)
  BY <1>1, DocIs
<1>4. /\ b[k] = [updated |-> b[k].updated, good |-> b[k].good, probes |-> b[k].probes]
      /\ b[k].updated \in RouteTimes /\ b[k].probes \in Seq(ProbeRecs)
  BY <1>3, EntryIs
<1>5. l \in Labels \cup {NoRoute}
  BY KeyIs
<1>6. x = [updated |-> b[k].updated, good |-> l, probes |-> b[k].probes]
  BY <1>4
<1> HIDE DEF x
<1>7. /\ x \in CacheEntry /\ x.updated = b[k].updated /\ x.good = l /\ x.probes = b[k].probes
  BY <1>4, <1>5, <1>6, EntryMade
<1>8. EntryOK(x, k, t)
  BY <1>3, <1>7 DEF EntryOK
<1>9. /\ e[k] = x /\ \A j \in CacheKeys : j # k => e[j] = b[j]
      /\ e \in Docs
  BY <1>2, <1>3, <1>7 DEF Docs
<1>10. Doc(e, t)
  <2>1. \A j \in CacheKeys : b[j] # NoRoute => EntryOK(b[j], j, t)
    BY <1>1 DEF Doc
  <2> QED BY <1>8, <1>9, <2>1 DEF Doc
<1>11. x # NoRoute
  BY <1>7, TimesAre
<1> QED BY <1>1, <1>7, <1>9, <1>10, <1>11 DEF e

-----------------------------------------------------------------------------
(* What a save keeps of what the file remembers.                             *)
LEMMA BackoffPasses ==
  ASSUME NEW at \in RouteTimes \cup {NoRoute}, NEW t \in RouteTimes, NEW u \in RouteTimes,
         t <= u, InBackoff(at, u)
  PROVE  InBackoff(at, t)
<1>1. at # NoRoute /\ u - at < Backoff
  BY DEF InBackoff
<1>2. at \in Nat /\ t \in Nat /\ u \in Nat /\ Backoff \in Nat
  BY <1>1, TimesAre
<1>3. t - at < Backoff
  BY <1>1, <1>2
<1> QED BY <1>1, <1>3 DEF InBackoff

LEMMA RemembersLater ==
  ASSUME NEW e, NEW k \in CacheKeys, NEW m \in [Labels -> RouteTimes \cup {NoRoute}], NEW w,
         NEW t \in RouteTimes, NEW u \in RouteTimes, t <= u, Remembers(e, k, m, w, t),
         e = NoRoute \/ Indexed(e.probes, k)
  PROVE  Remembers(e, k, m, w, u)
<1>1. \A l \in Labels : InBackoff(m[l], u) => InBackoff(m[l], t)
  BY BackoffPasses
<1>2. k \subseteq Labels
  BY KeyIs
<1>3. CASE e = NoRoute
  BY <1>1, <1>2, <1>3 DEF Remembers
<1>4. CASE e # NoRoute
  <2>1. \A i \in DOMAIN e.probes : e.probes[i].label \in Labels
    BY <1>2, <1>4 DEF Indexed
  <2> QED BY <1>1, <1>4, <2>1 DEF Remembers
<1> QED BY <1>3, <1>4

(* An entry too old to keep remembers no failure still in back-off.          *)
LEMMA OldIsForgotten ==
  ASSUME NEW k \in CacheKeys, NEW e \in CacheEntry, NEW t \in RouteTimes, EntryOK(e, k, t),
         Prunable(e, t), NEW m, NEW w, Remembers(e, k, m, w, t)
  PROVE  Remembers(NoRoute, k, m, w, t)
<1>1. e # NoRoute
  BY TimesAre
<1>2. SUFFICES ASSUME NEW l \in k, InBackoff(m[l], t) PROVE FALSE
  BY DEF Remembers
<1>3. PICK i \in DOMAIN e.probes : e.probes[i].label = l
  BY DEF EntryOK, Indexed
<1> DEFINE f == e.probes[i].failed
           v == e.updated
<1>4. f = m[l] /\ f # NoRoute /\ t - f < Backoff
  BY <1>1, <1>2, <1>3 DEF Remembers, InBackoff
<1>5. e.probes[i] \in ProbeRecs /\ v \in RouteTimes
  BY EntryIs
<1>6. f \in Nat /\ v \in Nat /\ t \in Nat
  BY <1>4, <1>5, ProbeIs, TimesAre
<1>7. f <= v + Ttl
  BY <1>4 DEF EntryOK
<1>8. v < t - PruneAge
  BY DEF Prunable
<1> HIDE DEF f, v
<1> QED BY <1>4, <1>6, <1>7, <1>8, TimesAre

LEMMA SaveKeeps ==
  ASSUME NEW a \in RouteAgents, began[a] \in RouteTimes, Doc(loaded[a], began[a]),
         FollowsFile(a), FileRemembers(began[a]), NEW k \in CacheKeys, NEW d,
         d[k] = loaded[a][k]
  PROVE  Remembers(Kept(d, began[a])[k], k, marks[k], worked[k], began[a])
<1> DEFINE t == began[a]
           e == loaded[a][k]
           m == marks[k]
           w == worked[k]
<1>1. Kept(d, t)[k] = IF e = NoRoute \/ Prunable(e, t) THEN NoRoute ELSE e
  BY DEF Kept, Prunable
<1>2. Remembers(cacheFile[k], k, m, w, t)
  BY DEF FileRemembers
<1>3. cacheFile[k] = e \/ (cacheFile[k] = NoRoute /\ Prunable(e, t))
  BY DEF FollowsFile
<1>4. e # NoRoute => e \in CacheEntry /\ EntryOK(e, k, t)
  BY DocIs
<1> HIDE DEF e
<1>5. CASE e = NoRoute
  BY <1>1, <1>2, <1>3, <1>5 DEF Prunable
<1>6. CASE e # NoRoute /\ ~Prunable(e, t)
  BY <1>1, <1>2, <1>3, <1>6
<1>7. CASE e # NoRoute /\ Prunable(e, t)
  <2>1. Kept(d, t)[k] = NoRoute
    BY <1>1, <1>7
  <2>2. Remembers(NoRoute, k, m, w, t)
    BY <1>2, <1>3, <1>4, <1>7, OldIsForgotten
  <2> QED BY <2>1, <2>2
<1> QED BY <1>5, <1>6, <1>7

-----------------------------------------------------------------------------
(* What a step of one agent leaves of the others. *)
Untouched(b) ==
  /\ stage'[b] = stage[b] /\ cands'[b] = cands[b] /\ began'[b] = began[b]
  /\ loaded'[b] = loaded[b] /\ order'[b] = order[b] /\ attempt'[b] = attempt[b]
AloneMoves(a) == \A b \in RouteAgents : b # a => Untouched(b)

LEMMA TriedSays ==
  ASSUME NEW a \in RouteAgents
  PROVE  /\ LanTried(a) /\ BackoffTried(a) <=>
              Tried(order[a], cands[a], ProbesOf(a), avoid[a])
         /\ (LanTried(a) /\ BackoffTried(a))' <=>
              Tried(order'[a], cands'[a], ProbesOf(a)', avoid'[a])
         /\ ProbesOf(a)' = FreshProbes(loaded'[a], CacheKey(cands'[a]))
<1>1. LanTried(a) /\ BackoffTried(a) <=> Tried(order[a], cands[a], ProbesOf(a), avoid[a])
  <2> DEFINE ps == ProbesOf(a)
  <2>1. \A n : ReachedLan(a, n) <=> LanAt(ps, n)
    BY DEF ReachedLan, LanAt
  <2> HIDE DEF ps
  <2> QED BY <2>1 DEF LanTried, BackoffTried, Tried, TriedRoute, ps
<1>2. (LanTried(a) /\ BackoffTried(a))' <=>
        Tried(order'[a], cands'[a], ProbesOf(a)', avoid'[a])
  <2> DEFINE ps == ProbesOf(a)'
  <2>1. \A n : ReachedLan(a, n)' <=> LanAt(ps, n)
    BY DEF ReachedLan, LanAt
  <2> HIDE DEF ps
  <2> QED BY <2>1 DEF LanTried, BackoffTried, Tried, TriedRoute, ps
<1>3. ProbesOf(a)' = FreshProbes(loaded'[a], CacheKey(cands'[a]))
  BY DEF ProbesOf
<1> QED BY <1>1, <1>2, <1>3

LEMMA OthersKeep ==
  ASSUME NEW b \in RouteAgents, AgentOK(b), Untouched(b),
         ~overwritten' => ~overwritten /\ avoid'[b] = avoid[b]
  PROVE  AgentOK(b)'
<1>1. /\ stage[b] = "idle" => loaded[b] = NoRoute
      /\ stage[b] = "probing" => cands[b] \in Sites /\ Doc(loaded[b], began[b])
      /\ stage[b] = "trying" => /\ cands[b] \in Sites /\ attempt[b] \in 1..Len(order[b])
                                /\ Pinned(b) \/ Routed(b)
  BY DEF AgentOK
<1>2. Pinned(b) => Pinned(b)'
  BY DEF Pinned, Untouched
<1>3. Routed(b) => Routed(b)'
  <2>0. HAVE Routed(b)
  <2>1. ProbesOf(b)' = ProbesOf(b)
    BY DEF ProbesOf, Untouched
  <2>2. ~overwritten' => LanTried(b)' /\ BackoffTried(b)'
    BY <2>0, <2>1, TriedSays DEF Routed, Untouched
  <2>3. LET k == CacheKey(cands[b]) IN
        /\ Doc(loaded[b], began[b])
        /\ loaded[b][k] # NoRoute /\ began[b] <= loaded[b][k].updated + Ttl
        /\ Lists(order[b], DOMAIN cands[b])
    BY <2>0 DEF Routed
  <2> QED BY <2>2, <2>3 DEF Routed, Untouched
<1> QED BY <1>1, <1>2, <1>3 DEF AgentOK, Untouched

LEMMA ReadersStay ==
  ASSUME NEW b \in RouteAgents, CurrentOK(b), Untouched(b),
         cacheFile' = cacheFile, marks' = marks, worked' = worked
  PROVE  CurrentOK(b)'
<1>1. FollowsFile(b)'
  BY DEF CurrentOK, FollowsFile, Untouched
<1>2. FileRemembers(began[b])'
  BY DEF CurrentOK, FileRemembers, Untouched
<1> QED BY <1>1, <1>2 DEF CurrentOK, Untouched

LEMMA ReadKeeps ==
  ASSUME RouteInv, RouteTypes', NEW a \in RouteAgents, cacheFile' = cacheFile, clock' = clock,
         overwritten' = overwritten, AloneMoves(a),
         ~overwritten' => /\ marks' = marks /\ worked' = worked
                          /\ \A b \in RouteAgents : b # a => avoid'[b] = avoid[b]
                          /\ \A b \in current' : b = a \/ b \in current,
         AgentOK(a)', ~overwritten' /\ a \in current' => CurrentOK(a)'
  PROVE  RouteInv'
<1>1. ASSUME NEW b \in RouteAgents PROVE AgentOK(b)'
  <2>1. CASE b = a
    BY <2>1
  <2>2. CASE b # a
    <3>1. AgentOK(b) /\ Untouched(b)
      BY <2>2 DEF RouteInv, AloneMoves
    <3>2. ~overwritten' => ~overwritten /\ avoid'[b] = avoid[b]
      BY <2>2
    <3> QED BY <3>1, <3>2, OthersKeep
  <2> QED BY <2>1, <2>2
<1>2. ASSUME ~overwritten' PROVE FileRemembers(clock)'
  BY <1>2 DEF RouteInv, FileRemembers
<1>3. ASSUME ~overwritten', NEW b \in current' PROVE CurrentOK(b)'
  <2>1. CASE b = a
    BY <1>3, <2>1
  <2>2. CASE b # a
    <3>1. b \in current /\ ~overwritten
      BY <1>3, <2>2
    <3>2. b \in RouteAgents /\ CurrentOK(b)
      BY <3>1 DEF RouteInv, RouteTypes
    <3>3. Untouched(b)
      BY <2>2, <3>2 DEF AloneMoves
    <3> QED BY <1>3, <3>2, <3>3, ReadersStay
  <2> QED BY <2>1, <2>2
<1> QED BY <1>1, <1>2, <1>3 DEF RouteInv

LEMMA SaveStays ==
  ASSUME RouteInv, RouteTypes', NEW a \in RouteAgents, clock' = clock, AloneMoves(a),
         NEW t \in RouteTimes, t <= clock,
         ~overwritten' => /\ ~overwritten
                          /\ \A b \in RouteAgents : b # a => avoid'[b] = avoid[b]
                          /\ \A b \in current' : b = a
                          /\ \A k \in CacheKeys :
                               Remembers(cacheFile'[k], k, marks'[k], worked'[k], t),
         AgentOK(a)', ~overwritten' /\ a \in current' => CurrentOK(a)'
  PROVE  RouteInv'
<1>1. ASSUME NEW b \in RouteAgents PROVE AgentOK(b)'
  <2>1. CASE b = a
    BY <2>1
  <2>2. CASE b # a
    <3>1. AgentOK(b) /\ Untouched(b)
      BY <2>2 DEF RouteInv, AloneMoves
    <3>2. ~overwritten' => ~overwritten /\ avoid'[b] = avoid[b]
      BY <2>2
    <3> QED BY <3>1, <3>2, OthersKeep
  <2> QED BY <2>1, <2>2
<1>2. ASSUME ~overwritten' PROVE FileRemembers(clock)'
  <2> SUFFICES ASSUME NEW k \in CacheKeys
               PROVE  Remembers(cacheFile'[k], k, marks'[k], worked'[k], clock)
    BY DEF FileRemembers
  <2> DEFINE e == cacheFile'[k]
             m == marks'[k]
             w == worked'[k]
  <2>1. Remembers(e, k, m, w, t)
    BY <1>2
  <2>2. m \in [Labels -> RouteTimes \cup {NoRoute}] /\ clock \in RouteTimes
    BY DEF RouteInv, RouteTypes
  <2>3. Doc(cacheFile', clock')
    BY DEF RouteTypes
  <2>4. e = NoRoute \/ Indexed(e.probes, k)
    BY <2>3 DEF Doc, EntryOK
  <2> HIDE DEF e, m, w
  <2>5. Remembers(e, k, m, w, clock)
    BY <2>1, <2>2, <2>4, RemembersLater
  <2> QED BY <2>5 DEF e, m, w
<1>3. ASSUME ~overwritten', NEW b \in current' PROVE CurrentOK(b)'
  BY <1>3
<1> QED BY <1>1, <1>2, <1>3 DEF RouteInv

(* The user and the clock. *)
LEMMA EditSiteKeeps ==
  ASSUME RouteInv, EditSite
  PROVE  RouteInv'
<1>1. RouteTypes'
  BY DEF RouteInv, RouteTypes, EditSite, routeLocal, routeHistory
<1>2. ASSUME NEW b \in RouteAgents PROVE Untouched(b)
  BY DEF EditSite, Untouched, routeLocal
<1>3. ASSUME NEW b \in RouteAgents PROVE AgentOK(b)'
  BY <1>2, OthersKeep DEF RouteInv, EditSite, routeHistory
<1>4. cacheFile' = cacheFile /\ UNCHANGED routeHistory /\ clock' = clock
  BY DEF EditSite
<1>5. ASSUME ~overwritten' PROVE FileRemembers(clock)'
  BY <1>4, <1>5 DEF RouteInv, FileRemembers, routeHistory
<1>6. ASSUME ~overwritten', NEW b \in current' PROVE CurrentOK(b)'
  <2>1. b \in current /\ ~overwritten
    BY <1>4, <1>6 DEF routeHistory
  <2>2. b \in RouteAgents /\ CurrentOK(b)
    BY <2>1 DEF RouteInv, RouteTypes
  <2> QED BY <1>2, <1>4, <2>2, ReadersStay DEF routeHistory
<1> QED BY <1>1, <1>3, <1>5, <1>6 DEF RouteInv

LEMMA RouteTickKeeps ==
  ASSUME RouteInv, RouteTick
  PROVE  RouteInv'
<1>1. /\ clock \in RouteTimes /\ clock' \in RouteTimes /\ clock <= clock'
      /\ \A b \in RouteAgents : began[b] \in RouteTimes /\ began[b] <= clock'
  <2>1. clock \in RouteTimes /\ \A b \in RouteAgents : began[b] \in RouteTimes
        /\ began[b] <= clock
    BY DEF RouteInv, RouteTypes
  <2>2. clock \in Nat /\ \A b \in RouteAgents : began[b] \in Nat
    BY <2>1, TimesAre
  <2>3. clock < MaxRouteTime /\ clock' = clock + 1
    BY DEF RouteTick
  <2>4. clock' \in RouteTimes
    BY <2>2, <2>3, TimesAre DEF RouteTimes
  <2> QED BY <2>1, <2>2, <2>3, <2>4
<1>2. /\ cacheFile' = cacheFile /\ UNCHANGED <<savedSite, stage, routeLocal, routeHistory>>
  BY DEF RouteTick
<1>3. Doc(cacheFile, clock')
  BY <1>1, DocLater DEF RouteInv, RouteTypes
<1>4. RouteTypes'
  BY <1>1, <1>2, <1>3 DEF RouteInv, RouteTypes, routeLocal, routeHistory
<1>5. ASSUME NEW b \in RouteAgents PROVE Untouched(b)
  BY <1>2 DEF Untouched, routeLocal
<1>6. ASSUME NEW b \in RouteAgents PROVE AgentOK(b)'
  BY <1>2, <1>5, OthersKeep DEF RouteInv, routeHistory
<1>7. ASSUME ~overwritten' PROVE FileRemembers(clock)'
  <2> SUFFICES ASSUME NEW k \in CacheKeys
               PROVE  Remembers(cacheFile[k], k, marks[k], worked[k], clock')
    BY <1>2 DEF FileRemembers, routeHistory
  <2>1. Remembers(cacheFile[k], k, marks[k], worked[k], clock)
    BY <1>2, <1>7 DEF RouteInv, FileRemembers, routeHistory
  <2>2. cacheFile[k] = NoRoute \/ Indexed(cacheFile[k].probes, k)
    BY <1>3 DEF Doc, EntryOK
  <2>3. marks[k] \in [Labels -> RouteTimes \cup {NoRoute}]
    BY DEF RouteInv, RouteTypes
  <2>4. PICK u \in RouteTimes : u = clock'
    BY <1>1
  <2>5. Remembers(cacheFile[k], k, marks[k], worked[k], u)
    BY <1>1, <2>1, <2>2, <2>3, <2>4, RemembersLater
  <2> QED BY <2>4, <2>5
<1>8. ASSUME ~overwritten', NEW b \in current' PROVE CurrentOK(b)'
  <2>1. b \in current /\ ~overwritten
    BY <1>2, <1>8 DEF routeHistory
  <2>2. b \in RouteAgents /\ CurrentOK(b)
    BY <2>1 DEF RouteInv, RouteTypes
  <2> QED BY <1>2, <1>5, <2>2, ReadersStay DEF routeHistory
<1> QED BY <1>4, <1>6, <1>7, <1>8 DEF RouteInv

(* A connect or a warmer begins. *)
LEMMA IdleIs ==
  ASSUME RouteInv, NEW a \in RouteAgents, stage[a] = "idle"
  PROVE  loaded[a] = NoRoute /\ (~overwritten => a \notin current)
BY DEF RouteInv, AgentOK, CurrentOK

LEMMA StartPinnedKeeps ==
  ASSUME RouteInv, NEW a \in RouteAgents, StartPinned(a)
  PROVE  RouteInv'
<1>1. PICK i \in DOMAIN savedSite : order' = [order EXCEPT ![a] = <<i>>]
  BY DEF StartPinned
<1>2. savedSite \in Sites /\ i \in Nat
  <2>1. savedSite \in Sites
    BY DEF RouteInv, RouteTypes
  <2>2. DOMAIN savedSite = 1..Len(savedSite) /\ Len(savedSite) \in Nat
    BY <2>1, CandidatesAre
  <2> QED BY <2>1, <2>2
<1>3. <<i>> \in Seq(Nat) /\ Len(<<i>>) = 1
  BY <1>2
<1>4. /\ stage[a] = "idle"
      /\ stage' = [stage EXCEPT ![a] = "trying"] /\ cands' = [cands EXCEPT ![a] = savedSite]
      /\ attempt' = [attempt EXCEPT ![a] = 1]
      /\ UNCHANGED <<savedSite, clock, cacheFile, began, loaded, routeHistory>>
  BY DEF StartPinned
<1>5. RouteTypes'
  BY <1>1, <1>2, <1>3, <1>4 DEF RouteInv, RouteTypes, routeHistory
<1>6. loaded[a] = NoRoute /\ (~overwritten => a \notin current)
  BY <1>4, IdleIs
<1>7. /\ stage'[a] = "trying" /\ cands'[a] = savedSite /\ attempt'[a] = 1
      /\ order'[a] = <<i>> /\ loaded'[a] = NoRoute
  BY <1>1, <1>4, <1>6 DEF RouteInv, RouteTypes
<1>8. AgentOK(a)'
  BY <1>2, <1>3, <1>7 DEF AgentOK, Pinned
<1>9. AloneMoves(a)
  BY <1>1, <1>4 DEF AloneMoves, Untouched, RouteInv, RouteTypes
<1> QED BY <1>4, <1>5, <1>6, <1>8, <1>9, ReadKeeps DEF routeHistory

(* The reader of the file has what is in it. *)
LEMMA CacheReaderIs ==
  ASSUME RouteInv, NEW a \in RouteAgents,
         stage'[a] # "idle", began'[a] = clock, loaded'[a] = cacheFile, cacheFile' = cacheFile,
         clock' = clock, ~overwritten => marks' = marks /\ worked' = worked
  PROVE  ~overwritten => CurrentOK(a)'
<1> HAVE ~overwritten
<1>1. Doc(cacheFile, clock) /\ FileRemembers(clock)
  BY DEF RouteInv, RouteTypes
<1>2. FollowsFile(a)'
  BY DEF FollowsFile
<1>3. FileRemembers(began[a])'
  BY <1>1 DEF FileRemembers
<1> QED BY <1>1, <1>2, <1>3 DEF CurrentOK

LEMMA NoDocIs == \A d \in Docs : d # NoRoute
BY RouteAssumption DEF Docs

LEMMA StartCachedKeeps ==
  ASSUME RouteInv, NEW a \in RouteAgents, StartCached(a)
  PROVE  RouteInv'
<1> DEFINE c == savedSite
           k == CacheKey(c)
           d == cacheFile
           res == FreshProbes(d, k)
           o == AttemptOrder(c, res, d, clock)
           V == {l \in Labels : InBackoff(marks[k][l], clock)}
<1>1. /\ stage[a] = "idle" /\ IsFresh(d, k, clock)
      /\ began' = [began EXCEPT ![a] = clock] /\ loaded' = [loaded EXCEPT ![a] = d]
      /\ UNCHANGED <<savedSite, clock, cacheFile, overwritten>>
      /\ stage' = [stage EXCEPT ![a] = "trying"] /\ cands' = [cands EXCEPT ![a] = c]
      /\ order' = [order EXCEPT ![a] = o] /\ attempt' = [attempt EXCEPT ![a] = 1]
      /\ Remember(marks, worked, [avoid EXCEPT ![a] = V], current \cup {a})
  BY DEF StartCached, BeginTrying
<1>2. c \in Sites /\ clock \in RouteTimes /\ Doc(d, clock)
  BY DEF RouteInv, RouteTypes
<1>3. k \in CacheKeys /\ Len(c) \in Nat /\ DOMAIN c = 1..Len(c)
  BY <1>2, CandidatesAre
<1>4. d[k] # NoRoute /\ clock <= d[k].updated + Ttl
  <2>1. d[k] # NoRoute /\ clock - d[k].updated <= Ttl
    BY <1>1 DEF IsFresh
  <2>2. d[k] \in CacheEntry
    BY <1>2, <1>3, <2>1, DocIs
  <2>3. d[k].updated \in Nat /\ clock \in Nat /\ Ttl \in Nat
    BY <1>2, <2>2, EntryIs, TimesAre
  <2> HIDE DEF k
  <2> QED BY <2>1, <2>3
<1>5. Measured(res, Len(c))
  BY <1>2, <1>4, FreshIs
<1>6. Lists(o, DOMAIN c)
  BY <1>3, <1>5, AttemptsAre
<1>7. o \in Seq(Nat) /\ 1 \in 1..Len(o)
  <2>1. Len(c) >= 2
    BY <1>2, RouteAssumption
  <2>2. o \in Seq(1..Len(c)) /\ Len(o) = Cardinality(1..Len(c))
    BY <1>3, <1>6 DEF Lists
  <2>3. Cardinality(1..Len(c)) = Len(c)
    <3>1. Len(c) - 1 + 1 = Len(c) /\ 1 \in Int /\ Len(c) \in Int
      BY <1>3
    <3>2. Cardinality(1..Len(c)) = IF 1 > Len(c) THEN 0 ELSE Len(c) - 1 + 1
      BY <3>1, FS_Interval
    <3> QED BY <2>1, <3>1, <3>2
  <2> HIDE DEF o, c
  <2> QED BY <1>3, <2>1, <2>2, <2>3
<1>8. ~overwritten => Tried(o, c, FreshProbes(d, k), V)
  <2> HAVE ~overwritten
  <2>1. Remembers(d[k], k, marks[k], worked[k], clock)
    BY <1>3 DEF RouteInv, FileRemembers
  <2> QED BY <1>2, <1>4, <1>5, <2>1, TriedIs
<1>9. V \in SUBSET Labels
  OBVIOUS
<1>10. /\ ~overwritten' => /\ marks' = marks /\ worked' = worked
                           /\ avoid' = [avoid EXCEPT ![a] = V] /\ current' = current \cup {a}
       /\ overwritten' = overwritten
  BY <1>1 DEF Remember
<1>11. /\ marks' \in [CacheKeys -> [Labels -> RouteTimes \cup {NoRoute}]]
       /\ worked' \in [CacheKeys -> Labels \cup {NoRoute}]
       /\ avoid' \in [RouteAgents -> SUBSET Labels] /\ current' \in SUBSET RouteAgents
  <2>1. CASE overwritten'
    BY <1>1, <2>1 DEF Remember
  <2>2. CASE ~overwritten'
    <3> HIDE DEF V
    <3> QED BY <1>9, <1>10, <2>2 DEF RouteInv, RouteTypes
  <2> QED BY <2>1, <2>2
<1> HIDE DEF V, o, res, k
<1>12. RouteTypes'
  <2>1. began' \in [RouteAgents -> RouteTimes] /\ \A b \in RouteAgents : began'[b] <= clock'
    <3>1. clock \in Nat
      BY <1>2, TimesAre
    <3> QED BY <1>1, <1>2, <3>1 DEF RouteInv, RouteTypes
  <2>2. loaded' \in [RouteAgents -> Docs \cup {NoRoute}]
    BY <1>1, <1>2 DEF RouteInv, RouteTypes, Doc
  <2>3. order' \in [RouteAgents -> Seq(Nat)]
    BY <1>1, <1>7 DEF RouteInv, RouteTypes
  <2> QED BY <1>1, <1>2, <1>11, <2>1, <2>2, <2>3 DEF RouteInv, RouteTypes
<1>13. /\ stage'[a] = "trying" /\ cands'[a] = c /\ attempt'[a] = 1 /\ order'[a] = o
       /\ loaded'[a] = d /\ began'[a] = clock /\ (~overwritten' => avoid'[a] = V)
  BY <1>1, <1>10 DEF RouteInv, RouteTypes
<1>14. ~overwritten' => LanTried(a)' /\ BackoffTried(a)'
  BY <1>8, <1>10, <1>13, TriedSays DEF k
<1>15. Routed(a)'
  BY <1>2, <1>4, <1>6, <1>13, <1>14 DEF Routed, k
<1>16. AgentOK(a)'
  BY <1>2, <1>7, <1>13, <1>15 DEF AgentOK
<1>17. AloneMoves(a)
  BY <1>1 DEF AloneMoves, Untouched, RouteInv, RouteTypes
<1>18. ~overwritten' => CurrentOK(a)'
  BY <1>1, <1>10, <1>13, CacheReaderIs
<1>19. ~overwritten' => /\ \A b \in RouteAgents : b # a => avoid'[b] = avoid[b]
                        /\ \A b \in current' : b = a \/ b \in current
  BY <1>10 DEF RouteInv, RouteTypes
<1> QED BY <1>1, <1>10, <1>12, <1>16, <1>17, <1>18, <1>19, ReadKeeps

LEMMA StartProbeKeeps ==
  ASSUME RouteInv, NEW a \in RouteAgents, StartProbe(a)
  PROVE  RouteInv'
<1>1. /\ stage' = [stage EXCEPT ![a] = "probing"] /\ cands' = [cands EXCEPT ![a] = savedSite]
      /\ began' = [began EXCEPT ![a] = clock] /\ loaded' = [loaded EXCEPT ![a] = cacheFile]
      /\ UNCHANGED <<savedSite, clock, cacheFile, order, attempt, overwritten>>
      /\ Remember(marks, worked, avoid, current \cup {a})
  BY DEF StartProbe
<1>2. savedSite \in Sites /\ clock \in RouteTimes /\ Doc(cacheFile, clock)
  BY DEF RouteInv, RouteTypes
<1>3. /\ ~overwritten' => /\ marks' = marks /\ worked' = worked
                          /\ avoid' = avoid /\ current' = current \cup {a}
      /\ overwritten' = overwritten
  BY <1>1 DEF Remember
<1>4. /\ marks' \in [CacheKeys -> [Labels -> RouteTimes \cup {NoRoute}]]
      /\ worked' \in [CacheKeys -> Labels \cup {NoRoute}]
      /\ avoid' \in [RouteAgents -> SUBSET Labels] /\ current' \in SUBSET RouteAgents
  <2>1. CASE overwritten'
    BY <1>1, <2>1 DEF Remember
  <2>2. CASE ~overwritten'
    BY <1>3, <2>2 DEF RouteInv, RouteTypes
  <2> QED BY <2>1, <2>2
<1>5. RouteTypes'
  <2>1. began' \in [RouteAgents -> RouteTimes] /\ \A b \in RouteAgents : began'[b] <= clock'
    <3>1. clock \in Nat
      BY <1>2, TimesAre
    <3> QED BY <1>1, <1>2, <3>1 DEF RouteInv, RouteTypes
  <2>2. loaded' \in [RouteAgents -> Docs \cup {NoRoute}]
    BY <1>1, <1>2 DEF RouteInv, RouteTypes, Doc
  <2> QED BY <1>1, <1>2, <1>4, <2>1, <2>2 DEF RouteInv, RouteTypes
<1>6. /\ stage'[a] = "probing" /\ cands'[a] = savedSite
      /\ loaded'[a] = cacheFile /\ began'[a] = clock
  BY <1>1 DEF RouteInv, RouteTypes
<1>7. AgentOK(a)'
  BY <1>2, <1>6 DEF AgentOK
<1>8. AloneMoves(a)
  BY <1>1 DEF AloneMoves, Untouched, RouteInv, RouteTypes
<1>9. ~overwritten' => CurrentOK(a)'
  BY <1>1, <1>3, <1>6, CacheReaderIs
<1>10. ~overwritten' => /\ \A b \in RouteAgents : b # a => avoid'[b] = avoid[b]
                        /\ \A b \in current' : b = a \/ b \in current
  BY <1>3
<1> QED BY <1>1, <1>3, <1>5, <1>7, <1>8, <1>9, <1>10, ReadKeeps

(* A route fails for good. *)
LEMMA RouteFailedKeeps ==
  ASSUME RouteInv, NEW a \in RouteAgents, RouteFailed(a)
  PROVE  RouteInv'
<1>1. /\ stage' = [stage EXCEPT ![a] = "idle"] /\ cands' = [cands EXCEPT ![a] = <<>>]
      /\ began' = [began EXCEPT ![a] = 0] /\ loaded' = [loaded EXCEPT ![a] = NoRoute]
      /\ order' = [order EXCEPT ![a] = <<>>] /\ attempt' = [attempt EXCEPT ![a] = 0]
      /\ UNCHANGED <<savedSite, clock, cacheFile, overwritten>>
      /\ Remember(marks, worked, [avoid EXCEPT ![a] = {}], current \ {a})
  BY DEF RouteFailed, ReturnRoute
<1>2. /\ ~overwritten' => /\ marks' = marks /\ worked' = worked
                          /\ avoid' = [avoid EXCEPT ![a] = {}] /\ current' = current \ {a}
      /\ overwritten' = overwritten
  BY <1>1 DEF Remember
<1>3. /\ marks' \in [CacheKeys -> [Labels -> RouteTimes \cup {NoRoute}]]
      /\ worked' \in [CacheKeys -> Labels \cup {NoRoute}]
      /\ avoid' \in [RouteAgents -> SUBSET Labels] /\ current' \in SUBSET RouteAgents
  <2>1. CASE overwritten'
    BY <1>1, <2>1 DEF Remember
  <2>2. CASE ~overwritten'
    BY <1>2, <2>2 DEF RouteInv, RouteTypes
  <2> QED BY <2>1, <2>2
<1>4. RouteTypes'
  <2>1. began' \in [RouteAgents -> RouteTimes] /\ \A b \in RouteAgents : began'[b] <= clock'
    <3>1. clock \in Nat /\ 0 \in RouteTimes
      BY TimesAre DEF RouteInv, RouteTypes
    <3> QED BY <1>1, <3>1 DEF RouteInv, RouteTypes
  <2>2. order' \in [RouteAgents -> Seq(Nat)] /\ attempt' \in [RouteAgents -> Nat]
    <3>1. <<>> \in Seq(Nat)
      OBVIOUS
    <3> QED BY <1>1, <3>1 DEF RouteInv, RouteTypes
  <2> QED BY <1>1, <1>3, <2>1, <2>2 DEF RouteInv, RouteTypes
<1>5. stage'[a] = "idle" /\ loaded'[a] = NoRoute
  BY <1>1 DEF RouteInv, RouteTypes
<1>6. AgentOK(a)'
  BY <1>5 DEF AgentOK
<1>7. AloneMoves(a)
  BY <1>1 DEF AloneMoves, Untouched, RouteInv, RouteTypes
<1>8. ~overwritten' => /\ \A b \in RouteAgents : b # a => avoid'[b] = avoid[b]
                       /\ \A b \in current' : b = a \/ b \in current
                       /\ a \notin current'
  BY <1>2 DEF RouteInv, RouteTypes
<1> QED BY <1>1, <1>2, <1>4, <1>6, <1>7, <1>8, ReadKeeps

(* What is measured is remembered as before. *)
LEMMA RecordRemembers ==
  ASSUME NEW d, NEW t \in RouteTimes, Doc(d, t), NEW c \in Sites, NEW res \in Results(c),
         NEW m, NEW w, Remembers(d[CacheKey(c)], CacheKey(c), m, w, t)
  PROVE  Remembers(RecordProbes(d, CacheKey(c), res, t)[CacheKey(c)], CacheKey(c), m, w, t)
<1> DEFINE k == CacheKey(c)
           n == Len(c)
           e == RecordProbes(d, k, res, t)[k]
<1>1. k \in CacheKeys /\ \A i \in 1..n : c[i] \in k
  BY CandidatesAre
<1>2. /\ e # NoRoute /\ e.good = StickyLabel(d, k) /\ DOMAIN e.probes = 1..n
      /\ \A i \in 1..n : e.probes[i].label = c[i] /\ e.probes[i].failed = FailedAt(d, k, c[i])
  <2>1. t \in RouteTimes /\ Doc(d, t) /\ c \in Sites /\ res \in Results(c)
    OBVIOUS
  <2> QED BY ONLY <2>1, RecordIs
<1> HIDE DEF e, k, n
<1>3. Remembers(d[k], k, m, w, t)
  BY DEF k
<1>4. e.good # NoRoute => e.good = w
  BY <1>2, <1>3 DEF Remembers, StickyLabel
<1>5. ASSUME NEW i \in 1..n
      PROVE  LET p == e.probes[i] IN
             /\ p.failed # NoRoute => p.failed = m[p.label]
             /\ InBackoff(m[p.label], t) => p.failed = m[p.label]
  <2>1. e.probes[i].label = c[i] /\ e.probes[i].failed = FailedAt(d, k, c[i]) /\ c[i] \in k
    BY <1>1, <1>2
  <2>2. CASE d[k] = NoRoute
    <3>1. FailedAt(d, k, c[i]) = NoRoute
      BY <1>1, <2>1, <2>2, FailedType
    <3> QED BY <1>3, <2>1, <2>2, <3>1 DEF Remembers
  <2>3. CASE d[k] # NoRoute
    <3>1. PICK j \in DOMAIN d[k].probes :
            d[k].probes[j].label = c[i] /\ FailedAt(d, k, c[i]) = d[k].probes[j].failed
      BY <1>1, <2>1, <2>3, FailedType
    <3> QED BY <1>3, <2>1, <2>3, <3>1 DEF Remembers
  <2> QED BY <2>2, <2>3
<1>6. Remembers(e, k, m, w, t)
  BY <1>2, <1>4, <1>5 DEF Remembers
<1> QED BY <1>6 DEF e, k

LEMMA RecordSaves ==
  ASSUME RouteInv, NEW a \in RouteAgents, stage[a] = "probing", NEW res \in Results(cands[a])
  PROVE  LET c == cands[a]
             t == began[a]
             d == RecordProbes(loaded[a], CacheKey(c), res, t) IN
         /\ c \in Sites /\ t \in RouteTimes /\ t <= clock /\ Doc(loaded[a], t) /\ Doc(d, t)
         /\ Doc(Kept(d, t), t) /\ Doc(Kept(d, t), clock)
         /\ ~overwritten /\ a \in current =>
              /\ Remembers(d[CacheKey(c)], CacheKey(c), marks[CacheKey(c)],
                 worked[CacheKey(c)], t)
              /\ \A j \in CacheKeys : Remembers(Kept(d, t)[j], j, marks[j], worked[j], t)
<1> DEFINE c == cands[a]
           k == CacheKey(c)
           t == began[a]
           b == loaded[a]
           d == RecordProbes(b, k, res, t)
<1>1. c \in Sites /\ Doc(b, t)
  BY DEF RouteInv, AgentOK
<1>2. t \in RouteTimes /\ clock \in RouteTimes /\ t <= clock
  BY DEF RouteInv, RouteTypes
<1>3. k \in CacheKeys
  BY <1>1, CandidatesAre
<1>4. /\ Doc(d, t) /\ d[k] # NoRoute /\ d[k].updated = t
      /\ \A j \in CacheKeys : j # k => d[j] = b[j]
  BY <1>1, <1>2, RecordIs
<1>5. /\ Doc(Kept(d, t), t)
      /\ \A j \in CacheKeys : Kept(d, t)[j] = IF d[j] = NoRoute \/ Prunable(d[j], t)
                                             THEN NoRoute ELSE d[j]
  BY <1>4, KeptIs
<1>6. Doc(Kept(d, t), clock)
  BY <1>2, <1>5, DocLater
<1>7. ASSUME ~overwritten, a \in current
      PROVE  /\ Remembers(d[k], k, marks[k], worked[k], t)
             /\ \A j \in CacheKeys : Remembers(Kept(d, t)[j], j, marks[j], worked[j], t)
  <2>1. CurrentOK(a)
    BY <1>7 DEF RouteInv
  <2>2. cacheFile = b /\ FileRemembers(t) /\ FollowsFile(a)
    BY <2>1 DEF CurrentOK
  <2>3. Remembers(b[k], k, marks[k], worked[k], t)
    BY <1>3, <2>2 DEF FileRemembers
  <2>4. Remembers(d[k], k, marks[k], worked[k], t)
    BY <1>1, <1>2, <2>3, RecordRemembers
  <2>5. ASSUME NEW j \in CacheKeys PROVE Remembers(Kept(d, t)[j], j, marks[j], worked[j], t)
    <3>1. CASE j # k
      <4>1. d[j] = b[j]
        BY <1>4, <3>1
      <4> HIDE DEF d
      <4> QED BY <1>1, <1>2, <2>2, <4>1, SaveKeeps
    <3>2. CASE j = k
      <4>1. ~Prunable(d[k], t)
        <5>1. t \in Nat /\ PruneAge \in Nat
          BY <1>2, TimesAre
        <5> HIDE DEF d, k, t
        <5> QED BY <1>4, <5>1 DEF Prunable
      <4>2. Kept(d, t)[k] = d[k]
        BY <1>3, <1>4, <1>5, <4>1
      <4> QED BY <2>4, <3>2, <4>2
    <3> QED BY <3>1, <3>2
  <2> QED BY <2>4, <2>5
<1> HIDE DEF d, k, t, b, c
<1> QED BY <1>1, <1>2, <1>4, <1>5, <1>6, <1>7 DEF d, k, t, b, c

(* Who saves holds what it saved, as long as nothing was overwritten. *)
LEMMA SaverIs ==
  ASSUME NEW a \in RouteAgents, NEW d, NEW t, Doc(d, t), cacheFile' = Kept(d, t),
         loaded'[a] = d, began'[a] = t, stage'[a] = "trying",
         \A k \in CacheKeys : Remembers(cacheFile'[k], k, marks'[k], worked'[k], t)
  PROVE  CurrentOK(a)'
<1>1. \A k \in CacheKeys : Kept(d, t)[k] = IF d[k] = NoRoute \/ Prunable(d[k], t)
                                           THEN NoRoute ELSE d[k]
  BY KeptIs
<1>2. FollowsFile(a)'
  BY <1>1 DEF FollowsFile, Prunable
<1>3. FileRemembers(began[a])'
  BY DEF FileRemembers
<1> QED BY <1>2, <1>3 DEF CurrentOK

LEMMA ProbedKeeps ==
  ASSUME RouteInv, NEW a \in RouteAgents, Probed(a)
  PROVE  RouteInv'
<1> DEFINE c == cands[a]
           k == CacheKey(c)
           t == began[a]
           V == {l \in Labels : InBackoff(marks[k][l], t)}
<1>1. /\ stage[a] = "probing" /\ a \in Connects
      /\ UNCHANGED <<savedSite, clock, began>>
  BY DEF Probed
<1>2. PICK res \in Results(c) :
        LET d == RecordProbes(loaded[a], CacheKey(c), res, t) IN
        /\ SaveCache(a, d)
        /\ loaded' = [loaded EXCEPT ![a] = d]
        /\ BeginTrying(a, c, res, d, t, {a})
  BY DEF Probed
<1> DEFINE d == RecordProbes(loaded[a], k, res, t)
           o == AttemptOrder(c, res, d, t)
<1>3. /\ cacheFile' = Kept(d, t) /\ overwritten' = (overwritten \/ a \notin current)
      /\ loaded' = [loaded EXCEPT ![a] = d]
      /\ stage' = [stage EXCEPT ![a] = "trying"] /\ cands' = [cands EXCEPT ![a] = c]
      /\ order' = [order EXCEPT ![a] = o] /\ attempt' = [attempt EXCEPT ![a] = 1]
      /\ Remember(marks, worked, [avoid EXCEPT ![a] = V], {a})
  BY <1>2 DEF SaveCache, BeginTrying
<1>4. /\ c \in Sites /\ t \in RouteTimes /\ t <= clock /\ Doc(loaded[a], t) /\ Doc(d, t)
      /\ Doc(Kept(d, t), t) /\ Doc(Kept(d, t), clock)
      /\ ~overwritten /\ a \in current =>
           /\ Remembers(d[k], k, marks[k], worked[k], t)
           /\ \A j \in CacheKeys : Remembers(Kept(d, t)[j], j, marks[j], worked[j], t)
  BY <1>1, RecordSaves
<1>5. k \in CacheKeys /\ Len(c) \in Nat /\ DOMAIN c = 1..Len(c)
  BY <1>4, CandidatesAre
<1>6. /\ d[k] # NoRoute /\ d[k].updated = t
      /\ \A i \in 1..Len(c) : LanAt(res, i) <=> LanAt(FreshProbes(d, k), i)
  BY <1>4, RecordIs
<1>7. Measured(res, Len(c))
  BY <1>4, ResultsAre
<1>8. Lists(o, DOMAIN c)
  BY <1>5, <1>7, AttemptsAre
<1>9. o \in Seq(Nat) /\ 1 \in 1..Len(o)
  <2>1. Len(c) >= 2
    BY <1>4, RouteAssumption
  <2>2. o \in Seq(1..Len(c)) /\ Len(o) = Cardinality(1..Len(c))
    BY <1>5, <1>8 DEF Lists
  <2>3. Cardinality(1..Len(c)) = Len(c)
    <3>1. Len(c) - 1 + 1 = Len(c) /\ 1 \in Int /\ Len(c) \in Int
      BY <1>5
    <3>2. Cardinality(1..Len(c)) = IF 1 > Len(c) THEN 0 ELSE Len(c) - 1 + 1
      BY <3>1, FS_Interval
    <3> QED BY <2>1, <3>1, <3>2
  <2> HIDE DEF o, c
  <2> QED BY <1>5, <2>1, <2>2, <2>3
<1>10. ~overwritten /\ a \in current => Tried(o, c, FreshProbes(d, k), V)
  BY <1>4, <1>6, <1>7, TriedIs
<1>11. V \in SUBSET Labels
  OBVIOUS
<1> HIDE DEF V, o, d, k
<1>12. ~overwritten' => /\ ~overwritten /\ a \in current /\ marks' = marks /\ worked' = worked
                        /\ avoid' = [avoid EXCEPT ![a] = V] /\ current' = {a}
  BY <1>3 DEF Remember
<1>13. /\ marks' \in [CacheKeys -> [Labels -> RouteTimes \cup {NoRoute}]]
       /\ worked' \in [CacheKeys -> Labels \cup {NoRoute}]
       /\ avoid' \in [RouteAgents -> SUBSET Labels] /\ current' \in SUBSET RouteAgents
  <2>1. CASE overwritten'
    BY <1>3, <2>1 DEF Remember
  <2>2. CASE ~overwritten'
    BY <1>11, <1>12, <2>2 DEF RouteInv, RouteTypes
  <2> QED BY <2>1, <2>2
<1>14. RouteTypes'
  <2>1. overwritten' \in BOOLEAN
    BY <1>3
  <2>2. loaded' \in [RouteAgents -> Docs \cup {NoRoute}]
    BY <1>3, <1>4 DEF RouteInv, RouteTypes, Doc
  <2>3. order' \in [RouteAgents -> Seq(Nat)] /\ attempt' \in [RouteAgents -> Nat]
    BY <1>3, <1>9 DEF RouteInv, RouteTypes
  <2>4. /\ stage' \in [RouteAgents -> {"idle", "probing", "trying"}]
        /\ cands' \in [RouteAgents -> Sites \cup {<<>>}]
    BY <1>3, <1>4 DEF RouteInv, RouteTypes
  <2> QED BY <1>1, <1>3, <1>4, <1>13, <2>1, <2>2, <2>3, <2>4 DEF RouteInv, RouteTypes
<1>15. /\ stage'[a] = "trying" /\ cands'[a] = c /\ attempt'[a] = 1 /\ order'[a] = o
       /\ loaded'[a] = d /\ began'[a] = t /\ (~overwritten' => avoid'[a] = V)
  BY <1>1, <1>3, <1>12 DEF RouteInv, RouteTypes
<1>16. ~overwritten' => LanTried(a)' /\ BackoffTried(a)'
  BY <1>10, <1>12, <1>15, TriedSays DEF k
<1>17. Routed(a)'
  <2>1. t <= t + Ttl
    <3>1. t \in Nat /\ Ttl \in Nat
      BY <1>4, TimesAre
    <3> HIDE DEF t
    <3> QED BY <3>1
  <2> QED BY <1>4, <1>6, <1>8, <1>15, <1>16, <2>1 DEF Routed, k
<1>18. AgentOK(a)'
  BY <1>4, <1>9, <1>15, <1>17 DEF AgentOK
<1>19. AloneMoves(a)
  BY <1>1, <1>3 DEF AloneMoves, Untouched, RouteInv, RouteTypes
<1>20. ~overwritten' => \A j \in CacheKeys : Remembers(cacheFile'[j], j, marks'[j], worked'[j],
       t)
  BY <1>3, <1>4, <1>12
<1>21. ~overwritten' => CurrentOK(a)'
  BY <1>3, <1>4, <1>15, <1>20, SaverIs
<1>22. ~overwritten' => /\ ~overwritten
                        /\ \A b \in RouteAgents : b # a => avoid'[b] = avoid[b]
                        /\ \A b \in current' : b = a
  BY <1>12 DEF RouteInv, RouteTypes
<1> QED BY <1>1, <1>4, <1>14, <1>18, <1>19, <1>20, <1>21, <1>22, SaveStays

LEMMA WarmedKeeps ==
  ASSUME RouteInv, NEW a \in RouteAgents, Warmed(a)
  PROVE  RouteInv'
<1> DEFINE c == cands[a]
           t == began[a]
<1>1. /\ stage[a] = "probing"
      /\ stage' = [stage EXCEPT ![a] = "idle"] /\ cands' = [cands EXCEPT ![a] = <<>>]
      /\ began' = [began EXCEPT ![a] = 0] /\ loaded' = [loaded EXCEPT ![a] = NoRoute]
      /\ order' = [order EXCEPT ![a] = <<>>] /\ attempt' = [attempt EXCEPT ![a] = 0]
      /\ UNCHANGED <<savedSite, clock>>
      /\ Remember(marks, worked, avoid, {})
  BY DEF Warmed, ReturnRoute
<1>2. PICK res \in Results(c) :
        SaveCache(a, RecordProbes(loaded[a], CacheKey(c), res, t))
  BY DEF Warmed
<1> DEFINE d == RecordProbes(loaded[a], CacheKey(c), res, t)
<1>3. cacheFile' = Kept(d, t) /\ overwritten' = (overwritten \/ a \notin current)
  BY <1>2 DEF SaveCache
<1>4. /\ t \in RouteTimes /\ t <= clock /\ Doc(Kept(d, t), clock)
      /\ ~overwritten /\ a \in current =>
           \A j \in CacheKeys : Remembers(Kept(d, t)[j], j, marks[j], worked[j], t)
  BY <1>1, RecordSaves
<1> HIDE DEF d
<1>5. ~overwritten' => /\ ~overwritten /\ a \in current /\ marks' = marks /\ worked' = worked
                       /\ avoid' = avoid /\ current' = {}
  BY <1>1, <1>3 DEF Remember
<1>6. /\ marks' \in [CacheKeys -> [Labels -> RouteTimes \cup {NoRoute}]]
      /\ worked' \in [CacheKeys -> Labels \cup {NoRoute}]
      /\ avoid' \in [RouteAgents -> SUBSET Labels] /\ current' \in SUBSET RouteAgents
  <2>1. CASE overwritten'
    BY <1>1, <2>1 DEF Remember
  <2>2. CASE ~overwritten'
    BY <1>5, <2>2 DEF RouteInv, RouteTypes
  <2> QED BY <2>1, <2>2
<1>7. RouteTypes'
  <2>1. began' \in [RouteAgents -> RouteTimes] /\ \A b \in RouteAgents : began'[b] <= clock'
    <3>1. clock \in Nat /\ 0 \in RouteTimes
      BY TimesAre DEF RouteInv, RouteTypes
    <3> QED BY <1>1, <3>1 DEF RouteInv, RouteTypes
  <2>2. order' \in [RouteAgents -> Seq(Nat)] /\ attempt' \in [RouteAgents -> Nat]
    <3>1. <<>> \in Seq(Nat)
      OBVIOUS
    <3> QED BY <1>1, <3>1 DEF RouteInv, RouteTypes
  <2>3. overwritten' \in BOOLEAN
    BY <1>3
  <2> QED BY <1>1, <1>3, <1>4, <1>6, <2>1, <2>2, <2>3 DEF RouteInv, RouteTypes
<1>8. stage'[a] = "idle" /\ loaded'[a] = NoRoute
  BY <1>1 DEF RouteInv, RouteTypes
<1>9. AgentOK(a)'
  BY <1>8 DEF AgentOK
<1>10. AloneMoves(a)
  BY <1>1 DEF AloneMoves, Untouched, RouteInv, RouteTypes
<1>11. ~overwritten' => /\ ~overwritten
                        /\ \A b \in RouteAgents : b # a => avoid'[b] = avoid[b]
                        /\ \A b \in current' : b = a
                        /\ a \notin current'
                        /\ \A j \in CacheKeys :
                             Remembers(cacheFile'[j], j, marks'[j], worked'[j], t)
  BY <1>3, <1>4, <1>5
<1> QED BY <1>1, <1>4, <1>7, <1>9, <1>10, <1>11, SaveStays

(* A routed connect and the route it is on. *)
LEMMA RoutedIs ==
  ASSUME RouteInv, NEW a \in RouteAgents, stage[a] = "trying", Routed(a)
  PROVE  LET c == cands[a]
             k == CacheKey(c)
             t == began[a] IN
         /\ c \in Sites /\ k \in CacheKeys /\ t \in RouteTimes /\ t <= clock
         /\ Doc(loaded[a], t) /\ loaded[a][k] # NoRoute /\ t <= loaded[a][k].updated + Ttl
         /\ CurrentRoute(a) \in k /\ CurrentRoute(a) \in Labels
<1> DEFINE c == cands[a]
           k == CacheKey(c)
           t == began[a]
<1>1. c \in Sites /\ attempt[a] \in 1..Len(order[a])
  BY DEF RouteInv, AgentOK
<1>2. t \in RouteTimes /\ t <= clock
  BY DEF RouteInv, RouteTypes
<1>3. /\ k \in CacheKeys /\ DOMAIN c = 1..Len(c)
      /\ \A i \in 1..Len(c) : c[i] \in k /\ c[i] \in Labels
  BY <1>1, CandidatesAre
<1>4. /\ Doc(loaded[a], t) /\ loaded[a][k] # NoRoute /\ t <= loaded[a][k].updated + Ttl
      /\ Lists(order[a], DOMAIN c)
  BY DEF Routed
<1>5. order[a][attempt[a]] \in 1..Len(c)
  BY <1>1, <1>3, <1>4, ListsAre
<1> QED BY <1>1, <1>2, <1>3, <1>4, <1>5 DEF CurrentRoute

(* The entry of the route with its failure set, and its success at most to v. *)
Remarked(x, e, k, l, f) ==
  /\ x # NoRoute /\ e # NoRoute /\ Indexed(x.probes, k)
  /\ DOMAIN e.probes = DOMAIN x.probes
  /\ \A i \in DOMAIN x.probes :
       /\ e.probes[i].label = x.probes[i].label
       /\ e.probes[i].failed = IF x.probes[i].label = l THEN f ELSE x.probes[i].failed

LEMMA RemarkRemembers ==
  ASSUME NEW k \in CacheKeys, NEW x, NEW e, NEW l \in k, NEW f,
         NEW m, NEW q, NEW w, NEW v, NEW t,
         Remembers(x, k, m, w, t), Remarked(x, e, k, l, f),
         e.good = v \/ (e.good = x.good /\ v = w),
         \A j \in k : (j = l => q[j] = f) /\ (j # l => q[j] = m[j])
  PROVE  Remembers(e, k, q, v, t)
<1>0. /\ x # NoRoute /\ e # NoRoute /\ Indexed(x.probes, k)
      /\ DOMAIN e.probes = DOMAIN x.probes
      /\ \A i \in DOMAIN x.probes :
           /\ e.probes[i].label = x.probes[i].label
           /\ e.probes[i].failed = IF x.probes[i].label = l THEN f ELSE x.probes[i].failed
  BY DEF Remarked
<1>1. \A i \in DOMAIN x.probes : x.probes[i].label \in k
  BY <1>0 DEF Indexed
<1>2. /\ x.good # NoRoute => x.good = w
      /\ \A i \in DOMAIN x.probes :
            LET p == x.probes[i] IN
            /\ p.failed # NoRoute => p.failed = m[p.label]
            /\ InBackoff(m[p.label], t) => p.failed = m[p.label]
  BY <1>0 DEF Remembers
<1>3. ASSUME NEW i \in DOMAIN e.probes
      PROVE  LET p == e.probes[i] IN
             /\ p.failed # NoRoute => p.failed = q[p.label]
             /\ InBackoff(q[p.label], t) => p.failed = q[p.label]
  BY <1>0, <1>1, <1>2, <1>3
<1> QED BY <1>0, <1>2, <1>3 DEF Remembers

LEMMA MarkSaves ==
  ASSUME RouteInv, NEW a \in RouteAgents, stage[a] = "trying", Routed(a),
         ~overwritten, a \in current, NEW k, k = CacheKey(cands[a]),
         NEW d, Doc(d, began[a]), NEW f,
         Remarked(loaded[a][k], d[k], k, CurrentRoute(a), f),
         d[k].updated = loaded[a][k].updated, NEW m, NEW w,
         \A j \in CacheKeys : j # k => d[j] = loaded[a][j] /\ m[j] = marks[j]
           /\ w[j] = worked[j],
         \A l \in k : /\ l = CurrentRoute(a) => m[k][l] = f
                      /\ l # CurrentRoute(a) => m[k][l] = marks[k][l],
         d[k].good = w[k] \/ (d[k].good = loaded[a][k].good /\ w[k] = worked[k])
  PROVE  \A j \in CacheKeys : Remembers(Kept(d, began[a])[j], j, m[j], w[j], began[a])
<1> DEFINE t == began[a]
           b == loaded[a]
           l == CurrentRoute(a)
<1>1. /\ k \in CacheKeys /\ t \in RouteTimes /\ Doc(b, t) /\ b[k] # NoRoute
      /\ t <= b[k].updated + Ttl /\ l \in k
  BY RoutedIs
<1>2. FollowsFile(a) /\ FileRemembers(t)
  BY DEF RouteInv, CurrentOK
<1>3. \A j \in CacheKeys : Kept(d, t)[j] = IF d[j] = NoRoute \/ Prunable(d[j], t)
                                           THEN NoRoute ELSE d[j]
  BY KeptIs
<1>4. b[k] \in CacheEntry /\ d[k] # NoRoute
  BY <1>1, DocIs DEF Remarked
<1>5. ~(b[k].updated < t - PruneAge)
  <2>1. b[k].updated \in Nat /\ t \in Nat /\ Ttl \in Nat /\ PruneAge \in Nat /\ Ttl <= PruneAge
    BY <1>1, <1>4, EntryIs, TimesAre
  <2> HIDE DEF b, t
  <2> QED BY <1>1, <2>1
<1>6. cacheFile[k] = b[k]
  <2>1. cacheFile[k] = b[k] \/ (cacheFile[k] = NoRoute /\ Prunable(b[k], t))
    BY <1>1, <1>2 DEF FollowsFile
  <2> QED BY <1>5, <2>1 DEF Prunable
<1>7. Remembers(b[k], k, marks[k], worked[k], t)
  BY <1>1, <1>2, <1>6 DEF FileRemembers
<1>8. Remembers(d[k], k, m[k], w[k], t)
  <2>1. PICK x, e, q, v, mm, ww : /\ x = b[k] /\ e = d[k] /\ q = m[k] /\ v = w[k]
                                  /\ mm = marks[k] /\ ww = worked[k]
    OBVIOUS
  <2>2. /\ k \in CacheKeys /\ l \in k /\ Remembers(x, k, mm, ww, t)
        /\ Remarked(x, e, k, l, f)
        /\ (e.good = v \/ (e.good = x.good /\ v = ww))
        /\ \A i \in k : (i = l => q[i] = f) /\ (i # l => q[i] = mm[i])
    BY <1>1, <1>7, <2>1
  <2>3. Remembers(e, k, q, v, t)
    BY ONLY <2>2, RemarkRemembers
  <2> QED BY <2>1, <2>3
<1>9. ASSUME NEW j \in CacheKeys PROVE Remembers(Kept(d, t)[j], j, m[j], w[j], t)
  <2>1. CASE j = k
    <3>1. Kept(d, t)[k] = d[k]
      BY <1>1, <1>3, <1>4, <1>5 DEF Prunable
    <3> QED BY <1>8, <2>1, <3>1
  <2>2. CASE j # k
    <3>1. d[j] = b[j] /\ m[j] = marks[j] /\ w[j] = worked[j]
      BY <2>2
    <3>2. Remembers(Kept(d, t)[j], j, marks[j], worked[j], t)
      BY <1>1, <1>2, <3>1, SaveKeeps
    <3> QED BY <3>1, <3>2
  <2> QED BY <2>1, <2>2
<1> QED BY <1>9

(* The next route after one that failed. *)
LEMMA FailOverKeeps ==
  ASSUME RouteInv, NEW a \in RouteAgents, FailOver(a)
  PROVE  RouteInv'
<1> DEFINE c == cands[a]
           k == CacheKey(c)
           t == began[a]
           b == loaded[a]
           l == CurrentRoute(a)
           d == RecordFailure(b, k, l, t)
<1>1. /\ stage[a] = "trying" /\ attempt[a] < Len(order[a])
      /\ cacheFile' = Kept(d, t) /\ overwritten' = (overwritten \/ a \notin current)
      /\ loaded' = [loaded EXCEPT ![a] = d]
      /\ Remember([marks EXCEPT ![k][l] = t], worked, avoid, {a})
      /\ attempt' = [attempt EXCEPT ![a] = attempt[a] + 1]
      /\ UNCHANGED <<savedSite, clock, stage, cands, began, order>>
  BY DEF FailOver, SaveCache
<1>2. /\ attempt[a] \in 1..Len(order[a]) /\ order[a] \in Seq(Nat)
      /\ Pinned(a) \/ Routed(a)
  BY <1>1 DEF RouteInv, AgentOK, RouteTypes
<1>3. Routed(a) /\ attempt[a] + 1 \in 1..Len(order[a]) /\ attempt[a] + 1 \in Nat
  <2>1. Len(order[a]) \in Nat /\ attempt[a] \in Nat
    BY <1>2
  <2>2. ~(Len(order[a]) = 1)
    <3>1. PICK x, y : x = attempt[a] /\ y = Len(order[a])
      OBVIOUS
    <3>2. x \in Nat /\ y \in Nat /\ x < y /\ x >= 1
      BY <1>1, <1>2, <2>1, <3>1
    <3>3. y # 1
      BY ONLY <3>2
    <3> QED BY <3>1, <3>3
  <2>3. Routed(a)
    BY <1>2, <2>2 DEF Pinned
  <2> QED BY <1>1, <1>2, <2>1, <2>3
<1>4. /\ c \in Sites /\ k \in CacheKeys /\ t \in RouteTimes /\ t <= clock
      /\ clock \in RouteTimes
      /\ Doc(b, t) /\ b[k] # NoRoute /\ t <= b[k].updated + Ttl
      /\ l \in k /\ l \in Labels
  BY <1>1, <1>3, RoutedIs DEF RouteInv, RouteTypes
<1>5. t <= t
  <2>1. t \in Nat
    BY <1>4, TimesAre
  <2> HIDE DEF t
  <2> QED BY <2>1
<1> HIDE DEF c, k, t, b, l
<1>6. /\ Doc(d, t) /\ d[k] # NoRoute /\ d[k].updated = b[k].updated /\ d[k].good = b[k].good
      /\ DOMAIN d[k].probes = DOMAIN b[k].probes
      /\ \A i \in DOMAIN b[k].probes :
           /\ d[k].probes[i].label = b[k].probes[i].label
           /\ d[k].probes[i].failed =
                IF b[k].probes[i].label = l THEN t ELSE b[k].probes[i].failed
      /\ FreshProbes(d, k) = FreshProbes(b, k)
      /\ \A j \in CacheKeys : j # k => d[j] = b[j]
  BY <1>4, <1>5, MarkedIs DEF RecordFailure
<1>7. Doc(Kept(d, t), t) /\ Doc(Kept(d, t), clock)
  BY <1>4, <1>6, KeptIs, DocLater
<1>8. ~overwritten' => /\ ~overwritten /\ a \in current
                       /\ marks' = [marks EXCEPT ![k][l] = t] /\ worked' = worked
                       /\ avoid' = avoid /\ current' = {a}
  BY <1>1 DEF Remember, k, c, l, t
<1>9. /\ [marks EXCEPT ![k][l] = t] \in [CacheKeys -> [Labels -> RouteTimes \cup {NoRoute}]]
      /\ \A j \in CacheKeys : j # k => [marks EXCEPT ![k][l] = t][j] = marks[j]
      /\ \A i \in k : /\ i = l => [marks EXCEPT ![k][l] = t][k][i] = t
                      /\ i # l => [marks EXCEPT ![k][l] = t][k][i] = marks[k][i]
  <2>1. marks \in [CacheKeys -> [Labels -> RouteTimes \cup {NoRoute}]] /\ k \subseteq Labels
    BY <1>4, KeyIs DEF RouteInv, RouteTypes
  <2> QED BY <1>4, <2>1
<1> HIDE DEF d
<1>10. /\ marks' \in [CacheKeys -> [Labels -> RouteTimes \cup {NoRoute}]]
       /\ worked' \in [CacheKeys -> Labels \cup {NoRoute}]
       /\ avoid' \in [RouteAgents -> SUBSET Labels] /\ current' \in SUBSET RouteAgents
  <2>1. CASE overwritten'
    BY <1>1, <2>1 DEF Remember
  <2>2. CASE ~overwritten'
    BY <1>8, <1>9, <2>2 DEF RouteInv, RouteTypes
  <2> QED BY <2>1, <2>2
<1>11. RouteTypes'
  <2>1. overwritten' \in BOOLEAN /\ Doc(cacheFile', clock')
    BY <1>1, <1>7 DEF d, t, k, c, l, b
  <2>2. loaded' \in [RouteAgents -> Docs \cup {NoRoute}]
    <3>1. loaded' = [loaded EXCEPT ![a] = d]
      BY <1>1 DEF d, t, k, c, l, b
    <3> QED BY <1>6, <3>1 DEF RouteInv, RouteTypes, Doc
  <2>3. attempt' \in [RouteAgents -> Nat]
    BY <1>1, <1>3 DEF RouteInv, RouteTypes
  <2> QED BY <1>1, <1>10, <2>1, <2>2, <2>3 DEF RouteInv, RouteTypes
<1>12. /\ stage'[a] = "trying" /\ cands'[a] = c /\ attempt'[a] = attempt[a] + 1
       /\ order'[a] = order[a] /\ loaded'[a] = d /\ began'[a] = t
       /\ cacheFile' = Kept(d, t)
  BY <1>1 DEF RouteInv, RouteTypes, d, t, k, c, l, b
<1>13. ~overwritten' => LanTried(a)' /\ BackoffTried(a)'
  <2> HAVE ~overwritten'
  <2>1. LanTried(a) /\ BackoffTried(a)
    BY <1>3, <1>8 DEF Routed
  <2>2. Tried(order[a], cands[a], ProbesOf(a), avoid[a])
    BY <2>1, TriedSays
  <2>3. ProbesOf(a)' = ProbesOf(a)
    <3>1. ProbesOf(a)' = FreshProbes(d, k)
      BY <1>12, TriedSays DEF k
    <3>2. ProbesOf(a) = FreshProbes(b, k)
      BY DEF ProbesOf, b, k, c
    <3> QED BY <1>6, <3>1, <3>2
  <2> QED BY <1>8, <1>12, <2>2, <2>3, TriedSays DEF c
<1>14. Routed(a)'
  <2>1. Lists(order[a], DOMAIN c)
    BY <1>3 DEF Routed, c
  <2> QED BY <1>4, <1>6, <1>12, <1>13, <2>1 DEF Routed, k
<1>15. AgentOK(a)'
  BY <1>3, <1>4, <1>12, <1>14 DEF AgentOK
<1>16. AloneMoves(a)
  BY <1>1 DEF AloneMoves, Untouched, RouteInv, RouteTypes
<1>17. ~overwritten' => \A j \in CacheKeys : Remembers(cacheFile'[j], j, marks'[j], worked'[j],
       t)
  <2> HAVE ~overwritten'
  <2>1. PICK m, w : m = [marks EXCEPT ![k][l] = t] /\ w = worked
    OBVIOUS
  <2>2. Remarked(b[k], d[k], k, l, t)
    <3>1. Indexed(b[k].probes, k)
      BY <1>4, DocIs DEF EntryOK
    <3> QED BY <1>4, <1>6, <3>1 DEF Remarked
  <2>3. \A j \in CacheKeys : Remembers(Kept(d, t)[j], j, m[j], w[j], t)
    <3>1. /\ stage[a] = "trying" /\ Routed(a) /\ ~overwritten /\ a \in current
          /\ k = CacheKey(cands[a]) /\ Doc(d, began[a])
          /\ Remarked(loaded[a][k], d[k], k, CurrentRoute(a), t)
          /\ d[k].updated = loaded[a][k].updated
      BY <1>1, <1>3, <1>6, <1>8, <2>2 DEF b, k, c, l, t
    <3>2. /\ \A j \in CacheKeys : j # k =>
               d[j] = loaded[a][j] /\ m[j] = marks[j] /\ w[j] = worked[j]
          /\ \A i \in k : /\ i = CurrentRoute(a) => m[k][i] = t
                          /\ i # CurrentRoute(a) => m[k][i] = marks[k][i]
          /\ d[k].good = w[k] \/ (d[k].good = loaded[a][k].good /\ w[k] = worked[k])
      BY <1>6, <1>9, <2>1 DEF b, l
    <3>3. \A j \in CacheKeys : Remembers(Kept(d, began[a])[j], j, m[j], w[j], began[a])
      BY ONLY RouteInv, a \in RouteAgents, <3>1, <3>2, MarkSaves
    <3> QED BY <3>3 DEF t
  <2> QED BY <1>8, <1>12, <2>1, <2>3
<1>18. ~overwritten' => CurrentOK(a)'
  BY <1>6, <1>12, <1>17, SaverIs
<1>19. ~overwritten' => /\ ~overwritten
                        /\ \A i \in RouteAgents : i # a => avoid'[i] = avoid[i]
                        /\ \A i \in current' : i = a
  BY <1>8
<1> QED BY <1>1, <1>4, <1>11, <1>15, <1>16, <1>17, <1>18, <1>19, SaveStays

(* A route connects. *)
LEMMA RouteWorkedKeeps ==
  ASSUME RouteInv, NEW a \in RouteAgents, RouteWorked(a)
  PROVE  RouteInv'
<1> DEFINE c == cands[a]
           k == CacheKey(c)
           t == began[a]
           b == loaded[a]
           l == CurrentRoute(a)
           d == RecordSuccess(b, k, l)
<1>1. /\ stage[a] = "trying"
      /\ stage' = [stage EXCEPT ![a] = "idle"] /\ cands' = [cands EXCEPT ![a] = <<>>]
      /\ began' = [began EXCEPT ![a] = 0] /\ loaded' = [loaded EXCEPT ![a] = NoRoute]
      /\ order' = [order EXCEPT ![a] = <<>>] /\ attempt' = [attempt EXCEPT ![a] = 0]
      /\ UNCHANGED <<savedSite, clock>>
  BY DEF RouteWorked, ReturnRoute
<1>2. UsesCache(a) =>
        /\ cacheFile' = Kept(d, t) /\ overwritten' = (overwritten \/ a \notin current)
        /\ Remember([marks EXCEPT ![k][l] = NoRoute], [worked EXCEPT ![k] = l],
                    [avoid EXCEPT ![a] = {}], {})
  BY DEF RouteWorked, SaveCache
<1>3. ~UsesCache(a) =>
        /\ UNCHANGED <<cacheFile, overwritten>>
        /\ Remember(marks, worked, [avoid EXCEPT ![a] = {}], current)
  BY DEF RouteWorked
<1>4. /\ stage'[a] = "idle" /\ loaded'[a] = NoRoute
  BY <1>1 DEF RouteInv, RouteTypes
<1>5. AgentOK(a)'
  BY <1>4 DEF AgentOK
<1>6. AloneMoves(a)
  BY <1>1 DEF AloneMoves, Untouched, RouteInv, RouteTypes
<1>7. /\ stage' \in [RouteAgents -> {"idle", "probing", "trying"}]
      /\ cands' \in [RouteAgents -> Sites \cup {<<>>}]
      /\ began' \in [RouteAgents -> RouteTimes] /\ \A i \in RouteAgents : began'[i] <= clock'
      /\ order' \in [RouteAgents -> Seq(Nat)] /\ attempt' \in [RouteAgents -> Nat]
      /\ loaded' \in [RouteAgents -> Docs \cup {NoRoute}]
      /\ savedSite' \in Sites /\ clock' \in RouteTimes
  <2>1. clock \in Nat /\ 0 \in RouteTimes /\ <<>> \in Seq(Nat)
    BY TimesAre DEF RouteInv, RouteTypes
  <2> QED BY <1>1, <2>1 DEF RouteInv, RouteTypes
<1>8. CASE ~UsesCache(a)
  <2>1. /\ ~overwritten' => /\ marks' = marks /\ worked' = worked
                            /\ avoid' = [avoid EXCEPT ![a] = {}] /\ current' = current
        /\ overwritten' = overwritten /\ cacheFile' = cacheFile
    BY <1>3, <1>8 DEF Remember
  <2>2. /\ marks' \in [CacheKeys -> [Labels -> RouteTimes \cup {NoRoute}]]
        /\ worked' \in [CacheKeys -> Labels \cup {NoRoute}]
        /\ avoid' \in [RouteAgents -> SUBSET Labels] /\ current' \in SUBSET RouteAgents
    <3>1. CASE overwritten'
      BY <1>3, <1>8, <3>1 DEF Remember
    <3>2. CASE ~overwritten'
      BY <2>1, <3>2 DEF RouteInv, RouteTypes
    <3> QED BY <3>1, <3>2
  <2>3. RouteTypes'
    BY <1>1, <1>7, <2>1, <2>2 DEF RouteInv, RouteTypes
  <2>4. ~overwritten => a \notin current
    <3> SUFFICES ASSUME ~overwritten, a \in current PROVE FALSE
      OBVIOUS
    <3>1. loaded[a] \in Docs
      BY DEF RouteInv, CurrentOK, Doc
    <3> QED BY <1>8, <3>1, NoDocIs DEF UsesCache
  <2>5. ~overwritten' => /\ \A i \in RouteAgents : i # a => avoid'[i] = avoid[i]
                         /\ \A i \in current' : i = a \/ i \in current
                         /\ a \notin current'
    BY <2>1, <2>4 DEF RouteInv, RouteTypes
  <2> QED BY <1>1, <1>5, <1>6, <2>1, <2>3, <2>5, ReadKeeps
<1>9. CASE UsesCache(a)
  <2>1. Routed(a)
    BY <1>1, <1>9 DEF RouteInv, AgentOK, Pinned, UsesCache
  <2>2. /\ c \in Sites /\ k \in CacheKeys /\ t \in RouteTimes /\ t <= clock
        /\ clock \in RouteTimes
        /\ Doc(b, t) /\ b[k] # NoRoute /\ l \in k /\ l \in Labels
    BY <1>1, <2>1, RoutedIs DEF RouteInv, RouteTypes
  <2> HIDE DEF c, k, t, b, l
  <2>3. /\ Doc(d, t) /\ d[k] # NoRoute /\ d[k].updated = b[k].updated /\ d[k].good = l
        /\ DOMAIN d[k].probes = DOMAIN b[k].probes
        /\ \A i \in DOMAIN b[k].probes :
             /\ d[k].probes[i].label = b[k].probes[i].label
             /\ d[k].probes[i].failed =
                  IF b[k].probes[i].label = l THEN NoRoute ELSE b[k].probes[i].failed
        /\ \A j \in CacheKeys : j # k => d[j] = b[j]
    BY <2>2, SuccessIs
  <2>4. Doc(Kept(d, t), clock)
    BY <2>2, <2>3, KeptIs, DocLater
  <2>5. cacheFile' = Kept(d, t) /\ overwritten' = (overwritten \/ a \notin current)
    BY <1>2, <1>9 DEF d, b, k, c, t, l
  <2> HIDE DEF d
  <2>6. ~overwritten' => /\ ~overwritten /\ a \in current
                         /\ marks' = [marks EXCEPT ![k][l] = NoRoute]
                         /\ worked' = [worked EXCEPT ![k] = l]
                         /\ avoid' = [avoid EXCEPT ![a] = {}] /\ current' = {}
    BY <1>2, <1>9 DEF Remember, k, c, l
  <2>7. PICK m, w : m = [marks EXCEPT ![k][l] = NoRoute] /\ w = [worked EXCEPT ![k] = l]
    OBVIOUS
  <2>8. /\ m \in [CacheKeys -> [Labels -> RouteTimes \cup {NoRoute}]]
        /\ w \in [CacheKeys -> Labels \cup {NoRoute}] /\ w[k] = l
        /\ \A j \in CacheKeys : j # k => m[j] = marks[j] /\ w[j] = worked[j]
        /\ \A i \in k : (i = l => m[k][i] = NoRoute) /\ (i # l => m[k][i] = marks[k][i])
    <3>1. /\ marks \in [CacheKeys -> [Labels -> RouteTimes \cup {NoRoute}]]
          /\ k \subseteq Labels
          /\ worked \in [CacheKeys -> Labels \cup {NoRoute}]
      BY <2>2, KeyIs DEF RouteInv, RouteTypes
    <3> QED BY <2>2, <2>7, <3>1
  <2>9. /\ marks' \in [CacheKeys -> [Labels -> RouteTimes \cup {NoRoute}]]
        /\ worked' \in [CacheKeys -> Labels \cup {NoRoute}]
        /\ avoid' \in [RouteAgents -> SUBSET Labels] /\ current' \in SUBSET RouteAgents
    <3>1. CASE overwritten'
      BY <1>2, <1>9, <3>1 DEF Remember
    <3>2. CASE ~overwritten'
      BY <2>6, <2>7, <2>8, <3>2 DEF RouteInv, RouteTypes
    <3> QED BY <3>1, <3>2
  <2>10. RouteTypes'
    <3>1. overwritten' \in BOOLEAN /\ Doc(cacheFile', clock')
      BY <1>1, <2>4, <2>5
    <3> QED BY <1>7, <2>9, <3>1 DEF RouteTypes
  <2>11. ~overwritten' =>
           \A j \in CacheKeys : Remembers(cacheFile'[j], j, marks'[j], worked'[j], t)
    <3> HAVE ~overwritten'
    <3>1. Remarked(b[k], d[k], k, l, NoRoute)
      <4>1. Indexed(b[k].probes, k)
        BY <2>2, DocIs DEF EntryOK
      <4> QED BY <2>2, <2>3, <4>1 DEF Remarked
    <3>2. /\ stage[a] = "trying" /\ Routed(a) /\ ~overwritten /\ a \in current
          /\ k = CacheKey(cands[a]) /\ Doc(d, began[a])
          /\ Remarked(loaded[a][k], d[k], k, CurrentRoute(a), NoRoute)
          /\ d[k].updated = loaded[a][k].updated
      BY <1>1, <2>1, <2>3, <2>6, <3>1 DEF b, k, c, l, t
    <3>3. /\ \A j \in CacheKeys : j # k =>
               d[j] = loaded[a][j] /\ m[j] = marks[j] /\ w[j] = worked[j]
          /\ \A i \in k : /\ i = CurrentRoute(a) => m[k][i] = NoRoute
                          /\ i # CurrentRoute(a) => m[k][i] = marks[k][i]
          /\ d[k].good = w[k] \/ (d[k].good = loaded[a][k].good /\ w[k] = worked[k])
      BY <2>3, <2>8 DEF b, l
    <3>4. \A j \in CacheKeys : Remembers(Kept(d, began[a])[j], j, m[j], w[j], began[a])
      BY ONLY RouteInv, a \in RouteAgents, <3>2, <3>3, MarkSaves
    <3> QED BY <2>5, <2>6, <2>7, <3>4 DEF t
  <2>12. ~overwritten' => /\ ~overwritten
                          /\ \A i \in RouteAgents : i # a => avoid'[i] = avoid[i]
                          /\ \A i \in current' : i = a
                          /\ a \notin current'
    BY <2>6 DEF RouteInv, RouteTypes
  <2> QED BY <1>1, <1>5, <1>6, <2>2, <2>10, <2>11, <2>12, SaveStays
<1> QED BY <1>8, <1>9

-----------------------------------------------------------------------------
LEMMA RankingStarts == RouteInit => RouteInv
<1> HAVE RouteInit
<1>1. /\ savedSite \in Sites /\ clock = 0 /\ overwritten = FALSE /\ current = {}
      /\ cacheFile = [k \in CacheKeys |-> NoRoute] /\ stage = [a \in RouteAgents |-> "idle"]
      /\ loaded = [a \in RouteAgents |-> NoRoute] /\ began = [a \in RouteAgents |-> 0]
      /\ marks = [k \in CacheKeys |-> [l \in Labels |-> NoRoute]]
      /\ worked = [k \in CacheKeys |-> NoRoute]
  BY DEF RouteInit
<1>2. Doc(cacheFile, clock)
  BY <1>1 DEF Doc, Docs
<1>3. RouteTypes
  <2>1. 0 \in RouteTimes /\ <<>> \in Seq(Nat) /\ 0 <= 0
    BY TimesAre
  <2> QED BY <1>1, <1>2, <2>1 DEF RouteTypes, RouteInit
<1>4. \A a \in RouteAgents : AgentOK(a)
  BY <1>1 DEF AgentOK
<1>5. FileRemembers(clock)
  <2> SUFFICES ASSUME NEW k \in CacheKeys
               PROVE  Remembers(cacheFile[k], k, marks[k], worked[k], clock)
    BY DEF FileRemembers
  <2>1. cacheFile[k] = NoRoute /\ \A l \in k : marks[k][l] = NoRoute
    BY <1>1, KeyIs
  <2> QED BY <2>1 DEF Remembers, InBackoff
<1> QED BY <1>1, <1>3, <1>4, <1>5 DEF RouteInv

LEMMA RankingSteps == RouteInv /\ [RouteNext]_routeVars => RouteInv'
<1> SUFFICES ASSUME RouteInv, [RouteNext]_routeVars PROVE RouteInv'
  OBVIOUS
<1>1. CASE EditSite
  BY <1>1, EditSiteKeeps
<1>2. CASE RouteTick
  BY <1>2, RouteTickKeeps
<1>3. CASE \E a \in RouteAgents : BeginRoute(a) \/ StepRoute(a)
  <2>1. PICK a \in RouteAgents : BeginRoute(a) \/ StepRoute(a)
    BY <1>3
  <2>2. \/ StartPinned(a) \/ StartCached(a) \/ StartProbe(a)
        \/ Probed(a) \/ Warmed(a) \/ RouteWorked(a) \/ FailOver(a) \/ RouteFailed(a)
    BY <2>1 DEF BeginRoute, StepRoute
  <2> QED BY <2>2, StartPinnedKeeps, StartCachedKeeps, StartProbeKeeps, ProbedKeeps,
    WarmedKeeps,
             RouteWorkedKeeps, FailOverKeeps, RouteFailedKeeps
<1>4. CASE UNCHANGED routeVars
  <2>1. UNCHANGED <<savedSite, clock, cacheFile, stage, cands, began, loaded, order, attempt,
                    marks, worked, avoid, current, overwritten>>
    BY <1>4 DEF routeVars
  <2>2. RouteTypes'
    BY <2>1 DEF RouteInv, RouteTypes
  <2>3. \A b \in RouteAgents : Untouched(b)
    BY <2>1 DEF Untouched
  <2>4. \A b \in RouteAgents : AgentOK(b)'
    BY <2>1, <2>3, OthersKeep DEF RouteInv
  <2>5. ~overwritten' => FileRemembers(clock)'
    BY <2>1 DEF RouteInv, FileRemembers
  <2>6. ~overwritten' => \A b \in current' : CurrentOK(b)'
    <3> SUFFICES ASSUME ~overwritten', NEW b \in current' PROVE CurrentOK(b)'
      OBVIOUS
    <3>1. b \in RouteAgents /\ CurrentOK(b)
      BY <2>1 DEF RouteInv, RouteTypes
    <3> QED BY <2>1, <2>3, <3>1, ReadersStay
  <2> QED BY <2>2, <2>4, <2>5, <2>6 DEF RouteInv
<1> QED BY <1>1, <1>2, <1>3, <1>4 DEF RouteNext

LEMMA RankingSays ==
  RouteInv => /\ RouteTypeOK /\ CacheIsIndexed /\ EachRouteOnce
              /\ LanFirst /\ BackoffHonoured /\ CacheRemembers
<1> HAVE RouteInv
<1>1. clock \in RouteTimes /\ Doc(cacheFile, clock)
  BY DEF RouteInv, RouteTypes
<1>2. RouteTypeOK
  <2>1. \A k \in CacheKeys : cacheFile[k] = NoRoute \/ cacheFile[k] \in CacheEntry
    BY <1>1, DocIs
  <2> QED BY <2>1 DEF RouteTypeOK, RouteInv, RouteTypes
<1>3. CacheIsIndexed
  <2> SUFFICES ASSUME NEW k \in CacheKeys, cacheFile[k] # NoRoute
               PROVE  LET labels == [i \in DOMAIN cacheFile[k].probes |->
                                       cacheFile[k].probes[i].label] IN
                      ToSet(labels) = k /\ Len(labels) = Cardinality(k)
    BY DEF CacheIsIndexed
  <2> DEFINE ps == cacheFile[k].probes
             labels == [i \in DOMAIN ps |-> ps[i].label]
  <2>1. cacheFile[k] \in CacheEntry /\ Indexed(ps, k)
    BY <1>1, DocIs DEF EntryOK
  <2>2. Len(ps) \in Nat /\ DOMAIN ps = 1..Len(ps)
    BY <2>1, EntryIs
  <2> HIDE DEF ps
  <2>3. DOMAIN labels = 1..Len(ps) /\ \A i \in 1..Len(ps) : labels[i] = ps[i].label
    BY <2>2
  <2>4. Len(labels) = Len(ps)
    BY <2>2, <2>3
  <2> HIDE DEF labels
  <2>5. ToSet(labels) = k
    BY <2>1, <2>2, <2>3 DEF ToSet, Indexed
  <2> QED BY <2>1, <2>4, <2>5 DEF Indexed, labels, ps
<1>4. \A a \in RoutedAgents : Routed(a) /\ cands[a] \in Sites
  BY DEF RouteInv, AgentOK, RoutedAgents, Pinned, UsesCache, RouteAgents
<1>5. EachRouteOnce
  <2> SUFFICES ASSUME NEW a \in Connects, stage[a] = "trying" /\ UsesCache(a)
               PROVE  ToSet(order[a]) = DOMAIN cands[a] /\ Len(order[a]) = Len(cands[a])
    BY DEF EachRouteOnce
  <2> DEFINE c == cands[a]
             o == order[a]
  <2>1. Lists(o, DOMAIN c) /\ c \in Sites
    BY <1>4 DEF Routed, RoutedAgents
  <2>2. DOMAIN c = 1..Len(c) /\ Len(c) \in Nat
    BY <2>1, CandidatesAre
  <2> HIDE DEF c, o
  <2>3. /\ DOMAIN o = 1..Len(o) /\ Len(o) = Cardinality(1..Len(c))
        /\ \A n \in 1..Len(o) : o[n] \in DOMAIN c
        /\ \A x \in DOMAIN c : \E n \in 1..Len(o) : o[n] = x
    BY <2>1, <2>2, ListsAre
  <2>4. Cardinality(1..Len(c)) = Len(c)
    <3>1. 1 \in Int /\ Len(c) \in Int
      BY <2>2
    <3>2. Cardinality(1..Len(c)) = IF 1 > Len(c) THEN 0 ELSE Len(c) - 1 + 1
      BY <3>1, FS_Interval
    <3> QED BY <2>2, <3>2
  <2>5. ToSet(o) = DOMAIN c
    BY <2>3 DEF ToSet
  <2> QED BY <2>3, <2>4, <2>5 DEF c, o
<1>6. LanFirst
  <2> SUFFICES ASSUME NEW a \in RoutedAgents, ~overwritten,
                      NEW j \in DOMAIN order[a], NEW i \in 1 .. j - 1,
                      ReachedLan(a, order[a][j]), TriedRoute(a, j) \notin avoid[a]
               PROVE  ReachedLan(a, order[a][i])
    BY DEF LanFirst
  <2> QED BY <1>4 DEF Routed, LanTried
<1>7. BackoffHonoured
  BY <1>4 DEF BackoffHonoured, Routed, BackoffTried
<1>8. CacheRemembers
  <2> SUFFICES ASSUME ~overwritten, NEW k \in CacheKeys, cacheFile[k] # NoRoute
               PROVE  /\ cacheFile[k].good # NoRoute => cacheFile[k].good = worked[k]
                      /\ \A l \in k : InBackoff(marks[k][l], clock) =>
                           FailedAt(cacheFile, k, l) = marks[k][l]
    BY DEF CacheRemembers
  <2>1. Remembers(cacheFile[k], k, marks[k], worked[k], clock)
    BY DEF RouteInv, FileRemembers
  <2>2. ASSUME NEW l \in k, InBackoff(marks[k][l], clock)
        PROVE  FailedAt(cacheFile, k, l) = marks[k][l]
    <3>1. PICK i \in DOMAIN cacheFile[k].probes :
            /\ cacheFile[k].probes[i].label = l
            /\ FailedAt(cacheFile, k, l) = cacheFile[k].probes[i].failed
      BY <1>1, FailedType
    <3> QED BY <2>1, <2>2, <3>1 DEF Remembers
  <2> QED BY <2>1, <2>2 DEF Remembers
<1> QED BY <1>2, <1>3, <1>5, <1>6, <1>7, <1>8

(* A connect tries every route once, those whose position was probed as       *)
(* reachable on the LAN before others and those in back-off last; the cache   *)
(* has one probe per route, and remembers the last success and the failures   *)
(* since (routing.rs, route.rs).                                              *)
THEOREM RoutesStayRanked ==
  RouteSpec => [](/\ RouteTypeOK /\ CacheIsIndexed /\ EachRouteOnce
                  /\ LanFirst /\ BackoffHonoured /\ CacheRemembers)
<1>1. RouteInit => RouteInv
  BY RankingStarts
<1>2. RouteInv /\ [RouteNext]_routeVars => RouteInv'
  BY RankingSteps
<1>3. RouteInv => /\ RouteTypeOK /\ CacheIsIndexed /\ EachRouteOnce
                  /\ LanFirst /\ BackoffHonoured /\ CacheRemembers
  BY RankingSays
<1> QED BY <1>1, <1>2, <1>3, PTL DEF RouteSpec
-----------------------------------------------------------------------------
(* The composition.                                                        *)
(* The composition implements each part's own specification. *)
LEMMA PlaysTheHostKeys == Spec => SshSpec
<1>1. Init => SshInit
  BY DEF Init
<1>2. [Next]_allVars => [SshNext]_sshVars
  BY DEF Next, allVars
<1> QED BY <1>1, <1>2, PTL DEF Spec, SshSpec

LEMMA PlaysTheProxy == Spec => DialSpec
<1>1. Init => DialInit
  BY DEF Init
<1>2. [Next]_allVars => [DialNext]_proxyVars
  BY DEF Next, allVars
<1> QED BY <1>1, <1>2, PTL DEF Spec, DialSpec

LEMMA PlaysTheSites == Spec => SitesSpec
<1>1. Init => SitesInit
  BY DEF Init
<1>2. [Next]_allVars => [SitesNext]_siteVars
  BY DEF Next, allVars
<1> QED BY <1>1, <1>2, PTL DEF Spec, SitesSpec

LEMMA PlaysTheConfig == Spec => ConfigSpec
<1>1. Init => ConfigInit
  BY DEF Init
<1>2. [Next]_allVars => [ConfigNext]_configVars
  BY DEF Next, allVars
<1> QED BY <1>1, <1>2, PTL DEF Spec, ConfigSpec

LEMMA PlaysTheRoutes == Spec => RouteSpec
<1>1. Init => RouteInit
  BY DEF Init
<1>2. [Next]_allVars => [RouteNext]_routeVars
  BY DEF Next, allVars
<1> QED BY <1>1, <1>2, PTL DEF Spec, RouteSpec

(* Routes are tried once each, those whose position was probed as reachable *)
(* on the LAN first and those in back-off last, and the cache remembers     *)
(* what was learnt, for any number of connects, warmers and candidates,     *)
(* also where an entry was probed for the candidates in another order.      *)
(* (routing.rs: connect_routed, RouteCache; route.rs: rank_probes;          *)
(* site_manager.rs: warm_probe_cache)                                       *)
THEOREM ConnectingRanksRoutes == Spec => []RoutesAreRanked
<1>1. CacheIsIndexed /\ EachRouteOnce /\ LanFirst /\ BackoffHonoured /\ CacheRemembers
      => RoutesAreRanked
  BY DEF RoutesAreRanked
<1> QED BY <1>1, PlaysTheRoutes, RoutesStayRanked, PTL

(* A session is set up as configured, for any number of hosts, connects,    *)
(* configuration files, routes and proxies, and any replies these send: the *)
(* key it goes on with was in the first file or was accepted, an option is  *)
(* that of the first block that has it, a route keeps its transport but for *)
(* a configured jump host, and a tunnel carries the peer's bytes only.      *)
(* (known_hosts.rs, ssh_config.rs, routing.rs, proxy.rs)                    *)
THEOREM SessionsAreAsConfigured == Spec => []SessionIsAsConfigured
<1>1. AcceptedIsKnown /\ KeysAreVouchedFor /\ FirstObtainedWins /\ RoutesKeepTransport
      /\ TunnelIsClean => SessionIsAsConfigured
  BY DEF SessionIsAsConfigured
<1> QED
  BY <1>1, PlaysTheHostKeys, PlaysTheConfig, PlaysTheProxy, AcceptedStaysKnown,
     ConfigIsFollowed, TunnelsStayClean, PTL

(* A session signs in with the password last saved for its site, however    *)
(* many sites are added, edited, imported and deleted between a save and a  *)
(* connect.  (site_manager.rs, secrets.rs, connect.rs)                      *)
THEOREM SavedPasswordIsUsed == Spec => []LastSavedIsUsed
BY PlaysTheSites, SavedSitesAreUsed, PTL

(* Every write of the sites file changes one site, whatever is edited in    *)
(* which order.  (site_manager.rs: upsert_by_name, delete_site)             *)
THEOREM SitesChangeOneByOne == Spec => OneSiteAtATime
BY PlaysTheSites, OneSiteIsChanged, PTL

(* The variables of every part keep their types, while it plays.            *)
(* (routing.rs, known_hosts.rs, ssh_config.rs, proxy.rs, site_manager.rs)   *)
THEOREM ConnectingKeepsTypes == Spec => []AllTypesOK
<1>1. RouteTypeOK /\ SshTypeOK /\ ConfigTypeOK /\ DialTypeOK /\ SitesTypeOK => AllTypesOK
  BY DEF AllTypesOK
<1> QED
  BY <1>1, PlaysTheHostKeys, PlaysTheConfig, PlaysTheProxy, PlaysTheSites, PlaysTheRoutes,
     AcceptedStaysKnown, ConfigIsFollowed, TunnelsStayClean, SavedSitesAreUsed,
     RoutesStayRanked, PTL
=============================================================================
