----------------------------- MODULE PanesProofs -----------------------------
(***************************************************************************)
(* The theorems about the file operations of the panes, for any paths, any *)
(* disk and any server.                                                    *)
(*   - The remote pane (RemoteInv): a delete's frames descend from what    *)
(*     was selected through directories that are no links; a name a search *)
(*     has still to find is below a directory in its queue.                *)
(*   - The local pane (LocalInv): until a source is counted its files are  *)
(*     as they were, what is replaced is not what is copied, and in a walk *)
(*     a file is in the target or below an entry the walk has found.       *)
(* Both work on trees of directories (TreeOn), whose lemmas come first.    *)
(***************************************************************************)
EXTENDS RemoteFiles, LocalFiles, Subsequences, SequenceTheorems, FiniteSetTheorems,
        WellFoundedInduction, TLAPS

------------------------------------------------------------------------------
(* Subsequences.                                                           *)

(* A non-empty set of naturals has a least element. *)
LEMMA LeastNat ==
  ASSUME NEW S \in SUBSET Nat, S # {}
  PROVE  \E n \in S : \A m \in S : n <= m
<1>1. PICK x \in S : \A y \in S : ~(<<y, x>> \in OpToRel(<, Nat))
  BY WFMin, NatLessThanWellFounded, Zenon
<1>2. \A y \in S : ~(y < x)
  <2> TAKE y \in S
  <2>1. <<y, x>> \in Nat \X Nat /\ <<y, x>>[1] = y /\ <<y, x>>[2] = x
    OBVIOUS
  <2>2. y < x => <<y, x>> \in OpToRel(<, Nat)
    BY <2>1, Zenon DEF OpToRel
  <2> QED BY <1>1, <2>2, Zenon
<1>3. S \subseteq Nat
  OBVIOUS
<1> QED BY <1>2, <1>3

(* A total order on S. *)
TotalOrder(R, S) ==
  /\ \A x \in S : <<x, x>> \in R
  /\ \A x, y \in S : <<x, y>> \in R \/ <<y, x>> \in R
  /\ \A x, y \in S : <<x, y>> \in R /\ <<y, x>> \in R => x = y
  /\ \A x, y, z \in S : <<x, y>> \in R /\ <<y, z>> \in R => <<x, z>> \in R

UpTo(S, R, x) == {y \in S : <<y, x>> \in R}

(* The elements of a set in order: each of them once, and none before       *)
(* another that comes before it.                                            *)
LEMMA OrderedIs ==
  ASSUME NEW S, IsFiniteSet(S), NEW R, TotalOrder(R, S)
  PROVE  /\ Cardinality(S) \in Nat
         /\ Ordered(S, R) \in [1..Cardinality(S) -> S]
         /\ \A x \in S : \E n \in 1..Cardinality(S) : Ordered(S, R)[n] = x
         /\ \A m, n \in 1..Cardinality(S) :
              m < n => Ordered(S, R)[m] # Ordered(S, R)[n]
                       /\ <<Ordered(S, R)[m], Ordered(S, R)[n]>> \in R
<1> DEFINE N == Cardinality(S)
           rank == [x \in S |-> Cardinality(UpTo(S, R, x))]
<1>1. N \in Nat
  BY FS_CardinalityType
<1>2. ASSUME NEW x \in S PROVE IsFiniteSet(UpTo(S, R, x)) /\ rank[x] \in 1..N
  <2>1. UpTo(S, R, x) \in SUBSET S /\ x \in UpTo(S, R, x)
    BY DEF UpTo, TotalOrder
  <2>2. IsFiniteSet(UpTo(S, R, x)) /\ Cardinality(UpTo(S, R, x)) <= N
    BY <2>1, FS_Subset
  <2>3. Cardinality(UpTo(S, R, x)) \in Nat
    BY <2>2, FS_CardinalityType
  <2>4. Cardinality(UpTo(S, R, x)) # 0
    BY <2>1, <2>2, FS_EmptySet
  <2> QED BY <1>1, <2>2, <2>3, <2>4
<1>3. ASSUME NEW x \in S, NEW y \in S, <<x, y>> \in R, x # y PROVE rank[x] < rank[y]
  <2>1. UpTo(S, R, x) \in SUBSET UpTo(S, R, y)
    BY <1>3 DEF UpTo, TotalOrder
  <2>2. y \in UpTo(S, R, y) /\ y \notin UpTo(S, R, x)
    BY <1>3 DEF UpTo, TotalOrder
  <2>3. Cardinality(UpTo(S, R, x)) <= Cardinality(UpTo(S, R, y))
        /\ Cardinality(UpTo(S, R, x)) # Cardinality(UpTo(S, R, y))
    BY <1>2, <2>1, <2>2, FS_Subset
  <2> QED BY <1>1, <1>2, <2>3
<1>4. rank \in Injection(S, 1..N)
  <2>1. rank \in [S -> 1..N]
    BY <1>2
  <2> HIDE DEF rank
  <2>2. ASSUME NEW x \in S, NEW y \in S, rank[x] = rank[y] PROVE x = y
    <3>1. rank[x] \in 1..N /\ (<<x, y>> \in R \/ <<y, x>> \in R)
      BY <1>2 DEF TotalOrder
    <3>2. rank[x] \in Nat
      BY <1>1, <1>2
    <3>3. x # y => rank[x] < rank[y] \/ rank[y] < rank[x]
      BY <1>3, <3>1
    <3> QED BY <2>2, <3>2, <3>3
  <2> QED BY <2>1, <2>2 DEF Injection, IsInjective
<1>5. rank \in Surjection(S, 1..N)
  <2>1. IsFiniteSet(1..N) /\ Cardinality(1..N) = N
    BY <1>1, FS_Interval
  <2> QED BY <1>4, <2>1, FS_Injection
<1>6. \A n \in 1..N : \E x \in S : rank[x] = n
  BY <1>5 DEF Surjection
<1>7. \A x, y \in S : rank[x] = rank[y] => x = y
  BY <1>4 DEF Injection, IsInjective
<1>8. \A x \in S : rank[x] = Cardinality({y \in S : <<y, x>> \in R})
  BY DEF UpTo
<1> HIDE DEF rank
<1>9. \A n \in 1..N : Ordered(S, R)[n] \in S /\ rank[Ordered(S, R)[n]] = n
  <2> SUFFICES ASSUME NEW n \in 1..N PROVE Ordered(S, R)[n] \in S /\ rank[Ordered(S, R)[n]] = n
    OBVIOUS
  <2> DEFINE Suits(x) == Cardinality({y \in S : <<y, x>> \in R}) = n
  <2>1. \E x \in S : Suits(x)
    BY <1>6, <1>8
  <2>2. Ordered(S, R)[n] = CHOOSE x \in S : Suits(x)
    BY DEF Ordered
  <2>3. \A x \in S : Suits(x) => rank[x] = n
    BY <1>8
  <2> HIDE DEF Suits
  <2> QED BY <2>1, <2>2, <2>3
<1>10. Ordered(S, R) \in [1..N -> S]
  <2> DEFINE nth(n) == CHOOSE x \in S : Cardinality({y \in S : <<y, x>> \in R}) = n
  <2>1. Ordered(S, R) = [n \in 1..N |-> nth(n)]
    BY DEF Ordered
  <2> HIDE DEF nth
  <2> QED BY <1>9, <2>1
<1>11. \A x \in S : \E n \in 1..N : Ordered(S, R)[n] = x
  BY <1>2, <1>7, <1>9
<1>12. ASSUME NEW m \in 1..N, NEW n \in 1..N, m < n
       PROVE  Ordered(S, R)[m] # Ordered(S, R)[n]
              /\ <<Ordered(S, R)[m], Ordered(S, R)[n]>> \in R
  <2> DEFINE a == Ordered(S, R)[m]
             b == Ordered(S, R)[n]
  <2>1. a \in S /\ b \in S /\ rank[a] = m /\ rank[b] = n
    BY <1>9
  <2> HIDE DEF a, b
  <2>2. a # b
    BY <1>12, <2>1
  <2>3. <<b, a>> \notin R
    BY <1>3, <1>12, <2>1, <2>2
  <2>4. <<a, b>> \in R
    BY <2>1, <2>3 DEF TotalOrder
  <2> QED BY <2>2, <2>4 DEF a, b
<1> QED BY <1>1, <1>10, <1>11, <1>12

LEMMA AscendingIs ==
  ASSUME NEW I, I \subseteq Nat, IsFiniteSet(I)
  PROVE  /\ Cardinality(I) \in Nat
         /\ Ascending(I) \in [1..Cardinality(I) -> I]
         /\ \A i \in I : \E n \in 1..Cardinality(I) : Ascending(I)[n] = i
         /\ \A m, n \in 1..Cardinality(I) : m < n => Ascending(I)[m] < Ascending(I)[n]
<1> DEFINE R == {p \in I \X I : p[1] <= p[2]}
<1>1. \A i, j \in I : <<i, j>> \in R <=> i <= j
  OBVIOUS
<1>2. Ascending(I) = Ordered(I, R)
  BY DEF Ascending
<1> HIDE DEF R
<1>3. TotalOrder(R, I)
  <2>1. \A i, j \in I : i \in Nat /\ j \in Nat
    OBVIOUS
  <2> QED BY <1>1, <2>1 DEF TotalOrder
<1>4. /\ Cardinality(I) \in Nat
      /\ Ordered(I, R) \in [1..Cardinality(I) -> I]
      /\ \A x \in I : \E n \in 1..Cardinality(I) : Ordered(I, R)[n] = x
      /\ \A m, n \in 1..Cardinality(I) :
           m < n => Ordered(I, R)[m] # Ordered(I, R)[n]
                    /\ <<Ordered(I, R)[m], Ordered(I, R)[n]>> \in R
  BY <1>3, OrderedIs
<1> DEFINE A == Ascending(I)
           N == Cardinality(I)
<1>5. /\ N \in Nat /\ A \in [1..N -> I]
      /\ \A x \in I : \E n \in 1..N : A[n] = x
      /\ \A m, n \in 1..N : m < n => A[m] # A[n] /\ <<A[m], A[n]>> \in R
  BY <1>2, <1>4
<1> HIDE DEF A, N
<1>6. \A m, n \in 1..N : m < n => A[m] < A[n]
  <2> SUFFICES ASSUME NEW m \in 1..N, NEW n \in 1..N, m < n PROVE A[m] < A[n]
    OBVIOUS
  <2>1. A[m] \in I /\ A[n] \in I /\ A[m] # A[n] /\ <<A[m], A[n]>> \in R
    BY <1>5
  <2>2. A[m] <= A[n] /\ A[m] \in Nat /\ A[n] \in Nat
    BY <1>1, <2>1
  <2> QED BY <2>1, <2>2
<1> QED BY <1>5, <1>6 DEF A, N

(* What is kept of a sequence is a sequence of what stood at the positions  *)
(* kept, and all of it.                                                     *)
LEMMA KeepIs ==
  ASSUME NEW T, NEW s \in Seq(T), NEW I \in SUBSET (1..Len(s))
  PROVE  /\ Keep(s, I) \in Seq(T)
         /\ Cardinality(I) \in Nat /\ Len(Keep(s, I)) = Cardinality(I)
         /\ \A n \in 1..Cardinality(I) : \E i \in I : Keep(s, I)[n] = s[i]
         /\ \A i \in I : \E n \in 1..Cardinality(I) : Keep(s, I)[n] = s[i]
<1> DEFINE N == Cardinality(I)
           A == Ascending(I)
<1>0. Len(s) \in Nat /\ \A i \in 1..Len(s) : s[i] \in T
  OBVIOUS
<1>1. IsFiniteSet(I) /\ I \subseteq Nat
  <2>1. IsFiniteSet(1..Len(s))
    BY <1>0, FS_Interval
  <2>2. IsFiniteSet(I)
    BY <2>1, FS_Subset
  <2> QED BY <1>0, <2>2
<1>2. /\ N \in Nat /\ A \in [1..N -> I]
      /\ \A i \in I : \E n \in 1..N : A[n] = i
  BY <1>1, AscendingIs
<1>3. Keep(s, I) = [n \in 1..N |-> s[A[n]]]
  BY DEF Keep
<1> HIDE DEF A, N
<1>4. \A n \in 1..N : A[n] \in I /\ s[A[n]] \in T
  BY <1>0, <1>2
<1>5. Keep(s, I) \in [1..N -> T]
  BY <1>3, <1>4
<1>6. Keep(s, I) \in Seq(T) /\ Len(Keep(s, I)) = N
  BY <1>2, <1>5
<1>7. \A n \in 1..N : Keep(s, I)[n] = s[A[n]]
  BY <1>3
<1>8. \A n \in 1..N : \E i \in I : Keep(s, I)[n] = s[i]
  BY <1>4, <1>7
<1>9. \A i \in I : \E n \in 1..N : Keep(s, I)[n] = s[i]
  BY <1>2, <1>7
<1> QED BY <1>2, <1>6, <1>8, <1>9 DEF N

(* What is kept from different places came from different places. *)
LEMMA KeptApart ==
  ASSUME NEW T, NEW s \in Seq(T), NEW I \in SUBSET (1..Len(s)),
         NEW m \in 1..Cardinality(I), NEW n \in 1..Cardinality(I), m # n
  PROVE  \E i, j \in I : i # j /\ Keep(s, I)[m] = s[i] /\ Keep(s, I)[n] = s[j]
<1> DEFINE N == Cardinality(I)
           A == Ascending(I)
<1>1. IsFiniteSet(I) /\ I \subseteq Nat
  <2>1. IsFiniteSet(1..Len(s)) /\ Len(s) \in Nat
    BY FS_Interval
  <2>2. IsFiniteSet(I)
    BY <2>1, FS_Subset
  <2> QED BY <2>1, <2>2
<1>2. /\ N \in Nat /\ A \in [1..N -> I]
      /\ \A k, l \in 1..N : k < l => A[k] < A[l]
  BY <1>1, AscendingIs
<1>3. Keep(s, I) = [k \in 1..N |-> s[A[k]]]
  BY DEF Keep
<1>4. m \in 1..N /\ n \in 1..N
  OBVIOUS
<1> HIDE DEF A, N
<1>5. A[m] \in I /\ A[n] \in I /\ Keep(s, I)[m] = s[A[m]] /\ Keep(s, I)[n] = s[A[n]]
  BY <1>2, <1>3, <1>4
<1>6. A[m] \in Nat /\ A[n] \in Nat /\ m \in Nat /\ n \in Nat
  <2>1. m \in Nat /\ n \in Nat
    BY <1>2, <1>4
  <2> QED BY <1>1, <1>5, <2>1
<1>7. A[m] # A[n]
  <2>1. m < n \/ n < m
    BY <1>6
  <2>2. A[m] < A[n] \/ A[n] < A[m]
    BY <1>2, <1>4, <2>1
  <2> QED BY <1>6, <2>2
<1> QED BY <1>5, <1>7

LEMMA KeptAllApart ==
  ASSUME NEW T, NEW s \in Seq(T), NEW I \in SUBSET (1..Len(s))
  PROVE  \A m, n \in 1..Cardinality(I) : m # n =>
           \E i, j \in I : i # j /\ Keep(s, I)[m] = s[i] /\ Keep(s, I)[n] = s[j]
BY KeptApart

(* What stood last is last of what is kept. *)
LEMMA KeptLast ==
  ASSUME NEW T, NEW s \in Seq(T), NEW I \in SUBSET (1..Len(s)), Len(s) \in I
  PROVE  Cardinality(I) > 0 /\ Keep(s, I)[Cardinality(I)] = s[Len(s)]
<1> DEFINE N == Cardinality(I)
           A == Ascending(I)
<1>1. IsFiniteSet(I) /\ I \subseteq Nat /\ Len(s) \in Nat
  <2>1. Len(s) \in Nat
    OBVIOUS
  <2>2. IsFiniteSet(1..Len(s))
    BY <2>1, FS_Interval
  <2>3. I \subseteq Nat
    BY <2>1
  <2> QED BY <2>1, <2>2, <2>3, FS_Subset
<1>2. /\ N \in Nat /\ A \in [1..N -> I]
      /\ \A i \in I : \E n \in 1..N : A[n] = i
      /\ \A k, l \in 1..N : k < l => A[k] < A[l]
  BY <1>1, AscendingIs
<1>3. \A l \in 1..N : Keep(s, I)[l] = s[A[l]]
  BY DEF Keep
<1> HIDE DEF A, N
<1>4. PICK n \in 1..N : A[n] = Len(s)
  BY <1>2
<1>5. n = N
  <2>1. N \in 1..N /\ A[N] \in I
    BY <1>2, <1>4
  <2>6. A[N] \in 1..Len(s)
    BY <2>1, Zenon
  <2>2. A[N] <= Len(s)
    BY <1>1, <2>6
  <2>3. N \in Nat /\ n \in Nat /\ n <= N
    BY <1>2, <1>4
  <2>4. n < N => Len(s) < A[N]
    BY <1>2, <1>4, <2>1
  <2>5. A[N] \in Nat
    BY <1>1, <2>1, Zenon
  <2> QED BY <1>1, <2>2, <2>3, <2>4, <2>5
<1>6. N > 0 /\ Keep(s, I)[N] = s[Len(s)]
  BY <1>2, <1>3, <1>4, <1>5
<1> QED BY <1>6 DEF N

------------------------------------------------------------------------------
(* Sequences.                                                              *)

(* A prefix is the longer sequence's beginning, element by element. *)
LEMMA PrefixIs ==
  ASSUME NEW T, NEW s \in Seq(T), NEW t \in Seq(T)
  PROVE  IsPrefix(s, t) <=> Len(s) <= Len(t) /\ \A i \in 1..Len(s) : s[i] = t[i]
<1>1. Len(s) \in Nat /\ Len(t) \in Nat
  OBVIOUS
<1>2. SubSeq(s, 1, Len(s)) = s
  BY SubSeqFull
<1>3. ASSUME Len(s) <= Len(t)
      PROVE  /\ SubSeq(t, 1, Len(s)) \in Seq(T) /\ Len(SubSeq(t, 1, Len(s))) = Len(s)
             /\ \A i \in 1..Len(s) : SubSeq(t, 1, Len(s))[i] = t[i]
  <2>1. \A i \in 1..Len(s) : t[i] \in T
    BY <1>1, <1>3
  <2> QED BY <1>1, <2>1, SubSeqProperties
<1>4. ASSUME IsPrefix(s, t)
      PROVE  Len(s) <= Len(t) /\ \A i \in 1..Len(s) : s[i] = t[i]
  BY <1>2, <1>3, <1>4 DEF IsPrefix
<1>5. ASSUME Len(s) <= Len(t), \A i \in 1..Len(s) : s[i] = t[i]
      PROVE  IsPrefix(s, t)
  <2>1. s = SubSeq(t, 1, Len(s))
    BY <1>3, <1>5, SeqEqual
  <2> QED BY <1>2, <1>5, <2>1 DEF IsPrefix
<1> QED BY <1>4, <1>5

(* A beginning of a sequence. *)
LEMMA BeginningIs ==
  ASSUME NEW T, NEW s \in Seq(T), NEW n \in 0..Len(s)
  PROVE  /\ SubSeq(s, 1, n) \in Seq(T) /\ Len(SubSeq(s, 1, n)) = n
         /\ \A i \in 1..n : SubSeq(s, 1, n)[i] = s[i]
         /\ IsPrefix(SubSeq(s, 1, n), s)
<1>1. Len(s) \in Nat /\ n \in Int
  OBVIOUS
<1>2. \A i \in 1..n : s[i] \in T
  BY <1>1
<1>3. /\ SubSeq(s, 1, n) \in Seq(T) /\ Len(SubSeq(s, 1, n)) = n
      /\ \A i \in 1..n : SubSeq(s, 1, n)[i] = s[i]
  BY <1>1, <1>2, SubSeqProperties
<1>4. IsPrefix(SubSeq(s, 1, n), s)
  <2> DEFINE u == SubSeq(s, 1, n)
  <2>1. u \in Seq(T) /\ Len(u) <= Len(s) /\ \A i \in 1..Len(u) : u[i] = s[i]
    BY <1>1, <1>3
  <2> HIDE DEF u
  <2>2. IsPrefix(u, s)
    BY <2>1, PrefixIs
  <2> QED BY <2>2 DEF u
<1> QED BY <1>3, <1>4

(* What ends where a beginning ends is that beginning. *)
LEMMA PrefixOfSum ==
  ASSUME NEW T, NEW s \in Seq(T), NEW t \in Seq(T), NEW u \in Seq(T), NEW n \in 0..Len(s),
         t \o u = SubSeq(s, 1, n)
  PROVE  IsPrefix(t, s) /\ Len(t) + Len(u) = n
<1>1. /\ Len(SubSeq(s, 1, n)) = n
      /\ \A i \in 1..n : SubSeq(s, 1, n)[i] = s[i]
  BY BeginningIs
<1>2. /\ Len(t \o u) = Len(t) + Len(u)
      /\ \A i \in 1..Len(t) + Len(u) : (t \o u)[i] = IF i <= Len(t) THEN t[i] ELSE u[i - Len(t)]
  BY ConcatProperties
<1>3. Len(t) \in Nat /\ Len(u) \in Nat /\ Len(s) \in Nat
  OBVIOUS
<1>4. Len(t) + Len(u) = n
  BY <1>1, <1>2
<1>5. \A i \in 1..Len(t) : t[i] = s[i]
  BY <1>1, <1>2, <1>3, <1>4
<1>6. Len(t) <= Len(s)
  BY <1>3, <1>4
<1> QED BY <1>4, <1>5, <1>6, PrefixIs

(* A prefix is the beginning of its length. *)
LEMMA PrefixIsBeginning ==
  ASSUME NEW T, NEW s \in Seq(T), NEW t \in Seq(T), IsPrefix(t, s)
  PROVE  Len(t) \in 0..Len(s) /\ t = SubSeq(s, 1, Len(t))
<1>1. Len(t) \in Nat /\ Len(s) \in Nat /\ Len(t) <= Len(s)
  BY DEF IsPrefix
<1>2. SubSeq(t, 1, Len(t)) = t
  BY SubSeqFull
<1> QED BY <1>1, <1>2 DEF IsPrefix

(* A finite set put in some order. *)
LEMMA SetToSeqIs ==
  ASSUME NEW S, IsFiniteSet(S)
  PROVE  /\ Cardinality(S) \in Nat /\ SetToSeq(S) \in Seq(S)
         /\ Len(SetToSeq(S)) = Cardinality(S)
         /\ IsInjective(SetToSeq(S))
         /\ \A x \in S : \E i \in 1..Cardinality(S) : SetToSeq(S)[i] = x
<1> DEFINE n == Cardinality(S)
           q == SetToSeq(S)
<1>1. n \in Nat /\ ExistsBijection(1..n, S)
  BY FS_CardinalityType
<1>2. PICK g : g \in Bijection(1..n, S)
  BY <1>1 DEF ExistsBijection
<1>3. g \in [1..n -> S] /\ IsInjective(g)
  BY <1>2, Zenon DEF Bijection, Injection
<1>4. q = CHOOSE f \in [1..n -> S] : IsInjective(f)
  BY DEF SetToSeq
<1> HIDE DEF q
<1>5. q \in [1..n -> S] /\ IsInjective(q)
  BY <1>3, <1>4, Zenon
<1>6. q \in Injection(1..n, S)
  BY <1>5, Zenon DEF Injection
<1>7. IsFiniteSet(1..n) /\ Cardinality(1..n) = n
  BY <1>1, FS_Interval
<1>8. q \in Surjection(1..n, S)
  BY <1>6, <1>7, FS_Injection
<1>9. \A x \in S : \E i \in 1..n : q[i] = x
  BY <1>8, Zenon DEF Surjection
<1>10. q \in Seq(S) /\ Len(q) = n
  BY <1>1, <1>5
<1> QED BY <1>1, <1>5, <1>9, <1>10 DEF q

(* A sequence of a set is one of a larger set. *)
LEMMA SeqOfMore ==
  ASSUME NEW S, NEW T, S \subseteq T, NEW s \in Seq(S)
  PROVE  s \in Seq(T)
OBVIOUS

LEMMA TwoJoined == ASSUME NEW a, NEW b PROVE <<a>> \o <<b>> = <<a, b>>
<1>1. <<a>> \in Seq({a, b}) /\ <<b>> \in Seq({a, b}) /\ <<a, b>> \in Seq({a, b})
  OBVIOUS
<1>2. /\ <<a>> \o <<b>> \in Seq({a, b}) /\ Len(<<a>> \o <<b>>) = 2
      /\ (<<a>> \o <<b>>)[1] = a /\ (<<a>> \o <<b>>)[2] = b
  <2> DEFINE u == <<a>>
             v == <<b>>
  <2>1. u \in Seq({a, b}) /\ v \in Seq({a, b}) /\ Len(u) = 1 /\ Len(v) = 1 /\ u[1] = a
        /\ v[1] = b
    BY <1>1
  <2> HIDE DEF u, v
  <2>4. /\ u \o v \in Seq({a, b}) /\ Len(u \o v) = Len(u) + Len(v)
        /\ \A i \in 1..Len(u) + Len(v) : (u \o v)[i] = IF i <= Len(u) THEN u[i]
                                                       ELSE v[i - Len(u)]
    BY <2>1, ConcatProperties, Zenon
  <2>2. /\ u \o v \in Seq({a, b}) /\ Len(u \o v) = 2
        /\ \A i \in 1..2 : (u \o v)[i] = IF i <= 1 THEN u[i] ELSE v[i - 1]
    BY <2>1, <2>4
  <2>3. (u \o v)[1] = a /\ (u \o v)[2] = b
    BY <2>1, <2>2
  <2> QED BY <2>2, <2>3 DEF u, v
<1> DEFINE s == <<a>> \o <<b>>
<1> HIDE DEF s
<1>3. s \in Seq({a, b}) /\ Len(s) = 2 /\ s[1] = a /\ s[2] = b
  BY <1>2 DEF s
<1>4. \A i \in 1..2 : i = 1 \/ i = 2
  OBVIOUS
<1>5. \A i \in 1..Len(s) : s[i] = <<a, b>>[i]
  BY <1>3, <1>4
<1>6. s = <<a, b>>
  BY <1>1, <1>3, <1>5, SeqEqual
<1> QED BY <1>6 DEF s

------------------------------------------------------------------------------
(* Paths, and trees of directories.                                        *)

(***************************************************************************)
(* Paths, and trees of directories over them.                              *)
(***************************************************************************)
PathsOf(P) ==
  P \subseteq Seq(STRING) /\ <<>> \notin P /\ \A p \in P : Len(p) > 1 => Front(p) \in P
TreeOn(P, s) == \A p \in P : Len(p) > 1 /\ s[p] # "none" => s[Front(p)] = "dir"

\* Two beginnings of a path, and what extends what.
LEMMA PrefixAll ==
  ASSUME NEW T, NEW p \in Seq(T), NEW q \in Seq(T), NEW r \in Seq(T)
  PROVE  /\ IsPrefix(p, p)
         /\ IsPrefix(p, q) /\ IsPrefix(q, r) => IsPrefix(p, r)
         /\ IsPrefix(p, r) /\ IsPrefix(q, r) /\ Len(p) <= Len(q) => IsPrefix(p, q)
         /\ IsPrefix(p, q) /\ Len(p) = Len(q) => p = q
         /\ IsPrefix(p, q) => Len(p) <= Len(q)
<1>0. Len(p) \in Nat /\ Len(q) \in Nat /\ Len(r) \in Nat
  OBVIOUS
<1> DEFINE Pre(s, t) == Len(s) <= Len(t) /\ \A i \in 1..Len(s) : s[i] = t[i]
<1>1. \A s, t \in Seq(T) : IsPrefix(s, t) <=> Pre(s, t)
  BY PrefixIs
<1>2. Pre(p, p)
  BY <1>0
<1>3. Pre(p, q) /\ Pre(q, r) => Pre(p, r)
  BY <1>0
<1>4. Pre(p, r) /\ Pre(q, r) /\ Len(p) <= Len(q) => Pre(p, q)
  BY <1>0
<1>5. Pre(p, q) /\ Len(p) = Len(q) => p = q
  BY <1>0, SeqEqual
<1>6. Pre(p, q) => Len(p) <= Len(q)
  OBVIOUS
<1> HIDE DEF Pre
<1> QED BY <1>1, <1>2, <1>3, <1>4, <1>5, <1>6

\* A path is not empty, and is its own beginning.
LEMMA PathIs ==
  ASSUME NEW P, PathsOf(P), NEW p \in P
  PROVE  p \in Seq(STRING) /\ p # <<>> /\ Len(p) \in Nat \ {0} /\ p = SubSeq(p, 1, Len(p))
<1>1. p \in Seq(STRING) /\ p # <<>>
  BY DEF PathsOf
<1> QED BY <1>1, SubSeqFull

\* The directory something is in.
LEMMA FrontIs ==
  ASSUME NEW T, NEW p \in Seq(T), Len(p) > 0
  PROVE  /\ Front(p) = SubSeq(p, 1, Len(p) - 1) /\ Front(p) \in Seq(T)
         /\ Len(Front(p)) = Len(p) - 1
         /\ IsPrefix(Front(p), p) /\ \A i \in 1..(Len(p) - 1) : Front(p)[i] = p[i]
<1>1. Len(p) - 1 \in 0..Len(p)
  OBVIOUS
<1>2. Front(p) = SubSeq(p, 1, Len(p) - 1)
  BY DEF Front
<1> QED BY <1>1, <1>2, BeginningIs

\* A beginning of a beginning.
LEMMA BeginningAgain ==
  ASSUME NEW T, NEW p \in Seq(T), NEW n \in 0..Len(p), NEW i \in 0..n
  PROVE  SubSeq(SubSeq(p, 1, n), 1, i) = SubSeq(p, 1, i)
<1> DEFINE u == SubSeq(p, 1, n)
           v == SubSeq(u, 1, i)
           w == SubSeq(p, 1, i)
<1>0. Len(p) \in Nat /\ n \in Nat /\ i \in Nat /\ i <= n /\ n <= Len(p)
  OBVIOUS
<1>1. u \in Seq(T) /\ Len(u) = n /\ \A k \in 1..n : u[k] = p[k]
  BY BeginningIs
<1> HIDE DEF u
<1>2. i \in 0..Len(u) /\ i \in 0..Len(p)
  BY <1>0, <1>1
<1>3. v \in Seq(T) /\ Len(v) = i /\ \A k \in 1..i : v[k] = u[k]
  BY <1>1, <1>2, BeginningIs
<1>4. w \in Seq(T) /\ Len(w) = i /\ \A k \in 1..i : w[k] = p[k]
  BY <1>2, BeginningIs
<1> HIDE DEF v, w
<1>5. \A k \in 1..i : v[k] = w[k]
  BY <1>0, <1>1, <1>3, <1>4
<1>6. v = w
  BY <1>3, <1>4, <1>5, SeqEqual
<1> QED BY <1>6 DEF u, v, w

\* The directories above a path.
LEMMA AboveIn ==
  ASSUME NEW P, PathsOf(P), NEW p \in P, NEW j \in 1..Len(p)
  PROVE  SubSeq(p, 1, j) \in P
<1>0. p \in Seq(STRING) /\ Len(p) \in Nat \ {0}
  BY PathIs
<1>z. p = SubSeq(p, 1, Len(p))
  BY PathIs
<1> DEFINE S == {i \in 1..Len(p) : \A k \in i..Len(p) : SubSeq(p, 1, k) \in P}
<1>1. S \in SUBSET Nat /\ Len(p) \in S
  <2>1. \A k \in Len(p)..Len(p) : k = Len(p)
    BY <1>0
  <2>2. \A k \in Len(p)..Len(p) : SubSeq(p, 1, k) \in P
    BY <1>z, <2>1
  <2> QED BY <1>0, <2>2
<1>2. PICK i \in S : \A k \in S : i <= k
  BY <1>1, LeastNat
<1>3. i \in 1..Len(p) /\ \A k \in i..Len(p) : SubSeq(p, 1, k) \in P
  BY <1>2
<1>4. i = 1
  <2> SUFFICES ASSUME i # 1 PROVE FALSE
    OBVIOUS
  <2> DEFINE u == SubSeq(p, 1, i)
  <2>1. u \in P /\ i \in 0..Len(p) /\ i > 1
    BY <1>0, <1>3
  <2>2. u \in Seq(STRING) /\ Len(u) = i
    BY <1>0, <2>1, BeginningIs
  <2>3. Front(u) \in P
    BY <2>1, <2>2 DEF PathsOf
  <2>4. Front(u) = SubSeq(p, 1, i - 1)
    <3>1. Front(u) = SubSeq(u, 1, i - 1)
      <4> HIDE DEF u
      <4> QED BY <2>1, <2>2, FrontIs
    <3>2. i - 1 \in 0..i
      BY <2>1
    <3> QED BY <1>0, <2>1, <3>1, <3>2, BeginningAgain
  <2> HIDE DEF u
  <2>5. \A k \in (i - 1)..Len(p) : SubSeq(p, 1, k) \in P
    <3> SUFFICES ASSUME NEW k \in (i - 1)..Len(p) PROVE SubSeq(p, 1, k) \in P
      OBVIOUS
    <3>1. k = i - 1 \/ k \in i..Len(p)
      BY <1>0, <1>3
    <3> QED BY <1>3, <2>3, <2>4, <3>1
  <2>6. i - 1 \in S
    BY <1>0, <1>3, <2>1, <2>5
  <2> QED BY <1>2, <1>3, <2>6
<1> QED BY <1>0, <1>3, <1>4

\* Above what is there, there are directories.
LEMMA DirsAbove ==
  ASSUME NEW P, PathsOf(P), NEW s, TreeOn(P, s), NEW p \in P, s[p] # "none",
         NEW j \in 1..(Len(p) - 1)
  PROVE  SubSeq(p, 1, j) \in P /\ s[SubSeq(p, 1, j)] = "dir"
<1>0. p \in Seq(STRING) /\ Len(p) \in Nat \ {0}
  BY PathIs
<1>z. p = SubSeq(p, 1, Len(p))
  BY PathIs
<1>a. \A q \in P : Len(q) > 1 /\ s[q] # "none" => s[Front(q)] = "dir"
  BY DEF TreeOn
<1>b. \A k \in 1..Len(p) : SubSeq(p, 1, k) \in P
  BY AboveIn
<1> DEFINE S == {i \in 1..Len(p) : /\ \A k \in i..(Len(p) - 1) : s[SubSeq(p, 1, k)] = "dir"
                                   /\ s[SubSeq(p, 1, i)] # "none"}
<1>1. S \in SUBSET Nat /\ Len(p) \in S
  <2>1. Len(p)..(Len(p) - 1) = {}
    BY <1>0
  <2>2. s[SubSeq(p, 1, Len(p))] # "none"
    BY <1>z
  <2> QED BY <1>0, <2>1, <2>2
<1>2. PICK i \in S : \A k \in S : i <= k
  BY <1>1, LeastNat
<1>3. /\ i \in 1..Len(p) /\ \A k \in i..(Len(p) - 1) : s[SubSeq(p, 1, k)] = "dir"
      /\ s[SubSeq(p, 1, i)] # "none"
  BY <1>2
<1>4. i = 1
  <2> SUFFICES ASSUME i # 1 PROVE FALSE
    OBVIOUS
  <2> DEFINE u == SubSeq(p, 1, i)
  <2>1. u \in P /\ i \in 0..Len(p) /\ i > 1
    BY <1>0, <1>3, <1>b
  <2>2. u \in Seq(STRING) /\ Len(u) = i
    BY <1>0, <2>1, BeginningIs
  <2>3. s[Front(u)] = "dir"
    BY <1>3, <1>a, <2>1, <2>2
  <2>4. Front(u) = SubSeq(p, 1, i - 1)
    <3>1. Front(u) = SubSeq(u, 1, i - 1)
      <4> HIDE DEF u
      <4> QED BY <2>1, <2>2, FrontIs
    <3>2. i - 1 \in 0..i
      BY <2>1
    <3> QED BY <1>0, <2>1, <3>1, <3>2, BeginningAgain
  <2> HIDE DEF u
  <2>5. \A k \in (i - 1)..(Len(p) - 1) : s[SubSeq(p, 1, k)] = "dir"
    <3> SUFFICES ASSUME NEW k \in (i - 1)..(Len(p) - 1) PROVE s[SubSeq(p, 1, k)] = "dir"
      OBVIOUS
    <3>1. k = i - 1 \/ k \in i..(Len(p) - 1)
      BY <1>0, <1>3
    <3> QED BY <1>3, <2>3, <2>4, <3>1
  <2>6. i - 1 \in S
    BY <1>0, <1>3, <2>1, <2>3, <2>4, <2>5
  <2> QED BY <1>2, <1>3, <2>6
<1>5. j \in 1..Len(p) /\ j \in i..(Len(p) - 1)
  BY <1>0, <1>4
<1> QED BY <1>3, <1>b, <1>5

\* What is not a directory holds nothing.
LEMMA NothingUnder ==
  ASSUME NEW P, PathsOf(P), NEW s, TreeOn(P, s), NEW p \in P, NEW d \in Seq(STRING), d # <<>>,
         IsPrefix(d, p),
         d # p, d \in P => s[d] # "dir"
  PROVE  s[p] = "none" /\ d \in P
<1>1. p \in Seq(STRING) /\ Len(p) \in Nat /\ Len(d) \in Nat \ {0}
  BY PathIs
<1>2. Len(d) \in 0..Len(p) /\ d = SubSeq(p, 1, Len(d))
  BY <1>1, PrefixIsBeginning
<1>3. Len(d) # Len(p)
  BY <1>1, PrefixAll
<1>4. Len(d) \in 1..(Len(p) - 1) /\ Len(d) \in 1..Len(p)
  BY <1>1, <1>2, <1>3
<1>5. d \in P
  BY <1>2, <1>4, AboveIn
<1>6. ASSUME s[p] # "none" PROVE FALSE
  <2>1. s[SubSeq(p, 1, Len(d))] = "dir"
    BY <1>4, <1>6, DirsAbove
  <2> QED BY <1>2, <1>5, <2>1
<1> QED BY <1>5, <1>6

\* The end of one path behind another.
LEMMA GraftIs ==
  ASSUME NEW T, NEW d \in Seq(T), NEW p \in Seq(T), NEW i \in 0..Len(p)
  PROVE  /\ d \o SubSeq(p, i + 1, Len(p)) \in Seq(T)
         /\ Len(d \o SubSeq(p, i + 1, Len(p))) = Len(d) + Len(p) - i
         /\ \A k \in 1..(Len(d) + Len(p) - i) :
              (d \o SubSeq(p, i + 1, Len(p)))[k] = IF k <= Len(d) THEN d[k]
                                                   ELSE p[k - Len(d) + i]
<1>0. Len(p) \in Nat /\ Len(d) \in Nat
  OBVIOUS
<1> DEFINE u == SubSeq(p, i + 1, Len(p))
           n == Len(p) - i
<1>1. n \in Nat
  BY <1>0
<1>5. u \in Seq(T) /\ Len(u) = n /\ \A k \in 1..n : u[k] = p[k + i]
  <2>1. i + 1 \in Int /\ Len(p) \in Int /\ \A k \in (i + 1)..Len(p) : p[k] \in T
    BY <1>0
  <2>2. /\ u \in Seq(T)
        /\ Len(u) = IF i + 1 <= Len(p) THEN Len(p) - (i + 1) + 1 ELSE 0
        /\ \A k \in 1..(Len(p) - (i + 1) + 1) : u[k] = p[i + 1 + k - 1]
    BY <2>1, SubSeqProperties
  <2> HIDE DEF u
  <2>3. Len(p) - (i + 1) + 1 = n /\ (~(i + 1 <= Len(p)) => n = 0)
    BY <1>0
  <2>4. Len(u) = n
    <3>1. Len(u) = IF i + 1 <= Len(p) THEN Len(p) - (i + 1) + 1 ELSE 0
      BY <2>2
    <3>i. i \in Nat
      BY <1>0
    <3>2. CASE i + 1 <= Len(p)
      <4>1. Len(u) = Len(p) - (i + 1) + 1
        BY <3>1, <3>2
      <4> QED BY <1>0, <3>i, <4>1
    <3>3. CASE ~(i + 1 <= Len(p))
      BY <2>3, <3>1, <3>3
    <3> QED BY <3>2, <3>3
  <2>5. ASSUME NEW k \in 1..n PROVE u[k] = p[k + i]
    <3>1. k \in 1..(Len(p) - (i + 1) + 1) /\ i + 1 + k - 1 = k + i
      BY <1>0
    <3>2. u[k] = p[i + 1 + k - 1]
      BY <2>2, <3>1
    <3> QED BY <3>1, <3>2
  <2> QED BY <2>2, <2>4, <2>5
<1> HIDE DEF u
<1>6. /\ d \o u \in Seq(T) /\ Len(d \o u) = Len(d) + Len(u)
      /\ \A k \in 1..Len(d) + Len(u) : (d \o u)[k] = IF k <= Len(d) THEN d[k] ELSE u[k - Len(d)]
  BY <1>5, ConcatProperties
<1> DEFINE r == d \o u
<1> HIDE DEF r
<1>8. /\ r \in Seq(T) /\ Len(r) = Len(d) + Len(p) - i
      /\ \A k \in 1..(Len(d) + Len(p) - i) : r[k] = IF k <= Len(d) THEN d[k] ELSE u[k - Len(d)]
  BY <1>0, <1>5, <1>6 DEF r
<1>9. \A k \in 1..(Len(d) + Len(p) - i) : r[k] = IF k <= Len(d) THEN d[k] ELSE p[k - Len(d) + i]
  <2> SUFFICES ASSUME NEW k \in 1..(Len(d) + Len(p) - i), ~(k <= Len(d))
               PROVE  r[k] = p[k - Len(d) + i]
    BY <1>8
  <2>1. r[k] = u[k - Len(d)]
    BY <1>8
  <2>2. k - Len(d) \in 1..n
    BY <1>0
  <2> QED BY <1>5, <2>1, <2>2
<1> QED BY <1>8, <1>9 DEF r, u

\* Something is put in a directory, in the place of what is none.
LEMMA TreeGainsOn ==
  ASSUME NEW P, PathsOf(P), NEW s, TreeOn(P, s), NEW p \in P, s[p] # "dir",
         Len(p) > 1 => s[Front(p)] = "dir",
         NEW t, \A r \in P : r # p => t[r] = s[r]
  PROVE  TreeOn(P, t)
<1>1. ASSUME NEW r \in P, Len(r) > 1, t[r] # "none" PROVE t[Front(r)] = "dir"
  <2>1. s[Front(r)] = "dir" /\ Front(r) \in P
    BY <1>1 DEF TreeOn, PathsOf
  <2> QED BY <2>1
<1> QED BY <1>1 DEF TreeOn

\* Where something under the new path was.
Origin(p, q, r) == p \o SubSeq(r, Len(q) + 1, Len(r))

LEMMA OriginOn ==
  ASSUME NEW P, PathsOf(P), NEW p \in P, NEW q \in P, NEW r \in P, IsPrefix(q, r)
  PROVE  /\ Origin(p, q, r) \in Seq(STRING) /\ Len(Origin(p, q, r)) = Len(p) + Len(r) - Len(q)
         /\ Len(q) <= Len(r)
         /\ \A k \in 1..(Len(p) + Len(r) - Len(q)) :
              Origin(p, q, r)[k] = IF k <= Len(p) THEN p[k] ELSE r[k - Len(p) + Len(q)]
<1>1. p \in Seq(STRING) /\ q \in Seq(STRING) /\ r \in Seq(STRING) /\ Len(r) \in Nat
      /\ Len(q) \in Nat
  BY PathIs
<1>2. Len(q) <= Len(r)
  BY <1>1, PrefixAll
<1>3. Len(q) \in 0..Len(r)
  BY <1>1, <1>2
<1> QED BY <1>1, <1>2, <1>3, GraftIs DEF Origin

LEMMA TreeMovesOn ==
  ASSUME NEW P, PathsOf(P), NEW s, TreeOn(P, s), NEW p \in P, NEW q \in P, s[q] # "dir",
         Len(q) > 1 => s[Front(q)] = "dir" /\ ~IsPrefix(p, Front(q)),
         NEW t, \A r \in P : t[r] = IF IsPrefix(q, r) /\ Origin(p, q, r) \in P
                                    THEN s[Origin(p, q, r)]
                                    ELSE IF IsPrefix(p, r) THEN "none" ELSE s[r]
  PROVE  TreeOn(P, t)
<1>1. \A r \in P : Len(r) > 1 /\ s[r] # "none" => s[Front(r)] = "dir"
  BY DEF TreeOn
<1>2. \A r \in P : t[r] = IF IsPrefix(q, r) /\ Origin(p, q, r) \in P THEN s[Origin(p, q, r)]
                          ELSE IF IsPrefix(p, r) THEN "none" ELSE s[r]
  OBVIOUS
<1>3. \A r \in P : r \in Seq(STRING) /\ Len(r) \in Nat \ {0}
  BY PathIs
<1>4. \A r \in P : Len(r) > 1 => /\ Front(r) \in P /\ Len(Front(r)) = Len(r) - 1
                                      /\ IsPrefix(Front(r), r)
                                         /\ \A i \in 1..(Len(r) - 1) : Front(r)[i] = r[i]
  <2> SUFFICES ASSUME NEW r \in P, Len(r) > 1
               PROVE  /\ Front(r) \in P /\ Len(Front(r)) = Len(r) - 1
                      /\ IsPrefix(Front(r), r) /\ \A i \in 1..(Len(r) - 1) : Front(r)[i] = r[i]
    OBVIOUS
  <2>1. r \in Seq(STRING) /\ Len(r) > 0 /\ Front(r) \in P
    BY <1>3 DEF PathsOf
  <2> QED BY <2>1, FrontIs
<1>5. ASSUME NEW r \in P, Len(r) > 1, t[r] # "none" PROVE t[Front(r)] = "dir"
  <2>1. CASE r = q
    <3>1. Front(q) \in P /\ ~IsPrefix(q, Front(q))
      <4>1. Front(q) \in P /\ Len(Front(q)) = Len(q) - 1 /\ Front(q) \in Seq(STRING)
            /\ Len(q) \in Nat
        <5>1. Len(q) > 1
          BY <1>5, <2>1
        <5> QED BY <1>3, <1>4, <5>1
      <4>2. IsPrefix(q, Front(q)) => Len(q) <= Len(Front(q))
        BY <1>3, <4>1, PrefixAll
      <4> QED BY <4>1, <4>2
    <3>2. s[Front(q)] = "dir" /\ ~IsPrefix(p, Front(q))
      BY <1>5, <2>1
    <3>3. t[Front(q)] = "dir"
      BY <1>2, <3>1, <3>2
    <3> QED BY <2>1, <3>3
  <2>2. CASE r # q /\ IsPrefix(q, r) /\ Origin(p, q, r) \in P
    <3> DEFINE o == Origin(p, q, r)
               g == Front(r)
               v == Origin(p, q, g)
    <3>1. s[o] # "none" /\ o \in P
      BY <1>2, <1>5, <2>2
    <3>2. /\ o \in Seq(STRING) /\ Len(o) = Len(p) + Len(r) - Len(q) /\ Len(q) <= Len(r)
          /\ \A k \in 1..(Len(p) + Len(r) - Len(q)) :
               o[k] = IF k <= Len(p) THEN p[k] ELSE r[k - Len(p) + Len(q)]
      BY <2>2, OriginOn
    <3>3. Len(q) < Len(r)
      <4>1. Len(q) # Len(r)
        BY <1>3, <2>2, PrefixAll
      <4> QED BY <1>3, <3>2, <4>1
    <3>4. g \in P /\ Len(g) = Len(r) - 1 /\ \A i \in 1..(Len(r) - 1) : g[i] = r[i]
      BY <1>4, <1>5
    <3>4a. IsPrefix(g, r)
      BY <1>4, <1>5
    <3> HIDE DEF g, o
    <3>5. IsPrefix(q, g)
      <4>1. Len(q) <= Len(g) /\ g \in Seq(STRING)
        BY <1>3, <3>3, <3>4
      <4> QED BY <1>3, <2>2, <3>4a, <4>1, PrefixAll
    <3>6. /\ v \in Seq(STRING) /\ Len(v) = Len(p) + Len(g) - Len(q)
          /\ \A k \in 1..(Len(p) + Len(g) - Len(q)) :
               v[k] = IF k <= Len(p) THEN p[k] ELSE g[k - Len(p) + Len(q)]
      <4>1. g \in P
        BY <3>4
      <4>2. /\ Len(q) <= Len(g) /\ v \in Seq(STRING) /\ Len(v) = Len(p) + Len(g) - Len(q)
            /\ \A k \in 1..(Len(p) + Len(g) - Len(q)) :
                 v[k] = IF k <= Len(p) THEN p[k] ELSE g[k - Len(p) + Len(q)]
        BY <3>5, <4>1, OriginOn
      <4> QED BY <4>2
    <3>7. Len(o) > 1
      BY <1>3, <3>2, <3>3
    <3>8. /\ Front(o) \in P /\ Len(Front(o)) = Len(o) - 1
          /\ \A i \in 1..(Len(o) - 1) : Front(o)[i] = o[i]
      BY <1>4, <3>1, <3>7
    <3> HIDE DEF v
    <3>9. v = Front(o)
      <4>1. Len(v) = Len(Front(o)) /\ Len(v) = Len(o) - 1 /\ Front(o) \in Seq(STRING)
        BY <1>3, <3>2, <3>4, <3>6, <3>8
      <4>2. ASSUME NEW k \in 1..Len(v) PROVE v[k] = Front(o)[k]
        <5>1. /\ k \in 1..(Len(o) - 1) /\ k \in 1..(Len(p) + Len(r) - Len(q))
              /\ k \in 1..(Len(p) + Len(g) - Len(q)) /\ k \in Nat /\ Len(p) \in Nat
          BY <1>3, <3>2, <3>3, <3>4, <3>6, <4>1
        <5>2. Front(o)[k] = IF k <= Len(p) THEN p[k] ELSE r[k - Len(p) + Len(q)]
          BY <3>2, <3>8, <5>1
        <5>3. v[k] = IF k <= Len(p) THEN p[k] ELSE g[k - Len(p) + Len(q)]
          BY <3>6, <5>1
        <5>4. CASE k <= Len(p)
          BY <5>2, <5>3, <5>4
        <5>5. CASE ~(k <= Len(p))
          <6>1. k - Len(p) + Len(q) \in 1..(Len(r) - 1)
            BY <1>3, <3>4, <5>1, <5>5
          <6>2. g[k - Len(p) + Len(q)] = r[k - Len(p) + Len(q)]
            BY <3>4, <6>1
          <6> QED BY <5>2, <5>3, <5>5, <6>2
        <5> QED BY <5>4, <5>5
      <4> QED BY <3>6, <4>1, <4>2, SeqEqual
    <3>10. s[Front(o)] = "dir"
      BY <1>1, <3>1, <3>7
    <3>11. t[g] = s[Origin(p, q, g)]
      BY <1>2, <3>4, <3>5, <3>8, <3>9 DEF v
    <3> QED BY <3>9, <3>10, <3>11 DEF v, g
  <2>3. CASE r # q /\ ~(IsPrefix(q, r) /\ Origin(p, q, r) \in P)
    <3>1. ~IsPrefix(p, r) /\ s[r] # "none"
      BY <1>2, <1>5, <2>3
    <3>2. ~IsPrefix(q, r)
      <4> SUFFICES ASSUME IsPrefix(q, r) PROVE FALSE
        OBVIOUS
      <4>1. s[r] = "none"
        <5>1. q \in Seq(STRING) /\ q # <<>> /\ q # r /\ s[q] # "dir"
          BY <1>3, <2>3
        <5> QED BY <5>1, NothingUnder
      <4> QED BY <3>1, <4>1
    <3>3. Front(r) \in P /\ IsPrefix(Front(r), r) /\ s[Front(r)] = "dir"
      BY <1>1, <1>4, <1>5, <3>1
    <3>4. ~IsPrefix(p, Front(r)) /\ ~IsPrefix(q, Front(r))
      BY <1>3, <3>1, <3>2, <3>3, PrefixAll
    <3> QED BY <1>2, <3>3, <3>4
  <2> QED BY <2>1, <2>2, <2>3
<1> QED BY <1>5 DEF TreeOn

------------------------------------------------------------------------------
(* The remote pane.                                                        *)

(***************************************************************************)
(* The invariant of the remote pane's file operations.                     *)
(***************************************************************************)
\* A directory or file that a delete or a chmod is at.
PlaceNames == Seq(STRING) \ {<<>>}
Frame == [at : PlaceNames, new : BOOLEAN, kids : SUBSET STRING]

\* Each directory of the recursion was looked into, and holds the next.
Chained(f) ==
  \A i \in DOMAIN f : i > 1 => /\ ~f[i - 1].new /\ IsPrefix(f[i - 1].at, f[i].at)
                               /\ Len(f[i].at) = Len(f[i - 1].at) + 1

\* No directory that was looked into is a link.
Walked(f, s) ==
  \A i \in DOMAIN f : ~f[i].new => ~(f[i].at \in Places /\ s[f[i].at] = "link")

RemoteTypes ==
  /\ server \in RemoteTrees /\ firstServer \in RemoteTrees
  /\ perms \in [Places -> {"old", "new"}] /\ follows \in BOOLEAN
  /\ lent \in {"none", "delete", "chmod", "newFolder", "newFile", "rename"}
  /\ entries \in Seq(Places) /\ flow \in Seq(Places) /\ picked \in Seq(Places)
  /\ frames \in Seq(Frame) /\ (frames # <<>> => entries # <<>>)
  /\ \A i \in DOMAIN frames : frames[i].new => frames[i].kids = {}
  /\ said \in [done : Nat, failed : Nat]
  /\ scan \in {"idle", "running", "shown"} /\ flags \subseteq Flags
  /\ searchCancelled \in BOOLEAN
  /\ scanQueue \in Seq(Seq(STRING))
  /\ present \subseteq Places

\* While a delete runs, it is at a selected entry, entries have only gone and files
\* come, and where asking does not look through links it is in no link.
DeleteRuns ==
  lent = "delete" =>
    /\ frames # <<>> => frames[1].at = entries[1]
    /\ Chained(frames)
    /\ \A i \in DOMAIN entries : \E k \in DOMAIN picked : picked[k] = entries[i]
    /\ \A p \in Places : server[p] \in {firstServer[p], "none", "file"}
    /\ ~follows => Walked(frames, server)

\* What a delete may remove.
Removable(p) == Selected(p) \/ ThroughLink(p)

\* What was there all along is found, or a folder above it is still to be listed.
Found(p) == Last(p) \in Matching /\ Len(p) <= SearchDepth => p \in matches
Above(d, p) == IsPrefix(d, p) /\ Len(d) < Len(p)
Awaited(p) == \E i \in DOMAIN scanQueue : Above(scanQueue[i], p)
SearchRuns ==
  /\ \A p \in present : server[p] # "none"
  /\ flags = {} /\ ~searchCancelled =>
       /\ scan = "running" => \A p \in present : Found(p) \/ Awaited(p)
       /\ scan = "shown" => \A p \in present : Found(p)

RemoteInv == RemoteTypes /\ DeleteRuns /\ DeletesInside /\ SearchRuns

(* Paths and trees. *)

\* The places are paths, and what is there is a tree over them.
LEMMA PlacesArePaths == PathsOf(Places) /\ \A s \in RemoteTrees : TreeOn(Places, s)
<1>1. PathsOf(Places)
  BY PlacesAssumption DEF PathsOf
<1>2. \A s \in RemoteTrees : TreeOn(Places, s)
  BY DEF TreeOn, RemoteTrees
<1> QED BY <1>1, <1>2

LEMMA PlacesAre ==
  ASSUME NEW p \in Places
  PROVE  p \in PlaceNames /\ p \in Seq(STRING) /\ Len(p) \in Nat \ {0}
    /\ p = SubSeq(p, 1, Len(p))
<1>1. p \in Seq(STRING) /\ p # <<>> /\ Len(p) \in Nat \ {0} /\ p = SubSeq(p, 1, Len(p))
  BY PlacesArePaths, PathIs, Zenon
<1>2. p \in PlaceNames
  BY <1>1 DEF PlaceNames
<1> QED BY <1>1, <1>2, Zenon

LEMMA AboveAre ==
  ASSUME NEW p \in Places, NEW j \in 1..Len(p)
  PROVE  SubSeq(p, 1, j) \in Places
BY PlacesArePaths, AboveIn, Zenon

LEMMA AboveDirs ==
  ASSUME NEW s \in RemoteTrees, NEW p \in Places, s[p] # "none", NEW j \in 1..(Len(p) - 1)
  PROVE  SubSeq(p, 1, j) \in Places /\ s[SubSeq(p, 1, j)] = "dir"
BY PlacesArePaths, DirsAbove, Zenon

LEMMA NothingBelow ==
  ASSUME NEW s \in RemoteTrees, NEW p \in Places, NEW d \in Seq(STRING), d # <<>>,
         IsPrefix(d, p),
         d # p, d \in Places => s[d] # "dir"
  PROVE  s[p] = "none" /\ d \in Places
BY PlacesArePaths, NothingUnder, Zenon

(* Links. *)

\* Of the directories above a path, one at most is a link; through it, nothing is there.
LEMMA OneLink ==
  ASSUME NEW s \in RemoteTrees, NEW p \in PlaceNames, NEW i \in Links(s, p)
  PROVE  /\ i \in 1..(Len(p) - 1) /\ SubSeq(p, 1, i) \in Places /\ s[SubSeq(p, 1, i)] = "link"
         /\ \A j \in Links(s, p) : j = i
<1>0. p \in Seq(STRING) /\ Len(p) \in Nat
  BY DEF PlaceNames
<1>1. \A k \in Links(s, p) : k \in 1..(Len(p) - 1) /\ SubSeq(p, 1, k) \in Places
      /\ s[SubSeq(p, 1, k)] = "link"
  BY DEF Links
<1>2. ASSUME NEW k \in Links(s, p), NEW j \in Links(s, p), k < j PROVE FALSE
  <2> DEFINE u == SubSeq(p, 1, j)
  <2>1. u \in Places /\ s[u] = "link" /\ j \in 0..Len(p)
    BY <1>0, <1>1
  <2>2. Len(u) = j
    BY <1>0, <2>1, BeginningIs
  <2>3. SubSeq(u, 1, k) = SubSeq(p, 1, k)
    <3>1. k \in 0..j
      BY <1>0, <1>1, <1>2
    <3> QED BY <1>0, <2>1, <3>1, BeginningAgain
  <2> HIDE DEF u
  <2>4. k \in 1..(Len(u) - 1)
    BY <1>0, <1>1, <1>2, <2>2
  <2>5. s[SubSeq(u, 1, k)] = "dir"
    BY <2>1, <2>4, AboveDirs
  <2> QED BY <1>1, <2>3, <2>5
<1>3. ASSUME NEW j \in Links(s, p) PROVE j = i
  BY <1>0, <1>1, <1>2
<1> QED BY <1>1, <1>3

LEMMA NoLinkResolved ==
  ASSUME NEW s, NEW p, Links(s, p) = {}
  PROVE  ResolvedOn(s, p) = p
BY DEF ResolvedOn

LEMMA LinkResolved ==
  ASSUME NEW s \in RemoteTrees, NEW p \in PlaceNames, NEW i \in Links(s, p)
  PROVE  /\ ResolvedOn(s, p) = LinkedDir \o SubSeq(p, i + 1, Len(p))
         /\ ResolvedOn(s, p) \in PlaceNames
         /\ Len(ResolvedOn(s, p)) = Len(LinkedDir) + Len(p) - i
         /\ \A k \in 1..Len(ResolvedOn(s, p)) :
              ResolvedOn(s, p)[k] = IF k <= Len(LinkedDir) THEN LinkedDir[k]
                                    ELSE p[k - Len(LinkedDir) + i]
<1>0. p \in Seq(STRING) /\ Len(p) \in Nat
  BY DEF PlaceNames
<1>1. i \in 1..(Len(p) - 1) /\ \A j \in Links(s, p) : j = i
  BY OneLink
<1>2. (CHOOSE j \in Links(s, p) : TRUE) = i
  BY <1>1
<1>3. ResolvedOn(s, p) = LinkedDir \o SubSeq(p, i + 1, Len(p))
  BY <1>2 DEF ResolvedOn
<1>4. LinkedDir \in Seq(STRING) /\ Len(LinkedDir) \in Nat \ {0} /\ i \in 0..Len(p)
  BY <1>0, <1>1, PlacesAssumption, PlacesAre
<1> DEFINE r == ResolvedOn(s, p)
<1> DEFINE g == LinkedDir \o SubSeq(p, i + 1, Len(p))
<1>g. /\ g \in Seq(STRING) /\ Len(g) = Len(LinkedDir) + Len(p) - i
      /\ \A k \in 1..(Len(LinkedDir) + Len(p) - i) :
           g[k] = IF k <= Len(LinkedDir) THEN LinkedDir[k] ELSE p[k - Len(LinkedDir) + i]
  BY <1>0, <1>4, GraftIs
<1>h. r = g
  BY <1>3
<1> HIDE DEF r, g
<1>5. /\ r \in Seq(STRING) /\ Len(r) = Len(LinkedDir) + Len(p) - i
      /\ \A k \in 1..(Len(LinkedDir) + Len(p) - i) :
           r[k] = IF k <= Len(LinkedDir) THEN LinkedDir[k] ELSE p[k - Len(LinkedDir) + i]
  BY <1>g, <1>h
<1>6. r # <<>>
  <2>1. Len(r) > 0
    BY <1>0, <1>1, <1>4, <1>5
  <2> QED BY <2>1
<1> QED BY <1>3, <1>5, <1>6 DEF PlaceNames, r

LEMMA ResolvedIs ==
  ASSUME NEW s \in RemoteTrees, NEW p \in PlaceNames
  PROVE  ResolvedOn(s, p) \in PlaceNames
<1>1. CASE Links(s, p) = {}
  BY <1>1, NoLinkResolved
<1>2. CASE Links(s, p) # {}
  <2>1. PICK i \in Links(s, p) : TRUE
    BY <1>2
  <2> QED BY <2>1, LinkResolved
<1> QED BY <1>1, <1>2

\* Through a link there is nothing under the path itself.
LEMMA NothingThrough ==
  ASSUME NEW s \in RemoteTrees, NEW h \in PlaceNames, Links(s, h) # {}, NEW p \in Places,
         IsPrefix(h, p)
  PROVE  s[p] = "none"
<1>0. p \in Seq(STRING) /\ Len(p) \in Nat \ {0} /\ h \in Seq(STRING) /\ Len(h) \in Nat
  BY PlacesAre DEF PlaceNames
<1>1. PICK i \in Links(s, h) : TRUE
  BY Zenon
<1>2. i \in 1..(Len(h) - 1) /\ SubSeq(h, 1, i) \in Places /\ s[SubSeq(h, 1, i)] = "link"
  BY OneLink
<1> DEFINE d == SubSeq(h, 1, i)
<1>3. d \in Seq(STRING) /\ Len(d) = i /\ IsPrefix(d, h)
  <2>1. i \in 0..Len(h)
    BY <1>0, <1>2
  <2> QED BY <1>0, <2>1, BeginningIs
<1>4. d \in Places /\ s[d] = "link"
  BY <1>2
<1> HIDE DEF d
<1>5. IsPrefix(d, p) /\ Len(h) <= Len(p)
  BY <1>0, <1>3, PrefixAll
<1>6. d # p /\ d # <<>>
  BY <1>0, <1>2, <1>3, <1>5
<1> QED BY <1>3, <1>4, <1>5, <1>6, NothingBelow

\* What is there of a selected path is below what the path named when it was
\* selected, if since then entries have only gone and files come.
LEMMA StaysBelow ==
  ASSUME NEW s \in RemoteTrees, NEW f \in RemoteTrees,
         \A p \in Places : s[p] \in {f[p], "none", "file"},
         NEW h \in Places, NEW a \in PlaceNames, IsPrefix(h, a),
         \A j \in Len(h)..(Len(a) - 1) : ~(SubSeq(a, 1, j) \in Places
           /\ s[SubSeq(a, 1, j)] = "link"),
         ResolvedOn(s, a) \in Places, s[ResolvedOn(s, a)] # "none"
  PROVE  IsPrefix(ResolvedOn(f, h), ResolvedOn(s, a))
<1>0. /\ h \in Seq(STRING) /\ Len(h) \in Nat \ {0} /\ h \in PlaceNames
      /\ a \in Seq(STRING) /\ Len(a) \in Nat /\ Len(h) <= Len(a)
  BY PlacesAre, PrefixAll DEF PlaceNames
<1>1. \A i \in 1..Len(h) : SubSeq(h, 1, i) = SubSeq(a, 1, i)
  <2> SUFFICES ASSUME NEW i \in 1..Len(h) PROVE SubSeq(h, 1, i) = SubSeq(a, 1, i)
    OBVIOUS
  <2>1. h = SubSeq(a, 1, Len(h)) /\ Len(h) \in 0..Len(a)
    BY <1>0, PrefixIsBeginning
  <2>2. i \in 0..Len(h)
    BY <1>0
  <2>3. SubSeq(SubSeq(a, 1, Len(h)), 1, i) = SubSeq(a, 1, i)
    BY <1>0, <2>1, <2>2, BeginningAgain
  <2> QED BY <2>1, <2>3
<1>2. CASE Links(s, a) = {}
  <2>1. ResolvedOn(s, a) = a
    BY <1>2, NoLinkResolved
  <2>2. Links(f, h) = {}
    <3> SUFFICES ASSUME NEW i \in Links(f, h) PROVE FALSE
      OBVIOUS
    <3>1. i \in 1..(Len(h) - 1) /\ SubSeq(h, 1, i) \in Places /\ f[SubSeq(h, 1, i)] = "link"
      BY <1>0, OneLink
    <3>2. SubSeq(h, 1, i) = SubSeq(a, 1, i)
      BY <1>0, <1>1, <3>1
    <3>3. i \in 1..(Len(a) - 1) /\ a \in Places /\ s[a] # "none"
      BY <1>0, <2>1, <3>1
    <3>4. s[SubSeq(a, 1, i)] = "dir"
      BY <3>3, AboveDirs
    <3> QED BY <3>1, <3>2, <3>4
  <2>3. ResolvedOn(f, h) = h
    BY <2>2, NoLinkResolved
  <2> QED BY <2>1, <2>3
<1>3. CASE Links(s, a) # {}
  <2>1. PICK i \in Links(s, a) : TRUE
    BY <1>3
  <2>2. i \in 1..(Len(a) - 1) /\ SubSeq(a, 1, i) \in Places /\ s[SubSeq(a, 1, i)] = "link"
    BY OneLink
  <2>3. i < Len(h)
    <3>1. CASE i >= Len(h)
      <4>1. i \in Len(h)..(Len(a) - 1)
        BY <1>0, <2>2, <3>1
      <4> QED BY <2>2, <4>1
    <3> QED BY <1>0, <2>2, <3>1
  <2>4. i \in 1..(Len(h) - 1) /\ SubSeq(h, 1, i) = SubSeq(a, 1, i)
    BY <1>0, <1>1, <2>2, <2>3
  <2>5. i \in Links(f, h)
    <3>1. f[SubSeq(a, 1, i)] = "link"
      BY <2>2
    <3> QED BY <2>2, <2>4, <3>1 DEF Links
  <2> DEFINE r == ResolvedOn(f, h)
             t == ResolvedOn(s, a)
             l == Len(LinkedDir)
  <2>6. /\ r \in PlaceNames /\ Len(r) = l + Len(h) - i
        /\ \A k \in 1..Len(r) : r[k] = IF k <= l THEN LinkedDir[k] ELSE h[k - l + i]
    BY <1>0, <2>5, LinkResolved
  <2>7. /\ t \in PlaceNames /\ Len(t) = l + Len(a) - i
        /\ \A k \in 1..Len(t) : t[k] = IF k <= l THEN LinkedDir[k] ELSE a[k - l + i]
    BY LinkResolved
  <2>8. l \in Nat
    BY PlacesAssumption, PlacesAre
  <2> HIDE DEF r, t, l
  <2>9. \A k \in 1..Len(h) : h[k] = a[k]
    BY <1>0, PrefixIs
  <2>10. Len(r) <= Len(t)
    BY <1>0, <2>2, <2>6, <2>7, <2>8
  <2>11. ASSUME NEW k \in 1..Len(r) PROVE r[k] = t[k]
    <3>1. k \in 1..Len(t)
      BY <1>0, <2>2, <2>6, <2>7, <2>8
    <3>2. k > l => k - l + i \in 1..Len(h)
      BY <1>0, <2>2, <2>3, <2>6, <2>8
    <3>3. /\ r[k] = IF k <= l THEN LinkedDir[k] ELSE h[k - l + i]
          /\ t[k] = IF k <= l THEN LinkedDir[k] ELSE a[k - l + i]
      BY <2>6, <2>7, <3>1
    <3>4. k \in Nat
      BY <1>0, <2>2, <2>6, <2>8
    <3>5. CASE k <= l
      BY <3>3, <3>5
    <3>6. CASE k > l
      <4>1. h[k - l + i] = a[k - l + i]
        BY <2>9, <3>2, <3>6
      <4>2. ~(k <= l)
        BY <2>8, <3>4, <3>6
      <4> QED BY <3>3, <4>1, <4>2
    <3> QED BY <2>8, <3>4, <3>5, <3>6
  <2>12. r \in Seq(STRING) /\ t \in Seq(STRING)
    BY <2>6, <2>7 DEF PlaceNames
  <2>13. IsPrefix(r, t)
    BY <2>10, <2>11, <2>12, PrefixIs
  <2> QED BY <2>13 DEF r, t
<1> QED BY <1>2, <1>3

(* Changes of the tree. *)

LEMMA TreeLoses ==
  ASSUME NEW s \in RemoteTrees, NEW p \in Places,
         \A r \in Places : Len(r) = Len(p) + 1 /\ IsPrefix(p, r) => s[r] = "none"
  PROVE  [s EXCEPT ![p] = "none"] \in RemoteTrees
<1> DEFINE t == [s EXCEPT ![p] = "none"]
<1>1. s \in [Places -> Kinds] /\ \A r \in Places : Len(r) > 1 /\ s[r] # "none"
      => s[Front(r)] = "dir"
  BY DEF RemoteTrees
<1>2. t \in [Places -> Kinds] /\ \A r \in Places : t[r] = IF r = p THEN "none" ELSE s[r]
  BY <1>1 DEF Kinds
<1> HIDE DEF t
<1>3. ASSUME NEW r \in Places, Len(r) > 1, t[r] # "none" PROVE t[Front(r)] = "dir"
  <2>1. s[r] # "none" /\ s[Front(r)] = "dir" /\ Front(r) \in Places
    BY <1>1, <1>2, <1>3, PlacesAssumption
  <2>2. Front(r) # p
    <3>1. r \in Seq(STRING) /\ Len(r) \in Nat
      BY PlacesAre
    <3>2. Len(Front(r)) = Len(r) - 1 /\ IsPrefix(Front(r), r)
      BY <1>3, <3>1, FrontIs
    <3>3. Front(r) = p => Len(r) = Len(p) + 1 /\ IsPrefix(p, r)
      BY <3>1, <3>2
    <3> QED BY <2>1, <3>3
  <2> QED BY <1>2, <2>1, <2>2
<1>4. t \in RemoteTrees
  BY <1>2, <1>3 DEF RemoteTrees
<1> QED BY <1>4 DEF t

LEMMA TreeClears ==
  ASSUME NEW s \in RemoteTrees, NEW d \in Seq(STRING)
  PROVE  [p \in Places |-> IF IsPrefix(d, p) THEN "none" ELSE s[p]] \in RemoteTrees
<1> DEFINE t == [p \in Places |-> IF IsPrefix(d, p) THEN "none" ELSE s[p]]
<1>1. s \in [Places -> Kinds] /\ \A r \in Places : Len(r) > 1 /\ s[r] # "none"
      => s[Front(r)] = "dir"
  BY DEF RemoteTrees
<1>2. t \in [Places -> Kinds]
      /\ \A r \in Places : t[r] = IF IsPrefix(d, r) THEN "none" ELSE s[r]
  BY <1>1 DEF Kinds
<1> HIDE DEF t
<1>3. ASSUME NEW r \in Places, Len(r) > 1, t[r] # "none" PROVE t[Front(r)] = "dir"
  <2>1. ~IsPrefix(d, r) /\ s[r] # "none"
    BY <1>2, <1>3
  <2>2. s[Front(r)] = "dir" /\ Front(r) \in Places
    BY <1>1, <1>3, <2>1, PlacesAssumption
  <2>3. ~IsPrefix(d, Front(r))
    <3> SUFFICES ASSUME IsPrefix(d, Front(r)) PROVE FALSE
      OBVIOUS
    <3>1. r \in Seq(STRING) /\ Len(r) \in Nat
      BY PlacesAre
    <3>2. IsPrefix(Front(r), r) /\ Front(r) \in Seq(STRING)
      BY <1>3, <3>1, <2>2, FrontIs, PlacesAre
    <3>3. IsPrefix(d, r)
      BY <3>1, <3>2, PrefixAll
    <3> QED BY <2>1, <3>3
  <2> QED BY <1>2, <2>2, <2>3
<1>4. t \in RemoteTrees
  BY <1>2, <1>3 DEF RemoteTrees
<1> QED BY <1>4 DEF t

LEMMA TreeGains ==
  ASSUME NEW s \in RemoteTrees, NEW p \in Places, NEW k \in {"dir", "file"}, s[p] # "dir",
         Len(p) > 1 => s[Front(p)] = "dir"
  PROVE  [s EXCEPT ![p] = k] \in RemoteTrees
<1> DEFINE t == [s EXCEPT ![p] = k]
<1>1. s \in [Places -> Kinds] /\ \A r \in Places : Len(r) > 1 /\ s[r] # "none"
      => s[Front(r)] = "dir"
  BY DEF RemoteTrees
<1>2. t \in [Places -> Kinds] /\ \A r \in Places : t[r] = IF r = p THEN k ELSE s[r]
  BY <1>1 DEF Kinds
<1> HIDE DEF t
<1>3. ASSUME NEW r \in Places, Len(r) > 1, t[r] # "none" PROVE t[Front(r)] = "dir"
  <2>1. s[Front(r)] = "dir" /\ Front(r) \in Places
    BY <1>1, <1>2, <1>3, PlacesAssumption
  <2> QED BY <1>2, <2>1
<1>4. t \in RemoteTrees
  BY <1>2, <1>3 DEF RemoteTrees
<1> QED BY <1>4 DEF t

LEMMA TreeMoves ==
  ASSUME server \in RemoteTrees, NEW p \in Places, NEW q \in Places, server[q] = "none",
         Len(q) > 1,
         server[Front(q)] = "dir", ~IsPrefix(p, Front(q))
  PROVE  MovedTree(p, q) \in RemoteTrees
<1> DEFINE t == MovedTree(p, q)
<1>1. server \in [Places -> Kinds] /\ PathsOf(Places) /\ TreeOn(Places, server)
  BY PlacesArePaths DEF RemoteTrees
<1>2. t \in [Places -> Kinds]
      /\ \A r \in Places : t[r] = IF IsPrefix(q, r) /\ Origin(p, q, r) \in Places
                                  THEN server[Origin(p, q, r)]
                                  ELSE IF IsPrefix(p, r) THEN "none" ELSE server[r]
  <2>1. t = [r \in Places |-> IF IsPrefix(q, r) /\ Origin(p, q, r) \in Places
                              THEN server[Origin(p, q, r)]
                              ELSE IF IsPrefix(p, r) THEN "none" ELSE server[r]]
    BY DEF MovedTree, Origin
  <2> HIDE DEF t
  <2>2. "none" \in Kinds
    BY DEF Kinds
  <2>3. \A r \in Places : server[r] \in Kinds
    BY <1>1
  <2> QED BY <2>1, <2>2, <2>3
<1> HIDE DEF t
<1>3. server[q] # "dir" /\ (Len(q) > 1 => server[Front(q)] = "dir" /\ ~IsPrefix(p, Front(q)))
  OBVIOUS
<1>4. TreeOn(Places, t)
  BY <1>1, <1>2, <1>3, TreeMovesOn
<1>5. t \in RemoteTrees
  BY <1>2, <1>4 DEF RemoteTrees, TreeOn
<1> QED BY <1>5 DEF t

(* The recursion. *)

Stacks(f) == f \in Seq(Frame) /\ \A i \in DOMAIN f : f[i].new => f[i].kids = {}

\* The recursion goes on at the top, one deeper, or one higher.
Steps(f, g, s) ==
  /\ Stacks(g) /\ g # <<>> /\ g[1].at = f[1].at
  /\ Chained(f) => Chained(g)
  /\ Walked(f, s) => Walked(g, s)

LEMMA FrameIs ==
  ASSUME NEW f, Stacks(f), NEW i \in DOMAIN f
  PROVE  /\ f[i] \in Frame /\ f[i].at \in PlaceNames /\ f[i].at \in Seq(STRING)
         /\ f[i].new \in BOOLEAN
         /\ f[i].kids \subseteq STRING /\ (f[i].new => f[i].kids = {})
<1>1. f[i] \in Frame /\ (f[i].new => f[i].kids = {})
  BY DEF Stacks
<1>2. f[i].at \in PlaceNames /\ f[i].new \in BOOLEAN /\ f[i].kids \in SUBSET STRING
  BY <1>1, Zenon DEF Frame
<1>3. f[i].at \in Seq(STRING)
  BY <1>2 DEF PlaceNames
<1> QED BY <1>1, <1>2, <1>3

LEMMA TopIs ==
  ASSUME NEW f, Stacks(f), f # <<>>
  PROVE  Len(f) \in Nat \ {0} /\ DOMAIN f = 1..Len(f) /\ Len(f) \in DOMAIN f /\ 1 \in DOMAIN f
<1>1. f \in Seq(Frame)
  BY DEF Stacks
<1>2. Len(f) \in Nat \ {0} /\ DOMAIN f = 1..Len(f)
  BY <1>1
<1> QED BY <1>2

\* The top frame is another one, for the same path.
TopIsNow(f, g, x) ==
  /\ Stacks(g) /\ Len(g) = Len(f) /\ g # <<>> /\ DOMAIN g = DOMAIN f /\ g[Len(f)] = x
  /\ \A i \in DOMAIN f : g[i] = IF i = Len(f) THEN x ELSE f[i]
  /\ \A i \in DOMAIN f : g[i].at = f[i].at
  /\ Chained(f) => Chained(g)

LEMMA TopSet ==
  ASSUME NEW f, Stacks(f), f # <<>>, NEW x \in Frame, x.new = FALSE, x.at = f[Len(f)].at
  PROVE  TopIsNow(f, [f EXCEPT ![Len(f)] = x], x)
<1> DEFINE g == [f EXCEPT ![Len(f)] = x]
<1>0. g = [f EXCEPT ![Len(f)] = x]
  OBVIOUS
<1> HIDE DEF g
<1>1. f \in Seq(Frame) /\ Len(f) \in Nat \ {0} /\ DOMAIN f = 1..Len(f) /\ Len(f) \in DOMAIN f
  BY TopIs DEF Stacks
<1>2. g \in Seq(Frame) /\ Len(g) = Len(f) /\ DOMAIN g = DOMAIN f
  BY <1>0, <1>1
<1>3. \A i \in DOMAIN f : g[i] = IF i = Len(f) THEN x ELSE f[i]
  BY <1>0, <1>1
<1>4. \A i \in DOMAIN f : g[i].at = f[i].at
  BY <1>3
<1>5. Stacks(g)
  BY <1>2, <1>3 DEF Stacks
<1>6. ASSUME Chained(f) PROVE Chained(g)
  <2> SUFFICES ASSUME NEW i \in DOMAIN g, i > 1
               PROVE  /\ ~g[i - 1].new /\ IsPrefix(g[i - 1].at, g[i].at)
                      /\ Len(g[i].at) = Len(g[i - 1].at) + 1
    BY DEF Chained
  <2>1. i \in DOMAIN f /\ i - 1 \in DOMAIN f /\ i - 1 # Len(f)
    BY <1>1, <1>2
  <2>2. ~f[i - 1].new /\ IsPrefix(f[i - 1].at, f[i].at) /\ Len(f[i].at) = Len(f[i - 1].at) + 1
    BY <1>6, <2>1 DEF Chained
  <2>3. g[i - 1] = f[i - 1] /\ g[i].at = f[i].at
    BY <1>3, <1>4, <2>1
  <2> QED BY <2>2, <2>3
<1> QED BY <1>0, <1>1, <1>2, <1>3, <1>4, <1>5, <1>6 DEF TopIsNow

\* A directory was looked into.
LEMMA LeftSteps ==
  ASSUME NEW f, Stacks(f), f # <<>>, NEW K \in SUBSET STRING, NEW s,
         ~(f[Len(f)].at \in Places /\ s[f[Len(f)].at] = "link")
  PROVE  Steps(f, [f EXCEPT ![Len(f)] = [at |-> f[Len(f)].at, new |-> FALSE, kids |-> K]], s)
<1> DEFINE x == [at |-> f[Len(f)].at, new |-> FALSE, kids |-> K]
           g == [f EXCEPT ![Len(f)] = x]
<1>1. Len(f) \in Nat \ {0} /\ DOMAIN f = 1..Len(f) /\ Len(f) \in DOMAIN f /\ 1 \in DOMAIN f
  BY TopIs
<1>2. f[Len(f)].at \in PlaceNames
  BY <1>1, FrameIs
<1>3. x \in Frame /\ x.new = FALSE /\ x.at = f[Len(f)].at
  BY <1>2 DEF Frame
<1>4. g = [f EXCEPT ![Len(f)] = x]
  OBVIOUS
<1> HIDE DEF x, g
<1>5. /\ Stacks(g) /\ Len(g) = Len(f) /\ g # <<>> /\ DOMAIN g = DOMAIN f
      /\ \A i \in DOMAIN f : g[i] = IF i = Len(f) THEN x ELSE f[i]
      /\ \A i \in DOMAIN f : g[i].at = f[i].at
      /\ Chained(f) => Chained(g)
  <2>1. TopIsNow(f, [f EXCEPT ![Len(f)] = x], x)
    BY <1>3, TopSet, Zenon
  <2> QED BY <1>4, <2>1 DEF TopIsNow
<1>6. ASSUME Walked(f, s) PROVE Walked(g, s)
  <2> SUFFICES ASSUME NEW i \in DOMAIN f, ~g[i].new
               PROVE  ~(f[i].at \in Places /\ s[f[i].at] = "link")
    BY <1>5 DEF Walked
  <2>1. i # Len(f) => ~f[i].new
    BY <1>5
  <2> QED BY <1>6, <2>1 DEF Walked
<1> QED BY <1>1, <1>5, <1>6 DEF Steps, g, x

\* A frame is put on top, or the top one taken off.
LEMMA PushSteps ==
  ASSUME NEW f, Stacks(f), f # <<>>, ~f[Len(f)].new, NEW n \in STRING, NEW s
  PROVE  Steps(f, Append(f, Visit(Append(f[Len(f)].at, n))), s)
<1> DEFINE v == Visit(Append(f[Len(f)].at, n))
           g == Append(f, v)
           a == f[Len(f)].at
<1>1. Len(f) \in Nat \ {0} /\ DOMAIN f = 1..Len(f) /\ Len(f) \in DOMAIN f /\ 1 \in DOMAIN f
      /\ f \in Seq(Frame)
  BY TopIs DEF Stacks
<1>2. a \in Seq(STRING)
  BY <1>1, FrameIs
<1>3. v.at = Append(a, n) /\ v.new = TRUE /\ v.kids = {}
      /\ v = [at |-> v.at, new |-> TRUE, kids |-> {}]
  BY DEF Visit
<1> HIDE DEF v
<1>4. v.at \in PlaceNames /\ IsPrefix(a, v.at) /\ Len(v.at) = Len(a) + 1
  <2> DEFINE b == Append(a, n)
  <2>1. b \in Seq(STRING) /\ Len(b) = Len(a) + 1 /\ \A i \in 1..Len(a) : b[i] = a[i]
    BY <1>2
  <2>2. v.at = b
    BY <1>3
  <2> HIDE DEF a, b
  <2>3. b # <<>> /\ Len(a) <= Len(b) /\ Len(a) \in Nat
    BY <1>2, <2>1
  <2>4. IsPrefix(a, b)
    BY <1>2, <2>1, <2>3, PrefixIs
  <2> QED BY <2>1, <2>2, <2>3, <2>4 DEF PlaceNames
<1>5. v \in Frame
  BY <1>3, <1>4 DEF Frame
<1>6. g \in Seq(Frame) /\ Len(g) = Len(f) + 1 /\ \A i \in DOMAIN f : g[i] = f[i]
  BY <1>1, <1>5
<1>7. g[Len(f) + 1] = v
  BY <1>1, <1>5
<1> HIDE DEF g
<1>8. DOMAIN g = 1..(Len(f) + 1) /\ g # <<>>
  BY <1>1, <1>6
<1>9. \A i \in DOMAIN g : i = Len(f) + 1 \/ i \in DOMAIN f
  BY <1>1, <1>8
<1>10. Stacks(g)
  BY <1>3, <1>6, <1>7, <1>9 DEF Stacks
<1>11. ASSUME Chained(f) PROVE Chained(g)
  <2> SUFFICES ASSUME NEW i \in DOMAIN g, i > 1
               PROVE  /\ ~g[i - 1].new /\ IsPrefix(g[i - 1].at, g[i].at)
                      /\ Len(g[i].at) = Len(g[i - 1].at) + 1
    BY DEF Chained
  <2>1. CASE i = Len(f) + 1
    <3>1. i - 1 = Len(f)
      BY <1>1, <2>1
    <3>2. g[i] = v /\ g[i - 1] = f[Len(f)]
      BY <1>1, <1>6, <1>7, <2>1, <3>1
    <3> QED BY <1>4, <3>2
  <2>2. CASE i \in DOMAIN f
    <3>1. i - 1 \in DOMAIN f
      BY <1>1, <2>2
    <3>2. ~f[i - 1].new /\ IsPrefix(f[i - 1].at, f[i].at) /\ Len(f[i].at) = Len(f[i - 1].at) + 1
      BY <1>11, <2>2 DEF Chained
    <3> QED BY <1>6, <2>2, <3>1, <3>2
  <2> QED BY <1>9, <2>1, <2>2
<1>12. ASSUME Walked(f, s) PROVE Walked(g, s)
  <2> SUFFICES ASSUME NEW i \in DOMAIN g, ~g[i].new
               PROVE  ~(g[i].at \in Places /\ s[g[i].at] = "link")
    BY DEF Walked
  <2>1. i \in DOMAIN f
    BY <1>3, <1>7, <1>9
  <2> QED BY <1>6, <1>12, <2>1 DEF Walked
<1> QED BY <1>1, <1>6, <1>8, <1>10, <1>11, <1>12 DEF Steps, g, v

LEMMA DescendSteps ==
  ASSUME NEW f, Stacks(f), f # <<>>, NEW n \in f[Len(f)].kids, NEW s
  PROVE  Steps(f, Append([f EXCEPT ![Len(f)].kids = @ \ {n}], Visit(Append(f[Len(f)].at, n))),
    s)
<1> DEFINE x == [f[Len(f)] EXCEPT !.kids = @ \ {n}]
           g == [f EXCEPT ![Len(f)] = x]
<1>1. Len(f) \in Nat \ {0} /\ DOMAIN f = 1..Len(f) /\ Len(f) \in DOMAIN f /\ 1 \in DOMAIN f
      /\ f \in Seq(Frame)
  BY TopIs DEF Stacks
<1>2. /\ f[Len(f)] \in Frame /\ f[Len(f)].at \in PlaceNames /\ f[Len(f)].new \in BOOLEAN
      /\ f[Len(f)].kids \subseteq STRING /\ (f[Len(f)].new => f[Len(f)].kids = {})
  BY <1>1, FrameIs
<1>3. f[Len(f)].new = FALSE /\ n \in STRING
  BY <1>2
<1>4. x \in Frame /\ x.new = FALSE /\ x.at = f[Len(f)].at
  BY <1>2, <1>3 DEF Frame
<1>5. g = [f EXCEPT ![Len(f)].kids = @ \ {n}]
  BY <1>1
<1>6. g = [f EXCEPT ![Len(f)] = x]
  OBVIOUS
<1> HIDE DEF x, g
<1>7. /\ Stacks(g) /\ Len(g) = Len(f) /\ g # <<>> /\ DOMAIN g = DOMAIN f /\ g[Len(f)] = x
      /\ \A i \in DOMAIN f : g[i] = IF i = Len(f) THEN x ELSE f[i]
      /\ \A i \in DOMAIN f : g[i].at = f[i].at
      /\ Chained(f) => Chained(g)
  <2>1. TopIsNow(f, [f EXCEPT ![Len(f)] = x], x)
    BY <1>4, TopSet, Zenon
  <2> QED BY <1>6, <2>1 DEF TopIsNow
<1>8. ~g[Len(g)].new /\ g[Len(g)].at = f[Len(f)].at
  BY <1>4, <1>7
<1>9. Steps(g, Append(g, Visit(Append(g[Len(g)].at, n))), s)
  BY <1>3, <1>7, <1>8, PushSteps
<1>10. ASSUME Walked(f, s) PROVE Walked(g, s)
  <2> SUFFICES ASSUME NEW i \in DOMAIN f, ~g[i].new
               PROVE  ~(f[i].at \in Places /\ s[f[i].at] = "link")
    BY <1>7 DEF Walked
  <2>1. ~f[i].new
    BY <1>3, <1>7
  <2> QED BY <1>10, <2>1 DEF Walked
<1>11. g[1].at = f[1].at
  BY <1>1, <1>7
<1> QED BY <1>5, <1>7, <1>8, <1>9, <1>10, <1>11 DEF Steps

LEMMA FrontSteps ==
  ASSUME NEW f, Stacks(f), Len(f) # 1, f # <<>>, NEW s
  PROVE  Steps(f, Front(f), s)
<1> DEFINE g == Front(f)
<1>1. Len(f) \in Nat \ {0} /\ DOMAIN f = 1..Len(f) /\ 1 \in DOMAIN f /\ f \in Seq(Frame)
  BY TopIs DEF Stacks
<1>2. Len(f) > 0
  BY <1>1
<1>3. g \in Seq(Frame) /\ Len(g) = Len(f) - 1 /\ \A i \in 1..(Len(f) - 1) : g[i] = f[i]
  BY <1>1, <1>2, FrontIs, Zenon
<1> HIDE DEF g
<1>4. DOMAIN g = 1..(Len(f) - 1) /\ g # <<>> /\ 1 \in DOMAIN g /\ DOMAIN g \subseteq DOMAIN f
  BY <1>1, <1>3
<1>5. \A i \in DOMAIN g : g[i] = f[i]
  BY <1>3, <1>4
<1>6. Stacks(g)
  BY <1>3, <1>4, <1>5 DEF Stacks
<1>7. ASSUME Chained(f) PROVE Chained(g)
  <2> SUFFICES ASSUME NEW i \in DOMAIN g, i > 1
               PROVE  /\ ~g[i - 1].new /\ IsPrefix(g[i - 1].at, g[i].at)
                      /\ Len(g[i].at) = Len(g[i - 1].at) + 1
    BY DEF Chained
  <2>1. i - 1 \in DOMAIN g
    BY <1>1, <1>4
  <2>2. ~f[i - 1].new /\ IsPrefix(f[i - 1].at, f[i].at) /\ Len(f[i].at) = Len(f[i - 1].at) + 1
    BY <1>4, <1>7 DEF Chained
  <2> QED BY <1>5, <2>1, <2>2
<1>8. Walked(f, s) => Walked(g, s)
  BY <1>4, <1>5 DEF Walked
<1> QED BY <1>4, <1>5, <1>6, <1>7, <1>8 DEF Steps, g

LEMMA VisitStacks ==
  ASSUME NEW h \in Places, NEW s
  PROVE  /\ Stacks(<<Visit(h)>>) /\ <<Visit(h)>> # <<>> /\ <<Visit(h)>>[1].at = h
         /\ Chained(<<Visit(h)>>) /\ Walked(<<Visit(h)>>, s)
<1> DEFINE v == Visit(h)
<1>1. v.at = h /\ v.new = TRUE /\ v.kids = {} /\ v = [at |-> h, new |-> TRUE, kids |-> {}]
  BY DEF Visit
<1>2. h \in PlaceNames
  BY PlacesAre
<1>3. v \in Frame
  BY <1>1, <1>2 DEF Frame
<1> HIDE DEF v
<1> DEFINE g == <<v>>
<1>4. g \in Seq(Frame) /\ DOMAIN g = {1} /\ g[1] = v /\ g # <<>>
  BY <1>3
<1> HIDE DEF g
<1>5. Stacks(g) /\ Chained(g) /\ Walked(g, s)
  BY <1>1, <1>4 DEF Stacks, Chained, Walked
<1> QED BY <1>1, <1>4, <1>5 DEF g, v

\* The frames of a chain are the directories above the top one.
LEMMA ChainIs ==
  ASSUME NEW f, Stacks(f), f # <<>>, Chained(f)
  PROVE  /\ Len(f[Len(f)].at) = Len(f[1].at) + Len(f) - 1
         /\ IsPrefix(f[1].at, f[Len(f)].at)
         /\ \A i \in DOMAIN f : f[i].at = SubSeq(f[Len(f)].at, 1, Len(f[1].at) + i - 1)
<1> DEFINE m == Len(f)
           a == f[m].at
           In(i) == Len(f[i].at) = Len(a) - (m - i) /\ IsPrefix(f[i].at, a)
           S == {i \in 1..m : \A k \in i..m : In(k)}
<1>1. m \in Nat \ {0} /\ DOMAIN f = 1..m
  BY TopIs
<1>2. \A i \in 1..m : f[i].at \in Seq(STRING) /\ Len(f[i].at) \in Nat
  <2> SUFFICES ASSUME NEW i \in 1..m PROVE f[i].at \in Seq(STRING) /\ Len(f[i].at) \in Nat
    OBVIOUS
  <2>1. i \in DOMAIN f
    BY <1>1
  <2>2. f[i].at \in Seq(STRING)
    BY <2>1, FrameIs
  <2> QED BY <2>2
<1>3. \A i \in 1..m : i > 1 => IsPrefix(f[i - 1].at, f[i].at)
      /\ Len(f[i].at) = Len(f[i - 1].at) + 1
  BY <1>1 DEF Chained
<1>4. m \in 1..m
  BY <1>1
<1> HIDE DEF m
<1>5. a \in Seq(STRING) /\ Len(a) \in Nat
  BY <1>2, <1>4
<1>6. In(m)
  <2>1. Len(a) = Len(a) - (m - m)
    BY <1>1, <1>5
  <2> QED BY <1>5, <2>1, PrefixAll
<1> HIDE DEF In
<1>7. S \in SUBSET Nat /\ m \in S
  <2>1. \A k \in m..m : k = m
    BY <1>1
  <2> QED BY <1>1, <1>6, <2>1
<1>8. PICK i \in S : \A k \in S : i <= k
  BY <1>7, LeastNat
<1>9. i \in 1..m /\ \A k \in i..m : In(k)
  BY <1>8
<1>10. i = 1
  <2> SUFFICES ASSUME i # 1 PROVE FALSE
    OBVIOUS
  <2>1. i > 1 /\ i \in i..m /\ i - 1 \in 1..m
    BY <1>1, <1>9
  <2>2. /\ IsPrefix(f[i - 1].at, f[i].at) /\ Len(f[i].at) = Len(f[i - 1].at) + 1
        /\ Len(f[i].at) = Len(a) - (m - i) /\ IsPrefix(f[i].at, a)
    BY <1>3, <1>9, <2>1 DEF In
  <2>3. IsPrefix(f[i - 1].at, a)
    BY <1>2, <1>5, <1>9, <2>1, <2>2, PrefixAll
  <2>4. Len(f[i - 1].at) = Len(a) - (m - (i - 1))
    <3>1. Len(f[i - 1].at) \in Nat /\ Len(f[i].at) \in Nat
      BY <1>2, <1>9, <2>1
    <3>2. i \in Nat /\ m \in Nat
      BY <1>1, <1>9
    <3> DEFINE x == Len(f[i].at)
               y == Len(f[i - 1].at)
               l == Len(a)
    <3>3. x = y + 1 /\ x = l - (m - i) /\ x \in Nat /\ y \in Nat /\ l \in Nat
      BY <1>5, <2>2, <3>1
    <3> HIDE DEF x, y, l
    <3>4. y = l - (m - (i - 1))
      BY <3>2, <3>3
    <3> QED BY <3>4 DEF y, l
  <2>5. In(i - 1)
    BY <2>3, <2>4 DEF In
  <2>6. \A k \in (i - 1)..m : In(k)
    <3> SUFFICES ASSUME NEW k \in (i - 1)..m PROVE In(k)
      OBVIOUS
    <3>1. k = i - 1 \/ k \in i..m
      BY <1>1, <1>9
    <3> QED BY <1>9, <2>5, <3>1
  <2>7. i - 1 \in S
    BY <2>1, <2>6
  <2> QED BY <1>8, <1>9, <2>1, <2>7
<1>11. \A k \in 1..m : Len(f[k].at) = Len(a) - (m - k) /\ IsPrefix(f[k].at, a)
  BY <1>9, <1>10 DEF In
<1>12. 1 \in 1..m
  BY <1>1
<1>13. Len(a) = Len(f[1].at) + m - 1
  BY <1>1, <1>2, <1>5, <1>11, <1>12
<1>14. ASSUME NEW k \in 1..m PROVE f[k].at = SubSeq(a, 1, Len(f[1].at) + k - 1)
  <2>1. f[k].at = SubSeq(a, 1, Len(f[k].at))
    BY <1>2, <1>5, <1>11, PrefixIsBeginning
  <2>2. Len(f[k].at) = Len(f[1].at) + k - 1
    <3>1. Len(f[k].at) = Len(a) - (m - k) /\ Len(f[1].at) \in Nat /\ k \in Nat /\ m \in Nat
      BY <1>1, <1>2, <1>11, <1>12
    <3> QED BY <1>5, <1>13, <3>1
  <2> QED BY <2>1, <2>2
<1> QED BY <1>1, <1>11, <1>12, <1>13, <1>14 DEF m

(* What the server says. *)

LEMMA KindIs ==
  ASSUME server \in RemoteTrees, NEW p
  PROVE  Kind(p) \in Kinds /\ (Kind(p) # "none" => Resolved(p) \in Places
    /\ server[Resolved(p)] = Kind(p))
BY DEF Kind, Kinds, RemoteTrees

LEMMA AskedIs ==
  ASSUME server \in RemoteTrees, NEW p
  PROVE  /\ Asked(p) \in {"none", "dir", "file"}
         /\ Asked(p) = "none" => Kind(p) = "none" \/ (Kind(p) = "link" /\ follows)
         /\ Asked(p) = "dir" => Kind(p) = "dir" \/ (Kind(p) = "link" /\ follows)
         /\ Asked(p) = "file" => Kind(p) = "file" \/ Kind(p) = "link"
<1>1. Kind(p) \in Kinds
  BY KindIs
<1> DEFINE missing == Kind(p) = "none" \/ (Kind(p) = "link" /\ follows
  /\ server[LinkedDir] = "none")
           folder == Kind(p) = "dir" \/ (Kind(p) = "link" /\ follows
             /\ server[LinkedDir] = "dir")
<1>2. CASE missing
  <2>1. ~folder
    BY <1>2
  <2>2. Asked(p) = "none"
    BY <1>2, <2>1 DEF Asked
  <2> QED BY <1>2, <2>2
<1>3. CASE folder
  <2>1. ~missing
    BY <1>3
  <2>2. Asked(p) = "dir"
    BY <1>3, <2>1 DEF Asked
  <2> QED BY <1>3, <2>2
<1>4. CASE ~missing /\ ~folder
  <2>1. Asked(p) = "file"
    BY <1>4 DEF Asked
  <2> QED BY <1>1, <1>4, <2>1 DEF Kinds
<1> QED BY <1>2, <1>3, <1>4

\* The names in a directory.
LEMMA NamesAre ==
  ASSUME NEW S \in SUBSET Places
  PROVE  /\ {q[Len(q)] : q \in S} \subseteq STRING /\ IsFiniteSet({q[Len(q)] : q \in S})
         /\ {q[1] : q \in S} \subseteq STRING /\ IsFiniteSet({q[1] : q \in S})
<1>1. IsFiniteSet(S)
  BY PlacesAssumption, FS_Subset
<1>2. \A q \in S : q[Len(q)] \in STRING /\ q[1] \in STRING
  <2> SUFFICES ASSUME NEW q \in S PROVE q[Len(q)] \in STRING /\ q[1] \in STRING
    OBVIOUS
  <2>1. q \in Seq(STRING) /\ Len(q) \in Nat \ {0}
    BY PlacesAre
  <2> QED BY <2>1
<1> DEFINE X == {q[Len(q)] : q \in S}
           Y == {q[1] : q \in S}
           f == [q \in S |-> q[Len(q)]]
           g == [q \in S |-> q[1]]
<1>3. f \in Surjection(S, X) /\ g \in Surjection(S, Y)
  BY DEF Surjection
<1>4. IsFiniteSet(X) /\ IsFiniteSet(Y)
  BY <1>1, <1>3, FS_Surjection
<1> QED BY <1>2, <1>4

LEMMA ListedIs ==
  ASSUME NEW p
  PROVE  Listed(p) \subseteq STRING /\ IsFiniteSet(Listed(p))
<1> DEFINE d == IF Kind(p) = "link" THEN LinkedDir ELSE Resolved(p)
           S == {r \in Places : Len(r) = Len(d) + 1 /\ IsPrefix(d, r) /\ server[r] # "none"}
<1>1. S \in SUBSET Places
  OBVIOUS
<1>2. Listed(p) = {q[Len(q)] : q \in S}
  BY DEF Listed, Directory
<1> HIDE DEF S
<1> QED BY <1>1, <1>2, NamesAre

\* Nothing is in an empty directory.
LEMMA EmptyIs ==
  ASSUME NEW p, Kind(p) = "dir", Empty(p), NEW r \in Places, Len(r) = Len(Resolved(p)) + 1,
         IsPrefix(Resolved(p), r)
  PROVE  server[r] = "none"
<1>1. Listed(p) = {q[Len(q)] : q \in {x \in Places : Len(x) = Len(Resolved(p)) + 1
                                                      /\ IsPrefix(Resolved(p), x)
                                                      /\ server[x] # "none"}}
  BY DEF Listed, Directory
<1>2. Listed(p) = {}
  BY DEF Empty
<1> QED BY <1>1, <1>2

\* A path that is not a place leads nowhere new.
LEMMA SetIs ==
  ASSUME server \in RemoteTrees, NEW p, NEW k, Set(p, k)
  PROVE  /\ Resolved(p) \notin Places => server' = server
         /\ Resolved(p) \in Places => server' = [server EXCEPT ![Resolved(p)] = k]
         /\ \A r \in Places : server'[r] = IF r = Resolved(p) THEN k ELSE server[r]
<1>1. server \in [Places -> Kinds] /\ server' = [server EXCEPT ![Resolved(p)] = k]
  BY DEF RemoteTrees, Set
<1> QED BY <1>1

\* A removal leaves a tree.
LEMMA RemovalKeepsTree ==
  ASSUME server \in RemoteTrees, NEW p, Set(p, "none"), Kind(p) # "none",
         Kind(p) = "dir" => Empty(p)
  PROVE  /\ server' \in RemoteTrees /\ Resolved(p) \in Places
         /\ \A r \in Places : server'[r] = IF r = Resolved(p) THEN "none" ELSE server[r]
<1>1. Kind(p) \in Kinds /\ Resolved(p) \in Places /\ server[Resolved(p)] = Kind(p)
  BY KindIs
<1>2. server' = [server EXCEPT ![Resolved(p)] = "none"]
      /\ \A r \in Places : server'[r] = IF r = Resolved(p) THEN "none" ELSE server[r]
  BY <1>1, SetIs
<1> DEFINE d == Resolved(p)
<1>3. ASSUME NEW r \in Places, Len(r) = Len(d) + 1, IsPrefix(d, r) PROVE server[r] = "none"
  <2>1. CASE Kind(p) = "dir"
    BY <1>3, <2>1, EmptyIs
  <2>2. CASE Kind(p) # "dir"
    <3>1. d \in Seq(STRING) /\ d # <<>> /\ Len(d) \in Nat
      BY <1>1, PlacesAre
    <3>2. d # r
      BY <1>3, <3>1
    <3> QED BY <1>1, <1>3, <2>2, <3>1, <3>2, NothingBelow
  <2> QED BY <2>1, <2>2
<1>4. [server EXCEPT ![d] = "none"] \in RemoteTrees
  <2> HIDE DEF d
  <2> QED BY <1>1, <1>3, TreeLoses DEF d
<1> QED BY <1>1, <1>2, <1>4

(* Deleting. *)

\* What the top frame is at was named by the selection, or is what a link of the
\* selection leads to.
LEMMA TopIsRemovable ==
  ASSUME RemoteTypes, DeleteRuns, lent = "delete", frames # <<>>,
         Resolved(Top.at) \in Places, server[Resolved(Top.at)] # "none"
  PROVE  Removable(Resolved(Top.at))
<1> DEFINE a == Top.at
           h == entries[1]
           m == Len(frames)
<1>1. /\ server \in RemoteTrees /\ firstServer \in RemoteTrees /\ Stacks(frames)
      /\ entries \in Seq(Places)
  BY DEF RemoteTypes, Stacks
<1>2. /\ entries # <<>> /\ frames[1].at = h /\ Chained(frames)
      /\ \A i \in DOMAIN entries : \E k \in DOMAIN picked : picked[k] = entries[i]
      /\ \A p \in Places : server[p] \in {firstServer[p], "none", "file"}
      /\ ~follows => Walked(frames, server)
  BY DEF DeleteRuns, RemoteTypes
<1>3. 1 \in DOMAIN entries /\ h \in Places
  BY <1>1, <1>2
<1>4. m \in Nat \ {0} /\ DOMAIN frames = 1..m /\ m \in DOMAIN frames
  BY <1>1, TopIs
<1>5. a \in PlaceNames /\ a = frames[m].at
  BY <1>1, <1>4, FrameIs DEF Top
<1>6. /\ Len(a) = Len(h) + m - 1 /\ IsPrefix(h, a)
      /\ \A i \in DOMAIN frames : frames[i].at = SubSeq(a, 1, Len(h) + i - 1)
  <2>1. /\ Len(frames[Len(frames)].at) = Len(frames[1].at) + Len(frames) - 1
        /\ IsPrefix(frames[1].at, frames[Len(frames)].at)
        /\ \A i \in DOMAIN frames :
             frames[i].at = SubSeq(frames[Len(frames)].at, 1, Len(frames[1].at) + i - 1)
    BY <1>1, <1>2, ChainIs, Zenon
  <2>2. frames[1].at = h /\ frames[Len(frames)].at = a /\ Len(frames) = m
    BY <1>2 DEF Top
  <2> QED BY <2>1, <2>2, Zenon
<1>7. \A i \in 1..m : i > 1 => ~frames[i - 1].new
  BY <1>2, <1>4 DEF Chained
<1> HIDE DEF a, h, m
<1>8. ASSUME ~follows, NEW j \in Len(h)..(Len(a) - 1)
      PROVE  ~(SubSeq(a, 1, j) \in Places /\ server[SubSeq(a, 1, j)] = "link")
  <2>0. Len(h) \in Nat /\ Len(a) \in Nat
    BY <1>3, <1>5, PlacesAre DEF PlaceNames
  <2> DEFINE i == j - Len(h) + 1
  <2>1. i \in 1..m /\ i + 1 \in 1..m /\ i + 1 > 1 /\ (i + 1) - 1 = i /\ Len(h) + i - 1 = j
    BY <1>4, <1>6, <2>0
  <2> HIDE DEF i
  <2>2. ~frames[i].new
    BY <1>7, <2>1
  <2>3. frames[i].at = SubSeq(a, 1, j)
    <3>1. frames[i].at = SubSeq(a, 1, Len(h) + i - 1)
      BY <1>4, <1>6, <2>1
    <3> QED BY <2>1, <3>1
  <2> QED BY <1>2, <1>4, <1>8, <2>1, <2>2, <2>3 DEF Walked
<1>9. Resolved(a) \in Places /\ server[Resolved(a)] # "none"
  BY DEF a
<1>10. PICK k \in DOMAIN picked : picked[k] = h
  BY <1>2, <1>3 DEF h
<1> DEFINE Link(j) == SubSeq(a, 1, j) \in Places /\ server[SubSeq(a, 1, j)] = "link"
<1>11. CASE \A j \in Len(h)..(Len(a) - 1) : ~Link(j)
  <2>1. IsPrefix(ResolvedOn(firstServer, h), ResolvedOn(server, a))
    BY <1>1, <1>2, <1>3, <1>5, <1>6, <1>9, <1>11, StaysBelow DEF Resolved
  <2>2. Selected(Resolved(a))
    BY <1>10, <2>1 DEF Selected, Resolved
  <2> QED BY <2>2 DEF a, Removable
<1>12. CASE ~(\A j \in Len(h)..(Len(a) - 1) : ~Link(j))
  <2>1. PICK j \in Len(h)..(Len(a) - 1) : Link(j)
    BY <1>12
  <2>2. follows
    BY <1>8, <2>1
  <2> DEFINE q == SubSeq(a, 1, j)
  <2>3. q \in Places /\ server[q] = "link"
    BY <2>1
  <2>4. /\ Len(h) \in Nat \ {0} /\ Len(a) \in Nat /\ a \in Seq(STRING) /\ h \in Seq(STRING)
        /\ j \in 1..(Len(a) - 1) /\ j \in 0..Len(a)
    <3>1. Len(h) \in Nat \ {0} /\ Len(a) \in Nat /\ a \in Seq(STRING) /\ h \in Seq(STRING)
      BY <1>3, <1>5, PlacesAre DEF PlaceNames
    <3> QED BY <3>1
  <2>5. q \in Seq(STRING) /\ Len(q) = j /\ IsPrefix(q, a)
    BY <2>4, BeginningIs
  <2>6. q \in PlaceNames
    BY <2>3, PlacesAre
  <2> HIDE DEF q
  <2>7. IsPrefix(h, q)
    BY <1>6, <2>4, <2>5, PrefixAll
  <2>8. \A i \in 1..(Len(q) - 1) : server[SubSeq(q, 1, i)] = "dir"
    BY <1>1, <2>3, AboveDirs
  <2>9. Links(server, q) = {} /\ ResolvedOn(server, q) = q
    <3>1. Links(server, q) = {}
      BY <2>8 DEF Links
    <3> QED BY <3>1, NoLinkResolved
  <2>10. \A i \in Len(h)..(Len(q) - 1) :
            ~(SubSeq(q, 1, i) \in Places /\ server[SubSeq(q, 1, i)] = "link")
    BY <2>4, <2>5, <2>8
  <2>11. IsPrefix(ResolvedOn(firstServer, h), q)
    BY <1>1, <1>2, <1>3, <2>3, <2>6, <2>7, <2>9, <2>10, StaysBelow
  <2>12. Selected(q)
    BY <1>10, <2>11 DEF Selected
  <2>13. firstServer[q] = "link"
    BY <1>2, <2>3
  <2>14. j \in Links(server, a)
    BY <2>3, <2>4 DEF Links, q
  <2>15. IsPrefix(LinkedDir, Resolved(a)) /\ Resolved(a) # LinkedDir
    <3>1. /\ Resolved(a) \in PlaceNames
          /\ Len(Resolved(a)) = Len(LinkedDir) + Len(a) - j
          /\ \A k2 \in 1..Len(Resolved(a)) :
               Resolved(a)[k2] = IF k2 <= Len(LinkedDir) THEN LinkedDir[k2]
                                 ELSE a[k2 - Len(LinkedDir) + j]
      BY <1>1, <1>5, <2>14, LinkResolved DEF Resolved
    <3>2. LinkedDir \in Seq(STRING) /\ Len(LinkedDir) \in Nat
      BY PlacesAssumption, PlacesAre
    <3> DEFINE r == Resolved(a)
    <3> HIDE DEF r
    <3>3. r \in Seq(STRING)
      BY <3>1 DEF r, PlaceNames
    <3>4. Len(r) > Len(LinkedDir) /\ \A k2 \in 1..Len(LinkedDir) : r[k2] = LinkedDir[k2]
      BY <2>4, <3>1, <3>2 DEF r
    <3>5. IsPrefix(LinkedDir, r) /\ r # LinkedDir
      BY <3>2, <3>3, <3>4, PrefixIs
    <3> QED BY <3>5 DEF r
  <2>16. ThroughLink(Resolved(a))
    BY <2>2, <2>3, <2>12, <2>13, <2>15 DEF ThroughLink
  <2> QED BY <2>16 DEF a, Removable
<1> QED BY <1>11, <1>12

\* What is below what may be removed may be removed.
LEMMA RemovableBelow ==
  ASSUME firstServer \in RemoteTrees, picked \in Seq(Places),
         NEW d \in Places, NEW q \in Places, IsPrefix(d, q), Removable(d)
  PROVE  Removable(q)
<1>1. d \in Seq(STRING) /\ q \in Seq(STRING) /\ LinkedDir \in Seq(STRING)
      /\ Len(LinkedDir) \in Nat /\ Len(d) \in Nat /\ Len(q) \in Nat
  BY PlacesAssumption, PlacesAre
<1>2. CASE Selected(d)
  <2>1. PICK i \in DOMAIN picked : IsPrefix(ResolvedOn(firstServer, picked[i]), d)
    BY <1>2 DEF Selected
  <2>2. ResolvedOn(firstServer, picked[i]) \in Seq(STRING)
    <3>1. picked[i] \in PlaceNames
      BY <2>1, PlacesAre
    <3> QED BY <3>1, ResolvedIs DEF PlaceNames
  <2>3. IsPrefix(ResolvedOn(firstServer, picked[i]), q)
    BY <1>1, <2>1, <2>2, PrefixAll
  <2> QED BY <2>1, <2>3 DEF Selected, Removable
<1>3. CASE ThroughLink(d)
  <2>1. follows /\ IsPrefix(LinkedDir, d) /\ d # LinkedDir
        /\ \E l \in Places : firstServer[l] = "link" /\ Selected(l)
    BY <1>3 DEF ThroughLink
  <2>2. IsPrefix(LinkedDir, q)
    BY <1>1, <2>1, PrefixAll
  <2>3. q # LinkedDir
    <3>1. Len(LinkedDir) <= Len(d) /\ Len(d) <= Len(q)
      BY <1>1, <2>1, PrefixIs
    <3>2. Len(d) # Len(LinkedDir)
      BY <1>1, <2>1, PrefixIs
    <3> QED BY <1>1, <3>1, <3>2
  <2> QED BY <2>1, <2>2, <2>3 DEF ThroughLink, Removable
<1> QED BY <1>2, <1>3 DEF Removable

\* What remove_dir finds in the directory may be removed.
LEMMA SweptIsRemovable ==
  ASSUME RemoteTypes, DeleteRuns, lent = "delete", frames # <<>>, Asked(Top.at) = "dir",
         NEW q \in Places, IsPrefix(Directory(Top.at), q), q # Directory(Top.at)
  PROVE  Removable(q)
<1>1. /\ server \in RemoteTrees /\ firstServer \in RemoteTrees /\ picked \in Seq(Places)
      /\ \A p \in Places : server[p] \in {firstServer[p], "none", "file"}
  BY DEF RemoteTypes, DeleteRuns
<1>2. Kind(Top.at) = "dir" \/ (Kind(Top.at) = "link" /\ follows)
  BY <1>1, AskedIs
<1>3. /\ Resolved(Top.at) \in Places /\ server[Resolved(Top.at)] = Kind(Top.at)
      /\ Removable(Resolved(Top.at))
  <2>1. Resolved(Top.at) \in Places /\ server[Resolved(Top.at)] = Kind(Top.at)
        /\ Kind(Top.at) # "none"
    BY <1>1, <1>2, KindIs
  <2> QED BY <2>1, TopIsRemovable
<1>4. CASE Kind(Top.at) = "dir"
  <2>1. IsPrefix(Resolved(Top.at), q)
    BY <1>4 DEF Directory
  <2> QED BY <1>1, <1>3, <2>1, RemovableBelow
<1>5. CASE Kind(Top.at) = "link" /\ follows
  <2>1. IsPrefix(LinkedDir, q) /\ q # LinkedDir
    BY <1>5 DEF Directory
  <2>2. \E l \in Places : firstServer[l] = "link" /\ Selected(l)
    <3>1. CASE Selected(Resolved(Top.at))
      BY <1>1, <1>3, <1>5, <3>1
    <3>2. CASE ThroughLink(Resolved(Top.at))
      BY <3>2 DEF ThroughLink
    <3> QED BY <1>3, <3>1, <3>2 DEF Removable
  <2> QED BY <1>5, <2>1, <2>2 DEF ThroughLink, Removable
<1> QED BY <1>2, <1>4, <1>5

\* Nothing of a delete is touched by the others, who add files.
LEMMA DeleteRests ==
  ASSUME RemoteTypes, DeleteRuns, DeletesInside, UNCHANGED opVars, follows' = follows,
         \A p \in Places : server'[p] = server[p] \/ (server[p] = "none" /\ server'[p] = "file")
  PROVE  DeleteRuns' /\ DeletesInside'
<1>0. /\ lent' = lent /\ entries' = entries /\ frames' = frames /\ picked' = picked
      /\ firstServer' = firstServer /\ follows' = follows
  BY DEF opVars
<1> SUFFICES ASSUME lent = "delete" PROVE DeleteRuns' /\ DeletesInside'
  BY <1>0 DEF DeleteRuns, DeletesInside
<1>1. /\ frames # <<>> => frames[1].at = entries[1]
      /\ Chained(frames)
      /\ \A i \in DOMAIN entries : \E k \in DOMAIN picked : picked[k] = entries[i]
      /\ \A p \in Places : server[p] \in {firstServer[p], "none", "file"}
      /\ ~follows => Walked(frames, server)
  BY DEF DeleteRuns
<1>2. \A p \in Places : server'[p] \in {firstServer[p], "none", "file"}
  BY <1>1
<1>3. ASSUME ~follows PROVE Walked(frames, server')
  <2>1. Walked(frames, server)
    BY <1>1, <1>3
  <2> QED BY <2>1 DEF Walked
<1>4. DeleteRuns'
  <2>1. Chained(frames)' /\ (~follows => Walked(frames, server)')
    BY <1>0, <1>1, <1>3
  <2> QED BY <1>0, <1>1, <1>2, <2>1 DEF DeleteRuns
<1>5. \A p : Selected(p)' = Selected(p) /\ ThroughLink(p)' = ThroughLink(p)
  BY <1>0 DEF Selected, ThroughLink
<1>6. DeletesInside'
  BY <1>0, <1>5 DEF DeletesInside
<1> QED BY <1>4, <1>6

\* A step of the delete removes at most what was selected.
LEMMA DeleteGoesOn ==
  ASSUME RemoteTypes, DeleteRuns, DeletesInside, lent = "delete",
         lent' = lent, picked' = picked, firstServer' = firstServer, follows' = follows,
         frames' # <<>> => frames'[1].at = entries'[1],
         Chained(frames'),
         \A i \in DOMAIN entries' : \E k \in DOMAIN entries : entries[k] = entries'[i],
         ~follows => Walked(frames', server),
         \A p \in Places : server'[p] = server[p] \/ (server'[p] = "none" /\ Removable(p))
  PROVE  DeleteRuns' /\ DeletesInside'
<1>1. /\ \A i \in DOMAIN entries : \E k \in DOMAIN picked : picked[k] = entries[i]
      /\ \A p \in Places : server[p] \in {firstServer[p], "none", "file"}
  BY DEF DeleteRuns
<1>2. \A p \in Places : server'[p] \in {firstServer[p], "none", "file"}
  BY <1>1
<1>3. ASSUME ~follows PROVE Walked(frames', server')
  <2>1. Walked(frames', server)
    BY <1>3
  <2> QED BY <2>1 DEF Walked
<1>4. \A i \in DOMAIN entries' : \E k \in DOMAIN picked' : picked'[k] = entries'[i]
  BY <1>1
<1>5. DeleteRuns'
  <2>1. Chained(frames)' /\ (~follows => Walked(frames, server)')
    BY <1>3
  <2> QED BY <1>2, <1>4, <2>1 DEF DeleteRuns
<1>6. \A p : Selected(p)' = Selected(p) /\ ThroughLink(p)' = ThroughLink(p)
  BY DEF Selected, ThroughLink
<1>7. DeletesInside'
  <2> SUFFICES ASSUME NEW p \in Places, firstServer[p] # "none", server'[p] = "none"
               PROVE  Removable(p)
    BY <1>6 DEF DeletesInside, Removable
  <2> QED BY DEF DeletesInside, Removable
<1> QED BY <1>5, <1>7

(* Searching. *)

SearchRests ==
  /\ UNCHANGED searchVars
  /\ present' \subseteq present /\ \A p \in present' : server'[p] # "none"

LEMMA SearchKeeps ==
  ASSUME SearchRuns, SearchRests
  PROVE  SearchRuns'
<1>1. /\ scan' = scan /\ scanQueue' = scanQueue /\ matches' = matches /\ flags' = flags
      /\ searchCancelled' = searchCancelled
      /\ present' \subseteq present /\ \A p \in present' : server'[p] # "none"
  BY DEF SearchRests, searchVars
<1>2. \A p : Found(p)' = Found(p) /\ Awaited(p)' = Awaited(p)
  BY <1>1 DEF Found, Awaited
<1> QED BY <1>1, <1>2 DEF SearchRuns

\* The names of a folder that is searched, and the paths made of them.
NamesIn(d) ==
  IF d = <<>> THEN {p[1] : p \in {q \in Places : Len(q) = 1 /\ server[q] # "none"}}
    ELSE Listed(d)
Hits(d, ns) == {Append(d, n) : n \in ns \cap Matching}
Subs(d, ns) == {Append(d, n) : n \in {m \in ns : Kind(Append(d, m)) = "dir"}}

LEMMA FolderListedIs ==
  ASSUME NEW d, FolderListed(d)
  PROVE  \E ns \in SUBSET NamesIn(d) :
           /\ ~searchCancelled => ns = NamesIn(d)
           /\ matches' = matches \cup Hits(d, ns)
           /\ flags' = IF Cardinality(matches') >= MaxMatches THEN flags \cup {"truncated"}
                       ELSE flags
           /\ scanQueue' = Tail(scanQueue) \o (IF Len(d) + 1 < SearchDepth
                                               THEN SetToSeq(Subs(d, ns)) ELSE <<>>)
           /\ scan' = scan
<1>1. PICK ns \in IF searchCancelled THEN SUBSET NamesIn(d) ELSE {NamesIn(d)} :
           /\ matches' = matches \cup Hits(d, ns)
           /\ flags' = IF Cardinality(matches') >= MaxMatches THEN flags \cup {"truncated"}
                       ELSE flags
           /\ scanQueue' = Tail(scanQueue) \o (IF Len(d) + 1 < SearchDepth
                                               THEN SetToSeq(Subs(d, ns)) ELSE <<>>)
           /\ scan' = scan
  BY Zenon DEF FolderListed, NamesIn, Hits, Subs
<1>2. ns \in SUBSET NamesIn(d) /\ (~searchCancelled => ns = NamesIn(d))
  BY Zenon
<1> QED BY <1>1, <1>2, Zenon

LEMMA NamesInAre ==
  ASSUME NEW d \in Seq(STRING), NEW ns \in SUBSET NamesIn(d)
  PROVE  /\ ns \subseteq STRING
         /\ Subs(d, ns) \subseteq Seq(STRING) /\ IsFiniteSet(Subs(d, ns))
<1>1. NamesIn(d) \subseteq STRING /\ IsFiniteSet(NamesIn(d))
  <2>1. CASE d = <<>>
    <3> DEFINE S == {q \in Places : Len(q) = 1 /\ server[q] # "none"}
    <3>1. NamesIn(d) = {p[1] : p \in S}
      BY <2>1 DEF NamesIn
    <3>2. S \in SUBSET Places
      OBVIOUS
    <3> HIDE DEF S
    <3> QED BY <3>1, <3>2, NamesAre
  <2>2. CASE d # <<>>
    <3>1. NamesIn(d) = Listed(d)
      BY <2>2 DEF NamesIn
    <3> QED BY <3>1, ListedIs
  <2> QED BY <2>1, <2>2
<1>2. ns \subseteq STRING /\ IsFiniteSet(ns)
  BY <1>1, FS_Subset
<1> DEFINE M == {m \in ns : Kind(Append(d, m)) = "dir"}
           f == [n \in M |-> Append(d, n)]
<1>3. M \subseteq STRING /\ IsFiniteSet(M)
  BY <1>2, FS_Subset
<1>4. Subs(d, ns) = {Append(d, n) : n \in M}
  BY DEF Subs
<1> HIDE DEF M
<1>5. f \in Surjection(M, Subs(d, ns))
  BY <1>4 DEF Surjection
<1>6. IsFiniteSet(Subs(d, ns))
  BY <1>3, <1>5, FS_Surjection
<1>7. ASSUME NEW n \in M PROVE Append(d, n) \in Seq(STRING)
  <2>1. n \in STRING
    BY <1>3
  <2>2. \A s \in Seq(STRING), x \in STRING : Append(s, x) \in Seq(STRING)
    <3>1. \A T : \A s \in Seq(T), x \in T : Append(s, x) \in Seq(T)
      OBVIOUS
    <3> QED BY <3>1, Zenon
  <2> QED BY <2>1, <2>2, Zenon
<1> QED BY <1>2, <1>4, <1>6, <1>7

LEMMA QueueIs ==
  ASSUME RemoteTypes, scanQueue # <<>>, FolderListed(Head(scanQueue))
  PROVE  scanQueue' \in Seq(Seq(STRING)) /\ scan' = scan /\ flags \subseteq flags'
    /\ flags' \subseteq Flags
<1> DEFINE d == Head(scanQueue)
<1>1. scanQueue \in Seq(Seq(STRING)) /\ d \in Seq(STRING)
      /\ Tail(scanQueue) \in Seq(Seq(STRING))
  BY DEF RemoteTypes
<1>2. PICK ns \in SUBSET NamesIn(d) :
           /\ matches' = matches \cup Hits(d, ns)
           /\ flags' = IF Cardinality(matches') >= MaxMatches THEN flags \cup {"truncated"}
                       ELSE flags
           /\ scanQueue' = Tail(scanQueue) \o (IF Len(d) + 1 < SearchDepth
                                               THEN SetToSeq(Subs(d, ns)) ELSE <<>>)
           /\ scan' = scan
  BY FolderListedIs, Zenon
<1>3. flags \subseteq flags' /\ flags' \subseteq Flags
  BY <1>2 DEF RemoteTypes, Flags
<1> HIDE DEF d
<1>4. Subs(d, ns) \subseteq Seq(STRING) /\ SetToSeq(Subs(d, ns)) \in Seq(Subs(d, ns))
  BY <1>1, NamesInAre, SetToSeqIs
<1>5. SetToSeq(Subs(d, ns)) \in Seq(Seq(STRING))
  BY <1>4, SeqOfMore
<1>6. <<>> \in Seq(Seq(STRING))
  BY EmptySeq
<1>7. scanQueue' \in Seq(Seq(STRING))
  <2> DEFINE more == IF Len(d) + 1 < SearchDepth THEN SetToSeq(Subs(d, ns)) ELSE <<>>
             old == Tail(scanQueue)
  <2>1. more \in Seq(Seq(STRING)) /\ old \in Seq(Seq(STRING)) /\ scanQueue' = old \o more
    BY <1>1, <1>2, <1>5, <1>6
  <2> HIDE DEF more, old
  <2> QED BY <2>1
<1> QED BY <1>2, <1>3, <1>7

\* The folder above something that is there lists its name.
LEMMA NameIsListed ==
  ASSUME server \in RemoteTrees, NEW p \in Places, server[p] # "none", NEW d \in Seq(STRING),
         Above(d, p)
  PROVE  LET c == SubSeq(p, 1, Len(d) + 1) IN
         /\ c \in Places /\ c = Append(d, p[Len(d) + 1]) /\ p[Len(d) + 1] \in NamesIn(d)
         /\ Len(c) = Len(d) + 1 /\ IsPrefix(c, p)
         /\ Len(d) + 1 = Len(p) => c = p
         /\ Len(d) + 1 < Len(p) => Kind(c) = "dir"
<1> DEFINE c == SubSeq(p, 1, Len(d) + 1)
           n == p[Len(d) + 1]
<1>0. p \in Seq(STRING) /\ Len(p) \in Nat \ {0} /\ Len(d) \in Nat /\ Len(d) < Len(p)
  BY PlacesAre DEF Above
<1>z. p = SubSeq(p, 1, Len(p))
  BY PlacesAre
<1>1. Len(d) + 1 \in 1..Len(p) /\ Len(d) + 1 \in 0..Len(p) /\ Len(d) \in 0..Len(p)
  BY <1>0
<1>2. c \in Places
  BY <1>1, AboveAre
<1>3. /\ c \in Seq(STRING) /\ Len(c) = Len(d) + 1 /\ IsPrefix(c, p)
      /\ \A i \in 1..(Len(d) + 1) : c[i] = p[i]
  BY <1>0, <1>1, BeginningIs
<1>3a. c = SubSeq(p, 1, Len(d) + 1)
  OBVIOUS
<1> HIDE DEF c
<1>4. n \in STRING /\ c[Len(d) + 1] = n
  BY <1>0, <1>1, <1>3
<1>5. d = SubSeq(p, 1, Len(d)) /\ \A i \in 1..Len(d) : d[i] = p[i]
  BY <1>0, PrefixIs, PrefixIsBeginning DEF Above
<1>6. c = Append(d, n)
  <2>1. Append(d, n) \in Seq(STRING) /\ Len(Append(d, n)) = Len(d) + 1
    BY <1>4
  <2>2. ASSUME NEW i \in 1..(Len(d) + 1) PROVE c[i] = Append(d, n)[i]
    <3>1. c[i] = p[i]
      BY <1>3
    <3>2. CASE i = Len(d) + 1
      BY <1>4, <3>2
    <3>3. CASE i # Len(d) + 1
      <4>1. i \in 1..Len(d)
        BY <1>0, <3>3
      <4> QED BY <1>4, <1>5, <3>1, <4>1
    <3> QED BY <3>2, <3>3
  <2> QED BY <1>3, <2>1, <2>2, SeqEqual
<1>7. ASSUME Len(d) + 1 = Len(p) PROVE c = p
  <2>1. SubSeq(p, 1, Len(d) + 1) = SubSeq(p, 1, Len(p))
    BY <1>7
  <2> QED BY <1>z, <1>3a, <2>1, Zenon
<1>8. Len(d) + 1 < Len(p) => server[c] = "dir"
  <2> SUFFICES ASSUME Len(d) + 1 < Len(p) PROVE server[c] = "dir"
    OBVIOUS
  <2>1. Len(d) + 1 \in 1..(Len(p) - 1)
    BY <1>0
  <2> QED BY <1>3a, <2>1, AboveDirs
<1>9. server[c] # "none"
  <2>1. Len(d) + 1 = Len(p) \/ Len(d) + 1 < Len(p)
    BY <1>0
  <2> QED BY <1>7, <1>8, <2>1
<1>10. Links(server, c) = {} /\ Links(server, d) = {}
  <2>1. ASSUME NEW i \in 1..Len(d) PROVE server[SubSeq(c, 1, i)] = "dir"
        /\ SubSeq(c, 1, i) = SubSeq(d, 1, i)
    <3>1. i \in 1..(Len(c) - 1) /\ i \in 0..(Len(d) + 1) /\ i \in 0..Len(d)
      BY <1>0, <1>3
    <3>2. server[SubSeq(c, 1, i)] = "dir"
      BY <1>2, <1>9, <3>1, AboveDirs
    <3>3. SubSeq(c, 1, i) = SubSeq(p, 1, i)
      BY <1>0, <1>1, <1>3a, <3>1, BeginningAgain
    <3>4. SubSeq(SubSeq(p, 1, Len(d)), 1, i) = SubSeq(p, 1, i)
      BY <1>0, <1>1, <3>1, BeginningAgain
    <3> QED BY <1>5, <3>2, <3>3, <3>4
  <2>2. \A i \in 1..(Len(c) - 1) : server[SubSeq(c, 1, i)] # "link"
    BY <1>0, <1>3, <2>1
  <2>3. \A i \in 1..(Len(d) - 1) : server[SubSeq(d, 1, i)] # "link"
    <3> SUFFICES ASSUME NEW i \in 1..(Len(d) - 1) PROVE server[SubSeq(d, 1, i)] # "link"
      OBVIOUS
    <3>1. i \in 1..Len(d)
      BY <1>0
    <3> QED BY <2>1, <3>1
  <2> QED BY <2>2, <2>3 DEF Links
<1>11. Resolved(c) = c /\ Resolved(d) = d
  BY <1>10, NoLinkResolved DEF Resolved
<1>12. n \in NamesIn(d)
  <2>1. CASE d = <<>>
    <3>1. Len(d) = 0
      BY <2>1
    <3>2. Len(c) = 1 /\ c[1] = n
      BY <1>3, <1>4, <3>1
    <3> QED BY <1>2, <1>9, <2>1, <3>2 DEF NamesIn
  <2>2. CASE d # <<>>
    <3>1. Len(d) \in 1..(Len(p) - 1) /\ Len(d) \in 1..Len(p)
      BY <1>0, <2>2
    <3>2. d \in Places /\ server[d] = "dir"
      BY <1>5, <3>1, AboveDirs
    <3>3. Kind(d) = "dir"
      BY <1>11, <3>2 DEF Kind
    <3>4. IsPrefix(d, c)
      <4>1. Len(d) <= Len(c) /\ \A i \in 1..Len(d) : d[i] = c[i]
        <5>1. \A i \in 1..Len(d) : i \in 1..(Len(d) + 1)
          BY <1>0
        <5> QED BY <1>0, <1>3, <1>5, <5>1
      <4> QED BY <1>3, <4>1, PrefixIs
    <3>5. Listed(d) = {q[Len(q)] : q \in {r \in Places : Len(r) = Len(d) + 1 /\ IsPrefix(d, r)
          /\ server[r] # "none"}}
      BY <1>11, <3>3 DEF Listed, Directory
    <3>6. c[Len(c)] \in Listed(d)
      BY <1>2, <1>3, <1>9, <3>4, <3>5
    <3> QED BY <1>3, <1>4, <2>2, <3>6 DEF NamesIn
  <2> QED BY <2>1, <2>2
<1>13. Len(d) + 1 < Len(p) => Kind(c) = "dir"
  BY <1>2, <1>8, <1>11 DEF Kind
<1> QED BY <1>2, <1>3, <1>6, <1>7, <1>12, <1>13 DEF c

LEMMA ListingFinds ==
  ASSUME RemoteTypes, \A p \in present : server[p] # "none",
         \A p \in present : Found(p) \/ Awaited(p),
         ~searchCancelled, scanQueue # <<>>, FolderListed(Head(scanQueue)), present' = present
  PROVE  \A p \in present' : Found(p)' \/ Awaited(p)'
<1> DEFINE d == Head(scanQueue)
           old == Tail(scanQueue)
<1>1. /\ server \in RemoteTrees /\ scanQueue \in Seq(Seq(STRING)) /\ d \in Seq(STRING)
      /\ old \in Seq(Seq(STRING)) /\ present \subseteq Places /\ Len(old) = Len(scanQueue) - 1
      /\ \A i \in 1..Len(old) : old[i] = scanQueue[i + 1]
      /\ Len(d) \in Nat /\ Len(old) \in Nat /\ scanQueue[1] = d
  BY DEF RemoteTypes
<1>2. PICK ns \in SUBSET NamesIn(d) :
           /\ ~searchCancelled => ns = NamesIn(d)
           /\ matches' = matches \cup Hits(d, ns)
           /\ flags' = IF Cardinality(matches') >= MaxMatches THEN flags \cup {"truncated"}
                       ELSE flags
           /\ scanQueue' = old \o (IF Len(d) + 1 < SearchDepth THEN SetToSeq(Subs(d, ns))
                                   ELSE <<>>)
           /\ scan' = scan
  BY FolderListedIs, Zenon
<1>3. ns = NamesIn(d) /\ matches' = matches \cup Hits(d, ns)
  BY <1>2
<1> DEFINE more == IF Len(d) + 1 < SearchDepth THEN SetToSeq(Subs(d, ns)) ELSE <<>>
<1>d. DOMAIN scanQueue = 1..(Len(old) + 1)
  BY <1>1
<1> HIDE DEF d, old
<1>4. more \in Seq(Seq(STRING))
  <2>1. Subs(d, ns) \subseteq Seq(STRING) /\ SetToSeq(Subs(d, ns)) \in Seq(Subs(d, ns))
    BY <1>1, NamesInAre, SetToSeqIs
  <2>2. SetToSeq(Subs(d, ns)) \in Seq(Seq(STRING))
    BY <2>1, SeqOfMore
  <2>3. <<>> \in Seq(Seq(STRING))
    BY EmptySeq
  <2> QED BY <2>2, <2>3
<1>5. scanQueue' = old \o more
  BY <1>2
<1>6. Len(d) + 1 < SearchDepth => \A x \in Subs(d, ns) : \E i \in DOMAIN more : more[i] = x
  <2> SUFFICES ASSUME Len(d) + 1 < SearchDepth, NEW x \in Subs(d, ns)
    PROVE \E i \in DOMAIN more : more[i] = x
    OBVIOUS
  <2>1. more = SetToSeq(Subs(d, ns))
    OBVIOUS
  <2>2. IsFiniteSet(Subs(d, ns))
    BY <1>1, NamesInAre
  <2>3. /\ Len(more) = Cardinality(Subs(d, ns))
        /\ \E i \in 1..Cardinality(Subs(d, ns)) : more[i] = x
    BY <2>1, <2>2, SetToSeqIs
  <2> HIDE DEF more
  <2>4. DOMAIN more = 1..Len(more)
    BY <1>4
  <2> QED BY <2>3, <2>4
<1> HIDE DEF more
<1>7. /\ scanQueue' \in Seq(Seq(STRING)) /\ Len(scanQueue') = Len(old) + Len(more)
      /\ Len(more) \in Nat
      /\ \A i \in 1..Len(old) : scanQueue'[i] = old[i]
      /\ \A i \in 1..Len(more) : scanQueue'[Len(old) + i] = more[i]
  <2>1. \A s \in Seq(Seq(STRING)) : \A t \in Seq(Seq(STRING)) :
           /\ s \o t \in Seq(Seq(STRING)) /\ Len(s \o t) = Len(s) + Len(t) /\ Len(t) \in Nat
           /\ \A i \in 1..Len(s) : (s \o t)[i] = s[i]
           /\ \A i \in 1..Len(t) : (s \o t)[Len(s) + i] = t[i]
    OBVIOUS
  <2> QED BY <1>1, <1>4, <1>5, <2>1
<1>q. DOMAIN scanQueue' = 1..(Len(old) + Len(more)) /\ DOMAIN more = 1..Len(more)
      /\ DOMAIN old = 1..Len(old)
  BY <1>1, <1>4, <1>7
<1>r. Len(old) \in Nat /\ Len(more) \in Nat
  BY <1>1, <1>7
<1>8. ASSUME NEW i \in DOMAIN old PROVE i \in DOMAIN scanQueue'
      /\ scanQueue'[i] = scanQueue[i + 1]
  <2>1. i \in 1..Len(old)
    BY <1>q, Zenon
  <2>2. i \in 1..(Len(old) + Len(more))
    BY <1>r, <2>1
  <2> QED BY <1>1, <1>7, <1>q, <2>1, <2>2, Zenon
<1>9. ASSUME NEW i \in DOMAIN more PROVE \E k \in DOMAIN scanQueue' : scanQueue'[k] = more[i]
  <2>1. Len(old) + i \in DOMAIN scanQueue' /\ scanQueue'[Len(old) + i] = more[i]
    <3>1. i \in 1..Len(more)
      BY <1>q, Zenon
    <3>2. Len(old) + i \in 1..(Len(old) + Len(more))
      BY <1>r, <3>1
    <3> QED BY <1>7, <1>q, <3>1, <3>2, Zenon
  <2> QED BY <2>1
<1> SUFFICES ASSUME NEW p \in present PROVE Found(p)' \/ Awaited(p)'
  OBVIOUS
<1>10. p \in Places /\ server[p] # "none" /\ p \in Seq(STRING) /\ Len(p) \in Nat \ {0}
  BY <1>1, PlacesAre
<1>11. CASE Found(p)
  BY <1>3, <1>11 DEF Found
<1>12. CASE Awaited(p)
  <2>1. PICK i \in DOMAIN scanQueue : Above(scanQueue[i], p)
    BY <1>12 DEF Awaited
  <2>2. CASE i # 1
    <3>1. i - 1 \in DOMAIN old /\ (i - 1) + 1 = i
      BY <1>1, <1>d, <2>2
    <3>2. i - 1 \in DOMAIN scanQueue' /\ scanQueue'[i - 1] = scanQueue[i]
      BY <1>8, <3>1
    <3>3. Above(scanQueue'[i - 1], p)
      BY <2>1, <3>2
    <3> QED BY <3>2, <3>3 DEF Awaited, Above
  <2>3. CASE i = 1
    <3> DEFINE c == SubSeq(p, 1, Len(d) + 1)
    <3>1. Above(d, p)
      BY <1>1, <2>1, <2>3
    <3>2. /\ c \in Places /\ c = Append(d, p[Len(d) + 1]) /\ p[Len(d) + 1] \in NamesIn(d)
          /\ Len(c) = Len(d) + 1 /\ IsPrefix(c, p)
          /\ Len(d) + 1 = Len(p) => c = p
          /\ Len(d) + 1 < Len(p) => Kind(c) = "dir"
      BY <1>1, <1>10, <3>1, NameIsListed
    <3> HIDE DEF c
    <3>3. Len(d) < Len(p)
      BY <3>1 DEF Above
    <3>4. CASE Len(d) + 1 = Len(p)
      <4>1. Last(p) = p[Len(d) + 1]
        BY <3>4 DEF Last
      <4>2. Last(p) \in Matching => p \in Hits(d, ns)
        BY <1>3, <3>2, <3>4, <4>1 DEF Hits
      <4> QED BY <1>3, <4>2 DEF Found
    <3>5. CASE Len(d) + 1 < Len(p) /\ Len(d) + 1 < SearchDepth
      <4>1. c \in Subs(d, ns)
        BY <1>3, <3>2, <3>5 DEF Subs
      <4>2. PICK k \in DOMAIN scanQueue' : scanQueue'[k] = c
        BY <1>6, <1>9, <3>5, <4>1
      <4>3. Above(scanQueue'[k], p)
        BY <3>2, <3>5, <4>2 DEF Above
      <4> QED BY <4>2, <4>3 DEF Awaited, Above
    <3>6. CASE Len(d) + 1 < Len(p) /\ ~(Len(d) + 1 < SearchDepth)
      <4>1. ~(Len(p) <= SearchDepth)
        BY <1>1, <1>10, <3>6, PlacesAssumption
      <4> QED BY <4>1 DEF Found
    <3> QED BY <1>1, <1>10, <3>3, <3>4, <3>5, <3>6
  <2> QED BY <2>2, <2>3
<1> QED BY <1>11, <1>12

(* Steps of the recursion. *)

GoesOn ==
  /\ lent' = lent /\ entries' \in Seq(Places) /\ said' \in [done : Nat, failed : Nat]
  /\ Stacks(frames')
  /\ \A i \in DOMAIN entries' : \E k \in DOMAIN entries : entries[k] = entries'[i]
  /\ frames' # <<>> => entries' = entries /\ entries # <<>> /\ frames # <<>>
     /\ frames'[1].at = frames[1].at
  /\ Chained(frames) => Chained(frames')

NoFrames ==
  /\ Stacks(<<>>) /\ Chained(<<>>) /\ \A s : Walked(<<>>, s)

LEMMA NoFramesAre == NoFrames
<1>1. <<>> \in Seq(Frame) /\ DOMAIN <<>> = {}
  BY EmptySeq
<1> QED BY <1>1 DEF NoFrames, Stacks, Chained, Walked

LEMMA Counted ==
  ASSUME RemoteTypes, entries # <<>>, NEW how \in {"done", "failed"}, Count1(how)
  PROVE  GoesOn /\ \A s : Walked(frames', s)
<1>1. /\ entries' = Tail(entries) /\ frames' = <<>> /\ said' = [said EXCEPT ![how] = @ + 1]
      /\ lent' = lent
  BY DEF Count1
<1>2. said \in [done : Nat, failed : Nat] /\ entries \in Seq(Places)
  BY DEF RemoteTypes
<1>3. said' \in [done : Nat, failed : Nat]
  BY <1>1, <1>2
<1>4. /\ entries' \in Seq(Places) /\ Len(entries') = Len(entries) - 1 /\ Len(entries) \in Nat
      /\ \A i \in 1..Len(entries') : entries'[i] = entries[i + 1]
  BY <1>1, <1>2
<1>5. ASSUME NEW i \in DOMAIN entries' PROVE \E k \in DOMAIN entries : entries[k] = entries'[i]
  <2>1. i \in 1..Len(entries')
    BY <1>4
  <2>2. i + 1 \in 1..Len(entries) /\ entries'[i] = entries[i + 1]
    BY <1>4, <2>1
  <2>3. DOMAIN entries = 1..Len(entries)
    BY <1>2
  <2> QED BY <2>2, <2>3
<1>6. Stacks(frames') /\ Chained(frames') /\ \A s : Walked(frames', s)
  BY <1>1, NoFramesAre DEF NoFrames
<1> QED BY <1>1, <1>3, <1>4, <1>5, <1>6 DEF GoesOn

\* A step that keeps to the entry it is at.
LEMMA SteppedOn ==
  ASSUME RemoteTypes, frames # <<>>, UNCHANGED <<lent, entries, said>>, NEW s,
         Steps(frames, frames', s)
  PROVE  GoesOn /\ (Walked(frames, s) => Walked(frames', s))
<1>1. /\ said' \in [done : Nat, failed : Nat] /\ entries' \in Seq(Places) /\ entries # <<>>
      /\ lent' = lent /\ entries' = entries
  BY DEF RemoteTypes
<1>2. /\ Stacks(frames') /\ frames'[1].at = frames[1].at
         /\ (Chained(frames) => Chained(frames'))
      /\ (Walked(frames, s) => Walked(frames', s))
  BY DEF Steps
<1> QED BY <1>1, <1>2 DEF GoesOn

LEMMA StacksNow == ASSUME RemoteTypes PROVE Stacks(frames)
BY DEF RemoteTypes, Stacks

LEMMA PoppedOn ==
  ASSUME RemoteTypes, frames # <<>>, Popped, NEW s
  PROVE  GoesOn /\ (Walked(frames, s) => Walked(frames', s))
<1>0. Stacks(frames) /\ entries # <<>>
  BY StacksNow DEF RemoteTypes
<1>1. CASE Len(frames) = 1
  <2>1. Count1("done")
    BY <1>1 DEF Popped
  <2> QED BY <1>0, <2>1, Counted
<1>2. CASE Len(frames) # 1
  <2>1. frames' = Front(frames) /\ UNCHANGED <<lent, entries, said>>
    BY <1>2 DEF Popped
  <2>2. Steps(frames, Front(frames), s)
    BY <1>0, <1>2, FrontSteps
  <2> QED BY <2>1, <2>2, SteppedOn
<1> QED BY <1>1, <1>2

LEMMA LeftOn ==
  ASSUME RemoteTypes, frames # <<>>, NEW K \in SUBSET STRING, Left(K),
         UNCHANGED <<lent, entries, said>>, NEW s,
         ~(Top.at \in Places /\ s[Top.at] = "link")
  PROVE  GoesOn /\ (Walked(frames, s) => Walked(frames', s))
<1>1. Stacks(frames)
  BY StacksNow
<1>2. frames' = [frames EXCEPT ![Len(frames)] =
                   [at |-> frames[Len(frames)].at, new |-> FALSE, kids |-> K]]
  BY DEF Left, Top
<1>3. ~(frames[Len(frames)].at \in Places /\ s[frames[Len(frames)].at] = "link")
  BY DEF Top
<1>4. Steps(frames, frames', s)
  BY <1>1, <1>2, <1>3, LeftSteps
<1> QED BY <1>4, SteppedOn

LEMMA DescendedOn ==
  ASSUME RemoteTypes, frames # <<>>, Descend, UNCHANGED <<lent, entries, said>>, NEW s
  PROVE  GoesOn /\ (Walked(frames, s) => Walked(frames', s))
<1>1. Stacks(frames)
  BY StacksNow
<1>2. PICK n \in frames[Len(frames)].kids :
         frames' = Append([frames EXCEPT ![Len(frames)].kids = @ \ {n}],
                          Visit(Append(frames[Len(frames)].at, n)))
  BY Zenon DEF Descend, Top
<1>3. Steps(frames, Append([frames EXCEPT ![Len(frames)].kids = @ \ {n}],
      Visit(Append(frames[Len(frames)].at, n))), s)
  BY <1>1, DescendSteps, Zenon
<1>4. Steps(frames, frames', s)
  BY <1>2, <1>3, Zenon
<1> QED BY <1>4, SteppedOn

\* The types: of an operation, of the search, and of the rest.
OpTypes ==
  /\ lent \in {"none", "delete", "chmod", "newFolder", "newFile", "rename"}
  /\ entries \in Seq(Places) /\ picked \in Seq(Places) /\ firstServer \in RemoteTrees
  /\ said \in [done : Nat, failed : Nat] /\ Stacks(frames) /\ (frames # <<>> => entries # <<>>)

SearchTypes ==
  /\ scan \in {"idle", "running", "shown"} /\ flags \subseteq Flags
  /\ searchCancelled \in BOOLEAN
  /\ scanQueue \in Seq(Seq(STRING)) /\ present \subseteq Places

RestTypes ==
  /\ server \in RemoteTrees /\ perms \in [Places -> {"old", "new"}] /\ follows \in BOOLEAN
  /\ flow \in Seq(Places)

LEMMA RemoteTypesAre == RemoteTypes <=> OpTypes /\ SearchTypes /\ RestTypes
BY DEF RemoteTypes, OpTypes, SearchTypes, RestTypes, Stacks

LEMMA OpTypesRest == ASSUME OpTypes, UNCHANGED opVars PROVE OpTypes'
<1>1. Stacks(frames)' = Stacks(frames)
  BY DEF Stacks, opVars
<1> QED BY <1>1 DEF OpTypes, opVars

LEMMA OpTypesGoOn == ASSUME OpTypes, UNCHANGED <<picked, firstServer>>, GoesOn PROVE OpTypes'
<1>1. Stacks(frames)'
  BY DEF GoesOn, Stacks
<1> QED BY <1>1 DEF OpTypes, GoesOn

LEMMA SearchTypesRest ==
  ASSUME SearchTypes, UNCHANGED searchVars, present' \subseteq present
  PROVE  SearchTypes'
BY DEF SearchTypes, searchVars

LEMMA TypesStay ==
  ASSUME RemoteTypes, UNCHANGED <<follows, flow, searchVars, picked, firstServer>>,
         server' \in RemoteTrees,
         perms' \in [Places -> {"old", "new"}], present' \subseteq present, GoesOn
  PROVE  RemoteTypes'
<1>1. OpTypes /\ SearchTypes /\ RestTypes
  BY RemoteTypesAre
<1>2. OpTypes'
  BY <1>1, OpTypesGoOn
<1>3. SearchTypes'
  BY <1>1, SearchTypesRest
<1>4. RestTypes'
  BY <1>1 DEF RestTypes
<1>5. (OpTypes /\ SearchTypes /\ RestTypes)' => RemoteTypes'
  BY RemoteTypesAre DEF RemoteTypes, OpTypes, SearchTypes, RestTypes, Stacks
<1> QED BY <1>2, <1>3, <1>4, <1>5

\* A step of a delete.
LEMMA DeleteStep ==
  ASSUME RemoteInv, lent = "delete", GoesOn, UNCHANGED <<perms, quiet>>,
         ~follows => (Walked(frames, server) => Walked(frames', server)),
         server' \in RemoteTrees,
         \A p \in Places : server'[p] = server[p] \/ (server'[p] = "none" /\ Removable(p)),
         SearchRests
  PROVE  RemoteInv'
<1>1. RemoteTypes /\ DeleteRuns /\ DeletesInside /\ SearchRuns
  BY DEF RemoteInv
<1>2. /\ follows' = follows /\ picked' = picked /\ firstServer' = firstServer /\ lent' = lent
      /\ UNCHANGED <<follows, flow, searchVars, picked, firstServer>> /\ perms' = perms
      /\ present' \subseteq present
  BY DEF quiet, GoesOn, SearchRests
<1>3. RemoteTypes'
  <2>1. perms' \in [Places -> {"old", "new"}]
    BY <1>1, <1>2 DEF RemoteTypes
  <2> QED BY <1>1, <1>2, <2>1, TypesStay
<1>4. SearchRuns'
  BY <1>1, SearchKeeps
<1>5. /\ Chained(frames) /\ (frames # <<>> => frames[1].at = entries[1])
      /\ ~follows => Walked(frames, server)
  BY <1>1 DEF DeleteRuns
<1>6. /\ frames' # <<>> => frames'[1].at = entries'[1]
      /\ Chained(frames')
      /\ \A i \in DOMAIN entries' : \E k \in DOMAIN entries : entries[k] = entries'[i]
      /\ ~follows => Walked(frames', server)
  BY <1>5 DEF GoesOn
<1>7. DeleteRuns' /\ DeletesInside'
  BY <1>1, <1>2, <1>6, DeleteGoesOn
<1> QED BY <1>3, <1>4, <1>7 DEF RemoteInv

\* A step of another operation.
LEMMA OtherStep ==
  ASSUME RemoteInv, lent # "delete", GoesOn, UNCHANGED quiet,
         perms' \in [Places -> {"old", "new"}],
         server' \in RemoteTrees, SearchRests
  PROVE  RemoteInv'
<1>1. RemoteTypes /\ DeleteRuns /\ DeletesInside /\ SearchRuns
  BY DEF RemoteInv
<1>2. /\ lent' = lent
      /\ UNCHANGED <<follows, flow, searchVars, picked, firstServer>>
      /\ present' \subseteq present
  BY DEF quiet, GoesOn, SearchRests
<1>3. RemoteTypes'
  BY <1>1, <1>2, TypesStay
<1>4. SearchRuns'
  BY <1>1, SearchKeeps
<1>5. DeleteRuns' /\ DeletesInside'
  BY <1>2 DEF DeleteRuns, DeletesInside
<1> QED BY <1>3, <1>4, <1>5 DEF RemoteInv

\* What the search watches: where nothing goes, and where Watched says so.
LEMMA SearchWatches ==
  ASSUME RemoteInv, UNCHANGED quiet, Watched
    \/ (present' = present /\ \A p \in Places : server[p] # "none" => server'[p] # "none")
  PROVE  SearchRests
<1>1. UNCHANGED searchVars
  BY DEF quiet
<1>2. present \subseteq Places /\ \A p \in present : server[p] # "none"
  BY DEF RemoteInv, RemoteTypes, SearchRuns
<1>3. present' \subseteq present /\ \A p \in present' : server'[p] # "none"
  BY <1>2 DEF Watched
<1> QED BY <1>1, <1>3 DEF SearchRests

(* Every action. *)

LEMMA TypesThen == ASSUME OpTypes', SearchTypes', RestTypes' PROVE RemoteTypes'
BY DEF RemoteTypes, OpTypes, SearchTypes, RestTypes, Stacks

\* An operation that is none, or has not begun to delete.
LEMMA NotDeleting ==
  ASSUME lent' # "delete"
  PROVE  DeleteRuns' /\ DeletesInside'
BY DEF DeleteRuns, DeletesInside

LEMMA BorrowHolds ==
  ASSUME RemoteInv, NEW op \in {"delete", "newFolder", "newFile", "rename"},
         NEW sel \in Seq(Places), Borrow(op, sel)
  PROVE  RemoteInv'
<1>1. RemoteTypes /\ SearchRuns /\ OpTypes /\ SearchTypes /\ RestTypes
  BY RemoteTypesAre DEF RemoteInv
<1>2. /\ lent' = op /\ entries' = sel /\ frames' = <<>> /\ said' = [done |-> 0, failed |-> 0]
      /\ picked' = sel /\ firstServer' = server
      /\ UNCHANGED <<server, perms, follows, flow, searchVars, present>>
  BY DEF Borrow
<1>3. OpTypes'
  <2>1. Stacks(<<>>)
    BY NoFramesAre DEF NoFrames
  <2>2. Stacks(frames)'
    BY <1>2, <2>1 DEF Stacks
  <2> QED BY <1>1, <1>2, <2>2 DEF OpTypes, RestTypes
<1>4. SearchTypes' /\ RestTypes'
  BY <1>1, <1>2 DEF SearchTypes, RestTypes, searchVars
<1>5. SearchRuns'
  <2>1. SearchRests
    BY <1>1, <1>2 DEF SearchRests, SearchRuns
  <2> QED BY <1>1, <2>1, SearchKeeps
<1>6. DeleteRuns'
  <2>1. Chained(<<>>) /\ \A s : Walked(<<>>, s)
    BY NoFramesAre DEF NoFrames
  <2>2. Chained(frames)' /\ Walked(frames, server)'
    BY <1>2, <2>1 DEF Chained, Walked
  <2>3. \A p \in Places : server'[p] \in {firstServer'[p], "none", "file"}
    BY <1>2
  <2> QED BY <1>2, <2>2, <2>3 DEF DeleteRuns
<1>7. DeletesInside'
  BY <1>2 DEF DeletesInside
<1> QED BY <1>3, <1>4, <1>5, <1>6, <1>7, TypesThen DEF RemoteInv

\* The search and the dialog leave an operation alone, and others only add to it.
LEMMA OperationRests ==
  ASSUME RemoteInv, UNCHANGED <<opVars, follows>>, SearchTypes', RestTypes', SearchRuns',
         \A p \in Places : server'[p] = server[p] \/ (server[p] = "none" /\ server'[p] = "file")
  PROVE  RemoteInv'
<1>1. RemoteTypes /\ OpTypes /\ DeleteRuns /\ DeletesInside
  BY RemoteTypesAre DEF RemoteInv
<1>2. OpTypes'
  BY <1>1, OpTypesRest
<1>3. DeleteRuns' /\ DeletesInside'
  BY <1>1, DeleteRests
<1> QED BY <1>2, <1>3, TypesThen DEF RemoteInv

LEMMA DialogHolds ==
  ASSUME RemoteInv, flow' \in Seq(Places),
         UNCHANGED <<server, perms, follows, opVars, searchVars, present>>
  PROVE  RemoteInv'
<1>1. SearchRuns /\ SearchTypes /\ RestTypes
  BY RemoteTypesAre DEF RemoteInv
<1>2. SearchTypes' /\ RestTypes'
  BY <1>1 DEF SearchTypes, RestTypes, searchVars
<1>3. SearchRuns'
  <2>1. SearchRests
    BY <1>1 DEF SearchRests, SearchRuns
  <2> QED BY <1>1, <2>1, SearchKeeps
<1> QED BY <1>2, <1>3, OperationRests

LEMMA ApplyHolds ==
  ASSUME RemoteInv, ApplyPermissions
  PROVE  RemoteInv'
<1>1. RemoteTypes /\ SearchRuns /\ OpTypes /\ SearchTypes /\ RestTypes
  BY RemoteTypesAre DEF RemoteInv
<1>2. flow # <<>> /\ flow' = <<>> /\ UNCHANGED <<server, perms, follows, searchVars, present>>
  BY DEF ApplyPermissions
<1>3. flow' \in Seq(Places)
  BY <1>2, EmptySeq
<1>4. CASE lent = "none"
  <2>1. /\ lent' = "chmod" /\ entries' = <<flow[1]>> /\ frames' = <<>>
        /\ said' = [done |-> 0, failed |-> 0] /\ picked' = <<flow[1]>> /\ firstServer' = server
    BY <1>4 DEF ApplyPermissions
  <2>2. flow[1] \in Places /\ server \in RemoteTrees
    BY <1>1, <1>2 DEF RestTypes
  <2>3. OpTypes'
    <3>1. Stacks(<<>>)
      BY NoFramesAre DEF NoFrames
    <3>2. Stacks(frames)'
      BY <2>1, <3>1 DEF Stacks
    <3> QED BY <2>1, <2>2, <3>2 DEF OpTypes
  <2>4. SearchTypes' /\ RestTypes'
    BY <1>1, <1>2, <1>3 DEF SearchTypes, RestTypes, searchVars
  <2>5. SearchRuns'
    <3>1. SearchRests
      BY <1>1, <1>2 DEF SearchRests, SearchRuns
    <3> QED BY <1>1, <3>1, SearchKeeps
  <2> QED BY <2>1, <2>3, <2>4, <2>5, NotDeleting, TypesThen DEF RemoteInv
<1>5. CASE lent # "none"
  <2>1. UNCHANGED opVars
    BY <1>5 DEF ApplyPermissions
  <2> QED BY <1>2, <1>3, <2>1, DialogHolds
<1> QED BY <1>4, <1>5

LEMMA HomeHolds ==
  ASSUME RemoteInv, ReturnClientHome
  PROVE  RemoteInv'
<1>1. RemoteTypes /\ SearchRuns /\ OpTypes /\ SearchTypes /\ RestTypes
  BY RemoteTypesAre DEF RemoteInv
<1>2. lent' = "none" /\ UNCHANGED <<server, perms, follows, entries, frames, said, flow,
      searchVars, picked, firstServer, present>>
  BY DEF ReturnClientHome
<1>3. OpTypes'
  <2>1. Stacks(frames)' = Stacks(frames)
    BY <1>2 DEF Stacks
  <2> QED BY <1>1, <1>2, <2>1 DEF OpTypes
<1>4. SearchTypes' /\ RestTypes'
  BY <1>1, <1>2 DEF SearchTypes, RestTypes, searchVars
<1>5. SearchRuns'
  <2>1. SearchRests
    BY <1>1, <1>2 DEF SearchRests, SearchRuns
  <2> QED BY <1>1, <2>1, SearchKeeps
<1> QED BY <1>2, <1>3, <1>4, <1>5, NotDeleting, TypesThen DEF RemoteInv

LEMMA BeginEntryHolds ==
  ASSUME RemoteInv, BeginEntry
  PROVE  RemoteInv'
<1>1. RemoteTypes /\ SearchRuns /\ OpTypes /\ SearchTypes /\ RestTypes /\ DeleteRuns
      /\ DeletesInside
  BY RemoteTypesAre DEF RemoteInv
<1>2. /\ lent \in {"delete", "chmod"} /\ entries # <<>> /\ frames = <<>>
      /\ frames' = <<Visit(Head(entries))>>
      /\ UNCHANGED <<server, perms, quiet, lent, entries, said, present>>
  BY DEF BeginEntry
<1>3. /\ UNCHANGED <<follows, flow, searchVars, picked, firstServer>>
  BY <1>2 DEF quiet
<1>4. Head(entries) \in Places /\ Head(entries) = entries[1]
  BY <1>1, <1>2 DEF OpTypes
<1>5. /\ Stacks(frames') /\ frames' # <<>> /\ frames'[1].at = Head(entries) /\ Chained(frames')
      /\ Walked(frames', server)
  <2> DEFINE h == Head(entries)
  <2>1. /\ Stacks(<<Visit(h)>>) /\ <<Visit(h)>> # <<>> /\ <<Visit(h)>>[1].at = h
        /\ Chained(<<Visit(h)>>) /\ Walked(<<Visit(h)>>, server)
    BY <1>4, VisitStacks
  <2> QED BY <1>2, <2>1, Zenon
<1>6. OpTypes'
  <2>1. Stacks(frames)'
    BY <1>5 DEF Stacks
  <2> QED BY <1>1, <1>2, <1>3, <2>1 DEF OpTypes
<1>7. SearchTypes' /\ RestTypes'
  BY <1>1, <1>2, <1>3 DEF SearchTypes, RestTypes, searchVars
<1>8. SearchRuns'
  <2>1. SearchRests
    BY <1>1, <1>2, <1>3 DEF SearchRests, SearchRuns
  <2> QED BY <1>1, <2>1, SearchKeeps
<1>9. DeleteRuns' /\ DeletesInside'
  <2>1. CASE lent = "delete"
    <3>1. \A i \in DOMAIN entries' : \E k \in DOMAIN entries : entries[k] = entries'[i]
      BY <1>2
    <3>2. \A p \in Places : server'[p] = server[p]
      BY <1>2
    <3>3. frames'[1].at = entries'[1]
      BY <1>2, <1>4, <1>5
    <3> QED BY <1>1, <1>2, <1>3, <1>5, <2>1, <3>1, <3>2, <3>3, DeleteGoesOn
  <2>2. CASE lent # "delete"
    BY <1>2, <2>2, NotDeleting
  <2> QED BY <2>1, <2>2
<1> QED BY <1>6, <1>7, <1>8, <1>9, TypesThen DEF RemoteInv

LEMMA DeleteFailsHolds ==
  ASSUME RemoteInv, DeleteFails
  PROVE  RemoteInv'
<1>1. RemoteTypes
  BY DEF RemoteInv
<1>2. lent = "delete" /\ frames # <<>> /\ Count1("failed")
      /\ UNCHANGED <<server, perms, quiet, present>>
  BY DEF DeleteFails
<1>3. GoesOn /\ \A s : Walked(frames', s)
  BY <1>1, <1>2, Counted DEF RemoteTypes
<1>4. SearchRests
  BY <1>2, SearchWatches
<1>5. server' \in RemoteTrees
  BY <1>1, <1>2 DEF RemoteTypes
<1> QED BY <1>2, <1>3, <1>4, <1>5, DeleteStep

\* A path that is no link where asking does not look through links.
LEMMA NotALink ==
  ASSUME server \in RemoteTrees, NEW a \in PlaceNames, Kind(a) = "dir"
  PROVE  ~(a \in Places /\ server[a] = "link")
<1> SUFFICES ASSUME a \in Places, server[a] = "link" PROVE FALSE
  OBVIOUS
<1>1. Resolved(a) \in Places /\ server[Resolved(a)] = "dir"
  BY KindIs
<1>2. CASE Links(server, a) = {}
  <2>1. Resolved(a) = a
    BY <1>2, NoLinkResolved DEF Resolved
  <2> QED BY <1>1, <2>1
<1>3. CASE Links(server, a) # {}
  <2>1. a \in Seq(STRING)
    BY PlacesAre
  <2>2. IsPrefix(a, a)
    BY <2>1, PrefixAll
  <2>3. server[a] = "none"
    BY <1>3, <2>2, NothingThrough
  <2> QED BY <2>3
<1> QED BY <1>2, <1>3

LEMMA TopAt ==
  ASSUME RemoteTypes, frames # <<>>
  PROVE  Top.at \in PlaceNames
<1>1. Stacks(frames)
  BY StacksNow
<1>2. Len(frames) \in DOMAIN frames
  BY <1>1, TopIs
<1>3. frames[Len(frames)].at \in PlaceNames
  BY <1>1, <1>2, FrameIs
<1> QED BY <1>3 DEF Top

\* What is removed by the call at the top may be removed.
LEMMA RemovesOne ==
  ASSUME RemoteInv, lent = "delete", frames # <<>>, Set(Top.at, "none"), Kind(Top.at) # "none",
         Kind(Top.at) = "dir" => Empty(Top.at)
  PROVE  /\ server' \in RemoteTrees
         /\ \A p \in Places : server'[p] = server[p] \/ (server'[p] = "none" /\ Removable(p))
<1>1. RemoteTypes /\ server \in RemoteTrees /\ DeleteRuns
  BY DEF RemoteInv, RemoteTypes
<1>2. /\ server' \in RemoteTrees /\ Resolved(Top.at) \in Places
      /\ \A r \in Places : server'[r] = IF r = Resolved(Top.at) THEN "none" ELSE server[r]
  BY <1>1, RemovalKeepsTree
<1>3. server[Resolved(Top.at)] # "none"
  BY <1>1, KindIs
<1>4. Removable(Resolved(Top.at))
  BY <1>1, <1>2, <1>3, TopIsRemovable
<1> QED BY <1>2, <1>4

LEMMA DeleteAsksHolds ==
  ASSUME RemoteInv, DeleteAsks
  PROVE  RemoteInv'
<1>1. RemoteTypes /\ server \in RemoteTrees
  BY DEF RemoteInv, RemoteTypes
<1>2. lent = "delete" /\ frames # <<>> /\ Watched /\ UNCHANGED <<perms, quiet>>
  BY DEF DeleteAsks
<1>3. Asked(Top.at) \in {"none", "dir", "file"}
  BY <1>1, AskedIs
<1>4. SearchRests
  BY <1>2, SearchWatches
<1>5. CASE Asked(Top.at) = "none"
  <2>1. Popped /\ server' = server
    BY <1>5 DEF DeleteAsks
  <2>2. GoesOn /\ (Walked(frames, server) => Walked(frames', server))
    BY <1>1, <1>2, <2>1, PoppedOn
  <2> QED BY <1>1, <1>2, <1>4, <2>1, <2>2, DeleteStep
<1>6. CASE Asked(Top.at) = "dir"
  <2>1. Left(Listed(Top.at)) /\ UNCHANGED <<server, lent, entries, said>>
    BY <1>6 DEF DeleteAsks
  <2>2. Listed(Top.at) \in SUBSET STRING
    BY ListedIs
  <2>3. GoesOn
    <3> DEFINE s == [p \in Places |-> "none"]
    <3>1. ~(Top.at \in Places /\ s[Top.at] = "link")
      OBVIOUS
    <3> HIDE DEF s
    <3> QED BY <1>1, <1>2, <2>1, <2>2, <3>1, LeftOn
  <2>4. ASSUME ~follows PROVE Walked(frames, server) => Walked(frames', server)
    <3>1. Kind(Top.at) = "dir" /\ Top.at \in PlaceNames
      BY <1>1, <1>2, <1>6, <2>4, AskedIs, TopAt
    <3>2. ~(Top.at \in Places /\ server[Top.at] = "link")
      BY <1>1, <3>1, NotALink
    <3> QED BY <1>1, <1>2, <2>1, <2>2, <3>2, LeftOn
  <2> QED BY <1>1, <1>2, <1>4, <2>1, <2>3, <2>4, DeleteStep
<1>7. CASE Asked(Top.at) = "file"
  <2>1. Popped /\ Set(Top.at, "none")
    BY <1>7 DEF DeleteAsks
  <2>2. GoesOn /\ (Walked(frames, server) => Walked(frames', server))
    BY <1>1, <1>2, <2>1, PoppedOn
  <2>3. Kind(Top.at) # "none" /\ Kind(Top.at) # "dir"
    BY <1>1, <1>7, AskedIs
  <2>4. /\ server' \in RemoteTrees
        /\ \A p \in Places : server'[p] = server[p] \/ (server'[p] = "none" /\ Removable(p))
    BY <1>2, <2>1, <2>3, RemovesOne
  <2> QED BY <1>2, <1>4, <2>2, <2>4, DeleteStep
<1> QED BY <1>3, <1>5, <1>6, <1>7

LEMMA DeleteDescendsHolds ==
  ASSUME RemoteInv, DeleteDescends
  PROVE  RemoteInv'
<1>1. RemoteTypes /\ server \in RemoteTrees
  BY DEF RemoteInv, RemoteTypes
<1>2. lent = "delete" /\ frames # <<>> /\ Descend
      /\ UNCHANGED <<server, perms, quiet, lent, entries, said, present>>
  BY DEF DeleteDescends
<1>3. GoesOn /\ (Walked(frames, server) => Walked(frames', server))
  BY <1>1, <1>2, DescendedOn
<1>4. SearchRests
  BY <1>2, SearchWatches
<1> QED BY <1>1, <1>2, <1>3, <1>4, DeleteStep

LEMMA RemoveSweepsHolds ==
  ASSUME RemoteInv, RemoveSweeps
  PROVE  RemoteInv'
<1>1. RemoteTypes /\ server \in RemoteTrees /\ DeleteRuns
  BY DEF RemoteInv, RemoteTypes
<1>2. PICK q \in Places :
        /\ lent = "delete" /\ frames # <<>> /\ Asked(Top.at) = "dir"
        /\ q # Directory(Top.at) /\ IsPrefix(Directory(Top.at), q)
        /\ \A r \in Places : Len(r) = Len(q) + 1 /\ IsPrefix(q, r) => server[r] = "none"
        /\ server' = [server EXCEPT ![q] = "none"]
        /\ Watched /\ UNCHANGED <<perms, quiet, lent, entries, frames, said>>
  BY Zenon DEF RemoveSweeps, RemovingDir
<1>3. SearchRests
  BY <1>2, SearchWatches
<1>4. server' \in RemoteTrees
  BY <1>1, <1>2, TreeLoses
<1>5. Removable(q)
  BY <1>1, <1>2, SweptIsRemovable
<1>6. \A p \in Places : server'[p] = server[p] \/ (server'[p] = "none" /\ Removable(p))
  <2>1. server \in [Places -> Kinds]
    BY <1>1 DEF RemoteTrees
  <2> QED BY <1>2, <1>5, <2>1
<1>7. GoesOn /\ (Walked(frames, server) => Walked(frames', server))
  <2>1. Stacks(frames) /\ said \in [done : Nat, failed : Nat] /\ entries \in Seq(Places)
        /\ entries # <<>>
    BY <1>1, <1>2, StacksNow DEF RemoteTypes
  <2> QED BY <1>2, <2>1 DEF GoesOn
<1> QED BY <1>2, <1>3, <1>4, <1>6, <1>7, DeleteStep

\* A collection that is removed with all it holds may be removed.
LEMMA ClearsRemovable ==
  ASSUME RemoteInv, lent = "delete", frames # <<>>, Clear(Resolved(Top.at))
  PROVE  /\ server' \in RemoteTrees
         /\ \A p \in Places : server'[p] = server[p] \/ (server'[p] = "none" /\ Removable(p))
<1>1. /\ RemoteTypes /\ server \in RemoteTrees /\ DeleteRuns /\ firstServer \in RemoteTrees
      /\ picked \in Seq(Places)
  BY DEF RemoteInv, RemoteTypes
<1> DEFINE d == Resolved(Top.at)
<1>2. server' = [p \in Places |-> IF IsPrefix(d, p) THEN "none" ELSE server[p]]
  BY DEF Clear
<1>4. d \in Seq(STRING) /\ d # <<>>
  <2>1. Top.at \in PlaceNames
    BY <1>1, TopAt
  <2> QED BY <1>1, <2>1, ResolvedIs DEF PlaceNames, Resolved
<1>3. server' \in RemoteTrees
  BY <1>1, <1>2, <1>4, TreeClears
<1> HIDE DEF d
<1>5. ASSUME NEW p \in Places PROVE server'[p] = server[p]
                                     \/ (server'[p] = "none" /\ Removable(p))
  <2>1. CASE IsPrefix(d, p) /\ server[p] # "none"
    <3>1. d \in Places /\ server[d] # "none"
      <4>1. CASE d = p
        BY <2>1, <4>1
      <4>2. CASE d # p
        BY <1>1, <1>4, <2>1, <4>2, NothingBelow
      <4> QED BY <4>1, <4>2
    <3>2. Removable(d)
      BY <1>1, <3>1, TopIsRemovable DEF d
    <3>3. Removable(p)
      BY <1>1, <2>1, <3>1, <3>2, RemovableBelow
    <3> QED BY <1>2, <2>1, <3>3
  <2>2. CASE ~(IsPrefix(d, p) /\ server[p] # "none")
    BY <1>2, <2>2
  <2> QED BY <2>1, <2>2
<1> QED BY <1>3, <1>5

\* The outcomes of remove_dir.
LEMMA RemoveDirEnds ==
  ASSUME RemoveDir
  PROVE  \/ Kind(Top.at) = "dir" /\ Empty(Top.at) /\ Popped /\ Set(Top.at, "none")
         \/ ~follows /\ Popped /\ Clear(Resolved(Top.at))
         \/ Count1("failed") /\ UNCHANGED server
BY Zenon DEF RemoveDir

LEMMA RemoveDirHolds ==
  ASSUME RemoteInv, RemoveDir
  PROVE  RemoteInv'
<1>1. RemoteTypes /\ server \in RemoteTrees
  BY DEF RemoteInv, RemoteTypes
<1>2. lent = "delete" /\ frames # <<>> /\ Watched /\ UNCHANGED <<perms, quiet>>
  BY DEF RemoveDir, RemovingDir
<1>3. SearchRests
  BY <1>2, SearchWatches
<1>4. CASE Kind(Top.at) = "dir" /\ Empty(Top.at) /\ Popped /\ Set(Top.at, "none")
  <2>1. GoesOn /\ (Walked(frames, server) => Walked(frames', server))
    BY <1>1, <1>2, <1>4, PoppedOn
  <2>2. /\ server' \in RemoteTrees
        /\ \A p \in Places : server'[p] = server[p] \/ (server'[p] = "none" /\ Removable(p))
    BY <1>2, <1>4, RemovesOne
  <2> QED BY <1>2, <1>3, <2>1, <2>2, DeleteStep
<1>5. CASE ~follows /\ Popped /\ Clear(Resolved(Top.at))
  <2>1. GoesOn /\ (Walked(frames, server) => Walked(frames', server))
    BY <1>1, <1>2, <1>5, PoppedOn
  <2>2. /\ server' \in RemoteTrees
        /\ \A p \in Places : server'[p] = server[p] \/ (server'[p] = "none" /\ Removable(p))
    BY <1>2, <1>5, ClearsRemovable
  <2> QED BY <1>2, <1>3, <2>1, <2>2, DeleteStep
<1>6. CASE Count1("failed") /\ UNCHANGED server
  <2>1. GoesOn /\ \A s : Walked(frames', s)
    BY <1>1, <1>2, <1>6, Counted DEF RemoteTypes
  <2> QED BY <1>1, <1>2, <1>3, <1>6, <2>1, DeleteStep
<1> QED BY <1>4, <1>5, <1>6, RemoveDirEnds

LEMMA ChmodVisitsHolds ==
  ASSUME RemoteInv, ChmodVisits
  PROVE  RemoteInv'
<1>1. RemoteTypes /\ server \in RemoteTrees /\ perms \in [Places -> {"old", "new"}]
  BY DEF RemoteInv, RemoteTypes
<1>2. lent = "chmod" /\ frames # <<>> /\ UNCHANGED <<server, quiet, present>>
  BY DEF ChmodVisits
<1>3. SearchRests
  BY <1>2, SearchWatches
<1>4. perms' \in [Places -> {"old", "new"}] /\ GoesOn
  <2>1. CASE Top.new
    <3>1. Chmod(Top.at) /\ (Kind(Top.at) = "dir" => Left(Listed(Top.at))
          /\ UNCHANGED <<lent, entries, said>>)
          /\ (Kind(Top.at) # "dir" => Popped)
      BY <2>1 DEF ChmodVisits
    <3>2. perms' \in [Places -> {"old", "new"}]
      BY <1>1, <3>1 DEF Chmod
    <3>3. CASE Kind(Top.at) = "dir"
      <4> DEFINE s == [p \in Places |-> "none"]
      <4>1. ~(Top.at \in Places /\ s[Top.at] = "link")
        OBVIOUS
      <4>2. Listed(Top.at) \in SUBSET STRING
        BY ListedIs
      <4> HIDE DEF s
      <4> QED BY <1>1, <1>2, <3>1, <3>2, <3>3, <4>1, <4>2, LeftOn
    <3>4. CASE Kind(Top.at) # "dir"
      BY <1>1, <1>2, <3>1, <3>2, <3>4, PoppedOn
    <3> QED BY <3>3, <3>4
  <2>2. CASE ~Top.new
    <3>1. perms' = perms /\ (Top.kids = {} => Popped)
          /\ (Top.kids # {} => Descend /\ UNCHANGED <<lent, entries, said>>)
      BY <2>2 DEF ChmodVisits
    <3>2. CASE Top.kids = {}
      BY <1>1, <1>2, <3>1, <3>2, PoppedOn
    <3>3. CASE Top.kids # {}
      BY <1>1, <1>2, <3>1, <3>3, DescendedOn
    <3> QED BY <3>2, <3>3
  <2> QED BY <2>1, <2>2
<1> QED BY <1>1, <1>2, <1>3, <1>4, OtherStep

LEMMA ChmodFailsHolds ==
  ASSUME RemoteInv, ChmodFails
  PROVE  RemoteInv'
<1>1. RemoteTypes /\ server \in RemoteTrees /\ perms \in [Places -> {"old", "new"}]
  BY DEF RemoteInv, RemoteTypes
<1>2. lent = "chmod" /\ frames # <<>> /\ Count1("failed")
      /\ UNCHANGED <<server, perms, quiet, present>>
  BY DEF ChmodFails
<1>3. GoesOn
  BY <1>1, <1>2, Counted DEF RemoteTypes
<1>4. SearchRests
  BY <1>2, SearchWatches
<1> QED BY <1>1, <1>2, <1>3, <1>4, OtherStep

\* What is made in a directory leaves a tree in which nothing is missing.
LEMMA MadeIs ==
  ASSUME server \in RemoteTrees, NEW p, NEW k \in {"dir", "file"}, InDir(p), Kind(p) # "dir",
         Set(p, k)
  PROVE  server' \in RemoteTrees /\ \A r \in Places : server[r] # "none" => server'[r] # "none"
<1>1. Resolved(p) \in Places /\ server[Front(Resolved(p))] = "dir"
  BY DEF InDir
<1>2. server[Resolved(p)] # "dir"
  BY <1>1 DEF Kind
<1>3. [server EXCEPT ![Resolved(p)] = k] \in RemoteTrees
  BY <1>1, <1>2, TreeGains
<1>4. /\ server' = [server EXCEPT ![Resolved(p)] = k]
      /\ \A r \in Places : server'[r] = IF r = Resolved(p) THEN k ELSE server[r]
  BY <1>1, SetIs
<1> QED BY <1>3, <1>4

LEMMA MakeFolderHolds ==
  ASSUME RemoteInv, MakeFolder
  PROVE  RemoteInv'
<1>1. RemoteTypes /\ server \in RemoteTrees /\ perms \in [Places -> {"old", "new"}]
  BY DEF RemoteInv, RemoteTypes
<1>2. lent = "newFolder" /\ entries # <<>> /\ UNCHANGED <<perms, quiet, present>>
  BY DEF MakeFolder, OneCall
<1>3. Count1("done") \/ Count1("failed")
  BY DEF MakeFolder
<1>4. GoesOn
  BY <1>1, <1>2, <1>3, Counted
<1>5. server' \in RemoteTrees /\ \A r \in Places : server[r] # "none" => server'[r] # "none"
  <2>1. \/ server' = server
        \/ Kind(Head(entries)) = "none" /\ InDir(Head(entries)) /\ Set(Head(entries), "dir")
    BY DEF MakeFolder
  <2> QED BY <1>1, <2>1, MadeIs
<1>6. SearchRests
  BY <1>2, <1>5, SearchWatches
<1> QED BY <1>1, <1>2, <1>4, <1>5, <1>6, OtherStep

LEMMA MakeFileHolds ==
  ASSUME RemoteInv, MakeFile
  PROVE  RemoteInv'
<1>1. RemoteTypes /\ server \in RemoteTrees /\ perms \in [Places -> {"old", "new"}]
  BY DEF RemoteInv, RemoteTypes
<1>2. lent = "newFile" /\ entries # <<>> /\ UNCHANGED <<perms, quiet, present>>
  BY DEF MakeFile, OneCall
<1>3. Count1("done") \/ Count1("failed")
  BY DEF MakeFile
<1>4. GoesOn
  BY <1>1, <1>2, <1>3, Counted
<1>5. server' \in RemoteTrees /\ \A r \in Places : server[r] # "none" => server'[r] # "none"
  <2> DEFINE p == Head(entries)
  <2>1. \/ server' = server
        \/ Asked(p) # "dir" /\ Kind(p) # "link" /\ InDir(p) /\ Set(p, "file")
    BY DEF MakeFile
  <2>2. Asked(p) # "dir" => Kind(p) # "dir"
    <3> SUFFICES ASSUME Kind(p) = "dir" PROVE Asked(p) = "dir"
      OBVIOUS
    <3> QED BY DEF Asked
  <2> HIDE DEF p
  <2> QED BY <1>1, <2>1, <2>2, MadeIs
<1>6. SearchRests
  BY <1>2, <1>5, SearchWatches
<1> QED BY <1>1, <1>2, <1>4, <1>5, <1>6, OtherStep

\* A new name is not below the old one.
LEMMA RenameApart ==
  ASSUME NEW p \in Places, NEW q \in Places, p # q, Len(q) > 1,
         Front(q) = Front(p) \/ (Last(q) = Last(p) /\ Movable(p, Front(q)))
  PROVE  ~IsPrefix(p, Front(q))
<1>1. p \in Seq(STRING) /\ Len(p) \in Nat \ {0} /\ q \in Seq(STRING) /\ Len(q) \in Nat \ {0}
  BY PlacesAre
<1>2. Front(q) \in Seq(STRING) /\ IsPrefix(Front(q), q) /\ Len(Front(p)) = Len(p) - 1
  BY <1>1, FrontIs
<1> SUFFICES ASSUME IsPrefix(p, Front(q)) PROVE FALSE
  OBVIOUS
<1>3. CASE Front(q) = Front(p)
  <2>1. Len(p) <= Len(Front(p))
    BY <1>1, <1>2, <1>3, PrefixAll
  <2> QED BY <1>1, <1>2, <2>1
<1>4. CASE Last(q) = Last(p) /\ Movable(p, Front(q))
  <2> DEFINE u == Front(q)
             w == Append(u, Last(p))
  <2>1. ~IsPrefix(p, w)
    BY <1>4 DEF Movable
  <2>2. w \in Seq(STRING) /\ IsPrefix(u, w)
    <3> DEFINE l == Last(p)
    <3>1. l \in STRING /\ u \in Seq(STRING)
      BY <1>1, <1>2 DEF Last
    <3> HIDE DEF l, u
    <3>2. /\ Append(u, l) \in Seq(STRING) /\ Len(u) <= Len(Append(u, l))
          /\ \A i \in 1..Len(u) : u[i] = Append(u, l)[i]
      <4>1. \A T : \A s \in Seq(T), x \in T : /\ Append(s, x) \in Seq(T)
                                                 /\ Len(s) <= Len(Append(s, x))
                                              /\ \A i \in 1..Len(s) : s[i] = Append(s, x)[i]
        OBVIOUS
      <4> QED BY <3>1, <4>1, Zenon
    <3>3. IsPrefix(u, Append(u, l))
      BY <3>1, <3>2, PrefixIs
    <3> QED BY <3>2, <3>3 DEF l
  <2> HIDE DEF w
  <2>3. IsPrefix(p, w)
    BY <1>1, <1>2, <2>2, PrefixAll
  <2> QED BY <2>1, <2>3
<1> QED BY <1>3, <1>4

LEMMA RenameHolds ==
  ASSUME RemoteInv, NEW q \in Places, RenameTo(q)
  PROVE  RemoteInv'
<1>1. RemoteTypes /\ server \in RemoteTrees /\ perms \in [Places -> {"old", "new"}]
  BY DEF RemoteInv, RemoteTypes
<1>2. lent = "rename" /\ entries # <<>> /\ Watched /\ UNCHANGED <<perms, quiet>>
  BY DEF RenameTo, OneCall
<1>3. Count1("done") \/ Count1("failed")
  BY DEF RenameTo
<1>4. GoesOn
  BY <1>1, <1>2, <1>3, Counted
<1>5. server' \in RemoteTrees
  <2> DEFINE p == Resolved(Head(entries))
  <2>1. \/ server' = server
        \/ /\ p \in Places /\ server[p] # "none" /\ server[q] = "none" /\ Len(q) > 1
              /\ server[Front(q)] = "dir"
           /\ Front(q) = Front(p) \/ (Last(q) = Last(p) /\ Movable(p, Front(q)))
           /\ server' = MovedTree(p, q)
    BY DEF RenameTo
  <2> HIDE DEF p
  <2>2. CASE server' = server
    BY <1>1, <2>2
  <2>3. CASE /\ p \in Places /\ server[p] # "none" /\ server[q] = "none" /\ Len(q) > 1
                /\ server[Front(q)] = "dir"
             /\ Front(q) = Front(p) \/ (Last(q) = Last(p) /\ Movable(p, Front(q)))
             /\ server' = MovedTree(p, q)
    <3>1. p # q
      BY <2>3
    <3>2. ~IsPrefix(p, Front(q))
      BY <2>3, <3>1, RenameApart
    <3>3. MovedTree(p, q) \in RemoteTrees
      BY <1>1, <2>3, <3>2, TreeMoves
    <3> QED BY <2>3, <3>3
  <2> QED BY <2>1, <2>2, <2>3
<1>6. SearchRests
  BY <1>2, SearchWatches
<1> QED BY <1>1, <1>2, <1>4, <1>5, <1>6, OtherStep

(* The search. *)

LEMMA NothingAwaited == ASSUME scanQueue = <<>>, NEW p PROVE ~Awaited(p)
<1>1. DOMAIN <<>> = {}
  OBVIOUS
<1> QED BY <1>1 DEF Awaited

LEMMA BeginSearchHolds ==
  ASSUME RemoteInv, BeginSearch
  PROVE  RemoteInv'
<1>1. OpTypes /\ SearchTypes /\ RestTypes
  BY RemoteTypesAre DEF RemoteInv
<1>2. /\ scan' = "running" /\ scanQueue' = <<<<>>>> /\ flags' = {} /\ searchCancelled' = FALSE
      /\ present' = {p \in Places : server[p] # "none"}
      /\ UNCHANGED <<server, perms, follows, opVars, flow>>
  BY DEF BeginSearch
<1>3. scanQueue' \in Seq(Seq(STRING)) /\ DOMAIN scanQueue' = {1} /\ scanQueue'[1] = <<>>
  <2>1. <<>> \in Seq(STRING)
    BY EmptySeq
  <2> DEFINE e == <<>>
  <2>2. e \in Seq(STRING)
    BY <2>1
  <2> HIDE DEF e
  <2>3. <<e>> \in Seq(Seq(STRING)) /\ DOMAIN <<e>> = {1} /\ <<e>>[1] = e
    BY <2>2
  <2>4. scanQueue' = <<e>>
    BY <1>2 DEF e
  <2> QED BY <2>3, <2>4 DEF e
<1>4. SearchTypes' /\ RestTypes'
  BY <1>1, <1>2, <1>3 DEF SearchTypes, RestTypes
<1>5. SearchRuns'
  <2>1. \A p \in present' : server'[p] # "none"
    BY <1>2
  <2>2. ASSUME NEW p \in present' PROVE Awaited(p)'
    <3>1. p \in Places
      BY <1>2
    <3>2. p \in Seq(STRING) /\ Len(p) \in Nat \ {0} /\ <<>> \in Seq(STRING)
      BY <3>1, PlacesAre, EmptySeq
    <3>3. IsPrefix(<<>>, p)
      <4>1. Len(<<>>) <= Len(p) /\ \A i \in 1..Len(<<>>) : <<>>[i] = p[i]
        BY <3>2
      <4> QED BY <3>2, <4>1, PrefixIs
    <3>4. Above(<<>>, p)
      BY <3>2, <3>3 DEF Above
    <3> QED BY <1>3, <3>4 DEF Awaited, Above
  <2> QED BY <1>2, <2>1, <2>2 DEF SearchRuns
<1> QED BY <1>2, <1>4, <1>5, OperationRests

LEMMA CancelSearchHolds ==
  ASSUME RemoteInv, CancelSearch
  PROVE  RemoteInv'
<1>1. OpTypes /\ SearchTypes /\ RestTypes /\ SearchRuns
  BY RemoteTypesAre DEF RemoteInv
<1>2. searchCancelled' = TRUE
      /\ UNCHANGED <<server, perms, follows, opVars, flow, scan, scanQueue, matches, flags,
         present>>
  BY DEF CancelSearch
<1>3. SearchTypes' /\ RestTypes'
  BY <1>1, <1>2 DEF SearchTypes, RestTypes
<1>4. SearchRuns'
  BY <1>1, <1>2 DEF SearchRuns
<1> QED BY <1>2, <1>3, <1>4, OperationRests

LEMMA CloseSearchHolds ==
  ASSUME RemoteInv, CloseSearch
  PROVE  RemoteInv'
<1>1. OpTypes /\ SearchTypes /\ RestTypes /\ SearchRuns
  BY RemoteTypesAre DEF RemoteInv
<1>2. scan' = "idle" /\ flags' = {} /\ scanQueue' = <<>>
      /\ UNCHANGED <<server, perms, follows, opVars, flow, searchCancelled, present>>
  BY DEF CloseSearch, scanFrame
<1>3. scanQueue' \in Seq(Seq(STRING))
  BY <1>2, EmptySeq
<1>4. SearchTypes' /\ RestTypes'
  BY <1>1, <1>2, <1>3 DEF SearchTypes, RestTypes
<1>5. SearchRuns'
  BY <1>1, <1>2 DEF SearchRuns
<1> QED BY <1>2, <1>4, <1>5, OperationRests

LEMMA SearchStepHolds ==
  ASSUME RemoteInv, SearchStep
  PROVE  RemoteInv'
<1>1. RemoteTypes /\ OpTypes /\ SearchTypes /\ RestTypes /\ SearchRuns
  BY RemoteTypesAre DEF RemoteInv
<1>2. scan = "running" /\ UNCHANGED <<server, perms, follows, opVars, flow, searchCancelled,
      present>>
  BY DEF SearchStep, scanFrame
<1>3. \A p \in present : server[p] # "none"
  BY <1>1 DEF SearchRuns
<1> SUFFICES SearchTypes' /\ SearchRuns'
  <2>1. RestTypes'
    BY <1>1, <1>2 DEF RestTypes
  <2> QED BY <1>2, <2>1, OperationRests
\* It ends.
<1>4. ASSUME NEW f \in SUBSET Flags, SearchEnds(f), f = {} => scanQueue = <<>>
      \/ searchCancelled \/ "truncated" \in flags
      PROVE  SearchTypes' /\ SearchRuns'
  <2>1. scan' = "shown" /\ flags' = flags \cup f /\ scanQueue' = scanQueue /\ matches' = matches
    BY <1>4 DEF SearchEnds
  <2>2. SearchTypes'
    BY <1>1, <1>2, <2>1 DEF SearchTypes
  <2>3. ASSUME flags' = {}, ~searchCancelled', NEW p \in present' PROVE Found(p)'
    <3>1. flags = {} /\ f = {} /\ ~searchCancelled /\ p \in present
      BY <1>2, <2>1, <2>3
    <3>2. scanQueue = <<>>
      BY <1>4, <3>1
    <3>3. Found(p) \/ Awaited(p)
      BY <1>1, <1>2, <3>1 DEF SearchRuns
    <3>4. Found(p)
      BY <3>2, <3>3, NothingAwaited
    <3> QED BY <2>1, <3>4 DEF Found
  <2> QED BY <1>2, <1>3, <2>1, <2>2, <2>3 DEF SearchRuns
\* A folder is listed, or not.
<1>5. ASSUME scanQueue # <<>>, FolderListed(Head(scanQueue)) PROVE SearchTypes' /\ SearchRuns'
  <2>1. scanQueue' \in Seq(Seq(STRING)) /\ scan' = scan /\ flags \subseteq flags'
        /\ flags' \subseteq Flags
    BY <1>1, <1>5, QueueIs
  <2>2. SearchTypes'
    BY <1>1, <1>2, <2>1 DEF SearchTypes
  <2>3. ASSUME flags' = {}, ~searchCancelled' PROVE \A p \in present' : Found(p)' \/ Awaited(p)'
    <3>1. flags = {} /\ ~searchCancelled
      BY <1>2, <2>1, <2>3
    <3>2. \A p \in present : Found(p) \/ Awaited(p)
      BY <1>1, <1>2, <3>1 DEF SearchRuns
    <3> QED BY <1>1, <1>2, <1>3, <1>5, <3>1, <3>2, ListingFinds
  <2> QED BY <1>2, <1>3, <2>1, <2>2, <2>3 DEF SearchRuns
<1>6. ASSUME scanQueue # <<>>, FolderFails PROVE SearchTypes' /\ SearchRuns'
  <2>1. scanQueue' = Tail(scanQueue) /\ scan' = scan /\ flags' = flags \cup {"errors"}
    BY <1>6 DEF FolderFails
  <2>2. scanQueue' \in Seq(Seq(STRING))
    BY <1>1, <1>6, <2>1 DEF SearchTypes
  <2>3. SearchTypes'
    BY <1>1, <1>2, <2>1, <2>2 DEF SearchTypes, Flags
  <2> QED BY <1>2, <1>3, <2>1, <2>3 DEF SearchRuns
<1>7. CASE scanQueue = <<>>
  <2>1. SearchEnds({})
    BY <1>7 DEF SearchStep
  <2> QED BY <1>4, <1>7, <2>1
<1>8. CASE scanQueue # <<>> /\ searchCancelled
  <2>1. SearchEnds({"canceled"}) \/ FolderListed(Head(scanQueue))
    BY <1>8 DEF SearchStep
  <2>2. {"canceled"} \in SUBSET Flags
    BY DEF Flags
  <2> QED BY <1>4, <1>5, <1>8, <2>1, <2>2
<1>9. CASE scanQueue # <<>> /\ ~searchCancelled /\ "truncated" \in flags
  <2>1. SearchEnds({})
    BY <1>9 DEF SearchStep
  <2> QED BY <1>4, <1>9, <2>1
<1>10. CASE scanQueue # <<>> /\ ~searchCancelled /\ "truncated" \notin flags
  <2>1. FolderFails \/ FolderListed(Head(scanQueue))
    BY <1>10 DEF SearchStep
  <2> QED BY <1>5, <1>6, <1>10, <2>1
<1> QED BY <1>7, <1>8, <1>9, <1>10

LEMMA OtherAddsHolds ==
  ASSUME RemoteInv, NEW p \in Places, OtherAdds(p)
  PROVE  RemoteInv'
<1>1. OpTypes /\ SearchTypes /\ RestTypes /\ SearchRuns
  BY RemoteTypesAre DEF RemoteInv
<1>2. /\ server[p] = "none" /\ Len(p) > 1 /\ server[Front(p)] = "dir"
      /\ server' = [server EXCEPT ![p] = "file"]
      /\ UNCHANGED <<perms, follows, opVars, flow, searchVars, present>>
  BY DEF OtherAdds
<1>3. server \in RemoteTrees /\ server \in [Places -> Kinds]
  BY <1>1 DEF RestTypes, RemoteTrees
<1>4. server' \in RemoteTrees
  BY <1>2, <1>3, TreeGains
<1>5. \A r \in Places : server'[r] = server[r] \/ (server[r] = "none" /\ server'[r] = "file")
  BY <1>2, <1>3
<1>6. SearchTypes' /\ RestTypes'
  BY <1>1, <1>2, <1>4 DEF SearchTypes, RestTypes, searchVars
<1>7. SearchRuns'
  <2>1. \A r \in present : server[r] # "none" /\ r \in Places
    BY <1>1 DEF SearchRuns, SearchTypes
  <2>2. \A r \in present' : server'[r] # "none"
    BY <1>2, <1>5, <2>1
  <2>3. SearchRests
    BY <1>2, <2>2 DEF SearchRests
  <2> QED BY <1>1, <2>3, SearchKeeps
<1> QED BY <1>2, <1>5, <1>6, <1>7, OperationRests

(* The invariant. *)

LEMMA RemoteStarts ==
  ASSUME RemoteInit
  PROVE  RemoteInv
<1>1. /\ server \in Servers0 /\ follows \in BOOLEAN /\ perms = [p \in Places |-> "old"]
      /\ lent = "none" /\ entries = <<>> /\ frames = <<>> /\ said = [done |-> 0, failed |-> 0]
      /\ flow = <<>>
      /\ scan = "idle" /\ scanQueue = <<>> /\ flags = {} /\ searchCancelled = FALSE
      /\ picked = <<>> /\ firstServer = server /\ present = {}
  <2>1. (\E p \in Places : server[p] = "link") \in BOOLEAN
    OBVIOUS
  <2> QED BY <2>1 DEF RemoteInit
<1>2. server \in RemoteTrees
  BY <1>1, ServersAssumption
<1>3. OpTypes
  <2>1. Stacks(frames)
    BY <1>1, NoFramesAre DEF NoFrames
  <2>2. <<>> \in Seq(Places)
    BY EmptySeq
  <2> QED BY <1>1, <1>2, <2>1, <2>2 DEF OpTypes
<1>4. SearchTypes /\ RestTypes
  <2>1. <<>> \in Seq(Places) /\ <<>> \in Seq(Seq(STRING))
    BY EmptySeq
  <2> QED BY <1>1, <1>2, <2>1 DEF SearchTypes, RestTypes
<1>5. DeleteRuns /\ DeletesInside /\ SearchRuns
  BY <1>1 DEF DeleteRuns, DeletesInside, SearchRuns
<1> QED BY <1>3, <1>4, <1>5, RemoteTypesAre DEF RemoteInv

LEMMA RemoteStutters ==
  ASSUME RemoteInv, UNCHANGED remoteVars
  PROVE  RemoteInv'
<1>1. UNCHANGED <<server, perms, follows, opVars, flow, searchVars, present>>
  BY DEF remoteVars, opVars, searchVars
<1>2. flow' \in Seq(Places)
  BY <1>1 DEF RemoteInv, RemoteTypes
<1> QED BY <1>1, <1>2, DialogHolds

LEMMA RemoteStays ==
  ASSUME RemoteInv, [RemoteNext]_remoteVars
  PROVE  RemoteInv'
<1>p. Picks \subseteq Seq(Places)
  BY PlacesAssumption
<1>1. ASSUME NEW s \in Picks, Borrow("delete", s) \/ Borrow("rename", s) PROVE RemoteInv'
  BY <1>1, <1>p, BorrowHolds
<1>2. ASSUME NEW s \in Picks, OpenPermissions(s) PROVE RemoteInv'
  BY <1>2, <1>p, DialogHolds DEF OpenPermissions
<1>3. ASSUME NEW p \in Places, Borrow("newFolder", <<p>>) \/ Borrow("newFile", <<p>>)
      PROVE RemoteInv'
  <2>1. <<p>> \in Seq(Places)
    OBVIOUS
  <2> QED BY <1>3, <2>1, BorrowHolds
<1>4. ASSUME DismissPermissions PROVE RemoteInv'
  <2>1. flow' \in Seq(Places) /\ UNCHANGED <<server, perms, follows, opVars, searchVars,
        present>>
    BY <1>4, EmptySeq DEF DismissPermissions
  <2> QED BY <2>1, DialogHolds
<1>5. ASSUME BeginEntry \/ DeleteFails \/ DeleteAsks \/ DeleteDescends \/ RemoveSweeps
             \/ RemoveDir
      PROVE RemoteInv'
  BY <1>5, BeginEntryHolds, DeleteFailsHolds, DeleteAsksHolds, DeleteDescendsHolds,
    RemoveSweepsHolds, RemoveDirHolds, Zenon
<1>6. ASSUME ApplyPermissions \/ ChmodVisits \/ ChmodFails \/ MakeFolder \/ MakeFile
      \/ ReturnClientHome
      PROVE  RemoteInv'
  BY <1>6, ApplyHolds, ChmodVisitsHolds, ChmodFailsHolds, MakeFolderHolds, MakeFileHolds,
    HomeHolds, Zenon
<1>7. ASSUME NEW q \in Places, RenameTo(q) PROVE RemoteInv'
  BY <1>7, RenameHolds
<1>8. ASSUME BeginSearch \/ CancelSearch \/ SearchStep \/ CloseSearch PROVE RemoteInv'
  BY <1>8, BeginSearchHolds, CancelSearchHolds, SearchStepHolds, CloseSearchHolds, Zenon
<1>9. ASSUME NEW p \in Places, OtherAdds(p) PROVE RemoteInv'
  BY <1>9, OtherAddsHolds
<1>10. ASSUME UNCHANGED remoteVars PROVE RemoteInv'
  BY <1>10, RemoteStutters
<1>11. CASE RemoteNext
  BY <1>11, <1>1, <1>2, <1>3, <1>4, <1>5, <1>6, <1>7, <1>8, <1>9, Zenon DEF RemoteNext
<1> QED BY <1>10, <1>11

LEMMA RemoteShows ==
  ASSUME RemoteInv
  PROVE  RemoteTypeOK /\ DeletesInside /\ SearchTells
<1>1. RemoteTypes /\ DeletesInside /\ SearchRuns
  BY DEF RemoteInv
<1>2. RemoteTypeOK
  <2>1. Stacks(frames)
    BY <1>1, StacksNow
  <2>2. \A i \in DOMAIN frames : frames[i].new \in BOOLEAN
        /\ (frames[i].new => frames[i].kids = {})
    BY <2>1, FrameIs
  <2>3. \A i \in DOMAIN entries : entries[i] \in Places
    BY <1>1 DEF RemoteTypes
  <2> QED BY <1>1, <2>2, <2>3 DEF RemoteTypes, RemoteTypeOK
<1>3. SearchTells
  BY <1>1 DEF SearchRuns, SearchTells, Found
<1> QED BY <1>1, <1>2, <1>3

\* A delete of the remote pane removes nothing but what was selected and, where
\* asking looks through links, what a link in the selection leads to, whatever others
\* add at the same time; and a search that reports nothing amiss has found all there
\* was.  (remote.rs)
THEOREM RemotePaneIsSafe == RemoteSpec => [](RemoteTypeOK /\ DeletesInside /\ SearchTells)
<1>1. RemoteInit => RemoteInv
  BY RemoteStarts
<1>2. RemoteInv /\ [RemoteNext]_remoteVars => RemoteInv'
  BY RemoteStays
<1>3. RemoteInv => RemoteTypeOK /\ DeletesInside /\ SearchTells
  BY RemoteShows
<1> QED BY <1>1, <1>2, <1>3, PTL DEF RemoteSpec

(* What is counted as deleted. *)

GoneNow == \A p \in Places : IsPrefix(Head(entries), p) =>
             server'[p] = "none" \/ (follows /\ server'[p] = "link")

LEMMA PoppedCounts ==
  ASSUME RemoteInv, lent = "delete", frames # <<>>, Popped, said'.done > said.done
  PROVE  Top.at = Head(entries) /\ Head(entries) \in Places
<1>1. RemoteTypes /\ DeleteRuns
  BY DEF RemoteInv
<1>2. Len(frames) = 1
  <2> SUFFICES ASSUME Len(frames) # 1 PROVE FALSE
    OBVIOUS
  <2>1. said' = said
    BY DEF Popped
  <2>2. said.done \in Nat
    BY <1>1 DEF RemoteTypes
  <2> QED BY <2>1, <2>2
<1>3. entries # <<>> /\ entries \in Seq(Places) /\ frames[1].at = entries[1]
  BY <1>1 DEF RemoteTypes, DeleteRuns
<1> QED BY <1>2, <1>3 DEF Top

\* Nothing is left below what is no directory now.
LEMMA GoneBelow ==
  ASSUME NEW s \in RemoteTrees, NEW t \in RemoteTrees, NEW h \in Places,
         NEW K, "none" \in K, "dir" \notin K,
         Links(s, h) = {} => t[h] \in K,
         \A r \in Places : t[r] \in {s[r], "none"},
         NEW p \in Places, IsPrefix(h, p)
  PROVE  t[p] \in K
<1>1. h \in PlaceNames /\ h \in Seq(STRING) /\ h # <<>>
  BY PlacesAre
<1>2. CASE Links(s, h) # {}
  <2>1. s[p] = "none"
    BY <1>1, <1>2, NothingThrough
  <2>2. t[p] = "none"
    BY <2>1
  <2> QED BY <2>2
<1>3. CASE Links(s, h) = {}
  <2>1. CASE p = h
    BY <1>3, <2>1
  <2>2. CASE p # h
    <3>1. t[h] # "dir"
      BY <1>3
    <3>2. t[p] = "none"
      BY <1>1, <2>2, <3>1, NothingBelow
    <3> QED BY <3>2
  <2> QED BY <2>1, <2>2
<1> QED BY <1>2, <1>3

LEMMA CallIsGone ==
  ASSUME RemoteInv, lent = "delete", frames # <<>>, Popped, said'.done > said.done,
         \/ server' = server /\ (Kind(Top.at) = "none" \/ (Kind(Top.at) = "link" /\ follows))
         \/ Set(Top.at, "none") /\ Kind(Top.at) # "none"
            /\ (Kind(Top.at) = "dir" => Empty(Top.at))
         \/ Clear(Resolved(Top.at))
  PROVE  GoneNow
<1> DEFINE h == Head(entries)
           K == {"none"} \cup (IF follows THEN {"link"} ELSE {})
<1>1. Top.at = h /\ h \in Places
  BY PoppedCounts
<1>2. server \in RemoteTrees /\ server \in [Places -> Kinds]
  BY DEF RemoteInv, RemoteTypes, RemoteTrees
<1>K. "none" \in K /\ "dir" \notin K /\ (follows => "link" \in K)
      /\ \A x : x \in K => x = "none" \/ (follows /\ x = "link")
  OBVIOUS
<1> HIDE DEF h, K
<1>3. Links(server, h) = {} => Resolved(h) = h
  BY NoLinkResolved DEF Resolved
<1>4. server' \in RemoteTrees /\ (\A r \in Places : server'[r] \in {server[r], "none"})
      /\ (Links(server, h) = {} => server'[h] \in K)
  <2>1. CASE server' = server /\ (Kind(h) = "none" \/ (Kind(h) = "link" /\ follows))
    <3>1. Links(server, h) = {} => Kind(h) = server[h]
      BY <1>1, <1>3 DEF Kind
    <3> QED BY <1>2, <1>K, <2>1, <3>1
  <2>2. CASE Set(h, "none") /\ Kind(h) # "none" /\ (Kind(h) = "dir" => Empty(h))
    <3>1. /\ server' \in RemoteTrees
          /\ \A r \in Places : server'[r] = IF r = Resolved(h) THEN "none" ELSE server[r]
      BY <1>2, <2>2, RemovalKeepsTree
    <3> QED BY <1>1, <1>3, <1>K, <3>1
  <2>3. CASE Clear(Resolved(h))
    <3>1. server' = [p \in Places |-> IF IsPrefix(Resolved(h), p) THEN "none" ELSE server[p]]
      BY <2>3 DEF Clear
    <3>2. server' \in RemoteTrees
      <4>1. Resolved(h) \in Seq(STRING)
        BY <1>1, <1>2, PlacesAre, ResolvedIs DEF Resolved, PlaceNames
      <4> QED BY <1>2, <3>1, <4>1, TreeClears
    <3>3. IsPrefix(h, h)
      BY <1>1, PlacesAre, PrefixAll
    <3> QED BY <1>1, <1>3, <1>K, <3>1, <3>2, <3>3
  <2> QED BY <1>1, <2>1, <2>2, <2>3
<1>5. ASSUME NEW p \in Places, IsPrefix(h, p)
      PROVE  server'[p] = "none" \/ (follows /\ server'[p] = "link")
  <2>1. server'[p] \in K
    BY <1>1, <1>2, <1>4, <1>5, <1>K, GoneBelow
  <2> QED BY <1>K, <2>1
<1> QED BY <1>5 DEF GoneNow, h

LEMMA CountedIsGone ==
  ASSUME RemoteInv, RemoteNext, lent = "delete", said'.done > said.done
  PROVE  GoneNow
<1>1. RemoteTypes /\ server \in RemoteTrees /\ said \in [done : Nat, failed : Nat]
  BY DEF RemoteInv, RemoteTypes
<1>2. ASSUME said' = said PROVE FALSE
  <2>1. said.done \in Nat
    BY <1>1
  <2> QED BY <1>2, <2>1
<1>3. ASSUME Count1("failed") PROVE FALSE
  <2>1. said' = [said EXCEPT !["failed"] = @ + 1]
    BY <1>3 DEF Count1
  <2>2. said'.done = said.done /\ said.done \in Nat
    BY <1>1, <2>1
  <2> QED BY <2>2
<1>4. ASSUME UNCHANGED opVars PROVE FALSE
  BY <1>2, <1>4 DEF opVars
<1>5. CASE DeleteAsks
  <2>1. frames # <<>> /\ Asked(Top.at) \in {"none", "dir", "file"}
    BY <1>1, <1>5, AskedIs DEF DeleteAsks
  <2>2. CASE Asked(Top.at) = "none"
    <3>1. Popped /\ server' = server
      BY <1>5, <2>2 DEF DeleteAsks
    <3>2. Kind(Top.at) = "none" \/ (Kind(Top.at) = "link" /\ follows)
      BY <1>1, <2>2, AskedIs
    <3> QED BY <2>1, <3>1, <3>2, CallIsGone
  <2>3. CASE Asked(Top.at) = "dir"
    <3>1. said' = said
      BY <1>5, <2>3 DEF DeleteAsks
    <3> QED BY <1>2, <3>1
  <2>4. CASE Asked(Top.at) = "file"
    <3>1. Popped /\ Set(Top.at, "none")
      BY <1>5, <2>4 DEF DeleteAsks
    <3>2. Kind(Top.at) # "none" /\ Kind(Top.at) # "dir"
      BY <1>1, <2>4, AskedIs
    <3> QED BY <2>1, <3>1, <3>2, CallIsGone
  <2> QED BY <2>1, <2>2, <2>3, <2>4
<1>6. CASE RemoveDir
  <2>1. frames # <<>>
    BY <1>6 DEF RemoveDir, RemovingDir
  <2>2. CASE Kind(Top.at) = "dir" /\ Empty(Top.at) /\ Popped /\ Set(Top.at, "none")
    BY <2>1, <2>2, CallIsGone
  <2>3. CASE Popped /\ Clear(Resolved(Top.at))
    BY <2>1, <2>3, CallIsGone
  <2>4. CASE Count1("failed")
    BY <1>3, <2>4
  <2> QED BY <1>6, <2>2, <2>3, <2>4, RemoveDirEnds
<1>7. ASSUME BeginEntry \/ DeleteDescends \/ RemoveSweeps \/ DeleteFails PROVE FALSE
  <2>1. said' = said \/ Count1("failed")
    BY <1>7 DEF BeginEntry, DeleteDescends, RemoveSweeps, DeleteFails
  <2> QED BY <1>2, <1>3, <2>1
<1>8. ASSUME ApplyPermissions \/ ChmodVisits \/ ChmodFails \/ MakeFolder \/ MakeFile
      \/ DismissPermissions PROVE FALSE
  <2>1. ApplyPermissions \/ DismissPermissions
    BY <1>8 DEF ChmodVisits, ChmodFails, MakeFolder, MakeFile, OneCall
  <2>2. UNCHANGED opVars
    BY <2>1 DEF ApplyPermissions, DismissPermissions
  <2> QED BY <1>4, <2>2
<1>9. ASSUME ReturnClientHome PROVE FALSE
  BY <1>2, <1>9 DEF ReturnClientHome
<1>10. ASSUME NEW op, NEW sel, Borrow(op, sel) PROVE FALSE
  BY <1>10 DEF Borrow
<1>11. ASSUME NEW s, OpenPermissions(s) PROVE FALSE
  BY <1>4, <1>11 DEF OpenPermissions
<1>12. ASSUME NEW q, RenameTo(q) PROVE FALSE
  BY <1>12 DEF RenameTo, OneCall
<1>13. ASSUME BeginSearch \/ CancelSearch \/ SearchStep \/ CloseSearch PROVE FALSE
  BY <1>4, <1>13 DEF BeginSearch, CancelSearch, SearchStep, CloseSearch, scanFrame
<1>14. ASSUME NEW p, OtherAdds(p) PROVE FALSE
  BY <1>4, <1>14 DEF OtherAdds
<1> QED BY <1>5, <1>6, <1>7, <1>8, <1>9, <1>10, <1>11, <1>12, <1>13, <1>14, Zenon DEF RemoteNext

\* What a delete counts as deleted is gone with all it held, whatever others added
\* to it meanwhile; a link that leads nowhere excepted, over SFTP.
\* (remote.rs: delete_entries, delete_one; the backends' remove_dir)
THEOREM CountedAsDeletedIsGone == RemoteSpec => DeletedIsGone
<1> DEFINE A == lent = "delete" /\ said'.done > said.done =>
                  \A p \in Places : IsPrefix(Head(entries), p)
                    => server'[p] = "none" \/ (follows /\ server'[p] = "link")
<1>1. RemoteInit => RemoteInv
  BY RemoteStarts
<1>2. RemoteInv /\ [RemoteNext]_remoteVars => RemoteInv'
  BY RemoteStays
<1>3. RemoteInv /\ [RemoteNext]_remoteVars => [A]_remoteVars
  <2> SUFFICES ASSUME RemoteInv, RemoteNext PROVE A
    OBVIOUS
  <2> QED BY CountedIsGone DEF GoneNow
<1>4. RemoteSpec => [][A]_remoteVars
  <2> HIDE DEF A
  <2> QED BY <1>1, <1>2, <1>3, PTL DEF RemoteSpec
<1> QED BY <1>4 DEF DeletedIsGone

------------------------------------------------------------------------------
(* The local pane.                                                         *)

(***************************************************************************)
(* The local panes (LocalFiles.tla: local_fs.rs and the copy, move and     *)
(* delete of main.rs).                                                     *)
(***************************************************************************)
\* What a path is on a disk, and the path a program reaches through it.
AtOn(d, p) == IF p \in DiskPaths THEN d[p] ELSE "none"
RealOn(d, p) == IF AtOn(d, p) = "link" THEN LinkTo ELSE p
\* A file of the source is whole where it goes.
ThereOn(d, f) == AtOn(d, RealOn(d, Onto(f[1]))) = f[2]
Stands(d) == \A f \in Kept : d[f[1]] = f[2]
Arrived(d) == \A f \in Kept : ThereOn(d, f)
Settled(d) == \A f \in Kept : d[f[1]] = f[2] \/ (job.op = "move" /\ ThereOn(d, f))

Handling == {"ask", "act", "rename", "walk"}
LocalOps == {"none", "copy", "move", "delete", "rename", "newFolder", "newFile"}
LocalTypes ==
  /\ disk \in DiskTrees /\ split \in BOOLEAN /\ job.op \in LocalOps
  /\ step \in {"idle", "next"} \cup Handling
  /\ rest \in Seq(DiskPaths) /\ jobTodo \subseteq DiskPaths
  /\ jobOutcome \in {"none", "ok", "failed", "skipped"}
  /\ jobs \in 0..MaxJobs /\ writes \in 0..MaxWrites
  /\ job.dest \in Seq(STRING) /\ from \in Seq(STRING) /\ onto \in Seq(STRING)
  /\ Copies \/ job.op = "rename" => job.dest \in DiskPaths
\* There is a source while one is handled, and a target where one is needed.
HandledIs ==
  step \in Handling =>
    rest # <<>> /\ from \in DiskPaths /\ (Copies \/ job.op = "rename" => onto # <<>>)
\* The history holds files of the source, of a copy or a move.
BeforeIs ==
  \A f \in before : f[1] \in DiskPaths /\ IsPrefix(from, f[1]) /\ IsDiskFile(f[2]) /\ Copies
RenameIsMove == step = "rename" => job.op = "move"
\* What is replaced is not what is copied.
Apart == Copies /\ step \in {"ask", "act", "rename"} => Real(from) # Real(onto)
\* Until a source is counted, its files are as they were.
Whole == step \in Handling => Stands(disk)
\* The walk: a file is in the target, or what the walk has found leads to it.
Brought(f) == At(Onto(f[1])) = f[2]
Walking ==
  step = "walk" =>
    /\ Copies /\ (job.op = "move" => Head(from) # Head(onto))
    /\ \A q \in DiskPaths : IsPrefix(onto, q) => disk[q] # "link"
    /\ \A t \in jobTodo : IsPrefix(from, t)
    /\ \A f \in Kept : Brought(f) \/ \E t \in jobTodo : IsPrefix(t, f[1])
Settling == Settled(disk) /\ (Copies /\ step = "next" /\ jobOutcome = "ok" => Arrived(disk))
LocalInv ==
  /\ LocalTypes /\ HandledIs /\ BeforeIs /\ RenameIsMove /\ Apart /\ Whole /\ Walking
  /\ Settling

LEMMA DiskIs ==
  /\ PathsOf(DiskPaths) /\ LinkTo \in DiskPaths /\ Selections \subseteq Seq(DiskPaths)
  /\ Folders \subseteq DiskPaths /\ MaxJobs \in Nat /\ MaxWrites \in Nat
  BY DiskAssumption DEF PathsOf, Parent

LEMMA DiskPathIs == \A p \in DiskPaths : p \in Seq(STRING) /\ p # <<>> /\ Len(p) \in Nat \ {0}
  BY DiskIs, PathIs

LEMMA TreesAre ==
  ASSUME NEW d \in DiskTrees
  PROVE  /\ d \in [DiskPaths -> DiskContents] /\ TreeOn(DiskPaths, d)
         /\ \A p \in DiskPaths : d[p] \in DiskContents
  BY DEF DiskTrees, HasParent, TreeOn, Parent

LEMMA TreesIf ==
  ASSUME NEW d \in [DiskPaths -> DiskContents], TreeOn(DiskPaths, d) PROVE d \in DiskTrees
  BY DEF DiskTrees, HasParent, TreeOn, Parent

LEMMA ContentsAre == {"none", "dir", "link", "part", "empty", "new"} \subseteq DiskContents
  BY DEF DiskContents

\* The place of an entry of the source in the target.
LEMMA RebasedIs ==
  ASSUME NEW a \in Seq(STRING), NEW b \in Seq(STRING), NEW p \in Seq(STRING), IsPrefix(a, p)
  PROVE  /\ Rebased(p, a, b) \in Seq(STRING) /\ Len(Rebased(p, a, b)) = Len(b) + Len(p) - Len(a)
         /\ Len(a) <= Len(p)
         /\ \A k \in 1..(Len(b) + Len(p) - Len(a)) :
              Rebased(p, a, b)[k] = IF k <= Len(b) THEN b[k] ELSE p[k - Len(b) + Len(a)]
<1>1. Len(a) <= Len(p) /\ Len(a) \in Nat /\ Len(p) \in Nat
  BY PrefixAll
<1>2. Len(a) \in 0..Len(p)
  BY <1>1
<1> QED BY <1>1, <1>2, GraftIs DEF Rebased

\* It is in the target.
LEMMA RebasedUnder ==
  ASSUME NEW a \in Seq(STRING), NEW b \in Seq(STRING), NEW p \in Seq(STRING), IsPrefix(a, p)
  PROVE  IsPrefix(b, Rebased(p, a, b))
<1> DEFINE r == Rebased(p, a, b)
<1>1. /\ r \in Seq(STRING) /\ Len(r) = Len(b) + Len(p) - Len(a) /\ Len(a) <= Len(p)
      /\ \A k \in 1..(Len(b) + Len(p) - Len(a)) : r[k] = IF k <= Len(b) THEN b[k]
                                                         ELSE p[k - Len(b) + Len(a)]
  BY RebasedIs
<1>0. Len(a) \in Nat /\ Len(b) \in Nat /\ Len(p) \in Nat
  OBVIOUS
<1> HIDE DEF r
<1>2. Len(b) <= Len(r) /\ \A k \in 1..Len(b) : b[k] = r[k]
  BY <1>0, <1>1
<1> QED BY <1>1, <1>2, PrefixIs DEF r

\* Two entries have two places.
LEMMA RebasedOnce ==
  ASSUME NEW a \in Seq(STRING), NEW b \in Seq(STRING), NEW p \in Seq(STRING), IsPrefix(a, p),
         NEW q \in Seq(STRING), IsPrefix(a, q), Rebased(p, a, b) = Rebased(q, a, b)
  PROVE  p = q
<1> DEFINE r == Rebased(p, a, b)
<1>1. /\ Len(r) = Len(b) + Len(p) - Len(a) /\ Len(a) <= Len(p)
      /\ \A k \in 1..(Len(b) + Len(p) - Len(a)) : r[k] = IF k <= Len(b) THEN b[k]
                                                         ELSE p[k - Len(b) + Len(a)]
  BY RebasedIs
<1>2. /\ Len(r) = Len(b) + Len(q) - Len(a) /\ Len(a) <= Len(q)
      /\ \A k \in 1..(Len(b) + Len(q) - Len(a)) : r[k] = IF k <= Len(b) THEN b[k]
                                                         ELSE q[k - Len(b) + Len(a)]
  <2> DEFINE t == Rebased(q, a, b)
  <2>1. /\ t \in Seq(STRING) /\ Len(t) = Len(b) + Len(q) - Len(a)
        /\ Len(a) <= Len(q)
        /\ \A k \in 1..(Len(b) + Len(q) - Len(a)) : t[k] = IF k <= Len(b) THEN b[k]
                                                           ELSE q[k - Len(b) + Len(a)]
    BY RebasedIs
  <2>2. t = r
    OBVIOUS
  <2> HIDE DEF t, r
  <2> QED BY <2>1, <2>2
<1>0. Len(a) \in Nat /\ Len(b) \in Nat /\ Len(p) \in Nat /\ Len(q) \in Nat
  OBVIOUS
<1> HIDE DEF r
<1>3. Len(p) = Len(q)
  BY <1>0, <1>1, <1>2
<1>4. ASSUME NEW i \in 1..Len(p) PROVE p[i] = q[i]
  <2>1. CASE i <= Len(a)
    <3>1. p[i] = a[i] /\ q[i] = a[i]
      BY <1>0, <2>1, PrefixIs
    <3> QED BY <3>1
  <2>2. CASE ~(i <= Len(a))
    <3> DEFINE k == i - Len(a) + Len(b)
    <3>1. k \in 1..(Len(b) + Len(p) - Len(a)) /\ ~(k <= Len(b)) /\ k - Len(b) + Len(a) = i
      BY <1>0, <2>2
    <3>2. r[k] = p[i]
      BY <1>1, <3>1
    <3>3. r[k] = q[i]
      BY <1>2, <1>3, <3>1
    <3> QED BY <3>2, <3>3
  <2> QED BY <2>1, <2>2
<1> QED BY <1>3, <1>4, SeqEqual

\* Back again.
LEMMA RebasedBack ==
  ASSUME NEW a \in Seq(STRING), NEW b \in Seq(STRING), NEW p \in Seq(STRING), IsPrefix(a, p)
  PROVE  Rebased(Rebased(p, a, b), b, a) = p
<1> DEFINE r == Rebased(p, a, b)
           u == Rebased(r, b, a)
<1>1. /\ r \in Seq(STRING) /\ Len(r) = Len(b) + Len(p) - Len(a) /\ Len(a) <= Len(p)
      /\ \A k \in 1..(Len(b) + Len(p) - Len(a)) : r[k] = IF k <= Len(b) THEN b[k]
                                                         ELSE p[k - Len(b) + Len(a)]
  BY RebasedIs
<1>2. IsPrefix(b, r)
  BY RebasedUnder
<1> HIDE DEF r
<1>3. /\ u \in Seq(STRING) /\ Len(u) = Len(a) + Len(r) - Len(b) /\ Len(b) <= Len(r)
      /\ \A k \in 1..(Len(a) + Len(r) - Len(b)) : u[k] = IF k <= Len(a) THEN a[k]
                                                         ELSE r[k - Len(a) + Len(b)]
  <2>1. r \in Seq(STRING)
    BY <1>1
  <2> QED BY <1>2, <2>1, RebasedIs
<1> HIDE DEF u
<1>0. Len(a) \in Nat /\ Len(b) \in Nat /\ Len(p) \in Nat
  OBVIOUS
<1>4. Len(u) = Len(p)
  BY <1>0, <1>1, <1>3
<1>5. ASSUME NEW i \in 1..Len(p) PROVE u[i] = p[i]
  <2>0. i \in 1..(Len(a) + Len(r) - Len(b))
    BY <1>0, <1>1
  <2>1. CASE i <= Len(a)
    <3>1. p[i] = a[i]
      BY <1>0, <2>1, PrefixIs
    <3>2. u[i] = a[i]
      BY <1>3, <2>0, <2>1
    <3> QED BY <3>1, <3>2
  <2>2. CASE ~(i <= Len(a))
    <3> DEFINE k == i - Len(a) + Len(b)
    <3>1. k \in 1..(Len(b) + Len(p) - Len(a)) /\ ~(k <= Len(b)) /\ k - Len(b) + Len(a) = i
      BY <1>0, <2>2
    <3>2. r[k] = p[i]
      BY <1>1, <3>1
    <3>3. u[i] = r[k]
      BY <1>3, <2>0, <2>2
    <3> QED BY <3>2, <3>3
  <2> QED BY <2>1, <2>2
<1> QED BY <1>1, <1>3, <1>4, <1>5, SeqEqual DEF u, r

\* The source's own place.
LEMMA RebasedSelf ==
  ASSUME NEW a \in Seq(STRING), NEW b \in Seq(STRING)
  PROVE  IsPrefix(a, a) /\ Rebased(a, a, b) = b
<1>0. IsPrefix(a, a) /\ Len(a) \in Nat /\ Len(b) \in Nat
  BY PrefixAll
<1>1. /\ Rebased(a, a, b) \in Seq(STRING) /\ Len(Rebased(a, a, b)) = Len(b) + Len(a) - Len(a)
      /\ \A k \in 1..(Len(b) + Len(a) - Len(a)) :
           Rebased(a, a, b)[k] = IF k <= Len(b) THEN b[k] ELSE a[k - Len(b) + Len(a)]
  BY <1>0, RebasedIs
<1> DEFINE r == Rebased(a, a, b)
<1> HIDE DEF r
<1>2. r \in Seq(STRING) /\ Len(r) = Len(b) /\ \A k \in 1..Len(b) : r[k] = b[k]
  BY <1>0, <1>1 DEF r
<1>3. r = b
  BY <1>2, SeqEqual
<1> QED BY <1>0, <1>3 DEF r

\* A target under another top directory than the source is not in the source.
LEMMA RebasedAway ==
  ASSUME NEW a \in Seq(STRING), a # <<>>, NEW b \in Seq(STRING), b # <<>>,
         NEW p \in Seq(STRING), IsPrefix(a, p),
         Head(a) # Head(b)
  PROVE  ~IsPrefix(a, Rebased(p, a, b))
<1> DEFINE r == Rebased(p, a, b)
<1>1. IsPrefix(b, r) /\ r \in Seq(STRING)
  BY RebasedUnder, RebasedIs
<1> HIDE DEF r
<1>2. Len(a) \in Nat \ {0} /\ Len(b) \in Nat \ {0} /\ Head(a) = a[1] /\ Head(b) = b[1]
  BY EmptySeq
<1>3. r[1] = b[1]
  BY <1>1, <1>2, PrefixIs
<1>4. ASSUME IsPrefix(a, r) PROVE r[1] = a[1]
  BY <1>1, <1>2, <1>4, PrefixIs
<1> QED BY <1>2, <1>3, <1>4 DEF r

\* A path's last name, behind a directory.
LEMMA AppendedIs ==
  ASSUME NEW d \in Seq(STRING), NEW p \in Seq(STRING), p # <<>>
  PROVE  Append(d, Last(p)) \in Seq(STRING) /\ Append(d, Last(p)) # <<>>
<1>1. Len(p) \in Nat /\ Len(p) # 0
  BY EmptySeq
<1>2. p[Len(p)] \in STRING
  <2>1. \A T : \A s \in Seq(T) : \A n \in 1..Len(s) : s[n] \in T
    OBVIOUS
  <2>2. Len(p) \in 1..Len(p)
    BY <1>1
  <2> QED BY <2>1, <2>2, Zenon
<1>3. \A T : \A s \in Seq(T), x \in T : Append(s, x) \in Seq(T)
      /\ Len(Append(s, x)) = Len(s) + 1
  OBVIOUS
<1>4. Last(p) \in STRING
  BY <1>2 DEF Last
<1>5. Append(d, Last(p)) \in Seq(STRING) /\ Len(Append(d, Last(p))) = Len(d) + 1
  BY <1>3, <1>4, Zenon
<1>6. Len(d) \in Nat
  OBVIOUS
<1> HIDE DEF Last
<1>7. Append(d, Last(p)) # <<>>
  BY <1>5, <1>6, EmptySeq
<1> QED BY <1>5, <1>7

(***************************************************************************)
(* The results of the file system.                                         *)
(***************************************************************************)
\* create_dir_all: what is there stays, and directories are new.
LEMMA DirsMadeIs ==
  ASSUME NEW d \in DiskTrees, NEW p \in Seq(STRING), NEW r \in DirsMade(d, p)
  PROVE  /\ r.disk \in DiskTrees
         /\ \A q \in DiskPaths : d[q] # "none" => r.disk[q] = d[q]
         /\ \A q \in DiskPaths : ~IsPrefix(q, p) => r.disk[q] = d[q]
         /\ \A q \in DiskPaths : r.disk[q] = "link" => d[q] = "link"
         /\ r.ok => /\ p # <<>> => p \in DiskPaths
                    /\ \A q \in DiskPaths : IsPrefix(q, p) => d[q] # "link" /\ r.disk[q] = "dir"
<1> DEFINE can == /\ p \in DiskPaths \cup {<<>>}
                  /\ \A q \in DiskPaths : IsPrefix(q, p) => d[q] \in {"none", "dir"}
           t == [q \in DiskPaths |-> IF IsPrefix(q, p) THEN "dir" ELSE d[q]]
<1>0. d \in [DiskPaths -> DiskContents] /\ TreeOn(DiskPaths, d)
  BY TreesAre
<1>1. CASE ~can
  <2>1. r = Result(FALSE, d)
    BY <1>1, Zenon DEF DirsMade, Fails
  <2>2. r.disk = d /\ r.ok = FALSE
    BY <2>1 DEF Result
  <2> HIDE DEF can
  <2> QED BY <2>2
<1>2. CASE can
  <2>1. r = Result(TRUE, t)
    BY <1>2, Zenon DEF DirsMade
  <2>2. r.disk = t
    BY <2>1 DEF Result
  <2>3. \A q \in DiskPaths : t[q] = IF IsPrefix(q, p) THEN "dir" ELSE d[q]
    OBVIOUS
  <2>4. t \in [DiskPaths -> DiskContents]
    BY <1>0, ContentsAre
  <2>5. TreeOn(DiskPaths, t)
    <3> SUFFICES ASSUME NEW q \in DiskPaths, Len(q) > 1, t[q] # "none" PROVE t[Front(q)] = "dir"
      BY DEF TreeOn
    <3>1. q \in Seq(STRING) /\ Front(q) \in DiskPaths /\ Front(q) \in Seq(STRING)
      BY DiskIs, DiskPathIs DEF PathsOf
    <3>2. IsPrefix(Front(q), q)
      BY <3>1, FrontIs
    <3>3. IsPrefix(q, p) => IsPrefix(Front(q), p)
      BY <3>1, <3>2, PrefixAll
    <3>4. ~IsPrefix(q, p) => d[Front(q)] = "dir"
      BY <1>0, <2>3 DEF TreeOn
    <3> HIDE DEF t
    <3> QED BY <2>3, <3>1, <3>3, <3>4
  <2>6. t \in DiskTrees
    BY <2>4, <2>5, TreesIf
  <2> HIDE DEF t
  <2> QED BY <1>2, <2>2, <2>3, <2>6
<1> QED BY <1>1, <1>2

\* remove: nothing else goes, and when it is done nothing is left.
LEMMA RemovalIs ==
  ASSUME NEW d \in DiskTrees, NEW p \in DiskPaths, NEW r \in Removal(d, p)
  PROVE  /\ r.disk \in DiskTrees
         /\ \A q \in DiskPaths : ~IsPrefix(p, q) => r.disk[q] = d[q]
         /\ \A q \in DiskPaths : r.disk[q] = d[q] \/ r.disk[q] = "none"
         /\ r.ok => \A q \in DiskPaths : IsPrefix(p, q) => r.disk[q] = "none"
<1> DEFINE gone(ps) == [q \in DiskPaths |-> IF q \in ps THEN "none" ELSE d[q]]
<1>0. d \in [DiskPaths -> DiskContents] /\ TreeOn(DiskPaths, d)
  BY TreesAre
<1>1. \/ r = Result(FALSE, d)
      \/ r = Result(TRUE, gone(Below(p) \cup {p}))
      \/ r = Result(FALSE, gone(Below(p)))
  BY Zenon DEF Removal, Fails
<1>2. \A q \in DiskPaths : q \in Below(p) <=> IsPrefix(p, q) /\ q # p
  BY DEF Below, IsStrictPrefix
<1>3. ASSUME NEW ps \in SUBSET DiskPaths, \A q \in ps : IsPrefix(p, q),
             \A q \in DiskPaths : IsPrefix(p, q) /\ q # p => q \in ps
      PROVE  /\ gone(ps) \in DiskTrees
             /\ \A q \in DiskPaths : ~IsPrefix(p, q) => gone(ps)[q] = d[q]
             /\ \A q \in DiskPaths : gone(ps)[q] = d[q] \/ gone(ps)[q] = "none"
             /\ \A q \in ps : gone(ps)[q] = "none"
  <2> DEFINE t == gone(ps)
  <2>1. \A q \in DiskPaths : t[q] = IF q \in ps THEN "none" ELSE d[q]
    OBVIOUS
  <2>2. t \in [DiskPaths -> DiskContents]
    BY <1>0, ContentsAre
  <2>3. TreeOn(DiskPaths, t)
    <3> SUFFICES ASSUME NEW q \in DiskPaths, Len(q) > 1, t[q] # "none" PROVE t[Front(q)] = "dir"
      BY DEF TreeOn
    <3>1. q \in Seq(STRING) /\ Front(q) \in DiskPaths /\ Front(q) \in Seq(STRING)
          /\ p \in Seq(STRING)
      BY DiskIs, DiskPathIs DEF PathsOf
    <3>2. IsPrefix(Front(q), q) /\ Len(Front(q)) = Len(q) - 1
      BY <3>1, FrontIs
    <3>3. q \notin ps /\ d[Front(q)] = "dir"
      BY <1>0, <2>1 DEF TreeOn
    <3>4. Front(q) \notin ps
      <4> SUFFICES ASSUME Front(q) \in ps PROVE FALSE
        OBVIOUS
      <4>1. IsPrefix(p, Front(q))
        BY <1>3
      <4>2. IsPrefix(p, q) /\ Len(p) <= Len(Front(q))
        BY <3>1, <3>2, <4>1, PrefixAll
      <4>3. Len(q) \in Nat
        BY <3>1
      <4>4. q # p
        BY <3>2, <4>2, <4>3
      <4> QED BY <1>3, <3>3, <4>2, <4>4
    <3> HIDE DEF t
    <3> QED BY <2>1, <3>1, <3>3, <3>4
  <2>4. t \in DiskTrees
    BY <2>2, <2>3, TreesIf
  <2> QED BY <1>3, <2>1, <2>4
<1>4. /\ Below(p) \in SUBSET DiskPaths /\ Below(p) \cup {p} \in SUBSET DiskPaths
      /\ \A q \in Below(p) \cup {p} : IsPrefix(p, q)
  <2>1. IsPrefix(p, p)
    BY DiskPathIs, PrefixAll
  <2> QED BY <1>2, <2>1 DEF Below
<1> DEFINE G(t) == /\ t \in DiskTrees
                   /\ \A q \in DiskPaths : ~IsPrefix(p, q) => t[q] = d[q]
                   /\ \A q \in DiskPaths : t[q] = d[q] \/ t[q] = "none"
           a == gone(Below(p))
           b == gone(Below(p) \cup {p})
<1>5. G(a) /\ G(b) /\ \A q \in Below(p) \cup {p} : b[q] = "none"
  <2>1. G(a)
    <3>1. \A q \in Below(p) : IsPrefix(p, q)
      BY <1>4
    <3>2. \A q \in DiskPaths : IsPrefix(p, q) /\ q # p => q \in Below(p)
      BY <1>2
    <3> HIDE DEF gone
    <3> QED BY <1>3, <1>4, <3>1, <3>2
  <2>2. G(b) /\ \A q \in Below(p) \cup {p} : b[q] = "none"
    <3>2. \A q \in DiskPaths : IsPrefix(p, q) /\ q # p => q \in Below(p) \cup {p}
      BY <1>2
    <3> HIDE DEF gone
    <3> QED BY <1>3, <1>4, <3>2
  <2> QED BY <2>1, <2>2
<1>6. G(d)
  OBVIOUS
<1>7. CASE r = Result(FALSE, d)
  <2>1. r.disk = d /\ r.ok = FALSE
    BY <1>7 DEF Result
  <2> QED BY <1>6, <2>1
<1> HIDE DEF a, b
<1>8. CASE r = Result(TRUE, b)
  <2>1. r.disk = b
    BY <1>8 DEF Result
  <2>2. \A q \in DiskPaths : IsPrefix(p, q) => b[q] = "none"
    BY <1>2, <1>5
  <2> QED BY <1>5, <2>1, <2>2
<1>9. CASE r = Result(FALSE, a)
  <2>1. r.disk = a /\ r.ok = FALSE
    BY <1>9 DEF Result
  <2> QED BY <1>5, <2>1
<1> QED BY <1>1, <1>7, <1>8, <1>9 DEF a, b

\* fs::rename: everything is at its new place.
LEMMA RenamedIs ==
  ASSUME NEW d \in DiskTrees, NEW p \in DiskPaths, NEW q \in Seq(STRING), q # <<>>,
         NEW r \in Renamed(d, p, q)
  PROVE  /\ r.disk \in DiskTrees
         /\ ~r.ok => r.disk = d
         /\ r.ok => \A x \in DiskPaths : IsPrefix(p, x) /\ d[x] # "none" =>
              Rebased(x, p, q) \in DiskPaths /\ r.disk[Rebased(x, p, q)] = d[x]
<1> DEFINE mine == {x \in DiskPaths : IsPrefix(p, x) /\ d[x] # "none"}
           t == [x \in DiskPaths |-> IF IsPrefix(q, x) /\ Rebased(x, q, p) \in DiskPaths
                                     THEN d[Rebased(x, q, p)]
                                     ELSE IF IsPrefix(p, x) THEN "none" ELSE d[x]]
<1>0. d \in [DiskPaths -> DiskContents] /\ TreeOn(DiskPaths, d) /\ p \in Seq(STRING)
  BY TreesAre, DiskPathIs
<1>1. CASE r = Result(FALSE, d)
  <2>1. r.disk = d /\ r.ok = FALSE
    BY <1>1 DEF Result
  <2> QED BY <2>1
<1>2. ASSUME /\ mine # {} /\ ~IsPrefix(p, q) /\ \A x \in mine : Rebased(x, p, q) \in DiskPaths
             /\ HasParent(d, q) /\ (d[q] = "none" \/ (d[q] # "dir" /\ d[p] # "dir")),
             r = Result(TRUE, t)
      PROVE  /\ r.disk \in DiskTrees /\ r.ok
             /\ \A x \in DiskPaths : IsPrefix(p, x) /\ d[x] # "none" =>
                  Rebased(x, p, q) \in DiskPaths /\ r.disk[Rebased(x, p, q)] = d[x]
  <2>1. r.disk = t /\ r.ok = TRUE
    BY <1>2 DEF Result
  <2>2. q \in DiskPaths
    <3>1. PICK x \in DiskPaths : IsPrefix(p, x) /\ d[x] # "none"
      BY <1>2
    <3>2. d[p] # "none"
      <4> SUFFICES ASSUME d[p] = "none" PROVE FALSE
        OBVIOUS
      <4>1. p # x /\ p # <<>>
        BY <3>1, DiskPathIs
      <4>2. d[x] = "none"
        BY <1>0, <3>1, <4>1, DiskIs, NothingUnder
      <4> QED BY <3>1, <4>2
    <3>3. p \in mine
      BY <1>0, <3>2, PrefixAll
    <3>4. Rebased(p, p, q) \in DiskPaths
      BY <1>2, <3>3
    <3> QED BY <1>0, <3>4, RebasedSelf
  <2>3. \A x \in DiskPaths : t[x] = IF IsPrefix(q, x) /\ Rebased(x, q, p) \in DiskPaths
                                    THEN d[Rebased(x, q, p)]
                                    ELSE IF IsPrefix(p, x) THEN "none" ELSE d[x]
    OBVIOUS
  <2>4. t \in [DiskPaths -> DiskContents]
    BY <1>0, ContentsAre
  <2>5. TreeOn(DiskPaths, t)
    <3>1. \A x \in DiskPaths : t[x] = IF IsPrefix(q, x) /\ Origin(p, q, x) \in DiskPaths
                                      THEN d[Origin(p, q, x)]
                                      ELSE IF IsPrefix(p, x) THEN "none" ELSE d[x]
      BY <2>3 DEF Origin, Rebased
    <3>2. d[q] # "dir"
      BY <1>2
    <3>3. Len(q) > 1 => d[Front(q)] = "dir" /\ ~IsPrefix(p, Front(q))
      <4> SUFFICES ASSUME Len(q) > 1 PROVE d[Front(q)] = "dir" /\ ~IsPrefix(p, Front(q))
        OBVIOUS
      <4>1. d[Front(q)] = "dir"
        BY <1>2 DEF HasParent, Parent
      <4>2. Front(q) \in Seq(STRING) /\ IsPrefix(Front(q), q)
        BY FrontIs
      <4>3. IsPrefix(p, Front(q)) => IsPrefix(p, q)
        BY <1>0, <4>2, PrefixAll
      <4> QED BY <1>2, <4>1, <4>3
    <3> HIDE DEF t
    <3> QED BY <1>0, <2>2, <3>1, <3>2, <3>3, DiskIs, TreeMovesOn
  <2>6. t \in DiskTrees
    BY <2>4, <2>5, TreesIf
  <2>7. ASSUME NEW x \in DiskPaths, IsPrefix(p, x), d[x] # "none"
        PROVE  Rebased(x, p, q) \in DiskPaths /\ t[Rebased(x, p, q)] = d[x]
    <3>1. x \in mine /\ x \in Seq(STRING)
      BY <2>7, DiskPathIs
    <3>2. Rebased(x, p, q) \in DiskPaths
      BY <1>2, <3>1
    <3>3. IsPrefix(q, Rebased(x, p, q)) /\ Rebased(Rebased(x, p, q), q, p) = x
      BY <1>0, <2>7, <3>1, RebasedUnder, RebasedBack
    <3> HIDE DEF t
    <3> QED BY <2>3, <3>2, <3>3
  <2> HIDE DEF t
  <2> QED BY <2>1, <2>6, <2>7
<1>3. \/ r = Result(FALSE, d)
      \/ /\ mine # {} /\ ~IsPrefix(p, q) /\ \A x \in mine : Rebased(x, p, q) \in DiskPaths
         /\ HasParent(d, q) /\ (d[q] = "none" \/ (d[q] # "dir" /\ d[p] # "dir"))
         /\ r = Result(TRUE, t)
  BY Zenon DEF Renamed, Fails
<1> HIDE DEF mine, t
<1>4. CASE r # Result(FALSE, d)
  BY <1>2, <1>3, <1>4
<1> QED BY <1>1, <1>4

\* What a path is, and what it is through a link.
LEMMA AtIs ==
  ASSUME NEW d \in DiskTrees, NEW p
  PROVE  /\ AtOn(d, p) \in DiskContents /\ (AtOn(d, p) # "none" => p \in DiskPaths)
         /\ p \in DiskPaths => RealOn(d, p) \in DiskPaths /\ AtOn(d, p) = d[p]
  BY TreesAre, ContentsAre, DiskIs DEF AtOn, RealOn

LEMMA AtDisk == \A p : At(p) = AtOn(disk, p) /\ Real(p) = RealOn(disk, p)
  BY DEF At, Real, AtOn, RealOn

\* copy_one_file: what it writes, and where.
LEMMA FileCopiedIs ==
  ASSUME disk \in DiskTrees, NEW p \in DiskPaths, NEW q \in Seq(STRING), q # <<>>,
         NEW r \in FileCopied(p, q)
  PROVE  /\ r.disk \in DiskTrees
         /\ \A x \in DiskPaths : x # Real(q) /\ disk[x] # "none" => r.disk[x] = disk[x]
         /\ \A x \in DiskPaths : r.disk[x] = "link" => disk[x] = "link"
         /\ r.ok => /\ q \in DiskPaths /\ Real(q) \in DiskPaths /\ RealOn(r.disk, q) = Real(q)
                    /\ r.disk[Real(q)] = At(Real(p)) /\ IsDiskFile(At(Real(p)))
<1> DEFINE content == At(Real(p))
           w == Real(q)
<1>1. PICK m \in DirsMade(disk, Parent(q)) :
        \/ r = Result(FALSE, m.disk)
        \/ /\ IsDiskFile(content) /\ q \in DiskPaths /\ m.disk[w] # "dir"
              /\ HasParent(m.disk, w)
           /\ r = Result(TRUE, [m.disk EXCEPT ![w] = content])
        \/ /\ IsDiskFile(content) /\ q \in DiskPaths /\ m.disk[w] # "dir"
              /\ HasParent(m.disk, w)
           /\ r = Result(FALSE, [m.disk EXCEPT ![w] = "part"])
  <2>1. PICK m \in DirsMade(disk, Parent(q)) : r \in {Result(FALSE, m.disk)} \cup
           (IF /\ m.ok /\ IsDiskFile(content) /\ q \in DiskPaths
               /\ m.disk[w] # "dir" /\ HasParent(m.disk, w)
            THEN {Result(TRUE, [m.disk EXCEPT ![w] = content]),
                  Result(FALSE, [m.disk EXCEPT ![w] = "part"])}
            ELSE {})
    BY Zenon DEF FileCopied
  <2> HIDE DEF content, w
  <2> QED BY <2>1, Zenon
<1>2. Parent(q) \in Seq(STRING)
  <2>1. Len(q) > 0
    BY EmptySeq
  <2> QED BY <2>1, FrontIs DEF Parent
<1>3. /\ m.disk \in DiskTrees
      /\ \A x \in DiskPaths : disk[x] # "none" => m.disk[x] = disk[x]
      /\ \A x \in DiskPaths : m.disk[x] = "link" => disk[x] = "link"
  BY <1>2, DirsMadeIs
<1>4. content \in DiskContents
  BY AtDisk, AtIs
<1>5. ASSUME q \in DiskPaths, NEW c \in DiskContents, IsDiskFile(c), m.disk[w] # "dir",
      HasParent(m.disk, w),
             r.disk = [m.disk EXCEPT ![w] = c]
      PROVE  /\ r.disk \in DiskTrees /\ w \in DiskPaths /\ r.disk[w] = c
             /\ \A x \in DiskPaths : x # w /\ disk[x] # "none" => r.disk[x] = disk[x]
             /\ \A x \in DiskPaths : r.disk[x] = "link" => disk[x] = "link"
             /\ RealOn(r.disk, q) = w
  <2>1. w \in DiskPaths
    BY <1>5, AtDisk, AtIs
  <2>2. m.disk \in [DiskPaths -> DiskContents] /\ TreeOn(DiskPaths, m.disk)
    BY <1>3, TreesAre
  <2>3. \A x \in DiskPaths : r.disk[x] = IF x = w THEN c ELSE m.disk[x]
    BY <1>5, <2>2
  <2>4. r.disk \in [DiskPaths -> DiskContents]
    BY <1>5, <2>1, <2>2
  <2>5. TreeOn(DiskPaths, r.disk)
    <3>1. Len(w) > 1 => m.disk[Front(w)] = "dir"
      BY <1>5 DEF HasParent, Parent
    <3>2. m.disk[w] # "dir"
      BY <1>5
    <3> DEFINE s == m.disk
               t == r.disk
    <3>3. /\ PathsOf(DiskPaths) /\ TreeOn(DiskPaths, s) /\ s[w] # "dir"
          /\ Len(w) > 1 => s[Front(w)] = "dir"
          /\ \A x \in DiskPaths : x # w => t[x] = s[x]
      BY <2>2, <2>3, <3>1, <3>2, DiskIs
    <3> HIDE DEF w, s, t
    <3>4. TreeOn(DiskPaths, t)
      BY ONLY <2>1, <3>3, TreeGainsOn
    <3> QED BY <3>4 DEF t
  <2>6. r.disk \in DiskTrees
    BY <2>4, <2>5, TreesIf
  <2>7. RealOn(r.disk, q) = w
    <3>1. CASE disk[q] = "link"
      <4>1. w = LinkTo
        BY <1>5, <3>1 DEF Real, At
      <4>2. q # w => r.disk[q] = "link"
        BY <1>3, <1>5, <2>3, <3>1
      <4> HIDE DEF w
      <4> QED BY <1>5, <4>1, <4>2 DEF RealOn, AtOn
    <3>2. CASE disk[q] # "link"
      <4>1. w = q
        BY <1>5, <3>2 DEF Real, At
      <4>2. r.disk[q] # "link"
        BY <1>5, <2>3, <4>1 DEF IsDiskFile
      <4> HIDE DEF w
      <4> QED BY <1>5, <4>1, <4>2 DEF RealOn, AtOn
    <3> QED BY <3>1, <3>2
  <2>8. \A x \in DiskPaths : r.disk[x] = "link" => disk[x] = "link"
    BY <1>3, <1>5, <2>3 DEF IsDiskFile
  <2>9. \A x \in DiskPaths : x # w /\ disk[x] # "none" => r.disk[x] = disk[x]
    BY <1>3, <2>3
  <2> QED BY <2>1, <2>3, <2>6, <2>7, <2>8, <2>9
<1>6. CASE r = Result(FALSE, m.disk)
  <2>1. r.disk = m.disk /\ r.ok = FALSE
    BY <1>6 DEF Result
  <2> QED BY <1>3, <2>1
<1> HIDE DEF content, w
<1>7. CASE /\ IsDiskFile(content) /\ q \in DiskPaths /\ m.disk[w] # "dir"
              /\ HasParent(m.disk, w)
           /\ r = Result(TRUE, [m.disk EXCEPT ![w] = content])
  <2>1. r.disk = [m.disk EXCEPT ![w] = content]
    BY <1>7 DEF Result
  <2> QED BY <1>4, <1>5, <1>7, <2>1 DEF content, w
<1>8. CASE /\ IsDiskFile(content) /\ q \in DiskPaths /\ m.disk[w] # "dir"
              /\ HasParent(m.disk, w)
           /\ r = Result(FALSE, [m.disk EXCEPT ![w] = "part"])
  <2>1. r.disk = [m.disk EXCEPT ![w] = "part"] /\ r.ok = FALSE
    BY <1>8 DEF Result
  <2>2. "part" \in DiskContents /\ IsDiskFile("part")
    BY ContentsAre DEF IsDiskFile
  <2> QED BY <1>5, <1>8, <2>1, <2>2 DEF content, w
<1> QED BY <1>1, <1>6, <1>7, <1>8

(***************************************************************************)
(* What holds of a disk holds of it as the disk of the next state.         *)
(***************************************************************************)
LEMMA SettlesNext ==
  ASSUME UNCHANGED <<job, from, onto, before>>
  PROVE  /\ Kept' = Kept /\ Copies' = Copies /\ \A p : Onto(p)' = Onto(p)
         /\ Settled(disk)' = Settled(disk') /\ Arrived(disk)' = Arrived(disk')
         /\ Stands(disk)' = Stands(disk') /\ BeforeIs' = BeforeIs
<1>1. Kept' = Kept /\ Copies' = Copies
  BY DEF Kept, Copies
<1>2. \A p : Onto(p)' = Onto(p)
  BY DEF Onto, Rebased
<1>3. \A f : ThereOn(disk, f)' = ThereOn(disk', f)
  BY <1>2 DEF ThereOn, AtOn, RealOn
<1>4. Arrived(disk)' = Arrived(disk')
  BY <1>1, <1>3 DEF Arrived
<1>5. Stands(disk)' = Stands(disk')
  BY <1>1 DEF Stands
<1>6. Settled(disk)' = Settled(disk')
  BY <1>1, <1>3 DEF Settled
<1>7. BeforeIs' = BeforeIs
  BY <1>1 DEF BeforeIs
<1> QED BY <1>1, <1>2, <1>4, <1>5, <1>6, <1>7

\* A source is counted.
LEMMA CountHolds ==
  ASSUME LocalTypes, BeforeIs, rest # <<>>, disk' \in DiskTrees, Settled(disk'),
         NEW how \in {"none", "ok", "failed", "skipped"},
         how = "ok" /\ Copies => Arrived(disk'), Count(how)
  PROVE  LocalInv'
<1>1. /\ jobOutcome' = how /\ rest' = Tail(rest) /\ step' = "next" /\ jobTodo' = {}
      /\ UNCHANGED <<split, job, from, onto, jobs, writes, before>>
  BY DEF Count
<1>2. /\ Settled(disk)' = Settled(disk') /\ Arrived(disk)' = Arrived(disk') /\ Copies' = Copies
      /\ BeforeIs' = BeforeIs
  BY <1>1, SettlesNext
<1>3. rest' \in Seq(DiskPaths)
  <2>1. \A T : \A s \in Seq(T) : s # <<>> => Tail(s) \in Seq(T)
    OBVIOUS
  <2>2. rest \in Seq(DiskPaths)
    BY DEF LocalTypes
  <2> QED BY <1>1, <2>1, <2>2, Zenon
<1>4. LocalTypes'
  BY <1>1, <1>2, <1>3 DEF LocalTypes
<1>5. HandledIs' /\ RenameIsMove' /\ Apart' /\ Whole' /\ Walking'
  BY <1>1 DEF HandledIs, RenameIsMove, Apart, Whole, Walking, Handling
<1>6. Settling'
  BY <1>1, <1>2 DEF Settling
<1> QED BY <1>2, <1>4, <1>5, <1>6 DEF LocalInv

LEMMA EndedHolds ==
  ASSUME LocalTypes, BeforeIs, rest # <<>>, NEW r, r.disk \in DiskTrees, Settled(r.disk),
         r.ok /\ Copies => Arrived(r.disk), Ended(r)
  PROVE  LocalInv'
<1> DEFINE how == IF r.ok THEN "ok" ELSE "failed"
<1>1. disk' = r.disk /\ Count(how)
  BY DEF Ended
<1>2. how \in {"none", "ok", "failed", "skipped"} /\ (how = "ok" => r.ok)
  OBVIOUS
<1> HIDE DEF how
<1> QED BY <1>1, <1>2, CountHolds

\* What stands is settled, whatever is copied.
LEMMA StandsSettled ==
  ASSUME NEW d, Stands(d) PROVE Settled(d)
  BY DEF Stands, Settled

\* No file is lost or wanted where none is copied.
LEMMA NoneIsSettled ==
  ASSUME BeforeIs, ~Copies, NEW d PROVE Settled(d) /\ Arrived(d)
<1>1. before = {}
  BY DEF BeforeIs
<1>2. Kept = {}
  BY <1>1 DEF Kept
<1> QED BY <1>2 DEF Settled, Arrived

\* A file of the source.
LEMMA KeptIs ==
  ASSUME LocalTypes, HandledIs, BeforeIs, NEW f \in Kept
  PROVE  /\ f[1] \in DiskPaths /\ f[1] \in Seq(STRING) /\ IsPrefix(from, f[1])
         /\ ~IsPrefix(onto, f[1])
         /\ IsDiskFile(f[2]) /\ Copies
         /\ Onto(f[1]) \in Seq(STRING) /\ IsPrefix(onto, Onto(f[1]))
<1>1. f \in before /\ ~IsPrefix(onto, f[1])
  BY DEF Kept
<1>2. f[1] \in DiskPaths /\ IsPrefix(from, f[1]) /\ IsDiskFile(f[2]) /\ Copies
  BY <1>1 DEF BeforeIs
<1>3. f[1] \in Seq(STRING) /\ from \in Seq(STRING) /\ onto \in Seq(STRING)
  BY <1>2, DiskPathIs DEF LocalTypes
<1>4. Onto(f[1]) \in Seq(STRING) /\ IsPrefix(onto, Onto(f[1]))
  BY <1>2, <1>3, RebasedIs, RebasedUnder DEF Onto
<1> QED BY <1>1, <1>2, <1>3, <1>4

\* The end of a copy; in a move, the source goes once all has arrived.
LEMMA CopiedHolds ==
  ASSUME LocalTypes, HandledIs, BeforeIs, step \in Handling, NEW r, r.disk \in DiskTrees,
         Stands(r.disk),
         r.ok => Arrived(r.disk),
         r.ok /\ job.op = "move" =>
           \A f \in Kept : ~IsPrefix(from, Onto(f[1]))
             /\ ~IsPrefix(from, RealOn(r.disk, Onto(f[1]))),
         Copied(r)
  PROVE  LocalInv'
<1>1. rest # <<>> /\ from \in DiskPaths
  BY DEF HandledIs
<1>2. CASE job.op = "copy" \/ ~r.ok
  <2>1. Ended(r)
    BY <1>2, Zenon DEF Copied
  <2> QED BY <1>1, <2>1, StandsSettled, EndedHolds
<1>3. CASE ~(job.op = "copy" \/ ~r.ok)
  <2>1. PICK g \in Removal(r.disk, from) : Ended(g)
    BY <1>3, Zenon DEF Copied
  <2>2. /\ g.disk \in DiskTrees
        /\ \A q \in DiskPaths : ~IsPrefix(from, q) => g.disk[q] = r.disk[q]
    BY <1>1, RemovalIs
  <2>3. CASE job.op = "move"
    <3>1. ASSUME NEW f \in Kept PROVE ThereOn(g.disk, f)
      <4> DEFINE o == Onto(f[1])
                 u == RealOn(r.disk, o)
      <4>1. ~IsPrefix(from, o) /\ ~IsPrefix(from, u) /\ AtOn(r.disk, u) = f[2]
        BY <1>3, <2>3 DEF Arrived, ThereOn
      <4> HIDE DEF o
      <4>2. AtOn(g.disk, o) = AtOn(r.disk, o)
        BY <2>2, <4>1 DEF AtOn
      <4>3. RealOn(g.disk, o) = u
        BY <4>2 DEF RealOn
      <4> HIDE DEF u
      <4>4. AtOn(g.disk, u) = f[2]
        BY <2>2, <4>1 DEF AtOn
      <4> QED BY <4>3, <4>4 DEF ThereOn, o
    <3>2. Settled(g.disk) /\ Arrived(g.disk)
      BY <2>3, <3>1 DEF Settled, Arrived
    <3> QED BY <1>1, <2>1, <2>2, <3>2, EndedHolds
  <2>4. CASE job.op # "move"
    <3>1. ~Copies
      BY <1>3, <2>4 DEF Copies
    <3> QED BY <1>1, <2>1, <2>2, <3>1, NoneIsSettled, EndedHolds
  <2> QED BY <2>3, <2>4
<1> QED BY <1>2, <1>3

\* What leads to a file is the file, or a directory.
LEMMA KeptFile ==
  ASSUME LocalTypes, HandledIs, BeforeIs, NEW d \in DiskTrees, Stands(d), NEW f \in Kept,
         NEW p \in DiskPaths,
         IsPrefix(p, f[1]), d[p] # "dir"
  PROVE  f[1] = p /\ d[p] = f[2]
<1>1. f[1] \in DiskPaths /\ IsDiskFile(f[2]) /\ d[f[1]] = f[2]
  BY KeptIs DEF Stands
<1>2. TreeOn(DiskPaths, d) /\ p \in Seq(STRING) /\ p # <<>> /\ d[f[1]] # "none"
  BY <1>1, TreesAre, DiskPathIs DEF IsDiskFile
<1>3. f[1] = p
  BY <1>1, <1>2, DiskIs, NothingUnder
<1> QED BY <1>1, <1>3

\* copy_local on a file.
LEMMA CopyFileHolds ==
  ASSUME LocalInv, step \in {"act", "rename"}, Copies, At(from) # "dir",
         NEW r \in FileCopied(from, onto), Copied(r)
  PROVE  LocalInv'
<1>0. /\ LocalTypes /\ HandledIs /\ BeforeIs /\ step \in Handling /\ disk \in DiskTrees
      /\ from \in DiskPaths /\ onto \in Seq(STRING) /\ onto # <<>> /\ from \in Seq(STRING)
      /\ Stands(disk) /\ Real(from) # Real(onto) /\ disk[from] # "dir"
  BY DEF LocalInv, LocalTypes, HandledIs, Handling, Whole, Apart, At
<1>1. /\ r.disk \in DiskTrees
      /\ \A x \in DiskPaths : x # Real(onto) /\ disk[x] # "none" => r.disk[x] = disk[x]
      /\ r.ok => /\ onto \in DiskPaths /\ Real(onto) \in DiskPaths
                    /\ RealOn(r.disk, onto) = Real(onto)
                 /\ r.disk[Real(onto)] = At(Real(from))
  BY <1>0, FileCopiedIs
<1>2. Onto(from) = onto
  BY <1>0, RebasedSelf DEF Onto
<1>3. ASSUME NEW f \in Kept
      PROVE  /\ f[1] = from /\ f[2] # "none" /\ f[2] # "dir" /\ onto # from
             /\ r.disk[from] = f[2]
             /\ At(Real(from)) = f[2] /\ Real(from) = from
  <2>1. IsPrefix(from, f[1]) /\ IsDiskFile(f[2]) /\ ~IsPrefix(onto, f[1])
    BY <1>0, KeptIs
  <2>2. f[1] = from /\ disk[from] = f[2]
    BY <1>0, <2>1, KeptFile
  <2>3. Real(from) = from /\ At(Real(from)) = f[2]
    BY <1>0, <2>1, <2>2 DEF Real, At, IsDiskFile
  <2>4. f[2] # "none" /\ f[2] # "dir"
    BY <2>1 DEF IsDiskFile
  <2>5. r.disk[from] = f[2]
    BY <1>0, <1>1, <2>2, <2>3, <2>4
  <2>6. onto # from
    BY <1>0, <2>1, <2>2, RebasedSelf
  <2> QED BY <2>2, <2>3, <2>4, <2>5, <2>6
<1>4. Stands(r.disk)
  BY <1>3 DEF Stands
<1>5. ASSUME r.ok PROVE Arrived(r.disk)
  <2> SUFFICES ASSUME NEW f \in Kept PROVE ThereOn(r.disk, f)
    BY DEF Arrived
  <2>1. Onto(f[1]) = onto /\ At(Real(from)) = f[2]
    BY <1>2, <1>3
  <2>2. RealOn(r.disk, onto) = Real(onto) /\ AtOn(r.disk, Real(onto)) = f[2]
    BY <1>1, <1>5, <2>1 DEF AtOn
  <2> QED BY <2>1, <2>2 DEF ThereOn
<1>6. ASSUME r.ok, NEW f \in Kept
      PROVE  ~IsPrefix(from, Onto(f[1])) /\ ~IsPrefix(from, RealOn(r.disk, Onto(f[1])))
  <2> DEFINE w == Real(onto)
  <2>1. /\ Onto(f[1]) = onto /\ RealOn(r.disk, onto) = w /\ r.disk[w] = f[2]
        /\ r.disk[from] = f[2]
        /\ f[2] # "none" /\ f[2] # "dir" /\ onto # from /\ w \in DiskPaths /\ onto \in DiskPaths
    BY <1>1, <1>2, <1>3, <1>6
  <2>2. w # from
    <3>1. Real(from) = from
      BY <1>3
    <3> QED BY <1>0, <3>1
  <2>3. TreeOn(DiskPaths, r.disk) /\ from # <<>>
    BY <1>0, <1>1, TreesAre, DiskPathIs
  <2> HIDE DEF w
  <2>4. \A x \in DiskPaths : IsPrefix(from, x) /\ x # from => r.disk[x] = "none"
    <3> DEFINE d == r.disk
    <3>1. TreeOn(DiskPaths, d) /\ d[from] # "dir"
      BY <2>1, <2>3
    <3> HIDE DEF d
    <3>2. \A x \in DiskPaths : IsPrefix(from, x) /\ x # from => d[x] = "none"
      BY <1>0, <2>3, <3>1, DiskIs, NothingUnder
    <3> QED BY <3>2 DEF d
  <2>5. ~IsPrefix(from, w)
    BY <2>1, <2>2, <2>4
  <2>6. ~IsPrefix(from, onto)
    <3> SUFFICES ASSUME IsPrefix(from, onto) PROVE FALSE
      OBVIOUS
    <3>1. r.disk[onto] = "none"
      BY <2>1, <2>4
    <3>2. RealOn(r.disk, onto) = onto
      BY <2>1, <3>1 DEF RealOn, AtOn
    <3> QED BY <2>1, <3>1, <3>2
  <2> QED BY <2>1, <2>5, <2>6
<1> QED BY <1>0, <1>1, <1>4, <1>5, <1>6, CopiedHolds

\* copy_local on a directory: its target is cleared and made, and the walk begins.
LEMMA CopyDirHolds ==
  ASSUME LocalInv, step \in {"act", "rename"}, Copies,
         job.op = "move" => Head(from) # Head(onto), At(from) = "dir",
         NEW r \in (IF OnDisk(onto) THEN Removal(disk, onto) ELSE {Result(TRUE, disk)}),
         IF ~r.ok THEN Ended(r)
         ELSE \E m \in DirsMade(r.disk, onto) :
                IF ~m.ok THEN Ended(m)
                ELSE /\ disk' = m.disk /\ step' = "walk" /\ jobTodo' = {from}
                     /\ UNCHANGED <<split, job, rest, from, onto, jobOutcome, jobs, writes,
                        before>>
  PROVE  LocalInv'
<1>0. /\ LocalTypes /\ HandledIs /\ BeforeIs /\ step \in Handling /\ disk \in DiskTrees
      /\ from \in DiskPaths /\ onto \in Seq(STRING) /\ onto # <<>> /\ from \in Seq(STRING)
      /\ Stands(disk) /\ rest # <<>>
  BY DEF LocalInv, LocalTypes, HandledIs, Handling, Whole
<1>1. OnDisk(onto) => onto \in DiskPaths
  BY DEF OnDisk, At, Real
<1>2. /\ r.disk \in DiskTrees
      /\ \A q \in DiskPaths : ~IsPrefix(onto, q) => r.disk[q] = disk[q]
      /\ r.ok /\ OnDisk(onto) => \A q \in DiskPaths : IsPrefix(onto, q) => r.disk[q] = "none"
      /\ ~OnDisk(onto) => r.disk = disk /\ r.ok
  <2>1. CASE OnDisk(onto)
    <3>1. r \in Removal(disk, onto)
      BY <2>1
    <3> QED BY <1>0, <1>1, <2>1, <3>1, RemovalIs
  <2>2. CASE ~OnDisk(onto)
    <3>1. r.disk = disk /\ r.ok = TRUE
      BY <2>2 DEF Result
    <3> QED BY <1>0, <2>2, <3>1
  <2> QED BY <2>1, <2>2
<1>3. Stands(r.disk)
  BY <1>0, <1>2, KeptIs DEF Stands
<1>4. CASE ~r.ok
  <2>1. Ended(r)
    BY <1>4
  <2> QED BY <1>0, <1>2, <1>3, <1>4, <2>1, StandsSettled, EndedHolds
<1>5. CASE r.ok
  <2>1. PICK m \in DirsMade(r.disk, onto) :
          IF ~m.ok THEN Ended(m)
          ELSE /\ disk' = m.disk /\ step' = "walk" /\ jobTodo' = {from}
               /\ UNCHANGED <<split, job, rest, from, onto, jobOutcome, jobs, writes, before>>
    BY <1>5
  <2>2. /\ m.disk \in DiskTrees
        /\ \A q \in DiskPaths : r.disk[q] # "none" => m.disk[q] = r.disk[q]
        /\ \A q \in DiskPaths : m.disk[q] = "link" => r.disk[q] = "link"
        /\ m.ok => onto \in DiskPaths /\ r.disk[onto] # "link"
    <3>1. IsPrefix(onto, onto)
      BY <1>0, PrefixAll
    <3> QED BY <1>0, <1>2, <3>1, DirsMadeIs
  <2>3. Stands(m.disk)
    BY <1>0, <1>3, <2>2, KeptIs DEF Stands, IsDiskFile
  <2>4. CASE ~m.ok
    <3>1. Ended(m)
      BY <2>1, <2>4
    <3> QED BY <1>0, <2>2, <2>3, <2>4, <3>1, StandsSettled, EndedHolds
  <2>5. CASE m.ok
    <3>1. /\ disk' = m.disk /\ step' = "walk" /\ jobTodo' = {from}
          /\ UNCHANGED <<split, job, rest, from, onto, jobOutcome, jobs, writes, before>>
      BY <2>1, <2>5
    <3>2. /\ Kept' = Kept /\ Copies' = Copies /\ Settled(disk)' = Settled(disk')
          /\ Stands(disk)' = Stands(disk') /\ BeforeIs' = BeforeIs
      BY <3>1, SettlesNext
    <3>3. LocalTypes'
      BY <1>0, <2>2, <3>1, <3>2 DEF LocalTypes, Handling
    <3>4. HandledIs' /\ RenameIsMove' /\ Apart'
      BY <1>0, <3>1, <3>2 DEF HandledIs, RenameIsMove, Apart
    <3>5. Whole' /\ Settling'
      BY <2>3, <3>1, <3>2, StandsSettled DEF Whole, Settling
    <3>6. \A q \in DiskPaths : IsPrefix(onto, q) => m.disk[q] # "link"
      <4>1. CASE OnDisk(onto)
        BY <1>2, <1>5, <2>2, <4>1
      <4>2. CASE ~OnDisk(onto)
        <5>1. onto \in DiskPaths /\ disk[onto] # "link" /\ r.disk = disk
          BY <1>2, <2>2, <2>5, <4>2
        <5>2. disk[onto] = "none"
          BY <4>2, <5>1 DEF OnDisk, At, Real
        <5>3. TreeOn(DiskPaths, disk)
          BY <1>0, TreesAre
        <5>4. \A q \in DiskPaths : IsPrefix(onto, q) /\ q # onto => disk[q] = "none"
          BY <1>0, <5>2, <5>3, DiskIs, NothingUnder
        <5> QED BY <2>2, <5>1, <5>2, <5>4
      <4> QED BY <4>1, <4>2
    <3>7. /\ Copies' /\ (job.op = "move" => Head(from) # Head(onto))'
          /\ (\A q \in DiskPaths : IsPrefix(onto, q) => disk[q] # "link")'
          /\ (\A t \in jobTodo : IsPrefix(from, t))'
      BY <1>0, <3>1, <3>2, <3>6, PrefixAll
    <3>8. (\A f \in Kept : Brought(f) \/ \E t \in jobTodo : IsPrefix(t, f[1]))'
      <4>1. \A f \in Kept : IsPrefix(from, f[1])
        BY <1>0, KeptIs
      <4> QED BY <3>1, <3>2, <4>1
    <3>9. Walking'
      BY <3>7, <3>8 DEF Walking
    <3> QED BY <1>0, <3>2, <3>3, <3>4, <3>5, <3>9 DEF LocalInv
  <2> QED BY <2>4, <2>5
<1> QED BY <1>4, <1>5

LEMMA CopyLocalHolds ==
  ASSUME LocalInv, step \in {"act", "rename"}, Copies,
         job.op = "move" => Head(from) # Head(onto), CopyLocal
  PROVE  LocalInv'
<1>1. CASE At(from) # "dir"
  <2>1. PICK r \in FileCopied(from, onto) : Copied(r)
    BY <1>1, Zenon DEF CopyLocal
  <2> QED BY <1>1, <2>1, CopyFileHolds
<1>2. CASE At(from) = "dir"
  <2>1. PICK r \in (IF OnDisk(onto) THEN Removal(disk, onto) ELSE {Result(TRUE, disk)}) :
         IF ~r.ok THEN Ended(r)
         ELSE \E m \in DirsMade(r.disk, onto) :
                IF ~m.ok THEN Ended(m)
                ELSE /\ disk' = m.disk /\ step' = "walk" /\ jobTodo' = {from}
                     /\ UNCHANGED <<split, job, rest, from, onto, jobOutcome, jobs, writes,
                        before>>
    BY <1>2, Zenon DEF CopyLocal
  <2> QED BY <1>2, <2>1, CopyDirHolds, Zenon
<1> QED BY <1>1, <1>2

\* In the walk no link is in the target.
LEMMA WalkOnto ==
  ASSUME LocalInv, step = "walk", NEW p \in Seq(STRING), IsPrefix(from, p)
  PROVE  /\ Onto(p) \in Seq(STRING) /\ Onto(p) # <<>> /\ IsPrefix(onto, Onto(p))
         /\ Real(Onto(p)) = Onto(p)
         /\ job.op = "move" => ~IsPrefix(from, Onto(p))
<1>0. /\ from \in Seq(STRING) /\ onto \in Seq(STRING) /\ onto # <<>> /\ from # <<>>
      /\ job.op = "move" => Head(from) # Head(onto)
      /\ \A q \in DiskPaths : IsPrefix(onto, q) => disk[q] # "link"
  BY DiskPathIs DEF LocalInv, LocalTypes, HandledIs, Handling, Walking
<1>1. Onto(p) \in Seq(STRING) /\ IsPrefix(onto, Onto(p))
      /\ Len(Onto(p)) = Len(onto) + Len(p) - Len(from)
      /\ Len(from) <= Len(p)
  BY <1>0, RebasedIs, RebasedUnder DEF Onto
<1>2. Onto(p) # <<>>
  <2>1. Len(onto) \in Nat \ {0} /\ Len(p) \in Nat /\ Len(from) \in Nat
    BY <1>0, EmptySeq
  <2>2. Len(Onto(p)) # 0
    BY <1>1, <2>1
  <2> QED BY <2>2, EmptySeq
<1>3. Real(Onto(p)) = Onto(p)
  BY <1>0, <1>1 DEF Real, At
<1>4. job.op = "move" => ~IsPrefix(from, Onto(p))
  BY <1>0, RebasedAway DEF Onto
<1> QED BY <1>1, <1>2, <1>3, <1>4

\* A step of the walk: one entry is dealt with, and what it holds is found.
LEMMA WalkOn ==
  ASSUME LocalInv, step = "walk", NEW p \in jobTodo, disk[p] # "none", NEW d \in DiskTrees,
         Stands(d), NEW more,
         \A q \in DiskPaths : IsPrefix(onto, q) => d[q] # "link",
         \A t \in more : t \in DiskPaths /\ IsPrefix(from, t),
         \A f \in Kept : Brought(f) => AtOn(d, Onto(f[1])) = f[2],
         \A f \in Kept : IsPrefix(p, f[1]) =>
           AtOn(d, Onto(f[1])) = f[2] \/ \E t \in more : IsPrefix(t, f[1]),
         disk' = d, jobTodo' = (jobTodo \ {p}) \cup more,
         UNCHANGED <<split, job, rest, step, from, onto, jobOutcome, jobs, writes, before>>
  PROVE  LocalInv'
<1>0. LocalTypes /\ HandledIs /\ BeforeIs /\ Walking
  BY DEF LocalInv
<1>1. /\ Kept' = Kept /\ Copies' = Copies /\ Settled(disk)' = Settled(disk')
      /\ Stands(disk)' = Stands(disk') /\ BeforeIs' = BeforeIs /\ \A q : Onto(q)' = Onto(q)
  BY SettlesNext
<1>2. LocalTypes'
  BY <1>0, <1>1 DEF LocalTypes
<1>3. HandledIs' /\ RenameIsMove' /\ Apart'
  BY <1>0, <1>1 DEF HandledIs, RenameIsMove, Apart
<1>4. Whole' /\ Settling'
  BY <1>1, StandsSettled DEF Whole, Settling
<1>5. \A f : Brought(f)' <=> AtOn(d, Onto(f[1])) = f[2]
  BY <1>1 DEF Brought, At, AtOn
<1>6. (\A f \in Kept : Brought(f) \/ \E t \in jobTodo : IsPrefix(t, f[1]))'
  <2> SUFFICES ASSUME NEW f \in Kept
               PROVE  AtOn(d, Onto(f[1])) = f[2]
                 \/ \E t \in (jobTodo \ {p}) \cup more : IsPrefix(t, f[1])
    BY <1>1, <1>5
  <2>1. Brought(f) \/ \E t \in jobTodo : IsPrefix(t, f[1])
    BY <1>0 DEF Walking
  <2> QED BY <2>1
<1>7. /\ Copies' /\ (job.op = "move" => Head(from) # Head(onto))'
      /\ (\A q \in DiskPaths : IsPrefix(onto, q) => disk[q] # "link")'
      /\ (\A t \in jobTodo : IsPrefix(from, t))'
  BY <1>0, <1>1 DEF Walking
<1>8. Walking'
  BY <1>6, <1>7 DEF Walking
<1> QED BY <1>0, <1>1, <1>2, <1>3, <1>4, <1>8 DEF LocalInv

LEMMA WalkHolds == ASSUME LocalInv, Walk PROVE LocalInv'
<1>0. /\ LocalTypes /\ HandledIs /\ BeforeIs /\ Walking /\ step = "walk" /\ step \in Handling
      /\ disk \in DiskTrees /\ from \in DiskPaths /\ from \in Seq(STRING)
      /\ onto \in Seq(STRING) /\ onto # <<>>
      /\ Stands(disk) /\ rest # <<>> /\ jobTodo \subseteq DiskPaths
  BY DEF LocalInv, LocalTypes, HandledIs, Handling, Whole, Walk, Walking
<1>w. /\ \A t \in jobTodo : IsPrefix(from, t)
      /\ \A f \in Kept : Brought(f) \/ \E t \in jobTodo : IsPrefix(t, f[1])
      /\ \A q \in DiskPaths : IsPrefix(onto, q) => disk[q] # "link"
  BY <1>0 DEF Walking
<1>k. \A f \in Kept : /\ f[1] \in DiskPaths /\ f[1] \in Seq(STRING) /\ IsPrefix(from, f[1])
                         /\ ~IsPrefix(onto, f[1])
                      /\ f[2] # "none" /\ f[2] # "dir" /\ f[2] # "link" /\ disk[f[1]] = f[2]
  BY <1>0, KeptIs DEF IsDiskFile, Stands
<1>1. CASE jobTodo = {}
  <2> DEFINE r == Result(TRUE, disk)
  <2>1. Copied(r)
    BY <1>1, Zenon DEF Walk
  <2>2. r.disk = disk /\ r.ok = TRUE
    BY DEF Result
  <2> HIDE DEF r
  <2>3. \A f \in Kept : AtOn(disk, Onto(f[1])) = f[2] /\ RealOn(disk, Onto(f[1])) = Onto(f[1])
    BY <1>1, <1>w, <1>k, AtDisk DEF Brought, RealOn
  <2>4. Arrived(disk)
    BY <2>3 DEF Arrived, ThereOn
  <2>5. job.op = "move" => \A f \in Kept : ~IsPrefix(from, Onto(f[1]))
    BY <1>0, <1>k, WalkOnto
  <2>6. /\ r.disk \in DiskTrees /\ Stands(r.disk) /\ (r.ok => Arrived(r.disk))
        /\ r.ok /\ job.op = "move" =>
             \A f \in Kept : ~IsPrefix(from, Onto(f[1]))
               /\ ~IsPrefix(from, RealOn(r.disk, Onto(f[1])))
    BY <1>0, <2>2, <2>3, <2>4, <2>5
  <2> QED BY <1>0, <2>1, <2>6, CopiedHolds
<1>2. CASE jobTodo # {}
  <2> DEFINE On(r, p) ==
               /\ disk' = r.disk
               /\ jobTodo' = (jobTodo \ {p}) \cup (IF disk[p] = "dir"
                                                   THEN DiskChildren(r.disk, p) ELSE {})
               /\ UNCHANGED <<split, job, rest, step, from, onto, jobOutcome, jobs, writes,
                  before>>
             Arm(p) == CASE disk[p] = "dir" -> DirsMade(disk, Onto(p))
                         [] disk[p] = "link" -> {Result(TRUE, disk)}
                         [] OTHER -> FileCopied(p, Onto(p))
  <2>1. PICK p \in jobTodo :
          IF disk[p] = "none" THEN Ended(Result(FALSE, disk))
          ELSE \E r \in Arm(p) : IF ~r.ok THEN Copied(r) ELSE On(r, p)
    BY <1>2, Zenon DEF Walk
  <2>2. CASE disk[p] = "none"
    <3> DEFINE r == Result(FALSE, disk)
    <3>1. Ended(r) /\ r.disk = disk /\ r.ok = FALSE
      BY <2>1, <2>2 DEF Result
    <3> HIDE DEF r
    <3> QED BY <1>0, <3>1, StandsSettled, EndedHolds
  <2>3. CASE disk[p] # "none"
    <3>1. PICK r \in Arm(p) : IF ~r.ok THEN Copied(r) ELSE On(r, p)
      BY <2>1, <2>3
    <3>2. p \in DiskPaths /\ p \in Seq(STRING) /\ p # <<>> /\ IsPrefix(from, p)
          /\ TreeOn(DiskPaths, disk)
      BY <1>0, <1>w, DiskPathIs, TreesAre
    <3>3. /\ Onto(p) \in Seq(STRING) /\ Onto(p) # <<>> /\ IsPrefix(onto, Onto(p))
          /\ Real(Onto(p)) = Onto(p)
      BY <1>0, <3>2, WalkOnto
    <3>r. ASSUME Stands(r.disk), r.disk \in DiskTrees, ~r.ok PROVE LocalInv'
      <4>1. Copied(r)
        BY <3>1, <3>r
      <4> QED BY <1>0, <3>r, <4>1, CopiedHolds
    <3>4. CASE disk[p] = "dir"
      <4>1. r \in DirsMade(disk, Onto(p))
        BY <3>1, <3>4
      <4>2. /\ r.disk \in DiskTrees
            /\ \A q \in DiskPaths : disk[q] # "none" => r.disk[q] = disk[q]
            /\ \A q \in DiskPaths : r.disk[q] = "link" => disk[q] = "link"
        BY <1>0, <3>3, <4>1, DirsMadeIs
      <4>3. Stands(r.disk)
        BY <1>k, <4>2 DEF Stands
      <4>4. CASE r.ok
        <5> DEFINE more == DiskChildren(r.disk, p)
        <5>1. On(r, p)
          BY <3>1, <4>4
        <5>2. \A t \in more : t \in DiskPaths /\ IsPrefix(from, t)
          <6> SUFFICES ASSUME NEW t \in more PROVE t \in DiskPaths /\ IsPrefix(from, t)
            OBVIOUS
          <6>1. t \in DiskPaths /\ IsPrefix(p, t)
            BY DEF DiskChildren, Below, IsStrictPrefix
          <6>2. t \in Seq(STRING)
            BY <6>1, DiskPathIs
          <6> QED BY <1>0, <3>2, <6>1, <6>2, PrefixAll
        <5>3. \A f \in Kept : Brought(f) => AtOn(r.disk, Onto(f[1])) = f[2]
          BY <1>k, <4>2 DEF Brought, At, AtOn
        <5>4. ASSUME NEW f \in Kept, IsPrefix(p, f[1]) PROVE \E t \in more : IsPrefix(t, f[1])
          <6> DEFINE x == f[1]
                     t == SubSeq(x, 1, Len(p) + 1)
          <6>1. x \in DiskPaths /\ x \in Seq(STRING) /\ disk[x] # "none" /\ disk[x] # "dir"
            BY <1>k
          <6>2. Len(p) \in Nat /\ Len(x) \in Nat /\ Len(p) <= Len(x) /\ Len(p) # Len(x)
            BY <3>2, <3>4, <5>4, <6>1, PrefixAll
          <6>3. Len(p) + 1 \in 1..Len(x) /\ Len(p) + 1 \in 0..Len(x)
            BY <6>2
          <6> HIDE DEF x
          <6>4. t \in Seq(STRING) /\ Len(t) = Len(p) + 1 /\ IsPrefix(t, x)
            BY <6>1, <6>3, BeginningIs
          <6>5. t \in DiskPaths
            BY <6>1, <6>3, DiskIs, AboveIn
          <6>6. disk[t] # "none"
            <7>1. CASE Len(p) + 1 = Len(x)
              <8>1. t = x
                BY <6>1, <6>4, <7>1, PrefixAll
              <8> QED BY <6>1, <8>1
            <7>2. CASE Len(p) + 1 # Len(x)
              <8>1. Len(p) + 1 \in 1..(Len(x) - 1)
                BY <6>2, <7>2
              <8> QED BY <3>2, <6>1, <8>1, DiskIs, DirsAbove
            <7> QED BY <7>1, <7>2
          <6> HIDE DEF t
          <6>7. IsPrefix(p, t) /\ p # t
            <7>1. Len(p) <= Len(t) /\ Len(p) # Len(t) /\ IsPrefix(p, x)
              BY <5>4, <6>2, <6>4 DEF x
            <7> QED BY <3>2, <6>1, <6>4, <7>1, PrefixAll
          <6>8. r.disk[t] # "none"
            BY <4>2, <6>5, <6>6
          <6>9. t \in more
            BY <6>4, <6>5, <6>7, <6>8 DEF DiskChildren, Below, IsStrictPrefix
          <6> QED BY <6>4, <6>9 DEF x
        <5>5. /\ disk' = r.disk /\ jobTodo' = (jobTodo \ {p}) \cup more
              /\ UNCHANGED <<split, job, rest, step, from, onto, jobOutcome, jobs, writes,
                 before>>
          BY <3>4, <5>1
        <5>6. \A q \in DiskPaths : IsPrefix(onto, q) => r.disk[q] # "link"
          BY <1>w, <4>2
        <5> HIDE DEF more
        <5> QED BY <1>0, <2>3, <4>2, <4>3, <5>2, <5>3, <5>4, <5>5, <5>6, WalkOn
      <4> QED BY <3>r, <4>2, <4>3, <4>4
    <3>5. CASE disk[p] # "dir"
      <4>0. \A f \in Kept : IsPrefix(p, f[1]) => f[1] = p /\ disk[p] = f[2]
        BY <1>0, <3>2, <3>5, KeptFile
      <4>f. ASSUME r.ok, r.disk \in DiskTrees, Stands(r.disk),
                   \A q \in DiskPaths : IsPrefix(onto, q) => r.disk[q] # "link",
                   \A f \in Kept : Brought(f) => AtOn(r.disk, Onto(f[1])) = f[2],
                   \A f \in Kept : f[1] = p => AtOn(r.disk, Onto(f[1])) = f[2]
            PROVE  LocalInv'
        <5>1. On(r, p)
          BY <3>1, <4>f
        <5> DEFINE more == {}
        <5>2. /\ disk' = r.disk /\ jobTodo' = (jobTodo \ {p}) \cup more
              /\ UNCHANGED <<split, job, rest, step, from, onto, jobOutcome, jobs, writes,
                 before>>
          BY <3>5, <5>1
        <5>3. \A f \in Kept : IsPrefix(p, f[1]) => AtOn(r.disk, Onto(f[1])) = f[2]
              \/ \E t \in more : IsPrefix(t, f[1])
          BY <4>0, <4>f
        <5>4. \A t \in more : t \in DiskPaths /\ IsPrefix(from, t)
          OBVIOUS
        <5> HIDE DEF more
        <5> QED BY <1>0, <2>3, <4>f, <5>2, <5>3, <5>4, WalkOn
      <4>1. CASE disk[p] = "link"
        <5>1. r = Result(TRUE, disk)
          BY <3>1, <4>1
        <5>2. r.disk = disk /\ r.ok = TRUE
          BY <5>1 DEF Result
        <5>3. \A f \in Kept : f[1] # p
          BY <1>k, <4>1
        <5>4. \A f \in Kept : Brought(f) => AtOn(r.disk, Onto(f[1])) = f[2]
          BY <5>2, AtDisk DEF Brought
        <5> QED BY <1>0, <1>w, <4>f, <5>2, <5>3, <5>4
      <4>2. CASE disk[p] # "link"
        <5> DEFINE o == Onto(p)
        <5>1. r \in FileCopied(p, o)
          BY <3>1, <3>5, <4>2
        <5>2. /\ r.disk \in DiskTrees
              /\ \A x \in DiskPaths : x # o /\ disk[x] # "none" => r.disk[x] = disk[x]
              /\ \A x \in DiskPaths : r.disk[x] = "link" => disk[x] = "link"
              /\ r.ok => o \in DiskPaths /\ r.disk[o] = At(Real(p))
          BY <1>0, <3>2, <3>3, <5>1, FileCopiedIs
        <5>3. At(Real(p)) = disk[p]
          BY <3>2, <4>2 DEF At, Real
        <5>4. Stands(r.disk)
          <6>1. \A f \in Kept : f[1] # o
            BY <1>k, <3>3
          <6> QED BY <1>k, <5>2, <6>1 DEF Stands
        <5>5. CASE r.ok
          <6>1. \A f \in Kept : f[1] = p => AtOn(r.disk, Onto(f[1])) = f[2]
            BY <1>k, <5>2, <5>3, <5>5 DEF AtOn
          <6>2. ASSUME NEW f \in Kept, Brought(f) PROVE AtOn(r.disk, Onto(f[1])) = f[2]
            <7>1. CASE Onto(f[1]) = o
              <8>1. f[1] = p
                <9>1. f[1] \in Seq(STRING) /\ IsPrefix(from, f[1])
                  BY <1>k
                <9> QED BY <1>0, <3>2, <7>1, <9>1, RebasedOnce DEF Onto
              <8> QED BY <6>1, <8>1
            <7>2. CASE Onto(f[1]) # o
              <8>1. AtOn(disk, Onto(f[1])) = f[2] /\ f[2] # "none"
                BY <1>k, <6>2, AtDisk DEF Brought
              <8> HIDE DEF o
              <8> QED BY <5>2, <7>2, <8>1 DEF AtOn
            <7> QED BY <7>1, <7>2
          <6>3. \A q \in DiskPaths : IsPrefix(onto, q) => r.disk[q] # "link"
            BY <1>w, <5>2
          <6> QED BY <4>f, <5>2, <5>4, <5>5, <6>1, <6>2, <6>3
        <5> QED BY <3>r, <5>2, <5>4, <5>5
      <4> QED BY <4>1, <4>2
    <3> QED BY <3>4, <3>5
  <2> QED BY <2>2, <2>3
<1> QED BY <1>1, <1>2

(***************************************************************************)
(* The steps.                                                              *)
(***************************************************************************)
\* The target of a move is gone, or was never there: what is moved is not it.
LEMMA ActMoveHolds == ASSUME LocalInv, ActMove PROVE LocalInv'
<1>0. /\ LocalTypes /\ HandledIs /\ BeforeIs /\ step = "act" /\ step \in Handling
      /\ job.op = "move" /\ Copies
      /\ disk \in DiskTrees /\ from \in DiskPaths /\ from \in Seq(STRING)
      /\ onto \in Seq(STRING) /\ onto # <<>>
      /\ Stands(disk) /\ rest # <<>> /\ Real(from) # Real(onto)
  BY DEF LocalInv, LocalTypes, HandledIs, Handling, Whole, ActMove, Apart, Copies
<1>1. ASSUME NEW d \in DiskTrees, Stands(d), RealOn(d, from) # RealOn(d, onto), disk'
      = d, step' = "rename",
             UNCHANGED <<split, job, rest, from, onto, jobTodo, jobOutcome, jobs, writes,
               before>>
      PROVE  LocalInv'
  <2>1. /\ Copies' = Copies /\ Settled(disk)' = Settled(disk') /\ Stands(disk)' = Stands(disk')
        /\ BeforeIs' = BeforeIs
    BY <1>1, SettlesNext
  <2>2. LocalTypes'
    BY <1>0, <1>1, <2>1 DEF LocalTypes, Handling
  <2>3. HandledIs' /\ RenameIsMove' /\ Walking'
    BY <1>0, <1>1, <2>1 DEF HandledIs, RenameIsMove, Walking
  <2>4. Real(from)' = RealOn(d, from) /\ Real(onto)' = RealOn(d, onto)
    BY <1>1 DEF Real, At, RealOn, AtOn
  <2>5. Apart'
    BY <1>1, <2>4 DEF Apart
  <2>6. Whole' /\ Settling'
    BY <1>1, <2>1, StandsSettled DEF Whole, Settling
  <2> QED BY <1>0, <2>1, <2>2, <2>3, <2>5, <2>6 DEF LocalInv
<1>2. CASE OnDisk(onto)
  <2>1. PICK r \in Removal(disk, onto) :
           IF ~r.ok THEN Ended(r)
           ELSE /\ disk' = r.disk /\ step' = "rename"
                /\ UNCHANGED <<split, job, rest, from, onto, jobTodo, jobOutcome, jobs, writes,
                   before>>
    BY <1>2, Zenon DEF ActMove
  <2>2. onto \in DiskPaths
    BY <1>2 DEF OnDisk, At, Real
  <2>3. /\ r.disk \in DiskTrees
        /\ \A q \in DiskPaths : ~IsPrefix(onto, q) => r.disk[q] = disk[q]
        /\ \A q \in DiskPaths : r.disk[q] = disk[q] \/ r.disk[q] = "none"
        /\ r.ok => \A q \in DiskPaths : IsPrefix(onto, q) => r.disk[q] = "none"
    BY <1>0, <2>2, RemovalIs
  <2>4. Stands(r.disk)
    BY <1>0, <2>3, KeptIs DEF Stands
  <2>5. CASE ~r.ok
    <3>1. Ended(r)
      BY <2>1, <2>5
    <3> QED BY <1>0, <2>3, <2>4, <2>5, <3>1, StandsSettled, EndedHolds
  <2>6. CASE r.ok
    <3>1. RealOn(r.disk, onto) = onto
      <4>1. IsPrefix(onto, onto)
        BY <1>0, PrefixAll
      <4> QED BY <2>2, <2>3, <2>6, <4>1 DEF RealOn, AtOn
    <3>2. from # onto
      BY <1>0
    <3>3. r.disk[from] = "link" => RealOn(r.disk, from) = LinkTo /\ Real(from) = LinkTo
      BY <1>0, <2>3 DEF RealOn, AtOn, Real, At
    <3>4. r.disk[from] # "link" => RealOn(r.disk, from) = from
      BY <1>0 DEF RealOn, AtOn
    <3>5. onto = LinkTo => Real(onto) = LinkTo
      BY DEF Real
    <3>6. RealOn(r.disk, from) # RealOn(r.disk, onto)
      BY <1>0, <3>1, <3>2, <3>3, <3>4, <3>5
    <3>7. /\ disk' = r.disk /\ step' = "rename"
          /\ UNCHANGED <<split, job, rest, from, onto, jobTodo, jobOutcome, jobs, writes,
             before>>
      BY <2>1, <2>6
    <3> QED BY <1>1, <2>3, <2>4, <3>6, <3>7
  <2> QED BY <2>5, <2>6
<1>3. CASE ~OnDisk(onto)
  <2>1. /\ disk' = disk /\ step' = "rename"
        /\ UNCHANGED <<split, job, rest, from, onto, jobTodo, jobOutcome, jobs, writes, before>>
    BY <1>3 DEF ActMove
  <2> QED BY <1>0, <1>1, <2>1, AtDisk
<1> QED BY <1>2, <1>3

\* A move within a device carries everything over at once.
LEMMA MoveRenameHolds == ASSUME LocalInv, MoveRename PROVE LocalInv'
<1>0. /\ LocalTypes /\ HandledIs /\ BeforeIs /\ step = "rename" /\ step \in Handling
      /\ job.op = "move" /\ Copies
      /\ disk \in DiskTrees /\ from \in DiskPaths /\ from \in Seq(STRING)
      /\ onto \in Seq(STRING) /\ onto # <<>>
      /\ Stands(disk) /\ rest # <<>>
  BY DEF LocalInv, LocalTypes, HandledIs, Handling, Whole, MoveRename, RenameIsMove, Copies
<1>1. CASE Crosses /\ At(from) # "none"
  <2>1. CopyLocal /\ Head(from) # Head(onto)
    BY <1>1, Zenon DEF MoveRename, Crosses
  <2> QED BY <1>0, <2>1, CopyLocalHolds
<1>2. CASE ~(Crosses /\ At(from) # "none")
  <2>1. PICK r \in Renamed(disk, from, onto) : Ended(r)
    BY <1>2, Zenon DEF MoveRename
  <2>2. /\ r.disk \in DiskTrees
        /\ ~r.ok => r.disk = disk
        /\ r.ok => \A x \in DiskPaths : IsPrefix(from, x) /\ disk[x] # "none" =>
             Rebased(x, from, onto) \in DiskPaths /\ r.disk[Rebased(x, from, onto)] = disk[x]
    BY <1>0, RenamedIs
  <2>3. CASE ~r.ok
    BY <1>0, <2>1, <2>2, <2>3, StandsSettled, EndedHolds
  <2>4. CASE r.ok
    <3>1. ASSUME NEW f \in Kept PROVE ThereOn(r.disk, f)
      <4> DEFINE o == Onto(f[1])
      <4>1. f[1] \in DiskPaths /\ IsPrefix(from, f[1]) /\ IsDiskFile(f[2]) /\ disk[f[1]] = f[2]
        BY <1>0, KeptIs DEF Stands
      <4>2. o \in DiskPaths /\ r.disk[o] = f[2]
        BY <2>2, <2>4, <4>1 DEF Onto, IsDiskFile
      <4> HIDE DEF o
      <4>3. RealOn(r.disk, o) = o /\ AtOn(r.disk, o) = f[2]
        BY <4>1, <4>2 DEF RealOn, AtOn, IsDiskFile
      <4> QED BY <4>3 DEF ThereOn, o
    <3>2. Settled(r.disk) /\ Arrived(r.disk)
      BY <1>0, <3>1 DEF Settled, Arrived
    <3> QED BY <1>0, <2>1, <2>2, <3>2, EndedHolds
  <2> QED BY <2>3, <2>4
<1> QED BY <1>1, <1>2

LEMMA ActDeleteHolds == ASSUME LocalInv, ActDelete PROVE LocalInv'
<1>0. LocalTypes /\ BeforeIs /\ ~Copies /\ disk \in DiskTrees /\ from \in DiskPaths
      /\ rest # <<>>
  BY DEF LocalInv, LocalTypes, HandledIs, Handling, ActDelete, Copies
<1>1. PICK r \in Removal(disk, from) : Ended(r)
  BY DEF ActDelete
<1>2. r.disk \in DiskTrees
  BY <1>0, RemovalIs
<1> QED BY <1>0, <1>1, <1>2, NoneIsSettled, EndedHolds

LEMMA ActRenameHolds == ASSUME LocalInv, ActRename PROVE LocalInv'
<1>0. /\ LocalTypes /\ BeforeIs /\ ~Copies /\ disk \in DiskTrees /\ from \in DiskPaths
      /\ rest # <<>>
      /\ onto \in Seq(STRING) /\ onto # <<>>
  BY DEF LocalInv, LocalTypes, HandledIs, Handling, ActRename, Copies
<1>1. PICK r \in (CASE from = onto -> {Result(TRUE, disk)}
                    [] from # onto /\ OnDisk(onto) -> Fails(disk)
                    [] OTHER -> Renamed(disk, from, onto)) : Ended(r)
  BY DEF ActRename
<1>2. r.disk \in DiskTrees
  <2>1. CASE from = onto
    <3>1. r = Result(TRUE, disk)
      BY <1>1, <2>1
    <3> QED BY <1>0, <3>1 DEF Result
  <2>2. CASE from # onto /\ OnDisk(onto)
    <3>1. r = Result(FALSE, disk)
      BY <1>1, <2>2 DEF Fails
    <3> QED BY <1>0, <3>1 DEF Result
  <2>3. CASE from # onto /\ ~OnDisk(onto)
    <3>1. r \in Renamed(disk, from, onto)
      BY <1>1, <2>3
    <3> QED BY <1>0, <3>1, RenamedIs
  <2> QED BY <2>1, <2>2, <2>3
<1> QED BY <1>0, <1>1, <1>2, NoneIsSettled, EndedHolds

LEMMA ActNewFolderHolds == ASSUME LocalInv, ActNewFolder PROVE LocalInv'
<1>0. /\ LocalTypes /\ BeforeIs /\ ~Copies /\ disk \in DiskTrees /\ from \in DiskPaths
      /\ rest # <<>>
      /\ from \in Seq(STRING)
  BY DEF LocalInv, LocalTypes, HandledIs, Handling, ActNewFolder, Copies
<1>1. PICK r \in DirsMade(disk, from) \cup Fails(disk) : Ended(r)
  BY DEF ActNewFolder
<1>2. r.disk \in DiskTrees
  <2>1. CASE r \in DirsMade(disk, from)
    BY <1>0, <2>1, DirsMadeIs
  <2>2. CASE r = Result(FALSE, disk)
    BY <1>0, <2>2 DEF Result
  <2> QED BY <1>1, <2>1, <2>2 DEF Fails
<1> QED BY <1>0, <1>1, <1>2, NoneIsSettled, EndedHolds

LEMMA ActNewFileHolds == ASSUME LocalInv, ActNewFile PROVE LocalInv'
<1>0. LocalTypes /\ BeforeIs /\ ~Copies /\ disk \in DiskTrees /\ from \in DiskPaths
      /\ rest # <<>>
  BY DEF LocalInv, LocalTypes, HandledIs, Handling, ActNewFile, Copies
<1> DEFINE w == Real(from)
           t == [disk EXCEPT ![w] = "empty"]
<1>1. PICK r \in Fails(disk) \cup
             (IF HasParent(disk, w) /\ At(w) # "dir" THEN {Result(TRUE, t)} ELSE {}) : Ended(r)
  BY DEF ActNewFile
<1>2. r.disk \in DiskTrees
  <2>1. CASE r = Result(FALSE, disk)
    BY <1>0, <2>1 DEF Result
  <2>2. CASE r # Result(FALSE, disk)
    <3>1. HasParent(disk, w) /\ At(w) # "dir" /\ r = Result(TRUE, t)
      <4> HIDE DEF w, t
      <4> QED BY <1>1, <2>2, Zenon DEF Fails
    <3>2. w \in DiskPaths
      BY <1>0, AtDisk, AtIs
    <3>3. disk \in [DiskPaths -> DiskContents] /\ TreeOn(DiskPaths, disk)
      BY <1>0, TreesAre
    <3>4. t \in [DiskPaths -> DiskContents] /\ \A x \in DiskPaths : x # w => t[x] = disk[x]
      BY <3>2, <3>3, ContentsAre
    <3>5. Len(w) > 1 => disk[Front(w)] = "dir"
      BY <3>1 DEF HasParent, Parent
    <3>6. disk[w] # "dir"
      BY <3>1, <3>2 DEF At
    <3> HIDE DEF w, t
    <3>7. TreeOn(DiskPaths, t)
      BY <3>2, <3>3, <3>4, <3>5, <3>6, DiskIs, TreeGainsOn
    <3>8. r.disk = t
      BY <3>1 DEF Result
    <3> QED BY <3>4, <3>7, <3>8, TreesIf
  <2> QED BY <2>1, <2>2
<1> HIDE DEF w, t
<1> QED BY <1>0, <1>1, <1>2, NoneIsSettled, EndedHolds

LEMMA UserJobHolds == ASSUME LocalInv, UserJob PROVE LocalInv'
<1>1. ASSUME NEW op \in LocalOps, NEW s \in Seq(DiskPaths), NEW d \in Seq(STRING),
             op \in {"copy", "move", "rename"} => d \in DiskPaths, BeginJob(op, s, d)
      PROVE  LocalInv'
  <2>0. LocalTypes /\ BeforeIs
    BY DEF LocalInv
  <2>1. /\ step = "idle" /\ jobs < MaxJobs /\ jobs' = jobs + 1
        /\ job' = [op |-> op, dest |-> d] /\ rest' = s /\ step' = "next"
        /\ jobOutcome' = "none" /\ before' = {}
        /\ UNCHANGED <<disk, split, from, onto, jobTodo, writes>>
    BY <1>1 DEF BeginJob
  <2>2. job'.op = op /\ job'.dest = d
    BY <2>1
  <2>3. Copies' => op \in {"copy", "move"}
    BY <2>2 DEF Copies
  <2>4. jobs' \in 0..MaxJobs
    BY <2>0, <2>1, DiskIs DEF LocalTypes
  <2>5. LocalTypes'
    BY <1>1, <2>0, <2>1, <2>2, <2>3, <2>4 DEF LocalTypes
  <2>6. BeforeIs' /\ HandledIs' /\ RenameIsMove' /\ Apart' /\ Whole' /\ Walking'
    BY <2>1 DEF BeforeIs, HandledIs, RenameIsMove, Apart, Whole, Walking, Handling
  <2>7. Settling'
    <3>1. Kept' = {}
      BY <2>1 DEF Kept
    <3> QED BY <2>1, <3>1 DEF Settling, Settled
  <2> QED BY <2>5, <2>6, <2>7 DEF LocalInv
<1>2. /\ {"copy", "move", "delete", "rename", "newFolder", "newFile"} \subseteq LocalOps
      /\ <<>> \in Seq(STRING) /\ DiskPaths \subseteq Seq(STRING)
  BY DiskPathIs, EmptySeq DEF LocalOps
<1>3. CASE \E s \in Selections, d \in Folders, op \in {"copy", "move"} : BeginJob(op, s, d)
  <2>1. PICK s \in Selections, d \in Folders, op \in {"copy", "move"} : BeginJob(op, s, d)
    BY <1>3
  <2>2. s \in Seq(DiskPaths) /\ d \in DiskPaths
    BY DiskIs
  <2> QED BY <1>1, <1>2, <2>1, <2>2
<1>4. CASE \E s \in Selections : BeginJob("delete", s, <<>>)
  <2>1. PICK s \in Selections : BeginJob("delete", s, <<>>)
    BY <1>4
  <2>2. s \in Seq(DiskPaths)
    BY DiskIs
  <2> QED BY <1>1, <1>2, <2>1, <2>2
<1>5. CASE \E s \in Selections, p \in DiskPaths :
             Len(s) = 1 /\ Len(p) > 1 /\ Parent(p) = Parent(s[1]) /\ BeginJob("rename", s, p)
  <2>1. PICK s \in Selections, p \in DiskPaths : BeginJob("rename", s, p)
    BY <1>5
  <2>2. s \in Seq(DiskPaths)
    BY DiskIs
  <2> QED BY <1>1, <1>2, <2>1, <2>2
<1>6. CASE \E p \in DiskPaths, op \in {"newFolder", "newFile"} : Len(p) > 1
      /\ BeginJob(op, <<p>>, <<>>)
  <2>1. PICK p \in DiskPaths, op \in {"newFolder", "newFile"} : BeginJob(op, <<p>>, <<>>)
    BY <1>6
  <2>2. <<p>> \in Seq(DiskPaths)
    OBVIOUS
  <2> QED BY <1>1, <1>2, <2>1, <2>2
<1> QED BY <1>3, <1>4, <1>5, <1>6 DEF UserJob

LEMMA TakeSourceHolds == ASSUME LocalInv, TakeSource PROVE LocalInv'
<1> DEFINE p == Head(rest)
           q == IF Copies THEN Append(job.dest, Last(p)) ELSE job.dest
           same == Real(p) = Real(q)
<1>0. LocalTypes /\ rest # <<>> /\ step = "next"
  BY DEF LocalInv, TakeSource
<1>1. /\ from' = p /\ onto' = q /\ before' = (IF Copies THEN FilesUnder(p) ELSE {})
      /\ IF Copies /\ same
         THEN jobOutcome' = "skipped" /\ rest' = Tail(rest) /\ step' = "next"
         ELSE /\ step' = IF (Copies /\ OnDisk(q)) \/ (job.op = "newFile" /\ OnDisk(p))
                         THEN "ask" ELSE "act"
              /\ UNCHANGED <<jobOutcome, rest>>
      /\ UNCHANGED <<disk, split, job, jobTodo, jobs, writes>>
  BY Zenon DEF TakeSource
<1>2. p \in DiskPaths /\ Tail(rest) \in Seq(DiskPaths) /\ p \in Seq(STRING) /\ p # <<>>
  <2>1. \A T : \A s \in Seq(T) : s # <<>> => Head(s) \in T /\ Tail(s) \in Seq(T)
    OBVIOUS
  <2>2. rest \in Seq(DiskPaths)
    BY <1>0 DEF LocalTypes
  <2>3. p \in DiskPaths /\ Tail(rest) \in Seq(DiskPaths)
    BY <1>0, <2>1, <2>2, Zenon
  <2> QED BY <2>3, DiskPathIs
<1> HIDE DEF p
<1>3. q \in Seq(STRING) /\ (Copies \/ job.op = "rename" => q # <<>>)
  <2>1. job.dest \in Seq(STRING) /\ (Copies \/ job.op = "rename" => job.dest \in DiskPaths)
    BY <1>0 DEF LocalTypes
  <2>2. CASE Copies
    BY <1>2, <2>1, <2>2, AppendedIs
  <2>3. CASE ~Copies
    BY <2>1, <2>3, DiskPathIs
  <2> QED BY <2>2, <2>3
<1> HIDE DEF q
<1>4. step' \in {"next", "ask", "act"} /\ (step' = "next" => jobOutcome' = "skipped"
      /\ rest' = Tail(rest))
  BY <1>1
<1>5. step' # "next" => jobOutcome' = jobOutcome /\ rest' = rest /\ ~(Copies /\ same)
  BY <1>1
<1>6. Copies' = Copies /\ (job.op)' = job.op /\ \A x : Real(x)' = Real(x)
  BY <1>1 DEF Copies, Real, At
<1>7. LocalTypes'
  <2>1. jobOutcome' \in {"none", "ok", "failed", "skipped"} /\ rest' \in Seq(DiskPaths)
    BY <1>0, <1>2, <1>4, <1>5 DEF LocalTypes
  <2> QED BY <1>0, <1>1, <1>2, <1>3, <1>4, <1>6, <2>1 DEF LocalTypes, Handling
<1>8. HandledIs' /\ RenameIsMove' /\ Walking'
  BY <1>0, <1>1, <1>2, <1>3, <1>4, <1>5, <1>6 DEF HandledIs, RenameIsMove, Walking, Handling
<1>9. Apart'
  BY <1>1, <1>4, <1>5, <1>6 DEF Apart
<1>10. \A f \in before' : f[1] \in DiskPaths /\ IsPrefix(p, f[1]) /\ IsDiskFile(f[2]) /\ Copies
       /\ disk[f[1]] = f[2]
  BY <1>1 DEF FilesUnder
<1>11. BeforeIs'
  BY <1>1, <1>6, <1>10 DEF BeforeIs
<1>12. Stands(disk)' /\ Settled(disk)'
  BY <1>1, <1>10 DEF Stands, Settled, Kept
<1>13. Whole' /\ Settling'
  BY <1>4, <1>12 DEF Whole, Settling
<1> QED BY <1>7, <1>8, <1>9, <1>11, <1>13 DEF LocalInv

LEMMA OverwriteHolds == ASSUME LocalInv, NEW yes \in BOOLEAN, Overwrite(yes) PROVE LocalInv'
<1>0. /\ LocalTypes /\ HandledIs /\ BeforeIs /\ step = "ask" /\ rest # <<>> /\ disk' = disk
      /\ disk \in DiskTrees
      /\ Stands(disk) /\ Apart
  BY DEF LocalInv, LocalTypes, HandledIs, Handling, Whole, Overwrite
<1>1. CASE yes
  <2>1. step' = "act" /\ UNCHANGED <<disk, split, job, rest, from, onto, jobTodo, jobOutcome,
        jobs, writes, before>>
    BY <1>0, <1>1 DEF Overwrite
  <2>2. /\ Copies' = Copies /\ Settled(disk)' = Settled(disk') /\ Stands(disk)' = Stands(disk')
        /\ BeforeIs' = BeforeIs
    BY <2>1, SettlesNext
  <2>3. LocalTypes'
    BY <1>0, <2>1, <2>2 DEF LocalTypes, Handling
  <2>4. HandledIs' /\ RenameIsMove' /\ Walking'
    BY <1>0, <2>1, <2>2 DEF HandledIs, RenameIsMove, Walking, Handling
  <2>5. Apart'
    <3>1. Real(from)' = Real(from) /\ Real(onto)' = Real(onto)
      BY <2>1 DEF Real, At
    <3> QED BY <1>0, <2>2, <3>1 DEF Apart
  <2>6. Whole' /\ Settling'
    BY <1>0, <2>1, <2>2, StandsSettled DEF Whole, Settling
  <2> QED BY <1>0, <2>2, <2>3, <2>4, <2>5, <2>6 DEF LocalInv
<1>2. CASE ~yes
  <2>1. Count("skipped")
    BY <1>2 DEF Overwrite
  <2>2. Settled(disk') /\ disk' \in DiskTrees
    BY <1>0, StandsSettled
  <2> QED BY <1>0, <2>1, <2>2, CountHolds
<1> QED BY <1>1, <1>2

LEMMA JobEndsHolds == ASSUME LocalInv, JobEnds PROVE LocalInv'
<1>0. LocalTypes /\ BeforeIs /\ Settling
  BY DEF LocalInv
<1>1. step' = "idle" /\ UNCHANGED <<disk, split, job, rest, from, onto, jobTodo, jobOutcome,
      jobs, writes, before>>
  BY DEF JobEnds
<1>2. Copies' = Copies /\ Settled(disk)' = Settled(disk') /\ BeforeIs' = BeforeIs
  BY <1>1, SettlesNext
<1>3. LocalTypes'
  BY <1>0, <1>1, <1>2 DEF LocalTypes
<1>4. HandledIs' /\ RenameIsMove' /\ Walking' /\ Apart' /\ Whole'
  BY <1>1 DEF HandledIs, RenameIsMove, Walking, Apart, Whole, Handling
<1>5. Settling'
  BY <1>0, <1>1, <1>2 DEF Settling
<1> QED BY <1>0, <1>2, <1>3, <1>4, <1>5 DEF LocalInv

\* The other program adds a file where there was none.
LEMMA OtherWritesHolds == ASSUME LocalInv, NEW p \in DiskPaths, OtherWrites(p) PROVE LocalInv'
<1>0. LocalTypes /\ HandledIs /\ BeforeIs /\ RenameIsMove /\ Apart /\ Whole /\ Walking
      /\ Settling /\ disk \in DiskTrees
  BY DEF LocalInv, LocalTypes
<1>1. /\ writes < MaxWrites /\ writes' = writes + 1 /\ disk[p] = "none"
      /\ disk' = [disk EXCEPT ![p] = "new"]
      /\ UNCHANGED <<split, job, rest, step, from, onto, jobTodo, jobOutcome, jobs, before>>
  BY DEF OtherWrites, At
<1>2. disk \in [DiskPaths -> DiskContents] /\ TreeOn(DiskPaths, disk)
  BY <1>0, TreesAre
<1>3. /\ \A x \in DiskPaths : x # p => disk'[x] = disk[x]
      /\ \A x \in DiskPaths : disk[x] # "none" => disk'[x] = disk[x]
      /\ \A x \in DiskPaths : disk'[x] = "link" <=> disk[x] = "link"
  BY <1>1, <1>2
<1>4. disk' \in DiskTrees
  <2>1. disk' \in [DiskPaths -> DiskContents]
    BY <1>1, <1>2, ContentsAre
  <2>2. Len(p) > 1 => disk[Front(p)] = "dir"
    <3>1. Len(p) > 1 => Front(p) \in DiskPaths
      BY DiskIs DEF PathsOf
    <3> QED BY <3>1 DEF OtherWrites, At, Parent
  <2>3. TreeOn(DiskPaths, disk')
    <3> DEFINE s == disk
               t == disk'
    <3>1. TreeOn(DiskPaths, s) /\ s[p] # "dir" /\ (Len(p) > 1 => s[Front(p)] = "dir")
          /\ PathsOf(DiskPaths)
      BY <1>1, <1>2, <2>2, DiskIs
    <3>2. \A x \in DiskPaths : x # p => t[x] = s[x]
      BY <1>3
    <3> HIDE DEF s, t
    <3>3. TreeOn(DiskPaths, t)
      BY <3>1, <3>2, TreeGainsOn
    <3> QED BY <3>3 DEF t
  <2> QED BY <2>1, <2>3, TreesIf
<1>5. /\ Kept' = Kept /\ Copies' = Copies /\ Settled(disk)' = Settled(disk')
      /\ Stands(disk)' = Stands(disk')
      /\ BeforeIs' = BeforeIs /\ Arrived(disk)' = Arrived(disk') /\ \A x : Onto(x)' = Onto(x)
  BY <1>1, SettlesNext
<1>6. \A x : RealOn(disk', x) = RealOn(disk, x)
      /\ (AtOn(disk, x) # "none" => AtOn(disk', x) = AtOn(disk, x))
  BY <1>3 DEF RealOn, AtOn
<1>7. \A f \in Kept : f[2] # "none" /\ f[1] \in DiskPaths
  BY <1>0 DEF Kept, BeforeIs, IsDiskFile
<1>8. \A f \in Kept : ThereOn(disk, f) => ThereOn(disk', f)
  BY <1>6, <1>7 DEF ThereOn
<1>9. \A f \in Kept : disk[f[1]] = f[2] => disk'[f[1]] = f[2]
  BY <1>3, <1>7
<1>10. (Stands(disk) => Stands(disk')) /\ (Settled(disk) => Settled(disk'))
       /\ (Arrived(disk) => Arrived(disk'))
  BY <1>8, <1>9 DEF Stands, Settled, Arrived
<1>11. LocalTypes'
  <2>1. writes' \in 0..MaxWrites
    BY <1>0, <1>1, DiskIs DEF LocalTypes
  <2> QED BY <1>0, <1>1, <1>4, <1>5, <2>1 DEF LocalTypes
<1>12. HandledIs' /\ RenameIsMove' /\ Whole' /\ Settling'
  BY <1>0, <1>1, <1>5, <1>10 DEF HandledIs, RenameIsMove, Whole, Settling
<1>13. Apart'
  <2>1. Real(from)' = RealOn(disk', from) /\ Real(onto)' = RealOn(disk', onto)
    BY <1>1 DEF Real, At, RealOn, AtOn
  <2> QED BY <1>0, <1>1, <1>5, <1>6, <2>1, AtDisk DEF Apart
<1>14. Walking'
  <2>1. \A f : Brought(f)' <=> AtOn(disk', Onto(f[1])) = f[2]
    BY <1>5 DEF Brought, At, AtOn
  <2>2. \A f \in Kept : Brought(f) => Brought(f)'
    BY <1>6, <1>7, <2>1, AtDisk DEF Brought
  <2>3. step = "walk" => (\A f \in Kept : Brought(f) \/ \E t \in jobTodo : IsPrefix(t, f[1]))'
    <3>1. step = "walk" => \A f \in Kept : Brought(f) \/ \E t \in jobTodo : IsPrefix(t, f[1])
      BY <1>0 DEF Walking
    <3> QED BY <1>1, <1>5, <2>2, <3>1
  <2>4. step = "walk" => /\ Copies' /\ (job.op = "move" => Head(from) # Head(onto))'
                         /\ (\A q \in DiskPaths : IsPrefix(onto, q) => disk[q] # "link")'
                         /\ (\A t \in jobTodo : IsPrefix(from, t))'
    BY <1>0, <1>1, <1>3, <1>5 DEF Walking
  <2> QED BY <1>1, <2>3, <2>4 DEF Walking
<1> QED BY <1>0, <1>5, <1>11, <1>12, <1>13, <1>14 DEF LocalInv

LEMMA LocalStart == LocalInit => LocalInv
<1> SUFFICES ASSUME LocalInit PROVE LocalInv
  OBVIOUS
<1>1. /\ disk \in Disks0 /\ split \in BOOLEAN
      /\ job = NoJob /\ rest = <<>> /\ step = "idle" /\ from = <<>> /\ onto = <<>>
      /\ jobTodo = {} /\ jobOutcome = "none" /\ jobs = 0 /\ writes = 0 /\ before = {}
  BY DEF LocalInit
<1>2. job.op = "none" /\ job.dest = <<>> /\ ~Copies
  BY <1>1 DEF NoJob, Copies
<1>3. <<>> \in Seq(STRING) /\ <<>> \in Seq(DiskPaths)
  BY EmptySeq
<1>4. LocalTypes
  BY <1>1, <1>2, <1>3, DisksAssumption, DiskIs DEF LocalTypes, LocalOps
<1>5. Kept = {}
  BY <1>1 DEF Kept
<1> QED BY <1>1, <1>2, <1>4, <1>5
        DEF LocalInv, HandledIs, BeforeIs, RenameIsMove, Apart, Whole, Walking, Settling,
          Settled, Handling

LEMMA LocalSteps == ASSUME LocalInv, [LocalNext]_localVars PROVE LocalInv'
<1>1. CASE UNCHANGED localVars
  <2>1. UNCHANGED <<disk, split, job, rest, step, from, onto, jobTodo, jobOutcome, jobs,
        writes, before>>
    BY <1>1 DEF localVars
  <2>2. /\ Kept' = Kept /\ Copies' = Copies /\ Settled(disk)' = Settled(disk')
        /\ Stands(disk)' = Stands(disk')
        /\ BeforeIs' = BeforeIs /\ Arrived(disk)' = Arrived(disk') /\ \A x : Onto(x)' = Onto(x)
    BY <2>1, SettlesNext
  <2>3. \A x : Real(x)' = Real(x) /\ At(x)' = At(x)
    BY <2>1 DEF Real, At
  <2>4. LocalTypes' /\ HandledIs' /\ RenameIsMove' /\ Apart' /\ Whole' /\ Settling'
    BY <2>1, <2>2, <2>3 DEF LocalInv, LocalTypes, HandledIs, RenameIsMove, Apart, Whole,
      Settling
  <2>5. Walking'
    <3>1. \A f : Brought(f)' <=> Brought(f)
      BY <2>2 , <2>1 DEF Brought, At
    <3> QED BY <2>1, <2>2, <3>1 DEF LocalInv, Walking
  <2> QED BY <2>2, <2>4, <2>5 DEF LocalInv
<1>2. CASE ActCopy
  BY <1>2, CopyLocalHolds DEF ActCopy, Copies
<1>3. CASE \E yes \in BOOLEAN : Overwrite(yes)
  BY <1>3, OverwriteHolds
<1>4. CASE \E p \in DiskPaths : OtherWrites(p)
  BY <1>4, OtherWritesHolds
<1>5. CASE UserJob
  BY <1>5, UserJobHolds
<1>6. CASE TakeSource
  BY <1>6, TakeSourceHolds
<1>7. CASE JobEnds
  BY <1>7, JobEndsHolds
<1>8. CASE ActMove
  BY <1>8, ActMoveHolds
<1>9. CASE MoveRename
  BY <1>9, MoveRenameHolds
<1>10. CASE Walk
  BY <1>10, WalkHolds
<1>11. CASE ActDelete
  BY <1>11, ActDeleteHolds
<1>12. CASE ActRename
  BY <1>12, ActRenameHolds
<1>13. CASE ActNewFolder
  BY <1>13, ActNewFolderHolds
<1>14. CASE ActNewFile
  BY <1>14, ActNewFileHolds
<1> QED BY <1>1, <1>2, <1>3, <1>4, <1>5, <1>6, <1>7, <1>8, <1>9, <1>10, <1>11, <1>12, <1>13,
  <1>14, Zenon
        DEF LocalNext

LEMMA LocalKept == LocalInv => LocalTypeOK /\ FilesArrive
<1> SUFFICES ASSUME LocalInv PROVE LocalTypeOK /\ FilesArrive
  OBVIOUS
<1>1. LocalTypes /\ Settling
  BY DEF LocalInv
<1>2. LocalTypeOK
  <2>1. \A i \in DOMAIN rest : rest[i] \in DiskPaths
    <3>1. \A T : \A s \in Seq(T) : \A i \in DOMAIN s : s[i] \in T
      OBVIOUS
    <3> QED BY <1>1, <3>1, Zenon DEF LocalTypes
  <2> QED BY <1>1, <2>1 DEF LocalTypes, LocalTypeOK, LocalOps, Handling
<1>3. \A f : ThereOn(disk, f) <=> At(Real(Onto(f[1]))) = f[2]
  BY AtDisk DEF ThereOn
<1>4. SourceKept /\ CountedIsThere
  BY <1>1, <1>3 DEF Settling, Settled, Arrived, SourceKept, CountedIsThere
<1> QED BY <1>2, <1>4 DEF FilesArrive

\* A local copy or move loses no file of its source, at any moment and after
\* any failure, and what is counted as copied or moved is whole in the target
\* (local_fs.rs: copy_local, move_local; main.rs: run_local_copy_move).
THEOREM LocalFilesArrive == LocalSpec => [](LocalTypeOK /\ FilesArrive)
<1>1. LocalInit => LocalInv
  BY LocalStart
<1>2. LocalInv /\ [LocalNext]_localVars => LocalInv'
  BY LocalSteps
<1>3. LocalInv => LocalTypeOK /\ FilesArrive
  BY LocalKept
<1> QED BY <1>1, <1>2, <1>3, PTL DEF LocalSpec

==============================================================================
