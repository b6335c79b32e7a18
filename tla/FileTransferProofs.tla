------------------------- MODULE FileTransferProofs -------------------------
(***************************************************************************)
(* Proofs about FileTransfer, for files of any length, any number of        *)
(* disturbances and buffers of any size.                                    *)
(*                                                                          *)
(*   TypeOK     the types, and that `done` is the length of the partial     *)
(*   CopyInv    an undisturbed partial is a prefix of its source            *)
(*   CheckInv   what verification has read, of which files                  *)
(***************************************************************************)
EXTENDS FileTransfer, SequenceTheorems, TLAPS

Block == Nat \X Nat

-----------------------------------------------------------------------------
(* Operators. *)

(* A new version of the source is a file. *)
LEMMA VersionIsFile ==
  ASSUME source \in Seq(Block), NEW v \in Nat,
         NEW keep \in 0..Len(source), NEW len \in Nat
  PROVE  Version(v, keep, len) \in Seq(Block)
<1>1. \A i \in 1..len : (IF i <= keep THEN source[i] ELSE <<v, i>>) \in Block
  BY DEF Block
<1>2. Version(v, keep, len) \in [1..len -> Block]
  BY <1>1, Zenon DEF Version
<1> QED BY <1>2

(* A write at the end of the destination lengthens it by the chunk and leaves what was *)
(* there.                                                                              *)
LEMMA WrittenAtEnd ==
  ASSUME dest \in Seq(Block), NEW chunk \in Seq(Block)
  PROVE  LET after == Written(Len(dest), chunk)
         IN  /\ after \in Seq(Block)
             /\ Len(after) = Len(dest) + Len(chunk)
             /\ \A i \in 1..Len(dest) : after[i] = dest[i]
             /\ \A i \in 1..Len(chunk) : after[Len(dest) + i] = chunk[i]
<1> DEFINE end == Len(dest) + Len(chunk)
           block(i) == IF i \in Len(dest) + 1..end THEN chunk[i - Len(dest)] ELSE dest[i]
<1>1. Len(dest) \in Nat /\ Len(chunk) \in Nat
  OBVIOUS
<1>2. (IF end > Len(dest) THEN end ELSE Len(dest)) = end
  BY <1>1
<1>3. Written(Len(dest), chunk) = [i \in 1..end |-> block(i)]
  BY <1>2, Zenon DEF Written
<1>4. ASSUME NEW i \in 1..end PROVE block(i) \in Block
  BY <1>1
<1>5. [i \in 1..end |-> block(i)] \in Seq(Block)
  <2>1. [i \in 1..end |-> block(i)] \in [1..end -> Block]
    BY <1>4, Zenon
  <2> QED BY <1>1, <2>1
<1>6. Len([i \in 1..end |-> block(i)]) = end
  BY <1>1
<1>7. \A i \in 1..Len(dest) : block(i) = dest[i] /\ i \in 1..end
  BY <1>1
<1>8. \A i \in 1..Len(chunk) : block(Len(dest) + i) = chunk[i] /\ Len(dest) + i \in 1..end
  BY <1>1
<1>9. \A i \in 1..end : Written(Len(dest), chunk)[i] = block(i)
  BY <1>3, Zenon
<1> HIDE DEF block
<1> QED BY <1>3, <1>5, <1>6, <1>7, <1>8, <1>9, Zenon

(* The chunk a read of n blocks returns. *)
LEMMA ReadReturns ==
  ASSUME source \in Seq(Block), NEW p \in Nat, NEW n \in Nat \ {0}, p + n <= Len(source)
  PROVE  /\ SubSeq(source, p + 1, p + n) \in Seq(Block)
         /\ Len(SubSeq(source, p + 1, p + n)) = n
         /\ \A i \in 1..n : SubSeq(source, p + 1, p + n)[i] = source[p + i]
<1>1. \A i \in p + 1..p + n : source[i] \in Block
  OBVIOUS
<1>2. p + 1 \in Int /\ p + n \in Int
  OBVIOUS
<1>3. /\ SubSeq(source, p + 1, p + n) \in Seq(Block)
      /\ Len(SubSeq(source, p + 1, p + n))
           = IF p + 1 <= p + n THEN p + n - (p + 1) + 1 ELSE 0
  BY <1>1, <1>2, SubSeqProperties
<1>4. \A i \in 1..n : SubSeq(source, p + 1, p + n)[i] = source[p + i]
  BY <1>2
<1> QED BY <1>3, <1>4

-----------------------------------------------------------------------------
(* Types. *)

LEMMA TypeStep ==
  ASSUME TypeOK, [Next]_vars
  PROVE  TypeOK'
<1> USE TransferAssumption DEF TypeOK, Resting, Block
<1>1. ASSUME NEW n \in 1..BufBlocks, Copy(n)
      PROVE  TypeOK'
  <2>1. n \in Nat \ {0} /\ pos \in Nat /\ pos + n <= Len(source) /\ pc = "copy"
    BY <1>1 DEF Copy
  <2>2. /\ SubSeq(source, pos + 1, pos + n) \in Seq(Block)
        /\ Len(SubSeq(source, pos + 1, pos + n)) = n
    BY <2>1, ReadReturns
  <2>3. done = Len(dest)
    BY <2>1
  <2>4. dest' \in Seq(Block) /\ Len(dest') = done + n
    BY <1>1, <2>2, <2>3, WrittenAtEnd DEF Copy
  <2> QED BY <1>1, <2>1, <2>4 DEF Copy, checking, history
<1>2. CASE CopyEnds
  BY <1>2 DEF CopyEnds, files, copying, checking, history
<1>3. ASSUME NEW sized \in BOOLEAN, Flush(sized)
      PROVE  TypeOK'
  BY <1>3 DEF Flush, FinalSize, files, copying, history
<1>4. CASE HashRemote
  BY <1>4 DEF HashRemote, files, copying, history
<1>5. CASE StatLocal
  BY <1>5 DEF StatLocal, Local, files, copying, history
<1>6. CASE Judge
  BY <1>6 DEF Judge, Judgement, Unverifiable, files, copying, checking, history
<1>7. ASSUME NEW resume \in BOOLEAN, NEW sized \in BOOLEAN, Open(resume, sized)
      PROVE  TypeOK'
  <2> DEFINE whole == IF dir = "download" /\ ~sized THEN 0 ELSE Len(source)
             partial == IF dir = "upload" /\ ~sized THEN 0 ELSE Len(dest)
             continues == Resumes(resume, partial, whole)
  <2>1. pure' \in BOOLEAN /\ resumed' \in BOOLEAN /\ blind' \in BOOLEAN /\ sizeRead' \in BOOLEAN
    BY <1>7, Zenon DEF Open, Resumes
  <2>2. dest' \in Seq(Nat \X Nat) /\ done' = Len(dest') /\ pos' \in Nat
    <3>1. CASE continues
      <4>1. partial = Len(dest)
        BY <3>1 DEF Resumes
      <4> QED BY <1>7, <3>1, <4>1 DEF Open, SeekSource, Keep
    <3>2. CASE ~continues
      BY <1>7, <3>2 DEF Open, SeekSource, Keep
    <3> QED BY <3>1, <3>2
  <2>3. total' \in Nat /\ size' \in SUBSET Nat
    BY <1>7 DEF Open
  <2> QED BY <1>7, <2>1, <2>2, <2>3 DEF Open
<1>8. CASE Cancel
  BY <1>8 DEF Cancel, Disturbed, files, copying, checking, history
<1>9. CASE Fail
  BY <1>9 DEF Fail, Disturbed, files, copying, checking, history
<1>10. CASE HashUnavailable
  BY <1>10 DEF HashUnavailable, Disturbed, files, copying, checking, history
<1>11. CASE LocalUnreadable
  BY <1>11 DEF LocalUnreadable, Unverifiable, Disturbed, files, copying, history
<1>12. CASE Edit
  <2>1. PICK keep \in 0..Len(source), len \in 0..MaxLen :
          source' = Version(trouble + 2, keep, len)
    BY <1>12 DEF Edit
  <2>2. source' \in Seq(Block)
    BY <2>1, VersionIsFile
  <2>3. pure' \in BOOLEAN /\ trouble' \in Nat
    <3>1. pure' \in BOOLEAN
      BY <1>12, Zenon DEF Edit
    <3>2. trouble' \in Nat
      BY <1>12 DEF Edit, Disturbed
    <3> QED BY <3>1, <3>2
  <2> QED BY <1>12, <2>2, <2>3 DEF Edit, copying, checking
<1>13. CASE UNCHANGED vars
  BY <1>13 DEF vars, files, copying, checking, history
<1> QED
  BY <1>1, <1>2, <1>3, <1>4, <1>5, <1>6, <1>7, <1>8, <1>9, <1>10, <1>11, <1>12, <1>13
     DEF Next, Attempt, Retry, Trouble

LEMMA TypeInit == Init => TypeOK
<1> SUFFICES ASSUME Init PROVE TypeOK
  OBVIOUS
<1>1. source \in Seq(Nat \X Nat) /\ dest \in Seq(Nat \X Nat)
  <2>1. \A v, n \in Nat : [i \in 1..n |-> <<v, i>>] \in Seq(Nat \X Nat)
    OBVIOUS
  <2>2. PICK n \in 0..MaxLen : source = [i \in 1..n |-> <<1, i>>]
    BY DEF Init
  <2>3. PICK m \in 0..MaxLen : dest = [i \in 1..m |-> <<0, i>>]
    BY DEF Init
  <2> QED BY <2>1, <2>2, <2>3, TransferAssumption
<1>2. pure \in BOOLEAN
  BY Zenon DEF Init
<1> QED BY <1>1, <1>2, TransferAssumption DEF Init, TypeOK, Resting

(* The variables keep their types, and what an attempt has counted is what the destination *)
(* holds.                                                                                  *)
THEOREM TypeCorrect == Spec => []TypeOK
<1>1. TypeOK /\ [Next]_vars => TypeOK'
  BY TypeStep
<1> QED BY TypeInit, <1>1, PTL DEF Spec

-----------------------------------------------------------------------------
(* What an undisturbed copy holds. *)

(* The partial is this task's, of the source as it is now; and no upload has resumed it. *)
Ours == pure /\ ~(dir = "upload" /\ resumed)

Prefix ==
  /\ Len(dest) <= Len(source)
  /\ \A i \in 1..Len(dest) : dest[i] = source[i]

Copied == {"flush", "hash", "stat", "judge", "done"}

(* Such a partial is a prefix of the source; the handle that reads stands where the handle *)
(* that writes does; and once the copy is over it is the source.                           *)
CopyInv ==
  Ours => /\ Prefix
          /\ pc = "copy" => pos = done /\ (dir = "upload" => total = Len(source))
          /\ pc \in Copied => dest = source

LEMMA CopyStep ==
  ASSUME TypeOK, CopyInv, [Next]_vars
  PROVE  CopyInv'
<1> SUFFICES ASSUME Ours' PROVE CopyInv'
  BY DEF CopyInv
<1>1. ASSUME NEW n \in 1..BufBlocks, Copy(n)
      PROVE  CopyInv'
  <2> DEFINE chunk == SubSeq(source, pos + 1, pos + n)
  <2>1. Ours /\ pc = "copy" /\ pc' = "copy" /\ source' = source
    BY <1>1 DEF Copy, Ours, history
  <2>2. /\ n \in Nat \ {0} /\ pos \in Nat /\ pos + n <= Len(source)
        /\ pos = done /\ done = Len(dest)
        /\ source \in Seq(Block) /\ dest \in Seq(Block)
        /\ dest' = Written(Len(dest), chunk)
    BY <1>1, <2>1, TransferAssumption DEF Copy, TypeOK, CopyInv, Block
  <2>3. /\ chunk \in Seq(Block)
        /\ Len(chunk) = n
        /\ \A i \in 1..n : chunk[i] = source[pos + i]
    BY <2>2, ReadReturns
  <2>4. /\ Len(dest') = Len(dest) + n
        /\ \A i \in 1..Len(dest) : dest'[i] = dest[i]
        /\ \A i \in 1..n : dest'[Len(dest) + i] = chunk[i]
    <3> HIDE DEF chunk
    <3>1. /\ Len(Written(Len(dest), chunk)) = Len(dest) + Len(chunk)
          /\ \A i \in 1..Len(dest) : Written(Len(dest), chunk)[i] = dest[i]
          /\ \A i \in 1..Len(chunk) : Written(Len(dest), chunk)[Len(dest) + i] = chunk[i]
      BY <2>2, <2>3, WrittenAtEnd
    <3> QED BY <2>2, <2>3, <3>1
  <2>5. Prefix'
    <3>1. \A i \in 1..Len(dest) : dest'[i] = source[i]
      BY <2>1, <2>4 DEF CopyInv, Prefix
    <3>2. \A i \in 1..n : dest'[Len(dest) + i] = source[Len(dest) + i]
      BY <2>2, <2>3, <2>4
    <3>3. ASSUME NEW i \in 1..Len(dest')
          PROVE  i \in 1..Len(dest) \/ \E j \in 1..n : i = Len(dest) + j
      <4>1. i \in Nat /\ i <= Len(dest) + n /\ Len(dest) \in Nat
        BY <2>2, <2>4
      <4>2. CASE i > Len(dest)
        <5>1. i - Len(dest) \in 1..n /\ i = Len(dest) + (i - Len(dest))
          BY <2>2, <4>1, <4>2
        <5> QED BY <5>1
      <4> QED BY <3>3, <4>1, <4>2
    <3>4. Len(dest') <= Len(source)
      BY <2>2, <2>4
    <3> HIDE DEF chunk
    <3> QED BY <2>1, <3>1, <3>2, <3>3, <3>4, Zenon DEF Prefix
  <2>6. pos' = done' /\ (dir' = "upload" => total' = Len(source'))
    BY <1>1, <2>1, <2>2 DEF Copy, CopyInv
  <2> QED BY <2>1, <2>5, <2>6 DEF CopyInv, Copied
<1>2. CASE CopyEnds
  <2>1. Ours /\ Prefix /\ pos = Len(dest) /\ source \in Seq(Block) /\ dest \in Seq(Block)
    BY <1>2 DEF CopyEnds, Ours, CopyInv, TypeOK, Block, history
  <2>2. Len(dest) = Len(source)
    <3>1. /\ Len(dest) \in Nat /\ Len(source) \in Nat /\ total \in Nat
          /\ Len(dest) <= Len(source)
          /\ done = Len(dest)
          /\ dir = "upload" => total = Len(source)
      BY <1>2, <2>1 DEF CopyEnds, Prefix, CopyInv, TypeOK
    <3>2. CASE Counting
      BY <1>2, <2>1, <3>1, <3>2 DEF CopyEnds
    <3>3. CASE ~Counting
      BY <3>1, <3>3, TransferAssumption DEF Counting, TypeOK
    <3> QED BY <3>2, <3>3
  <2>3. dest = source
    BY <2>1, <2>2, SeqEqual DEF Prefix
  <2> QED BY <1>2, <2>1, <2>3 DEF CopyEnds, CopyInv, Prefix, files
<1>3. ASSUME NEW sized \in BOOLEAN, Flush(sized)
      PROVE  CopyInv'
  BY <1>3 DEF Flush, CopyInv, Ours, Prefix, Copied, files, history
<1>4. CASE HashRemote
  BY <1>4 DEF HashRemote, CopyInv, Ours, Prefix, Copied, files, history
<1>5. CASE StatLocal
  BY <1>5 DEF StatLocal, CopyInv, Ours, Prefix, Copied, files, history
<1>6. CASE Judge
  BY <1>6 DEF Judge, Judgement, Unverifiable, CopyInv, Ours, Prefix, Copied, files, history
<1>7. ASSUME NEW resume \in BOOLEAN, NEW sized \in BOOLEAN, Open(resume, sized)
      PROVE  CopyInv'
  <2> DEFINE whole == IF dir = "download" /\ ~sized THEN 0 ELSE Len(source)
             partial == IF dir = "upload" /\ ~sized THEN 0 ELSE Len(dest)
             continues == Resumes(resume, partial, whole)
  <2>1. dir \in {"upload", "download"}
    BY TransferAssumption DEF TypeOK
  <2>2. CASE continues
    <3>1. dir = "download" /\ Ours /\ UNCHANGED <<dir, files>> /\ pc' = "copy" /\ pos' = done'
      BY <1>7, <2>1, <2>2 DEF Open, Ours, SeekSource, Keep, files
    <3> QED BY <3>1 DEF CopyInv, Prefix, Copied, files
  <2>3. CASE ~continues
    <3>1. /\ dest' = <<>> /\ source' = source /\ pc' = "copy" /\ pos' = 0 /\ done' = 0
          /\ total' = whole /\ dir' = dir
      BY <1>7, <2>3 DEF Open, SeekSource, Keep
    <3>2. Prefix'
      BY <3>1 DEF Prefix, TypeOK
    <3> QED BY <3>1, <3>2 DEF CopyInv, Copied
  <2> QED BY <2>2, <2>3
<1>8. CASE Cancel
  BY <1>8 DEF Cancel, CopyInv, Ours, Prefix, Copied, files, history
<1>9. CASE Fail
  BY <1>9 DEF Fail, CopyInv, Ours, Prefix, Copied, files, history
<1>10. CASE HashUnavailable
  BY <1>10 DEF HashUnavailable, CopyInv, Ours, Prefix, Copied, files, history
<1>11. CASE LocalUnreadable
  BY <1>11 DEF LocalUnreadable, Unverifiable, CopyInv, Ours, Prefix, Copied, files, history
<1>12. CASE Edit
  BY <1>12 DEF Edit, Ours
<1>13. CASE UNCHANGED vars
  BY <1>13 DEF vars, CopyInv, Ours, Prefix, Copied, files, copying, history
<1> QED
  BY <1>1, <1>2, <1>3, <1>4, <1>5, <1>6, <1>7, <1>8, <1>9, <1>10, <1>11, <1>12, <1>13
     DEF Next, Attempt, Retry, Trouble

LEMMA CopyInit == Init => CopyInv
<1> SUFFICES ASSUME Init, Ours PROVE CopyInv
  BY DEF CopyInv
<1>1. dest = <<>> /\ pc = "idle"
  BY Zenon DEF Init, Ours
<1>2. Len(source) \in Nat
  BY TypeInit DEF TypeOK
<1>3. Prefix
  BY <1>1, <1>2 DEF Prefix
<1> QED BY <1>1, <1>3 DEF CopyInv, Copied

(* A download, or an upload that has not been resumed, that reports success has made the *)
(* destination equal to its unchanged source, verified or not.                           *)
THEOREM CopyDelivers == Spec => []Delivers
<1>1. TypeOK /\ CopyInv /\ [Next]_vars => CopyInv'
  BY CopyStep
<1>2. CopyInv => Delivers
  BY DEF CopyInv, Delivers, Ours, Copied
<1> QED BY CopyInit, TypeCorrect, <1>1, <1>2, PTL DEF Spec

-----------------------------------------------------------------------------
(* What verification has read. *)

Verifying == {"hash", "stat", "judge"}

(* The remote digest is of a version of the source, or of the destination as it is. *)
DigestInv ==
  /\ pc \in {"copy", "flush", "hash"} => remoteSum = {}
  /\ pc \in {"stat", "judge"} /\ remoteSum # {} =>
       IF dir = "download" THEN \E version \in seen : remoteSum = {version}
                           ELSE remoteSum = {dest}

(* So are the sizes, where the server reported one. *)
SizeInv ==
  /\ dir = "download" /\ sizeRead /\ pc \in {"copy", "flush"} \cup Verifying =>
       \E version \in seen : size = {Len(version)}
  /\ dir # "download" /\ sizeRead /\ pc \in Verifying => size = {Len(dest)}
  /\ pc = "judge" =>
       IF dir = "download" THEN localSize = Len(dest)
                           ELSE \E version \in seen : localSize = Len(version)

CheckInv ==
  /\ pc \notin Resting => source \in seen
  /\ DigestInv
  /\ SizeInv
  /\ DeliversAVersion
  /\ RightSize

LEMMA CheckStep ==
  ASSUME CheckInv, [Next]_vars
  PROVE  CheckInv'
<1> USE DEF CheckInv, DigestInv, SizeInv, DeliversAVersion, RightSize, Verifying, Resting
<1>1. ASSUME NEW n \in 1..BufBlocks, Copy(n)
      PROVE  CheckInv'
  BY <1>1 DEF Copy, checking, history
<1>2. CASE CopyEnds
  BY <1>2 DEF CopyEnds, files, copying, checking, history
<1>3. ASSUME NEW sized \in BOOLEAN, Flush(sized)
      PROVE  CheckInv'
  BY <1>3 DEF Flush, FinalSize, files, copying, history
<1>4. CASE HashRemote
  BY <1>4 DEF HashRemote, Remote, files, copying, history
<1>5. CASE StatLocal
  BY <1>5 DEF StatLocal, Local, files, copying, history
<1>6. CASE Judge
  <2>1. /\ pc = "judge" /\ pc' \in {"done", "failed"}
        /\ UNCHANGED <<dir, policy, files, copying, checking, history>>
    BY <1>6 DEF Judge, Judgement, Unverifiable
  <2>2. CASE pc' = "failed"
    BY <2>1, <2>2 DEF files, checking, history
  <2>3. CASE pc' = "done"
    <3>1. size \subseteq {localSize}
      BY <1>6, <2>3 DEF Judge, Judgement
    <3>2. (remoteSum = {} /\ policy = "optional") \/ remoteSum = {Local}
      BY <1>6, <2>3, <3>1 DEF Judge, Judgement, Unverifiable
    <3>3. ASSUME remoteSum = {Local} PROVE dest \in seen
      BY <2>1, <3>3 DEF Local
    <3>4. ASSUME sizeRead PROVE \E version \in seen : Len(dest) = Len(version)
      <4>1. size # {} => size = {localSize}
        BY <3>1
      <4> QED BY <2>1, <3>4, <4>1
    <3> QED BY <2>1, <2>3, <3>2, <3>3, <3>4 DEF files, checking, history
  <2> QED BY <2>1, <2>2, <2>3
<1>7. ASSUME NEW resume \in BOOLEAN, NEW sized \in BOOLEAN, Open(resume, sized)
      PROVE  CheckInv'
  BY <1>7 DEF Open
<1>8. CASE Cancel
  BY <1>8 DEF Cancel, files, copying, checking, history
<1>9. CASE Fail
  BY <1>9 DEF Fail, files, copying, checking, history
<1>10. CASE HashUnavailable
  BY <1>10 DEF HashUnavailable, files, copying, checking, history
<1>11. CASE LocalUnreadable
  BY <1>11 DEF LocalUnreadable, Unverifiable, files, copying, history
<1>12. CASE Edit
  BY <1>12 DEF Edit, copying, checking
<1>13. CASE UNCHANGED vars
  BY <1>13 DEF vars, files, copying, checking, history
<1> QED
  BY <1>1, <1>2, <1>3, <1>4, <1>5, <1>6, <1>7, <1>8, <1>9, <1>10, <1>11, <1>12, <1>13
     DEF Next, Attempt, Retry, Trouble

LEMMA CheckInit == Init => CheckInv
BY DEF Init, CheckInv, DigestInv, SizeInv, DeliversAVersion, RightSize, Verifying, Resting

THEOREM CheckInvariant == Spec => []CheckInv
BY CheckInit, CheckStep, PTL DEF Spec

(* A verified success is one version of the source from end to end, whatever partial it *)
(* was resumed from and however often the source was changed.                           *)
THEOREM VerifiedIsAVersion == Spec => []DeliversAVersion
<1>1. CheckInv => DeliversAVersion
  BY DEF CheckInv
<1> QED BY CheckInvariant, <1>1, PTL

(* Under Optional the length is right even when no digest could be had. *)
THEOREM OptionalHasRightSize == Spec => []RightSize
<1>1. CheckInv => RightSize
  BY DEF CheckInv
<1> QED BY CheckInvariant, <1>1, PTL

=============================================================================
