----------------------------- MODULE FilesProofs -----------------------------
(***************************************************************************)
(* The theorems about single files and directories: what the run of        *)
(* MCFiles checks holds for every value of the constants.                  *)
(*                                                                         *)
(* The composition plays one part at a time and leaves the others alone;   *)
(* each part has an invariant of its own.  Those of the panes are in       *)
(* PanesProofs; the others are here.                                       *)
(*   - A backend's transfer (TransferInv): what was counted as transferred *)
(*     is in the target, or in the pipe behind it, and is a beginning of   *)
(*     the source; a target that was one stays one.                        *)
(*   - A copy over SCP (ScpInv): the records that are still to come close  *)
(*     every open directory, no file follows the last close, and a file    *)
(*     is whole, in doubt, or its record is still to come.                 *)
(*   - A call on the server's files (FilesInv): what is left to do stays   *)
(*     under what the call was given, a directory's own removal comes      *)
(*     last, and a rename clears its target before it moves its source.    *)
(*   - A listing (ListingInv): the server's answers describe what is there *)
(*     in one of its styles; what the parser keeps of them is the entries, *)
(*     each once.                                                          *)
(***************************************************************************)
EXTENDS MCFiles, PanesProofs, SequenceTheorems, FiniteSetTheorems, WellFoundedInduction, TLAPS

------------------------------------------------------------------------------
(* The transfers of the backends.                                          *)

(* The attempt is one that RetriesDeliver speaks of: it does not resume, or *)
(* it found a part of the source to resume.                                 *)
Delivering == resume => IsPrefix(prior, source)
(* What was counted as transferred is in the target or on its way there.    *)
CopiedSoFar == done \in 0..Len(source) /\ target \o pipe = SubSeq(source, 1, done)
BlockSeqs == Seq(0..MaxBlocks)

PlanInv ==
  /\ done \in Nat
  /\ direction = "get" => done = Len(target) /\ (target = prior \/ target = <<>>)
                          /\ (resume \/ target = <<>>)
  /\ direction = "put" => target = prior
StartInv ==
  /\ target = prior
  /\ backend # "webdav" =>
       /\ direction = "put" /\ pos = done /\ done \in 0..Len(source)
       /\ done = 0 \/ (resume /\ done = Len(target))
StreamInv ==
  /\ Delivering => CopiedSoFar
  /\ at = "ranged" /\ direction = "put" => pos = done
  /\ at \in {"stream", "body"} => direction = "get"
AttemptInv ==
  /\ outcome = "ok" => at = "idle" /\ (Delivering => target = source)
  /\ pipe # <<>> => at = "ranged" /\ direction = "put"
  /\ at = "local" => target = prior
  /\ at = "plan" => PlanInv
  /\ at = "start" => StartInv
  /\ at \in {"ranged", "stream", "body"} => StreamInv
TransferInv ==
  /\ TransferTypeOK /\ prior \in BlockSeqs
  /\ AttemptInv
  /\ IsPrefix(prior, source) => IsPrefix(target, source)

LEMMA SourceIs ==
  ASSUME source \in Sources
  PROVE  /\ source \in BlockSeqs /\ Len(source) \in 0..MaxBlocks
         /\ \A i \in 1..Len(source) : source[i] \in 1..MaxBlocks
<1>1. PICK n \in 0..MaxBlocks : source = [i \in 1..n |-> i]
  BY DEF Sources, File
<1>2. n \in Nat /\ MaxBlocks \in Nat
  BY BlocksAssumption
<1>3. source \in [1..n -> 1..MaxBlocks]
  BY <1>1, <1>2
<1>4. Len(source) = n
  BY <1>2, <1>3
<1> QED BY <1>1, <1>2, <1>3, <1>4 DEF BlockSeqs

LEMMA TransferStarts == TransferInit => TransferInv
<1> SUFFICES ASSUME TransferInit PROVE TransferInv
  OBVIOUS
<1>1. source \in BlockSeqs /\ Len(source) \in 0..MaxBlocks /\ MaxBlocks \in Nat
  BY SourceIs, BlocksAssumption DEF TransferInit
<1>2. target \in BlockSeqs
  <2>1. CASE \E n \in 0..Len(source) : target = SubSeq(source, 1, n)
    BY <1>1, <2>1, BeginningIs DEF BlockSeqs
  <2>2. CASE \E n \in 1..(MaxBlocks + 1) : target = [i \in 1..n |-> 0]
    BY <1>1, <2>2 DEF BlockSeqs
  <2> QED BY <2>1, <2>2 DEF TransferInit, Leftovers
<1>3. TransferTypeOK
  <2>1. pipe \in Seq(1..MaxBlocks) /\ {done, pos} \subseteq Nat
    BY DEF TransferInit
  <2>2. attempts \in 0..MaxAttempts
    BY BlocksAssumption DEF TransferInit
  <2>3. {parents, resume, interrupted, cancelled} \subseteq BOOLEAN
    BY Zenon DEF TransferInit
  <2> QED BY <1>2, <2>1, <2>2, <2>3 DEF TransferInit, TransferTypeOK, BlockSeqs
<1> QED BY <1>2, <1>3 DEF TransferInit, TransferInv, AttemptInv

LEMMA TransferTypesAre ==
  ASSUME TransferInv
  PROVE  /\ source \in Sources /\ source \in BlockSeqs /\ Len(source) \in 0..MaxBlocks
         /\ MaxBlocks \in Nat /\ MaxAttempts \in Nat
         /\ \A i \in 1..Len(source) : source[i] \in 1..MaxBlocks
         /\ target \in BlockSeqs /\ prior \in BlockSeqs /\ pipe \in BlockSeqs
         /\ pipe \in Seq(1..MaxBlocks) /\ done \in Nat /\ pos \in Nat
BY SourceIs, BlocksAssumption DEF TransferInv, TransferTypeOK, BlockSeqs

(* The end of an attempt, with what it leaves in the target. *)
LEMMA EndKeeps ==
  ASSUME TransferInv, NEW with \in {"ok", "error", "cancelled", "interrupted"}, End(with),
         target' \in BlockSeqs, with = "ok" => (Delivering => target' = source),
         IsPrefix(prior, source) => IsPrefix(target', source)
  PROVE  TransferInv'
<1>1. TransferTypeOK' /\ prior' \in BlockSeqs
  BY DEF TransferInv, TransferTypeOK, BlockSeqs, End, fixed, request
<1>2. AttemptInv'
  BY DEF AttemptInv, End, Delivering, fixed, request
<1> QED BY <1>1, <1>2 DEF TransferInv, End, fixed, request

(* A beginning of the source may be left behind. *)
LEMMA PartIsLeft ==
  ASSUME TransferInv, NEW n \in 0..Len(source)
  PROVE  SubSeq(source, 1, n) \in BlockSeqs /\ IsPrefix(SubSeq(source, 1, n), source)
BY TransferTypesAre, BeginningIs DEF BlockSeqs

(* The bodies of WebDAV: what was there, and some of what is behind it. *)
LEMMA BodyAdds ==
  ASSUME TransferInv, at = "body", NEW n \in done..Len(source)
  PROVE  /\ target \o SubSeq(source, done + 1, n) \in BlockSeqs
         /\ Delivering => target \o SubSeq(source, done + 1, n) = SubSeq(source, 1, n)
<1>1. /\ source \in BlockSeqs /\ Len(source) \in Nat /\ target \in BlockSeqs /\ done \in Nat
  BY TransferTypesAre
<1>2. SubSeq(source, done + 1, n) \in BlockSeqs
  <2>0. \A i \in (done + 1)..n : i \in 1..Len(source)
    BY <1>1
  <2>1. \A i \in (done + 1)..n : source[i] \in 0..MaxBlocks
    BY <1>1, <2>0, ElementOfSeq DEF BlockSeqs
  <2>2. done + 1 \in Int /\ n \in Int
    BY <1>1
  <2> QED BY <2>1, <2>2, SubSeqProperties DEF BlockSeqs
<1>3. target \o SubSeq(source, done + 1, n) \in BlockSeqs
  BY <1>1, <1>2, ConcatProperties DEF BlockSeqs
<1>4. ASSUME Delivering PROVE target \o SubSeq(source, done + 1, n) = SubSeq(source, 1, n)
  <2>1. pipe = <<>> /\ target \o pipe = SubSeq(source, 1, done)
    BY <1>4 DEF TransferInv, AttemptInv, StreamInv, CopiedSoFar
  <2>2. target = SubSeq(source, 1, done)
    BY <1>1, <2>1, ConcatEmptySeq DEF BlockSeqs
  <2>3. SubSeq(source, 1, done) \o SubSeq(source, done + 1, n) = SubSeq(source, 1, n)
    <3>1. source \in Seq(0..MaxBlocks) /\ done \in 0..Len(source) /\ n \in done..Len(source)
          /\ 1 \in 1..Len(source) + 1
      BY <1>1 DEF BlockSeqs
    <3> QED BY <3>1, ConcatAdjacentSubSeq
  <2> QED BY <2>2, <2>3
<1> QED BY <1>3, <1>4

LEMMA WholeSource ==
  ASSUME TransferInv
  PROVE  SubSeq(source, 1, Len(source)) = source /\ IsPrefix(source, source)
BY TransferTypesAre, SubSeqFull DEF BlockSeqs, IsPrefix

LEMMA EmptyIsPrefix == ASSUME NEW T, NEW s \in Seq(T) PROVE IsPrefix(<<>>, s)
<1>1. Len(<<>>) = 0 /\ Len(s) \in Nat
  OBVIOUS
<1>2. SubSeq(<<>>, 1, 0) = <<>> /\ SubSeq(s, 1, 0) = <<>>
  BY SubSeqEmpty
<1> QED BY <1>1, <1>2 DEF IsPrefix

LEMMA BeginKeeps ==
  ASSUME TransferInv, NEW again \in BOOLEAN, Begin(again)
  PROVE  TransferInv'
<1>1. /\ source \in BlockSeqs /\ target \in BlockSeqs /\ pipe = <<>> /\ MaxAttempts \in Nat
      /\ attempts \in 0..MaxAttempts
  BY TransferTypesAre DEF TransferInv, AttemptInv, Begin, TransferTypeOK
<1>2. TransferTypeOK' /\ prior' \in BlockSeqs
  <2>1. {parents', resume', interrupted', cancelled'} \subseteq BOOLEAN
    BY Zenon DEF TransferInv, TransferTypeOK, Begin, fixed
  <2>2. attempts' \in 0..MaxAttempts
    BY <1>1 DEF Begin
  <2> QED BY <1>1, <2>1, <2>2 DEF TransferInv, TransferTypeOK, BlockSeqs, Begin, fixed
<1>3. AttemptInv'
  BY <1>1 DEF AttemptInv, StartInv, Begin, fixed
<1> QED BY <1>2, <1>3 DEF TransferInv, Begin, fixed

LEMMA OpenKeeps ==
  ASSUME TransferInv, OpenLocal
  PROVE  TransferInv'
<1>1. source \in BlockSeqs /\ target \in BlockSeqs /\ pipe = <<>> /\ target = prior
      /\ done \in Nat
      /\ prior \in BlockSeqs
  BY TransferTypesAre DEF TransferInv, AttemptInv, OpenLocal
<1>2. target' \in BlockSeqs /\ (target' = target \/ target' = <<>>)
  <2>1. <<>> \in BlockSeqs
    BY DEF BlockSeqs
  <2>2. target' = target \/ target' = <<>>
    BY DEF OpenLocal
  <2> QED BY <1>1, <2>1, <2>2
<1>3. done' \in Nat
  BY <1>1, <1>2 DEF OpenLocal, BlockSeqs
<1>4. TransferTypeOK' /\ prior' \in BlockSeqs
  BY <1>2, <1>3 DEF TransferInv, TransferTypeOK, BlockSeqs, OpenLocal, fixed, request
<1>5. AttemptInv'
  BY <1>1, <1>2, <1>3 DEF AttemptInv, TransferInv, PlanInv, OpenLocal, fixed, request
<1>6. IsPrefix(<<>>, source)
  BY <1>1, EmptyIsPrefix DEF BlockSeqs
<1> QED BY <1>1, <1>2, <1>4, <1>5, <1>6 DEF TransferInv, OpenLocal, fixed, request

LEMMA PlanGetKeeps ==
  ASSUME TransferInv, PlanGet
  PROVE  TransferInv'
<1>1. /\ source \in BlockSeqs /\ target \in BlockSeqs /\ pipe = <<>> /\ done = Len(target)
      /\ prior \in BlockSeqs /\ (target = prior \/ target = <<>>) /\ (resume \/ target = <<>>)
      /\ Len(source) \in Nat /\ done \in Nat
  BY TransferTypesAre DEF TransferInv, AttemptInv, PlanGet, PlanInv
<1>2. PICK size \in Sizes(Len(source)) :
         \/ /\ done > size
            /\ size > 0 \/ backend = "smb"
            /\ target' = <<>> /\ done' = 0 /\ at' = "ranged" /\ UNCHANGED outcome
         \/ /\ done = size /\ done > 0
            /\ at' = "idle" /\ outcome' = "ok" /\ UNCHANGED <<target, done>>
         \/ /\ done < size \/ done = 0 \/ (backend = "ftp" /\ size = 0)
            /\ at' = IF backend = "smb" /\ done = 0 THEN "stream" ELSE "ranged"
            /\ UNCHANGED <<target, done, outcome>>
  BY DEF PlanGet
<1>3. size \in {0, Len(source)}
  BY <1>2 DEF Sizes
<1>4. direction = "get" /\ UNCHANGED <<fixed, parents, pos, pipe, request, interrupted,
      cancelled>>
  BY DEF PlanGet
<1>5. (target' = <<>> \/ target' = target) /\ target' \in BlockSeqs
  <2>1. <<>> \in BlockSeqs
    BY DEF BlockSeqs
  <2> QED BY <1>1, <1>2, <2>1
<1>6. done' \in Nat /\ at' \in {"idle", "ranged", "stream"} /\ outcome' \in {outcome, "ok"}
  BY <1>1, <1>2
<1>7. TransferTypeOK' /\ prior' \in BlockSeqs
  BY <1>4, <1>5, <1>6 DEF TransferInv, TransferTypeOK, BlockSeqs, fixed, request
<1>8. Delivering => target = SubSeq(source, 1, Len(target)) /\ Len(target) \in 0..Len(source)
  <2> SUFFICES ASSUME Delivering
               PROVE  target = SubSeq(source, 1, Len(target)) /\ Len(target) \in 0..Len(source)
    OBVIOUS
  <2>1. IsPrefix(target, source)
    BY <1>1, EmptyIsPrefix DEF Delivering, BlockSeqs
  <2> QED BY <1>1, <2>1, PrefixIsBeginning DEF BlockSeqs
<1>9. outcome' = "ok" /\ outcome # "ok" /\ Delivering => target' = source
  <2> SUFFICES ASSUME outcome' = "ok", outcome # "ok", Delivering PROVE target' = source
    OBVIOUS
  <2>1. target' = target /\ done = size /\ done > 0
    BY <1>2
  <2>2. Len(target) = Len(source)
    BY <1>1, <1>3, <2>1
  <2> QED BY <1>8, <2>1, <2>2, WholeSource
<1>10. at' # "idle" => (Delivering => done' \in 0..Len(source)
       /\ target' \o pipe' = SubSeq(source, 1, done'))
  <2> SUFFICES ASSUME at' # "idle", Delivering
               PROVE  done' \in 0..Len(source) /\ target' \o pipe' = SubSeq(source, 1, done')
    OBVIOUS
  <2>1. done' = Len(target')
    BY <1>1, <1>2
  <2>2. target' = SubSeq(source, 1, done') /\ done' \in 0..Len(source)
    <3>1. CASE target' = target
      BY <1>8, <2>1, <3>1
    <3>2. CASE target' = <<>>
      BY <1>1, <2>1, <3>2, SubSeqEmpty
    <3> QED BY <1>5, <3>1, <3>2
  <2>3. target' \o pipe' = target'
    BY <1>1, <1>4, <1>5, ConcatEmptySeq DEF BlockSeqs
  <2> QED BY <2>2, <2>3
<1>11. AttemptInv'
  <2>1. outcome # "ok" /\ at' # "plan" /\ at' # "start" /\ at' # "local" /\ at' # "body"
    BY <1>6 DEF AttemptInv, TransferInv, PlanGet
  <2>2. Delivering' = Delivering
    BY <1>4 DEF Delivering, fixed, request
  <2>3. outcome' = "ok" => at' = "idle"
    BY <1>2, <2>1
  <2>4. StreamInv' \/ at' = "idle"
    BY <1>4, <1>10, <2>1, <2>2 DEF StreamInv, CopiedSoFar, fixed
  <2> QED BY <1>1, <1>4, <1>9, <2>1, <2>2, <2>3, <2>4 DEF AttemptInv, fixed
<1>12. IsPrefix(<<>>, source)
  BY <1>1, EmptyIsPrefix DEF BlockSeqs
<1> QED BY <1>4, <1>5, <1>7, <1>11, <1>12 DEF TransferInv, fixed, request

LEMMA PlanPutKeeps ==
  ASSUME TransferInv, PlanPut
  PROVE  TransferInv'
<1>1. /\ source \in BlockSeqs /\ target \in BlockSeqs /\ pipe = <<>> /\ target = prior
      /\ Len(source) \in Nat /\ Len(target) \in Nat /\ done \in Nat /\ pos \in Nat
      /\ outcome # "ok" /\ direction = "put"
      /\ IsPrefix(prior, source) => IsPrefix(target, source)
  BY TransferTypesAre DEF TransferInv, AttemptInv, PlanPut, PlanInv, BlockSeqs
<1>2. PICK there \in IF resume THEN Sizes(Len(target)) ELSE {0} : UploadFrom(there)
  BY DEF PlanPut
<1>3. there = 0 \/ (resume /\ there = Len(target))
  BY <1>2 DEF Sizes
<1>4. UNCHANGED <<fixed, target, parents, pipe, request, interrupted, cancelled>>
  BY DEF PlanPut
<1>5. \/ at' = "idle" /\ outcome' = "ok" /\ there = Len(source) /\ UNCHANGED <<done, pos>>
         /\ (there > 0 \/ (backend = "smb" /\ resume))
      \/ at' = "idle" /\ outcome' = "error" /\ UNCHANGED <<done, pos>>
      \/ /\ at' = "start" /\ outcome' = outcome /\ pos' = done'
         /\ done' = IF there < Len(source) THEN there ELSE 0
  BY <1>2, Zenon DEF UploadFrom
<1>6. done' \in Nat /\ pos' \in Nat /\ at' \in {"idle", "start"}
      /\ outcome' \in {outcome, "ok", "error"}
  BY <1>1, <1>3, <1>5
<1>7. TransferTypeOK' /\ prior' \in BlockSeqs
  BY <1>4, <1>6 DEF TransferInv, TransferTypeOK, BlockSeqs, fixed, request
<1>8. outcome' = "ok" /\ Delivering => target' = source
  <2> SUFFICES ASSUME outcome' = "ok", Delivering PROVE target' = source
    OBVIOUS
  <2>1. there = Len(source) /\ (there > 0 \/ (backend = "smb" /\ resume))
    BY <1>1, <1>5
  <2>2. resume /\ Len(target) = Len(source)
    BY <1>1, <1>2, <1>3, <2>1 DEF Sizes
  <2>3. target = SubSeq(source, 1, Len(target))
    BY <1>1, <2>2, PrefixIsBeginning DEF Delivering, BlockSeqs
  <2> QED BY <1>4, <2>2, <2>3, WholeSource
<1>9. AttemptInv'
  BY <1>1, <1>3, <1>4, <1>5, <1>6, <1>8 DEF AttemptInv, StartInv, Delivering, fixed, request
<1> QED BY <1>1, <1>4, <1>7, <1>9 DEF TransferInv, fixed, request

LEMMA StartPutKeeps ==
  ASSUME TransferInv, StartPut
  PROVE  TransferInv'
<1>1. /\ source \in BlockSeqs /\ target \in BlockSeqs /\ pipe = <<>> /\ target = prior
      /\ pos = done /\ done \in 0..Len(source) /\ (done = 0 \/ (resume /\ done = Len(target)))
      /\ outcome # "ok" /\ direction = "put" /\ prior \in BlockSeqs
      /\ Len(source) \in Nat
  BY TransferTypesAre DEF TransferInv, AttemptInv, StartPut, StartInv
<1>2. /\ target' = (IF done = 0 THEN <<>> ELSE target) /\ at' = "ranged" /\ parents' = TRUE
      /\ UNCHANGED <<fixed, counters, request, interrupted, cancelled, outcome>>
  BY DEF StartPut
<1>3. target' \in BlockSeqs
  <2>1. <<>> \in BlockSeqs
    BY DEF BlockSeqs
  <2> QED BY <1>1, <1>2, <2>1
<1>4. TransferTypeOK' /\ prior' \in BlockSeqs
  BY <1>2, <1>3 DEF TransferInv, TransferTypeOK, BlockSeqs, fixed, counters, request
<1>5. Delivering => done \in 0..Len(source) /\ target' \o pipe = SubSeq(source, 1, done)
  <2> SUFFICES ASSUME Delivering PROVE target' \o pipe = SubSeq(source, 1, done)
    BY <1>1
  <2>1. target' = SubSeq(source, 1, done)
    <3>1. CASE done = 0
      BY <1>1, <1>2, <3>1, SubSeqEmpty
    <3>2. CASE done # 0
      <4>1. IsPrefix(target, source) /\ target' = target /\ done = Len(target)
        BY <1>1, <1>2, <3>2 DEF Delivering
      <4> QED BY <1>1, <4>1, PrefixIsBeginning DEF BlockSeqs
    <3> QED BY <3>1, <3>2
  <2>2. target' \o pipe = target'
    BY <1>1, <1>3, ConcatEmptySeq DEF BlockSeqs
  <2> QED BY <2>1, <2>2
<1>6. AttemptInv'
  BY <1>1, <1>2, <1>5
     DEF AttemptInv, StreamInv, CopiedSoFar, Delivering, fixed, counters, request
<1>7. IsPrefix(<<>>, source)
  BY <1>1, EmptyIsPrefix DEF BlockSeqs
<1> QED BY <1>2, <1>4, <1>6, <1>7 DEF TransferInv, fixed, counters, request

(* The next block of the source goes behind the blocks transferred. *)
LEMMA NextBlock ==
  ASSUME TransferInv, CopiedSoFar, done < Len(source)
  PROVE  (target \o pipe) \o <<source[done + 1]>> = SubSeq(source, 1, done + 1)
<1>1. source \in Seq(0..MaxBlocks) /\ Len(source) \in Nat /\ done \in Nat
  BY TransferTypesAre DEF BlockSeqs
<1>2. 1 \in 1..Len(source) /\ done + 1 \in 1..Len(source) /\ done + 1 - 1 = done
  BY <1>1
<1>3. SubSeq(source, 1, done + 1) = SubSeq(source, 1, done + 1 - 1) \o <<source[done + 1]>>
  BY <1>1, <1>2, SubSeqRecursiveSecond
<1> QED BY <1>2, <1>3 DEF CopiedSoFar

LEMMA GetBlockKeeps ==
  ASSUME TransferInv, GetBlock
  PROVE  TransferInv'
<1>1. /\ source \in BlockSeqs /\ target \in BlockSeqs /\ pipe = <<>>
      /\ Len(source) \in Nat /\ done \in Nat /\ done < Len(source)
      /\ Delivering => CopiedSoFar
      /\ outcome # "ok" /\ direction = "get" /\ at \in {"ranged", "stream"}
      /\ \A i \in 1..Len(source) : source[i] \in 1..MaxBlocks
  BY TransferTypesAre DEF TransferInv, AttemptInv, GetBlock, StreamInv
<1>2. /\ target' = Append(target, source[done + 1]) /\ done' = done + 1
      /\ UNCHANGED <<fixed, parents, at, pos, pipe, request, interrupted, cancelled, outcome>>
  BY DEF GetBlock
<1>3. source[done + 1] \in 0..MaxBlocks
  BY <1>1, TransferTypesAre
<1>4. target' \in BlockSeqs /\ target' = target \o <<source[done + 1]>>
  BY <1>1, <1>2, <1>3, AppendProperties, AppendIsConcat DEF BlockSeqs
<1>5. TransferTypeOK' /\ prior' \in BlockSeqs
  BY <1>1, <1>2, <1>4 DEF TransferInv, TransferTypeOK, BlockSeqs, fixed, request
<1>6. Delivering => target' \o pipe' = SubSeq(source, 1, done + 1)
  <2>1. target \o pipe = target /\ target' \o pipe' = target'
    BY <1>1, <1>2, <1>4, ConcatEmptySeq DEF BlockSeqs
  <2> QED BY <1>1, <1>4, <2>1, NextBlock
<1>7. done + 1 \in 0..Len(source)
  BY <1>1
<1>8. AttemptInv'
  BY <1>1, <1>2, <1>6, <1>7 DEF AttemptInv, StreamInv, CopiedSoFar, Delivering, fixed, request
<1>9. IsPrefix(prior, source) => IsPrefix(target', source)
  <2>1. target' \o pipe = target'
    BY <1>1, <1>4, ConcatEmptySeq DEF BlockSeqs
  <2>2. Delivering => target' = SubSeq(source, 1, done + 1)
    BY <1>2, <1>6, <2>1
  <2> QED BY <1>7, <2>2, PartIsLeft DEF Delivering
<1> QED BY <1>2, <1>5, <1>8, <1>9 DEF TransferInv, fixed, request

LEMMA PutBlockKeeps ==
  ASSUME TransferInv, PutBlock
  PROVE  TransferInv'
<1>1. /\ source \in BlockSeqs /\ target \in BlockSeqs /\ pipe \in Seq(1..MaxBlocks)
      /\ pipe \in BlockSeqs
      /\ Len(source) \in Nat /\ done \in Nat /\ done < Len(source) /\ pos = done
      /\ Delivering => CopiedSoFar
      /\ outcome # "ok" /\ direction = "put" /\ at = "ranged"
      /\ \A i \in 1..Len(source) : source[i] \in 1..MaxBlocks
  BY TransferTypesAre DEF TransferInv, AttemptInv, PutBlock, StreamInv
<1>2. /\ pipe' = Append(pipe, source[pos + 1]) /\ done' = done + 1 /\ pos' = pos + 1
      /\ UNCHANGED <<fixed, target, parents, at, request, interrupted, cancelled, outcome>>
  BY DEF PutBlock
<1>3. source[done + 1] \in 1..MaxBlocks /\ source[done + 1] \in 0..MaxBlocks
  BY <1>1, TransferTypesAre
<1>4. pipe' \in Seq(1..MaxBlocks) /\ pipe' = pipe \o <<source[done + 1]>> /\ pipe' # <<>>
  BY <1>1, <1>2, <1>3, AppendProperties, AppendIsConcat
<1>5. TransferTypeOK' /\ prior' \in BlockSeqs
  BY <1>1, <1>2, <1>4 DEF TransferInv, TransferTypeOK, BlockSeqs, fixed, request
<1>6. Delivering => target \o pipe' = SubSeq(source, 1, done + 1)
  <2>1. <<source[done + 1]>> \in BlockSeqs
    BY <1>3 DEF BlockSeqs
  <2>2. (target \o pipe) \o <<source[done + 1]>> = target \o pipe'
    <3>1. (target \o pipe) \o <<source[done + 1]>> = target \o (pipe \o <<source[done + 1]>>)
      <4>1. target \in Seq(0..MaxBlocks) /\ pipe \in Seq(0..MaxBlocks)
            /\ <<source[done + 1]>> \in Seq(0..MaxBlocks)
        BY <1>1, <2>1 DEF BlockSeqs
      <4> QED BY ONLY <4>1, ConcatAssociative
    <3> QED BY <1>4, <3>1
  <2> QED BY <1>1, <2>2, NextBlock
<1>7. done + 1 \in 0..Len(source)
  BY <1>1
<1>8. AttemptInv'
  BY <1>1, <1>2, <1>6, <1>7 DEF AttemptInv, StreamInv, CopiedSoFar, Delivering, fixed, request
<1> QED BY <1>2, <1>5, <1>8 DEF TransferInv, fixed, request

LEMMA StoreKeeps ==
  ASSUME TransferInv, ServerStores
  PROVE  TransferInv'
<1>1. /\ source \in BlockSeqs /\ target \in BlockSeqs /\ pipe \in Seq(1..MaxBlocks)
      /\ pipe \in BlockSeqs
      /\ Len(source) \in Nat /\ done \in Nat /\ MaxBlocks \in Nat
      /\ Delivering => CopiedSoFar
      /\ outcome # "ok" /\ direction = "put" /\ at = "ranged" /\ pipe # <<>> /\ pos = done
  BY TransferTypesAre DEF TransferInv, AttemptInv, ServerStores, StreamInv
<1>2. /\ target' = Append(target, Head(pipe)) /\ pipe' = Tail(pipe)
      /\ UNCHANGED <<fixed, parents, at, done, pos, request, interrupted, cancelled, outcome>>
  BY DEF ServerStores
<1>3. Head(pipe) \in 1..MaxBlocks /\ pipe' \in Seq(1..MaxBlocks) /\ pipe' \in BlockSeqs
  BY <1>1, <1>2 DEF BlockSeqs
<1>4. target' \in BlockSeqs /\ target' = target \o <<Head(pipe)>>
      /\ <<Head(pipe)>> \in BlockSeqs
  BY <1>1, <1>2, <1>3, AppendProperties, AppendIsConcat DEF BlockSeqs
<1>5. pipe = <<Head(pipe)>> \o pipe'
  BY <1>1, <1>2
<1>6. TransferTypeOK' /\ prior' \in BlockSeqs
  BY <1>2, <1>3, <1>4 DEF TransferInv, TransferTypeOK, BlockSeqs, fixed, request
<1>7. target' \o pipe' = target \o pipe
  <2>1. target \in Seq(0..MaxBlocks) /\ <<Head(pipe)>> \in Seq(0..MaxBlocks)
        /\ pipe' \in Seq(0..MaxBlocks)
    BY <1>1, <1>3, <1>4 DEF BlockSeqs
  <2>2. (target \o <<Head(pipe)>>) \o pipe' = target \o (<<Head(pipe)>> \o pipe')
    BY ONLY <2>1, ConcatAssociative
  <2> QED BY <1>4, <1>5, <2>2
<1>8. AttemptInv'
  BY <1>1, <1>2, <1>7 DEF AttemptInv, StreamInv, CopiedSoFar, Delivering, fixed, request
<1>9. IsPrefix(prior, source) => IsPrefix(target', source)
  BY <1>1, <1>3, <1>4, <1>7, PrefixOfSum DEF Delivering, CopiedSoFar, BlockSeqs
<1> QED BY <1>2, <1>6, <1>8, <1>9 DEF TransferInv, fixed, request

LEMMA FinishKeeps ==
  ASSUME TransferInv, Finish
  PROVE  TransferInv'
<1>1. /\ source \in BlockSeqs /\ target \in BlockSeqs /\ pipe = <<>> /\ done >= Len(source)
      /\ Delivering => CopiedSoFar
      /\ target' = target /\ End("ok") /\ Len(source) \in Nat
  BY TransferTypesAre DEF TransferInv, AttemptInv, StreamInv, Finish
<1>2. Delivering => target = source
  <2> SUFFICES ASSUME Delivering PROVE target = source
    OBVIOUS
  <2>1. done = Len(source) /\ target \o pipe = SubSeq(source, 1, done)
    BY <1>1 DEF CopiedSoFar
  <2>2. target \o pipe = target
    BY <1>1, ConcatEmptySeq DEF BlockSeqs
  <2> QED BY <2>1, <2>2, WholeSource
<1>3. IsPrefix(prior, source) => IsPrefix(target', source)
  BY <1>1 DEF TransferInv
<1> QED BY <1>1, <1>2, <1>3, EndKeeps

LEMMA DavAnswersKeeps ==
  ASSUME TransferInv, DavAnswers
  PROVE  TransferInv'
<1> DEFINE offset == IF resume THEN Len(target) ELSE 0
<1>1. /\ source \in BlockSeqs /\ target \in BlockSeqs /\ pipe = <<>> /\ target = prior
      /\ Len(source) \in Nat /\ Len(target) \in Nat /\ done \in Nat
      /\ outcome # "ok" /\ direction = "get"
  BY TransferTypesAre DEF TransferInv, AttemptInv, DavAnswers, StartInv, BlockSeqs
<1>2. UNCHANGED <<fixed, parents, pos, pipe, request, interrupted, cancelled>>
  BY DEF DavAnswers
<1>3. \/ /\ offset > 0 /\ offset >= Len(source)
         /\ UNCHANGED <<target, done>> /\ at' = "idle" /\ outcome' = "ok"
      \/ /\ offset > 0 /\ offset < Len(source)
         /\ UNCHANGED <<target, outcome>> /\ done' = offset /\ at' = "body"
      \/ /\ target' = <<>> /\ done' = 0 /\ at' = "body" /\ UNCHANGED outcome
  BY DEF DavAnswers
<1>4. offset \in Nat /\ (offset > 0 => resume /\ offset = Len(target))
  BY <1>1
<1>5. offset > 0 /\ Delivering => target = SubSeq(source, 1, offset)
      /\ offset \in 0..Len(source)
  BY <1>1, <1>4, PrefixIsBeginning DEF Delivering, BlockSeqs
<1> HIDE DEF offset
<1>6. target' \in BlockSeqs /\ (target' = target \/ target' = <<>>)
  <2>1. <<>> \in BlockSeqs
    BY DEF BlockSeqs
  <2> QED BY <1>1, <1>3, <2>1
<1>7. done' \in Nat /\ at' \in {"idle", "body"} /\ outcome' \in {outcome, "ok"}
  BY <1>1, <1>3, <1>4
<1>8. TransferTypeOK' /\ prior' \in BlockSeqs
  BY <1>2, <1>6, <1>7 DEF TransferInv, TransferTypeOK, BlockSeqs, fixed, request
<1>9. outcome' = "ok" /\ Delivering => target' = source
  <2> SUFFICES ASSUME outcome' = "ok", Delivering PROVE target' = source
    OBVIOUS
  <2>1. offset > 0 /\ offset = Len(source) /\ target' = target
    BY <1>1, <1>3, <1>4, <1>5
  <2> QED BY <1>5, <2>1, WholeSource
<1>10. at' = "body" /\ Delivering => done' \in 0..Len(source)
       /\ target' \o pipe' = SubSeq(source, 1, done')
  <2> SUFFICES ASSUME at' = "body", Delivering
               PROVE  done' \in 0..Len(source) /\ target' \o pipe' = SubSeq(source, 1, done')
    OBVIOUS
  <2>1. target' = SubSeq(source, 1, done') /\ done' \in 0..Len(source)
    <3>1. CASE offset > 0 /\ target' = target /\ done' = offset
      BY <1>5, <3>1
    <3>2. CASE target' = <<>> /\ done' = 0
      BY <1>1, <3>2, SubSeqEmpty
    <3> QED BY <1>3, <3>1, <3>2
  <2>2. target' \o pipe' = target'
    BY <1>1, <1>2, <1>6, ConcatEmptySeq DEF BlockSeqs
  <2> QED BY <2>1, <2>2
<1>11. outcome' = "ok" => at' = "idle"
  BY <1>1, <1>3
<1>12. AttemptInv'
  BY <1>1, <1>2, <1>7, <1>9, <1>10, <1>11
     DEF AttemptInv, StreamInv, CopiedSoFar, Delivering, fixed, request
<1>13. IsPrefix(<<>>, source)
  BY <1>1, EmptyIsPrefix DEF BlockSeqs
<1> QED BY <1>2, <1>6, <1>8, <1>12, <1>13 DEF TransferInv, fixed, request

LEMMA DavBodyKeeps ==
  ASSUME TransferInv, DavBody
  PROVE  TransferInv'
<1>1. at = "body" /\ source' = source /\ Len(source) \in Nat /\ done \in Nat
      /\ source \in BlockSeqs /\ target \in BlockSeqs
  BY TransferTypesAre DEF DavBody, End, fixed
<1>2. IsPrefix(prior, source) => Delivering /\ done \in 0..Len(source)
      /\ IsPrefix(target, source)
  BY <1>1 DEF Delivering, TransferInv, AttemptInv, StreamInv, CopiedSoFar
<1>3. Delivering => done \in 0..Len(source)
  BY <1>1 DEF TransferInv, AttemptInv, StreamInv, CopiedSoFar
<1>4. CASE target' = target \o SubSeq(source, done + 1, Len(source))
           /\ End(IF Stopped THEN "cancelled" ELSE "ok")
  <2>1. target' \in BlockSeqs /\ (Delivering => target' = source)
    <3>1. CASE done \in 0..Len(source)
      <4>1. Len(source) \in done..Len(source)
        BY <1>1, <3>1
      <4> QED BY <1>1, <1>4, <4>1, BodyAdds, WholeSource
    <3>2. CASE done > Len(source)
      <4>1. SubSeq(source, done + 1, Len(source)) = <<>>
        BY <1>1, <3>2, SubSeqEmpty
      <4>2. target' = target
        BY <1>1, <1>4, <4>1, ConcatEmptySeq DEF BlockSeqs
      <4> QED BY <1>1, <1>3, <3>2, <4>2
    <3> QED BY <1>1, <3>1, <3>2
  <2>2. IsPrefix(prior, source) => IsPrefix(target', source)
    BY <1>2, <2>1, WholeSource
  <2> QED BY <1>4, <2>1, <2>2, EndKeeps
<1>5. CASE (\E n \in done..Len(source) : target' = target \o SubSeq(source, done + 1, n))
           /\ End("error")
  <2>1. PICK n \in done..Len(source) : target' = target \o SubSeq(source, done + 1, n)
    BY <1>5
  <2>2. target' \in BlockSeqs /\ (Delivering => target' = SubSeq(source, 1, n))
    BY <1>1, <2>1, BodyAdds
  <2>3. n \in 0..Len(source)
    BY <1>1, <2>1
  <2>4. IsPrefix(prior, source) => IsPrefix(target', source)
    BY <1>2, <2>2, <2>3, PartIsLeft
  <2> QED BY <1>5, <2>2, <2>4, EndKeeps
<1>6. CASE UNCHANGED target /\ End("cancelled")
  BY <1>1, <1>2, <1>6, EndKeeps
<1> QED BY <1>4, <1>5, <1>6 DEF DavBody

LEMMA OtherEndsKeep ==
  ASSUME TransferInv, DavInterrupted \/ DavPut \/ CallFails \/ StopAtCheck
  PROVE  TransferInv'
<1>1. /\ Len(source) \in Nat /\ source \in BlockSeqs /\ target \in BlockSeqs
      /\ IsPrefix(prior, source) => IsPrefix(target, source)
  BY TransferTypesAre DEF TransferInv
<1>2. CASE target' = target /\ \E with \in {"error", "cancelled", "interrupted"} : End(with)
  BY <1>1, <1>2, EndKeeps
<1>3. CASE (\E n \in 0..Len(source) : target' = SubSeq(source, 1, n))
           /\ \E with \in {"error", "cancelled"} : End(with)
  <2>1. target' \in BlockSeqs /\ IsPrefix(target', source)
    BY <1>3, PartIsLeft
  <2> QED BY <1>3, <2>1, EndKeeps
<1>4. CASE target' = source /\ End("ok")
  BY <1>1, <1>4, WholeSource, EndKeeps
<1> QED BY <1>2, <1>3, <1>4 DEF DavInterrupted, DavPut, CallFails, StopAtCheck

LEMMA FlagsKeep ==
  ASSUME TransferInv, Interrupt \/ Cancel \/ UNCHANGED transferVars
  PROVE  TransferInv'
<1>1. UNCHANGED <<fixed, target, parents, at, counters, request, outcome>>
  BY DEF Interrupt, Cancel, transferVars
<1>2. interrupted' \in BOOLEAN /\ cancelled' \in BOOLEAN
  BY Zenon DEF TransferInv, TransferTypeOK, Interrupt, Cancel, transferVars
<1>3. TransferTypeOK' /\ prior' \in BlockSeqs
  BY <1>1, <1>2 DEF TransferInv, TransferTypeOK, BlockSeqs, fixed, counters, request
<1>4. AttemptInv'
  BY <1>1 DEF TransferInv, AttemptInv, PlanInv, StartInv, StreamInv, CopiedSoFar, Delivering,
              fixed, counters, request
<1> QED BY <1>1, <1>3, <1>4 DEF TransferInv, fixed, counters, request

LEMMA TransferKeeps == TransferInv /\ [TransferNext]_transferVars => TransferInv'
BY Zenon, BeginKeeps, OpenKeeps, PlanGetKeeps, PlanPutKeeps, StartPutKeeps, GetBlockKeeps,
  PutBlockKeeps,
   StoreKeeps, FinishKeeps, DavAnswersKeeps, DavBodyKeeps, OtherEndsKeep, FlagsKeep
   DEF TransferNext

LEMMA TransferSays == TransferInv => TransferTypeOK /\ RetriesDeliver
BY DEF TransferInv, AttemptInv, RetriesDeliver, Delivering

\* An attempt that reports success has delivered the source, when it did not
\* resume or found a part of the source to resume; and where a part of the source
\* was, no attempt leaves anything else (ftp.rs, smb.rs, webdav.rs).
THEOREM TransfersStayWhole == TransferSpec => [](TransferTypeOK /\ RetriesDeliver)
BY TransferStarts, TransferKeeps, TransferSays, PTL DEF TransferSpec

------------------------------------------------------------------------------
(* Copies over SCP.                                                        *)

(* The names of the files whose records are among r. *)
Ahead(r) == {r[i].name : i \in {j \in DOMAIN r : r[j].is = "C"}}
NoFileAfter(r, i) == \A j \in (i + 1)..Len(r) : r[j].is # "C"
(* d levels are open: where the last of them has been closed, no file follows. *)
Closes(r, d) ==
  \A i \in 0..Len(r) : d + Number(r, "D", i) <= Number(r, "E", i) => NoFileAfter(r, i)
(* The records of one entry, from its first. *)
OneEntry(r) ==
  /\ r # <<>>
  /\ \/ r[1].is = "C" /\ NoFileAfter(r, 1)
     \/ /\ r[1].is = "D"
        /\ \A i \in 1..Len(r) : Number(r, "D", i) <= Number(r, "E", i) => NoFileAfter(r, i)

NoneIsPart(except) == \A n \in Names(tree) : copied[n] = "partial" => n \in except

RecordsInv ==
  /\ phase \in {"open", "first"} => OneEntry(records) /\ depth = 0
  /\ phase = "open" /\ tree[1].is = "D" =>
       Len(records) >= 2 /\ records[1].is = "D" /\ records[Len(records)].is # "C"
  /\ phase = "level" => depth > 0
  /\ phase \in {"level", "data", "ack"} => Closes(records, depth)
NamesInv ==
  /\ phase # "over" => Ahead(records) \subseteq Names(tree)
  /\ phase \in {"open", "first"} => Ahead(records) = Names(tree)
  /\ phase \in {"data", "ack"} => file \in Names(tree)
  /\ phase \in {"level", "last"} => \A n \in Names(tree) : copied[n] \in {"whole", "unsure"}
     \/ n \in Ahead(records)
  /\ phase \in {"data", "ack"} =>
       \A n \in Names(tree) :
         copied[n] \in {"whole", "unsure"} \/ n \in Ahead(records) \/ n = file
  /\ phase = "last" => Ahead(records) = {}
PartsInv ==
  scpDirection = "get" =>
     /\ phase \notin {"data", "over"} => NoneIsPart({})
     /\ phase = "data" => NoneIsPart({file})
     /\ result = "local" => NoneIsPart({})
ResultInv ==
  /\ result # "none" => phase = "over"
  /\ result = "ok" => \A n \in Names(tree) : copied[n] \in {"whole", "unsure"}
ScpInv == ScpTypeOK /\ records \in Seq(Record) /\ RecordsInv /\ NamesInv /\ PartsInv
  /\ ResultInv

(* Counting records. *)
LEMMA SameNumber ==
  ASSUME NEW S, NEW T, IsFiniteSet(S), NEW f \in [S -> T],
         \A x, y \in S : f[x] = f[y] => x = y, \A y \in T : \E x \in S : f[x] = y
  PROVE  IsFiniteSet(T) /\ Cardinality(T) = Cardinality(S)
<1>1. f \in Surjection(S, T) /\ f \in Injection(S, T)
  BY DEF Surjection, Injection, IsInjective
<1> QED BY <1>1, FS_Surjection

LEMMA NumberIs ==
  ASSUME NEW r, NEW k, NEW i \in Nat
  PROVE  IsFiniteSet({j \in 1..i : r[j].is = k}) /\ Number(r, k, i) \in Nat
         /\ (i = 0 => Number(r, k, i) = 0)
<1>1. IsFiniteSet(1..i)
  BY FS_Interval
<1>2. IsFiniteSet({j \in 1..i : r[j].is = k})
  BY <1>1, FS_Subset
<1>3. i = 0 => {j \in 1..i : r[j].is = k} = {}
  OBVIOUS
<1> QED BY <1>2, <1>3, FS_CardinalityType, FS_EmptySet DEF Number

(* Counting from the second record on. *)
LEMMA NumberShifts ==
  ASSUME NEW r, NEW u, NEW k, NEW i \in Nat, \A j \in 1..i : u[j] = r[j + 1]
  PROVE  /\ r[1].is = k => Number(r, k, i + 1) = Number(u, k, i) + 1
         /\ r[1].is # k => Number(r, k, i + 1) = Number(u, k, i)
<1> DEFINE S == {j \in 1..i : u[j].is = k}
           T == {j \in 2..(i + 1) : r[j].is = k}
           R == {j \in 1..(i + 1) : r[j].is = k}
           f == [j \in S |-> j + 1]
<1>1. IsFiniteSet(S)
  BY NumberIs
<1>2. f \in [S -> T]
  OBVIOUS
<1>3. \A y \in T : y - 1 \in S /\ y - 1 + 1 = y
  OBVIOUS
<1>4. \A x, y \in S : f[x] = f[y] => x = y
  OBVIOUS
<1>5. \A y \in T : \E x \in S : f[x] = y
  BY <1>3
<1>6. 1 \notin T
  OBVIOUS
<1>7. (r[1].is = k => R = T \cup {1}) /\ (r[1].is # k => R = T)
  OBVIOUS
<1>8. Number(u, k, i) = Cardinality(S) /\ Number(r, k, i + 1) = Cardinality(R)
  BY DEF Number
<1> HIDE DEF S, T, R, f
<1>9. IsFiniteSet(T) /\ Cardinality(T) = Cardinality(S)
  BY <1>1, <1>2, <1>4, <1>5, SameNumber
<1> QED BY <1>6, <1>7, <1>8, <1>9, FS_AddElement

(* Counting in what is kept of a sequence, when all that is counted is kept. *)
LEMMA NumberKept ==
  ASSUME NEW T, NEW s \in Seq(T), NEW I \in SUBSET (1..Len(s)), NEW k,
         \A i \in 1..Len(s) : s[i].is = k => i \in I,
         NEW n \in 1..Cardinality(I)
  PROVE  /\ Ascending(I)[n] \in I
         /\ Number(Keep(s, I), k, n) = Number(s, k, Ascending(I)[n])
<1> DEFINE N == Cardinality(I)
           A == Ascending(I)
<1>1. IsFiniteSet(I) /\ I \subseteq Nat /\ Len(s) \in Nat
  <2>1. IsFiniteSet(1..Len(s)) /\ Len(s) \in Nat
    BY FS_Interval
  <2>2. IsFiniteSet(I)
    BY <2>1, FS_Subset
  <2> QED BY <2>1, <2>2
<1>2. /\ N \in Nat /\ A \in [1..N -> I]
      /\ \A i \in I : \E m \in 1..N : A[m] = i
      /\ \A m, l \in 1..N : m < l => A[m] < A[l]
  BY <1>1, AscendingIs
<1>3. Keep(s, I) = [m \in 1..N |-> s[A[m]]]
  BY DEF Keep
<1>4. n \in 1..N
  OBVIOUS
<1> HIDE DEF N, A
<1> DEFINE P == {j \in 1..n : Keep(s, I)[j].is = k}
           Q == {i \in 1..A[n] : s[i].is = k}
           f == [j \in P |-> A[j]]
<1>5. A[n] \in I /\ A[n] \in 1..Len(s) /\ n \in Nat
  <2>1. A[n] \in I /\ n \in Nat
    BY <1>2, <1>4
  <2> QED BY <2>1
<1>6. \A m, l \in 1..N : (A[m] = A[l] => m = l) /\ (A[m] <= A[l] => m <= l)
      /\ (m <= l => A[m] <= A[l])
  <2> SUFFICES ASSUME NEW m \in 1..N, NEW l \in 1..N
               PROVE  (A[m] = A[l] => m = l) /\ (A[m] <= A[l] => m <= l)
                 /\ (m <= l => A[m] <= A[l])
    OBVIOUS
  <2>1. m \in Nat /\ l \in Nat /\ A[m] \in I /\ A[l] \in I
    BY <1>2
  <2>2. A[m] \in Nat /\ A[l] \in Nat
    BY <1>1, <2>1
  <2>3. (m < l => A[m] < A[l]) /\ (l < m => A[l] < A[m])
    BY <1>2
  <2>4. m < l \/ m = l \/ l < m
    BY <2>1
  <2> QED BY <2>1, <2>2, <2>3, <2>4
<1>7. \A j \in P : j \in 1..N /\ A[j] \in Q
  <2> SUFFICES ASSUME NEW j \in P PROVE j \in 1..N /\ A[j] \in Q
    OBVIOUS
  <2>1. j \in 1..N /\ j <= n
    BY <1>2, <1>4, <1>5
  <2>2. A[j] \in I /\ A[j] <= A[n] /\ s[A[j]].is = k
    BY <1>2, <1>3, <1>4, <1>6, <2>1
  <2>3. A[j] \in 1..A[n]
    <3>1. A[j] \in 1..Len(s) /\ A[n] \in Nat
      BY <1>1, <1>5, <2>2
    <3> QED BY <2>2, <3>1
  <2> QED BY <2>1, <2>2, <2>3
<1>8. \A i \in Q : \E j \in P : A[j] = i
  <2> SUFFICES ASSUME NEW i \in Q PROVE \E j \in P : A[j] = i
    OBVIOUS
  <2>1. i \in 1..Len(s) /\ i <= A[n] /\ s[i].is = k
    BY <1>1, <1>5
  <2>2. PICK j \in 1..N : A[j] = i
    BY <1>2, <2>1
  <2>3. j <= n
    BY <1>4, <1>6, <2>1, <2>2
  <2>4. Keep(s, I)[j].is = k
    BY <1>3, <2>1, <2>2
  <2> QED BY <1>2, <2>2, <2>3, <2>4
<1>9. IsFiniteSet(P)
  BY <1>5, NumberIs
<1>10. Number(Keep(s, I), k, n) = Cardinality(P) /\ Number(s, k, A[n]) = Cardinality(Q)
  BY DEF Number
<1> HIDE DEF P, Q
<1>11. f \in [P -> Q]
  BY <1>7
<1>12. \A x, y \in P : f[x] = f[y] => x = y
  BY <1>6, <1>7
<1>13. \A y \in Q : \E x \in P : f[x] = y
  BY <1>8
<1> HIDE DEF f
<1>14. Cardinality(Q) = Cardinality(P)
  BY <1>9, <1>11, <1>12, <1>13, SameNumber
<1> QED BY <1>5, <1>10, <1>14 DEF A

(* One more record. *)
LEMMA NumberNext ==
  ASSUME NEW r, NEW k, NEW i \in Nat
  PROVE  /\ r[i + 1].is = k => Number(r, k, i + 1) = Number(r, k, i) + 1
         /\ r[i + 1].is # k => Number(r, k, i + 1) = Number(r, k, i)
<1> DEFINE S == {j \in 1..i : r[j].is = k}
           R == {j \in 1..(i + 1) : r[j].is = k}
<1>1. (r[i + 1].is = k => R = S \cup {i + 1}) /\ (r[i + 1].is # k => R = S) /\ i + 1 \notin S
  OBVIOUS
<1>2. IsFiniteSet(S)
  BY NumberIs
<1>3. Number(r, k, i) = Cardinality(S) /\ Number(r, k, i + 1) = Cardinality(R)
  BY DEF Number
<1> HIDE DEF S, R
<1> QED BY <1>1, <1>2, <1>3, FS_AddElement

LEMMA LastCloses ==
  ASSUME NEW t, Len(t) \in Nat, Len(t) >= 1, t[1].is = "D",
         \A i \in 1..Len(t) : Number(t, "D", i) > Number(t, "E", i) <=> i < Len(t)
  PROVE  t[Len(t)].is = "E" /\ Len(t) >= 2
<1>1. Number(t, "D", 0) = 0 /\ Number(t, "E", 0) = 0
  BY NumberIs
<1>2. Number(t, "D", 1) = 1 /\ Number(t, "E", 1) = 0
  <2>1. t[0 + 1].is = "D" /\ 0 \in Nat /\ 0 + 1 = 1
    OBVIOUS
  <2>2. Number(t, "D", 0 + 1) = Number(t, "D", 0) + 1
        /\ Number(t, "E", 0 + 1) = Number(t, "E", 0)
    BY ONLY <2>1, NumberNext
  <2> QED BY <1>1, <2>1, <2>2
<1>3. Len(t) >= 2
  <2>1. 1 \in 1..Len(t)
    OBVIOUS
  <2>2. 1 < Len(t)
    BY <1>2, <2>1
  <2> QED BY <2>2
<1> DEFINE n == Len(t) - 1
<1>4. n \in Nat /\ n \in 1..Len(t) /\ n < Len(t) /\ n + 1 = Len(t) /\ Len(t) \in 1..Len(t)
  BY <1>3
<1> HIDE DEF n
<1>5. Number(t, "D", n) > Number(t, "E", n)
      /\ ~(Number(t, "D", Len(t)) > Number(t, "E", Len(t)))
  BY <1>4
<1>6. /\ Number(t, "D", n) \in Nat /\ Number(t, "E", n) \in Nat
      /\ Number(t, "D", n + 1) \in Nat /\ Number(t, "E", n + 1) \in Nat
  BY <1>4, NumberIs
<1>7. /\ Number(t, "D", n + 1) >= Number(t, "D", n)
      /\ t[n + 1].is # "E" => Number(t, "E", n + 1) = Number(t, "E", n)
  BY <1>4, <1>6, NumberNext
<1> QED BY <1>3, <1>4, <1>5, <1>6, <1>7

(* What the remote source sends of a tree. *)
LEMMA SentIs ==
  ASSUME NEW t \in Trees, NEW nuls
  PROVE  /\ Sent(t, nuls) \in Seq(Record)
         /\ Ahead(Sent(t, nuls)) = Names(t)
         /\ OneEntry(Sent(t, nuls))
         /\ t[1].is = "D" => /\ Len(Sent(t, nuls)) >= 2 /\ Sent(t, nuls)[1].is = "D"
                             /\ Sent(t, nuls)[Len(Sent(t, nuls))].is # "C"
<1> DEFINE I == {i \in DOMAIN t : t[i].is # "nul" \/ nuls}
           r == Sent(t, nuls)
           N == Cardinality(I)
           A == Ascending(I)
<1>1. t \in Seq(Record) /\ Len(t) \in Nat /\ Len(t) >= 1 /\ (OneFile(t) \/ OneDir(t))
  BY TreesAssumption
<1>2. I \in SUBSET (1..Len(t)) /\ \A i \in 1..Len(t) : t[i].is # "nul" => i \in I
  BY <1>1
<1>3. r = Keep(t, I)
  BY DEF Sent
<1> HIDE DEF I, r
<1>4. /\ r \in Seq(Record) /\ N \in Nat /\ Len(r) = N
      /\ \A n \in 1..N : \E i \in I : r[n] = t[i]
      /\ \A i \in I : \E n \in 1..N : r[n] = t[i]
  BY <1>1, <1>2, <1>3, KeepIs
<1>5. IsFiniteSet(I) /\ I \subseteq Nat
  <2>1. IsFiniteSet(1..Len(t))
    BY <1>1, FS_Interval
  <2>2. IsFiniteSet(I)
    BY <1>2, <2>1, FS_Subset
  <2> QED BY <1>2, <2>2
<1>6. /\ A \in [1..N -> I]
      /\ \A i \in I : \E m \in 1..N : A[m] = i
      /\ \A m, l \in 1..N : m < l => A[m] < A[l]
  BY <1>5, AscendingIs
<1>7. r = [m \in 1..N |-> t[A[m]]]
  BY <1>3 DEF Keep
<1>8. ASSUME NEW k \in {"D", "E"}, NEW n \in 1..N PROVE Number(r, k, n) = Number(t, k, A[n])
  <2>1. \A i \in 1..Len(t) : t[i].is = k => i \in I
    BY <1>2
  <2> QED BY <1>1, <1>2, <1>3, <2>1, NumberKept
<1> HIDE DEF N, A
<1>9. \A n \in 1..N : A[n] \in I /\ A[n] \in 1..Len(t) /\ r[n] = t[A[n]] /\ n \in Nat
  <2> SUFFICES ASSUME NEW n \in 1..N PROVE A[n] \in I /\ A[n] \in 1..Len(t) /\ r[n] = t[A[n]]
    /\ n \in Nat
    OBVIOUS
  <2>1. A[n] \in I /\ r[n] = t[A[n]] /\ n \in Nat
    BY <1>4, <1>6, <1>7
  <2> QED BY <1>2, <2>1
<1>10. Ahead(r) = Names(t)
  <2>1. DOMAIN r = 1..N /\ DOMAIN t = 1..Len(t)
    BY <1>1, <1>4
  <2>2. \A n \in DOMAIN r : \E i \in DOMAIN t : r[n] = t[i]
    BY <1>2, <1>4, <2>1
  <2>3. \A i \in DOMAIN t : t[i].is = "C" => i \in I
    BY <1>2, <2>1
  <2>4. \A i \in DOMAIN t : t[i].is = "C" => \E n \in DOMAIN r : r[n] = t[i]
    BY <1>4, <2>1, <2>3
  <2> QED BY <2>2, <2>4 DEF Ahead, Names
\* The first record is kept, and stays the first.
<1>11. N >= 1 /\ A[1] = 1 /\ r[1] = t[1]
  <2>1. t[1].is # "nul" /\ 1 \in 1..Len(t)
    BY <1>1 DEF OneFile, OneDir
  <2>2. PICK m \in 1..N : A[m] = 1
    BY <1>2, <1>6, <2>1
  <2>3. m \in Nat /\ m >= 1 /\ 1 \in 1..N
    BY <1>4, <2>2
  <2>4. 1 < m => A[1] < 1
    BY <1>6, <2>2, <2>3
  <2>5. A[1] \in 1..Len(t)
    BY <1>9, <2>3
  <2>6. ~(1 < m)
    BY <1>1, <2>4, <2>5
  <2>7. m = 1
    BY <2>3, <2>6
  <2> QED BY <1>4, <1>9, <2>2, <2>3, <2>7
<1>12. CASE OneFile(t)
  <2>1. ASSUME NEW n \in 2..Len(r) PROVE r[n].is # "C"
    <3>1. n \in 1..N /\ 1 \in 1..N /\ 1 < n
      BY <1>4
    <3>2. A[n] > 1 /\ A[n] \in 1..Len(t)
      BY <1>6, <1>9, <1>11, <3>1
    <3>3. A[n] \in 2..Len(t)
      BY <1>1, <3>2
    <3> QED BY <1>9, <1>12, <3>1, <3>3 DEF OneFile
  <2>2. r # <<>> /\ r[1].is = "C" /\ t[1].is # "D"
    BY <1>4, <1>11, <1>12 DEF OneFile
  <2>3. OneEntry(r)
    BY <2>1, <2>2 DEF OneEntry, NoFileAfter
  <2> QED BY <1>4, <1>10, <2>2, <2>3 DEF r
<1>13. CASE OneDir(t)
  <2>1. t[1].is = "D" /\ \A i \in 1..Len(t) : Number(t, "D", i) > Number(t, "E", i)
        <=> i < Len(t)
    BY <1>13 DEF OneDir
  \* The last record closes the level: nothing is counted with it but an end.
  <2>2. t[Len(t)].is = "E" /\ Len(t) >= 2
    BY <1>1, <2>1, LastCloses
  <2>3. Len(t) \in I /\ Len(t) \in 1..Len(t)
    BY <1>1, <1>2, <2>2
  <2>4. PICK m \in 1..N : A[m] = Len(t)
    BY <1>6, <2>3
  <2>5. m = N
    <3>1. N \in 1..N /\ m \in Nat /\ N \in Nat /\ m <= N
      BY <1>4, <1>11, <2>4
    <3>2. m < N => A[m] < A[N]
      BY <1>6, <2>4, <3>1
    <3>3. A[N] \in 1..Len(t)
      BY <1>9, <3>1
    <3>4. ~(m < N)
      BY <1>1, <2>4, <3>2, <3>3
    <3> QED BY <3>1, <3>4
  <2>6. r[Len(r)].is = "E" /\ Len(r) >= 2
    <3>1. r[N].is = "E"
      BY <1>9, <2>2, <2>4, <2>5
    <3>2. N # 1
      BY <1>11, <2>2, <2>4, <2>5
    <3> QED BY <1>4, <1>11, <3>1, <3>2
  <2>7. ASSUME NEW i \in 1..Len(r), Number(r, "D", i) <= Number(r, "E", i)
        PROVE NoFileAfter(r, i)
    <3>1. i \in 1..N /\ i \in Nat
      BY <1>4
    <3>2. Number(t, "D", A[i]) <= Number(t, "E", A[i]) /\ A[i] \in 1..Len(t) /\ A[i] \in Nat
      BY <1>8, <1>9, <2>7, <3>1
    <3>3. Number(t, "D", A[i]) \in Nat /\ Number(t, "E", A[i]) \in Nat
      BY <3>2, NumberIs
    <3>4. ~(A[i] < Len(t))
      BY <2>1, <3>2, <3>3
    <3>5. A[i] = Len(t)
      BY <1>1, <3>2, <3>4
    <3>6. i < N => A[i] < A[N]
      BY <1>6, <1>11, <3>1, <1>4
    <3>7. A[N] = Len(t)
      BY <2>4, <2>5
    <3>8. i = N
      BY <1>1, <1>4, <3>1, <3>5, <3>6, <3>7
    <3> QED BY <1>4, <3>8 DEF NoFileAfter
  <2>8. OneEntry(r)
    BY <1>4, <1>11, <2>1, <2>6, <2>7 DEF OneEntry
  <2> QED BY <1>4, <1>10, <1>11, <2>1, <2>6, <2>8 DEF r
<1> QED BY <1>1, <1>12, <1>13

LEMMA ScpStarts == ScpInit => ScpInv
<1> SUFFICES ASSUME ScpInit PROVE ScpInv
  OBVIOUS
<1>1. /\ records \in Seq(Record) /\ Ahead(records) = Names(tree) /\ OneEntry(records)
      /\ tree[1].is = "D" => Len(records) >= 2 /\ records[1].is = "D"
         /\ records[Len(records)].is # "C"
  <2>1. tree \in Trees /\ records = Sent(tree, sends)
    BY Zenon DEF ScpInit
  <2> QED BY <2>1, SentIs
<1>2. /\ phase = "open" /\ depth = 0 /\ result = "none" /\ remaining = 0
      /\ copied = [n \in Names(tree) |-> "absent"]
      /\ tree \in Trees /\ mode \in Modes /\ scpDirection \in {"get", "put"}
  BY Zenon DEF ScpInit
<1>3. ScpTypeOK
  BY <1>2 DEF ScpTypeOK, Fates
<1> QED BY <1>1, <1>2, <1>3 DEF ScpInv, RecordsInv, NamesInv, PartsInv, ResultInv, NoneIsPart

(* What reading a record leaves. *)
LEMMA ReadLeaves ==
  ASSUME NEW r \in Seq(Record), r # <<>>
  PROVE  /\ Tail(r) \in Seq(Record) /\ Head(r) = r[1] /\ Head(r) \in Record
         /\ Len(Tail(r)) = Len(r) - 1 /\ Len(r) \in Nat /\ Len(r) >= 1
         /\ \A i \in 1..Len(Tail(r)) : Tail(r)[i] = r[i + 1]
         /\ r[1].is = "C" => Ahead(r) = Ahead(Tail(r)) \cup {r[1].name}
         /\ r[1].is # "C" => Ahead(r) = Ahead(Tail(r))
<1>1. /\ Tail(r) \in Seq(Record) /\ Head(r) = r[1] /\ Head(r) \in Record
      /\ Len(Tail(r)) = Len(r) - 1 /\ Len(r) \in Nat /\ Len(r) >= 1
      /\ \A i \in 1..Len(Tail(r)) : Tail(r)[i] = r[i + 1]
  BY HeadTailProperties
<1>2. DOMAIN r = 1..Len(r) /\ DOMAIN Tail(r) = 1..(Len(r) - 1)
  BY <1>1
<1> DEFINE u == Tail(r)
<1>3. \A i \in DOMAIN u : i + 1 \in DOMAIN r /\ u[i] = r[i + 1]
  BY <1>1, <1>2
<1>4. \A i \in DOMAIN r : i # 1 => i - 1 \in DOMAIN u /\ u[i - 1] = r[i]
  BY <1>1, <1>2
<1>5. 1 \in DOMAIN r
  BY <1>1, <1>2
<1> HIDE DEF u
<1>6. Ahead(u) \subseteq Ahead(r)
  BY <1>3 DEF Ahead
<1>7. /\ r[1].is = "C" => Ahead(r) \subseteq Ahead(u) \cup {r[1].name}
      /\ r[1].is # "C" => Ahead(r) \subseteq Ahead(u)
  BY <1>4 DEF Ahead
<1>8. r[1].is = "C" => r[1].name \in Ahead(r)
  BY <1>5 DEF Ahead
<1> QED BY <1>1, <1>6, <1>7, <1>8 DEF u

(* What is behind the first record keeps its levels. *)
LEMMA CloseBehind ==
  ASSUME NEW r \in Seq(Record), r # <<>>, NEW u \in Seq(Record), Len(u) <= Len(r) - 1,
         \A i \in 1..Len(u) : u[i] = r[i + 1],
         NEW d \in Nat, NEW e \in Nat,
         r[1].is = "D" => e = d + 1, r[1].is = "E" => d = e + 1, r[1].is \notin {"D", "E"}
           => e = d,
         \A i \in 1..Len(r) : d + Number(r, "D", i) <= Number(r, "E", i) => NoFileAfter(r, i)
  PROVE  Closes(u, e)
<1>1. Len(u) \in Nat /\ Len(r) \in Nat
  OBVIOUS
<1> SUFFICES ASSUME NEW i \in 0..Len(u), e + Number(u, "D", i) <= Number(u, "E", i)
             PROVE  NoFileAfter(u, i)
  BY DEF Closes
<1>2. i \in Nat /\ i + 1 \in 1..Len(r) /\ \A j \in 1..i : u[j] = r[j + 1]
  BY <1>1
<1>3. /\ Number(u, "D", i) \in Nat /\ Number(u, "E", i) \in Nat
      /\ Number(r, "D", i + 1) \in Nat /\ Number(r, "E", i + 1) \in Nat
  <2>1. i + 1 \in Nat
    BY <1>2
  <2> QED BY <1>2, <2>1, NumberIs
<1>4. /\ r[1].is = "D" => Number(r, "D", i + 1) = Number(u, "D", i) + 1
      /\ r[1].is # "D" => Number(r, "D", i + 1) = Number(u, "D", i)
  BY <1>2, NumberShifts
<1>5. /\ r[1].is = "E" => Number(r, "E", i + 1) = Number(u, "E", i) + 1
      /\ r[1].is # "E" => Number(r, "E", i + 1) = Number(u, "E", i)
  BY <1>2, NumberShifts
<1>6. d + Number(r, "D", i + 1) <= Number(r, "E", i + 1)
  <2>1. CASE r[1].is = "D"
    BY <1>3, <1>4, <1>5, <2>1
  <2>2. CASE r[1].is = "E"
    BY <1>3, <1>4, <1>5, <2>2
  <2>3. CASE r[1].is \notin {"D", "E"}
    BY <1>3, <1>4, <1>5, <2>3
  <2> QED BY <2>1, <2>2, <2>3
<1>7. NoFileAfter(r, i + 1)
  BY <1>2, <1>6
<1>8. \A j \in (i + 1)..Len(u) : j + 1 \in (i + 1 + 1)..Len(r) /\ u[j] = r[j + 1]
  BY <1>1, <1>2
<1> QED BY <1>7, <1>8 DEF NoFileAfter

LEMMA NothingAhead ==
  ASSUME NEW r \in Seq(Record), Closes(r, 0) \/ r = <<>>
  PROVE  Ahead(r) = {}
<1>1. CASE Closes(r, 0)
  <2>1. Len(r) \in Nat /\ 0 \in 0..Len(r) /\ DOMAIN r = 1..Len(r)
    OBVIOUS
  <2>2. Number(r, "D", 0) = 0 /\ Number(r, "E", 0) = 0
    BY NumberIs
  <2>3. NoFileAfter(r, 0)
    BY <1>1, <2>1, <2>2 DEF Closes
  <2> QED BY <2>1, <2>3 DEF NoFileAfter, Ahead
<1>2. CASE r = <<>>
  BY <1>2 DEF Ahead
<1> QED BY <1>1, <1>2

(* Ends of the SCP attempt, and calls that only raise a flag. *)
LEMMA CleanedIs ==
  ASSUME ScpInv
  PROVE  /\ Cleaned \in [Names(tree) -> Fates]
         /\ scpDirection = "get" /\ phase # "over"
            => \A n \in Names(tree) : Cleaned[n] # "partial"
<1>1. DOMAIN copied = Names(tree) /\ copied \in [Names(tree) -> Fates]
  BY DEF ScpInv, ScpTypeOK
<1>2. Cleaned = [n \in Names(tree) |->
                   IF scpDirection = "get" /\ phase = "data" /\ n = file THEN "absent"
                     ELSE copied[n]]
  BY <1>1 DEF Cleaned
<1>3. Cleaned \in [Names(tree) -> Fates]
  BY <1>1, <1>2 DEF Fates
<1>4. ASSUME scpDirection = "get", phase # "over", NEW n \in Names(tree)
      PROVE Cleaned[n] # "partial"
  BY <1>2, <1>4 DEF ScpInv, PartsInv, NoneIsPart
<1> QED BY <1>3, <1>4

LEMMA NamesStay == ASSUME tree' = tree PROVE Names(tree)' = Names(tree)
BY DEF Names

(* A file comes to a state, or into doubt, and no other file is affected     *)
(* but by a doubt.                                                          *)
LEMMA BecomesIs ==
  ASSUME ScpInv, NEW files, NEW state, NEW doubts, state \in {"partial", "whole"},
         copied' = Becomes(files, state, doubts)
  PROVE  /\ copied' \in [Names(tree) -> Fates]
         /\ \A n \in Names(tree) : n \in files => copied'[n] \in {state, "unsure"}
         /\ \A n \in Names(tree) : n \notin files => copied'[n] \in {copied[n], "unsure"}
<1>1. DOMAIN copied = Names(tree) /\ copied \in [Names(tree) -> Fates]
  BY DEF ScpInv, ScpTypeOK
<1>2. copied' = [n \in Names(tree) |-> IF n \in doubts \/ copied[n] = "unsure" THEN "unsure"
                                      ELSE IF n \in files THEN state ELSE copied[n]]
  BY <1>1 DEF Becomes
<1> QED BY <1>1, <1>2 DEF Fates

LEMMA BrokenKeeps ==
  ASSUME ScpInv, Busy, phase' = "failed", copied' = Cleaned,
         UNCHANGED <<plan, depth, file, remaining, scpFlags, result>>, records' \in Seq(Record),
         Ahead(records') \subseteq Ahead(records)
  PROVE  ScpInv'
<1>1. Names(tree)' = Names(tree) /\ tree' = tree
  BY NamesStay DEF plan
<1>2. /\ copied' \in [Names(tree) -> Fates]
      /\ scpDirection = "get" => \A n \in Names(tree) : copied'[n] # "partial"
  BY CleanedIs DEF Busy
<1>3. phase # "over" /\ Ahead(records) \subseteq Names(tree)
  BY DEF Busy, ScpInv, NamesInv
<1>4. Ahead(records)' = Ahead(records')
  BY DEF Ahead
<1>5. ScpTypeOK'
  BY <1>1, <1>2 DEF ScpInv, ScpTypeOK, plan
<1>6. RecordsInv' /\ NamesInv'
  BY <1>1, <1>3, <1>4 DEF RecordsInv, NamesInv
<1>7. PartsInv'
  BY <1>1, <1>2, <1>3 DEF ScpInv, PartsInv, ResultInv, NoneIsPart, plan
<1>8. ResultInv'
  BY <1>3 DEF ScpInv, ResultInv
<1> QED BY <1>5, <1>6, <1>7, <1>8 DEF ScpInv

LEMMA ReturnKeeps ==
  ASSUME ScpInv, NEW with \in {"ok", "cancelled", "local", "error"}, Return(with),
         copied' \in [Names(tree) -> Fates],
         with = "ok" => \A n \in Names(tree) : copied'[n] \in {"whole", "unsure"},
         with = "local" /\ scpDirection = "get" => \A n \in Names(tree) : copied'[n] # "partial"
  PROVE  ScpInv'
<1>1. Names(tree)' = Names(tree) /\ tree' = tree /\ records' = records
  BY NamesStay DEF Return, plan, progress
<1>2. phase' = "over" /\ result' = with
  BY DEF Return
<1>3. ScpTypeOK'
  BY <1>1, <1>2 DEF ScpInv, ScpTypeOK, Return, plan, progress
<1>4. RecordsInv' /\ NamesInv'
  BY <1>2 DEF RecordsInv, NamesInv
<1>5. PartsInv'
  BY <1>1, <1>2 DEF PartsInv, NoneIsPart, Return, plan
<1>6. ResultInv'
  BY <1>1, <1>2 DEF ResultInv
<1> QED BY <1>1, <1>3, <1>4, <1>5, <1>6 DEF ScpInv

LEMMA EndsOfScpKeep ==
  ASSUME ScpInv,
         RemoteFails \/ LocalFails \/ CancelNoticed \/ InterruptNoticed \/ Handshake
           \/ LastRejected
           \/ FallBack \/ NoFallBack
  PROVE  ScpInv'
<1>1. /\ copied \in [Names(tree) -> Fates]
      /\ DOMAIN copied = Names(tree)
      /\ Cleaned \in [Names(tree) -> Fates]
      /\ records \in Seq(Record)
  BY CleanedIs DEF ScpInv, ScpTypeOK
<1>2. CASE Busy /\ ChannelFails
  BY <1>2, BrokenKeeps DEF ChannelFails, progress, ScpInv
<1>3. CASE phase # "over" /\ copied' = Cleaned
      /\ \E with \in {"local", "cancelled"} : Return(with)
  BY <1>1, <1>3, CleanedIs, ReturnKeeps
<1>4. CASE Handshake
  <2>1. \A n \in Names(tree) : copied[n] \in {"whole", "unsure"}
    BY <1>4 DEF Handshake, ScpInv, NamesInv
  <2> QED BY <1>1, <1>4, <2>1, ReturnKeeps DEF Handshake
<1>5. CASE FallBack
  <2>1. CASE copied' = [n \in DOMAIN copied |-> "whole"] /\ Return("ok")
    BY <1>1, <2>1, ReturnKeeps DEF Fates
  <2>2. CASE UNCHANGED copied /\ \E with \in {"error", "cancelled"} : Return(with)
    BY <1>1, <2>2, ReturnKeeps
  <2>3. CASE \E left \in {"absent", "partial"} : copied' = [n \in DOMAIN copied |-> left]
               /\ \E with \in {"error", "cancelled"} : Return(with)
    BY <1>1, <2>3, ReturnKeeps DEF Fates
  <2> QED BY <1>5, <2>1, <2>2, <2>3 DEF FallBack
<1>6. CASE NoFallBack
  BY <1>1, <1>6, ReturnKeeps DEF NoFallBack
<1> QED
  BY <1>2, <1>3, <1>4, <1>5, <1>6
     DEF RemoteFails, LocalFails, CancelNoticed, InterruptNoticed, LastRejected, Busy, Level

LEMMA FlagsOfScpKeep ==
  ASSUME ScpInv, InterruptScp \/ CancelScp \/ UNCHANGED scpVars
  PROVE  ScpInv'
<1>1. UNCHANGED <<plan, progress, phase, copied, result>>
  BY DEF InterruptScp, CancelScp, scpVars
<1>2. Names(tree)' = Names(tree)
  BY <1>1, NamesStay DEF plan
<1>3. ScpTypeOK' /\ records' \in Seq(Record)
  BY <1>1, <1>2 DEF ScpInv, ScpTypeOK, plan, progress
<1>4. RecordsInv'
  BY <1>1 DEF ScpInv, RecordsInv, OneEntry, Closes, NoFileAfter, Number, plan, progress
<1>5. NamesInv'
  <2>1. Ahead(records)' = Ahead(records)
    BY <1>1 DEF Ahead, progress
  <2> QED BY <1>1, <1>2, <2>1 DEF ScpInv, NamesInv, progress
<1>6. PartsInv' /\ ResultInv'
  BY <1>1, <1>2 DEF ScpInv, PartsInv, ResultInv, NoneIsPart, plan, progress
<1> QED BY <1>3, <1>4, <1>5, <1>6 DEF ScpInv

(* A step within the records: what it must leave so that every file is      *)
(* written before the end.                                                  *)
LEMMA StepKeeps ==
  ASSUME ScpInv, phase \notin {"failed", "over"}, UNCHANGED <<plan, scpFlags, result>>,
         phase' \in {"first", "level", "data", "ack", "last"}, records' \in Seq(Record),
         copied' \in [Names(tree) -> Fates],
         depth' \in Nat, remaining' \in Nat, RecordsInv', NamesInv',
         scpDirection = "get" /\ phase' # "data"
           => \A n \in Names(tree) : copied'[n] # "partial",
         scpDirection = "get" => \A n \in Names(tree) : copied'[n] = "partial" => n = file'
  PROVE  ScpInv'
<1>1. Names(tree)' = Names(tree) /\ tree' = tree
  BY NamesStay DEF plan
<1>2. ScpTypeOK'
  BY <1>1 DEF ScpInv, ScpTypeOK, plan
<1>3. result' = "none"
  BY DEF ScpInv, ResultInv
<1>4. PartsInv' /\ ResultInv'
  BY <1>1, <1>3 DEF PartsInv, ResultInv, NoneIsPart, plan
<1> QED BY <1>2, <1>4 DEF ScpInv

(* The state and what a record of kind is leaves, for the lemmas below.     *)
LEMMA ReadIs ==
  ASSUME ScpInv, NEW is, Reads(is)
  PROVE  /\ records \in Seq(Record) /\ records # <<>> /\ records' = Tail(records)
         /\ records' \in Seq(Record)
         /\ Head(records) = records[1] /\ records[1] \in Record /\ records[1].is = is
         /\ Len(records') = Len(records) - 1 /\ Len(records) \in Nat /\ Len(records) >= 1
         /\ \A i \in 1..Len(records') : records'[i] = records[i + 1]
         /\ is = "C" => Ahead(records) = Ahead(records') \cup {records[1].name}
         /\ is # "C" => Ahead(records) = Ahead(records')
         /\ Ahead(records)' = Ahead(records')
<1>1. records \in Seq(Record) /\ records # <<>> /\ Head(records).is = is
      /\ records' = Tail(records)
  BY DEF ScpInv, Reads
<1>2. Ahead(records)' = Ahead(records')
  BY DEF Ahead
<1> QED BY <1>1, <1>2, ReadLeaves

LEMMA FileRecordKeeps ==
  ASSUME ScpInv, FileRecord
  PROVE  ScpInv'
<1>1. /\ records \in Seq(Record) /\ records # <<>> /\ records' \in Seq(Record)
      /\ Len(records') = Len(records) - 1 /\ Len(records) \in Nat /\ Len(records) >= 1
      /\ \A i \in 1..Len(records') : records'[i] = records[i + 1]
      /\ Ahead(records) = Ahead(records') \cup {records[1].name}
      /\ Ahead(records)' = Ahead(records')
      /\ records[1].is = "C" /\ records[1] \in Record
      /\ file' = records[1].name /\ remaining' = records[1].size
  BY ReadIs DEF FileRecord
<1>2. /\ phase \in {"first", "level"} /\ phase' = "data"
      /\ \E doubts : copied' = Becomes({file'}, "partial", doubts)
      /\ UNCHANGED <<plan, depth, scpFlags, result>> /\ depth \in Nat
  BY DEF FileRecord, ScpInv, ScpTypeOK
<1>3. file' \in Names(tree) /\ remaining' \in Nat /\ Ahead(records') \subseteq Names(tree)
  BY <1>1, <1>2 DEF ScpInv, NamesInv, Record
<1>4. copied \in [Names(tree) -> Fates] /\ Names(tree)' = Names(tree)
  BY <1>2, NamesStay DEF ScpInv, ScpTypeOK, plan
<1>5. /\ copied' \in [Names(tree) -> Fates]
      /\ \A n \in Names(tree) : n # file' => copied'[n] \in {copied[n], "unsure"}
  <2>1. PICK doubts : copied' = Becomes({file'}, "partial", doubts)
    BY <1>2
  <2> QED BY <2>1, BecomesIs
<1>6. Closes(records', depth)
  <2>1. CASE phase = "first"
    <3>1. NoFileAfter(records, 1)
      BY <1>1, <2>1 DEF ScpInv, RecordsInv, OneEntry
    <3>2. \A j \in 1..Len(records') : j + 1 \in 2..Len(records)
      BY <1>1
    <3>3. \A j \in 1..Len(records') : records'[j].is # "C"
      BY <1>1, <3>1, <3>2 DEF NoFileAfter
    <3>4. \A i \in 0..Len(records') : NoFileAfter(records', i)
      BY <3>3, <1>1 DEF NoFileAfter
    <3> QED BY <3>4 DEF Closes
  <2>2. CASE phase = "level"
    <3>1. Closes(records, depth)
      BY <2>2 DEF ScpInv, RecordsInv
    <3>2. \A i \in 1..Len(records) :
            depth + Number(records, "D", i) <= Number(records, "E", i)
              => NoFileAfter(records, i)
      BY <1>1, <3>1 DEF Closes
    <3>3. Len(records') <= Len(records) - 1 /\ depth \in Nat
          /\ records[1].is # "D" /\ records[1].is # "E"
      BY <1>1, <1>2
    <3> QED BY <1>1, <3>2, <3>3, CloseBehind
  <2> QED BY <1>2, <2>1, <2>2
<1>7. Closes(records, depth)'
  BY <1>2, <1>6 DEF Closes, NoFileAfter, Number
<1>8. RecordsInv'
  BY <1>2, <1>7 DEF RecordsInv
<1>9. \A n \in Names(tree) :
        copied'[n] \in {"whole", "unsure"} \/ n \in Ahead(records') \/ n = file'
  BY <1>1, <1>2, <1>5 DEF ScpInv, NamesInv
<1>10. NamesInv'
  BY <1>1, <1>2, <1>3, <1>4, <1>9 DEF NamesInv
<1>11. scpDirection = "get" => \A n \in Names(tree) : copied'[n] = "partial" => n = file'
  BY <1>2, <1>5 DEF ScpInv, PartsInv, NoneIsPart
<1> QED BY <1>1, <1>2, <1>3, <1>5, <1>8, <1>10, <1>11, StepKeeps

LEMMA DirRecordKeeps ==
  ASSUME ScpInv, DirRecord
  PROVE  ScpInv'
<1>1. /\ records \in Seq(Record) /\ records # <<>> /\ records' \in Seq(Record)
      /\ Len(records') = Len(records) - 1 /\ Len(records) \in Nat /\ Len(records) >= 1
      /\ \A i \in 1..Len(records') : records'[i] = records[i + 1]
      /\ Ahead(records) = Ahead(records') /\ Ahead(records)' = Ahead(records')
      /\ records[1].is = "D"
  <2>1. Reads("D")
    BY DEF DirRecord
  <2> QED BY <2>1, ReadIs
<1>2. /\ phase \in {"first", "level"} /\ phase' = "level" /\ depth' = depth + 1
      /\ UNCHANGED <<plan, file, remaining, scpFlags, result>> /\ depth \in Nat
      /\ remaining \in Nat
      /\ \E doubts : copied' = Becomes({}, "whole", doubts)
      /\ Names(tree)' = Names(tree)
  BY NamesStay DEF DirRecord, ScpInv, ScpTypeOK, plan
<1>02. /\ copied' \in [Names(tree) -> Fates]
       /\ \A n \in Names(tree) : copied'[n] \in {copied[n], "unsure"}
  <2>1. PICK doubts : copied' = Becomes({}, "whole", doubts)
    BY <1>2
  <2> QED BY <2>1, BecomesIs
<1>3. \A i \in 1..Len(records) :
        depth + Number(records, "D", i) <= Number(records, "E", i) => NoFileAfter(records, i)
  <2>1. CASE phase = "first"
    <3>1. depth = 0 /\ \A i \in 1..Len(records) :
            Number(records, "D", i) <= Number(records, "E", i) => NoFileAfter(records, i)
      BY <1>1, <2>1 DEF ScpInv, RecordsInv, OneEntry
    <3>2. \A i \in 1..Len(records) : Number(records, "D", i) \in Nat
      <4>1. \A i \in 1..Len(records) : i \in Nat
        BY <1>1
      <4> QED BY <4>1, NumberIs
    <3> QED BY <3>1, <3>2
  <2>2. CASE phase = "level"
    BY <1>1, <2>2 DEF ScpInv, RecordsInv, Closes
  <2> QED BY <1>2, <2>1, <2>2
<1>4. Closes(records', depth')
  <2>1. Len(records') <= Len(records) - 1 /\ depth' \in Nat /\ records[1].is # "E"
        /\ depth' = depth + 1 /\ depth \in Nat
    BY <1>1, <1>2
  <2> QED BY <1>1, <1>3, <2>1, CloseBehind
<1>5. Closes(records, depth)'
  BY <1>4 DEF Closes, NoFileAfter, Number
<1>6. RecordsInv'
  BY <1>2, <1>5 DEF RecordsInv
<1>7. NamesInv'
  BY <1>1, <1>2, <1>02 DEF ScpInv, NamesInv
<1>8. scpDirection = "get" => \A n \in Names(tree) : copied'[n] # "partial"
  BY <1>2, <1>02 DEF ScpInv, PartsInv, NoneIsPart
<1>9. depth' \in Nat /\ remaining' \in Nat
      /\ copied' \in [Names(tree) -> Fates]
  BY <1>2, <1>02
<1> QED BY <1>1, <1>2, <1>6, <1>7, <1>8, <1>9, StepKeeps

(* The end of a level, or of a file. *)
LEMMA EntryEnds ==
  ASSUME ScpInv, phase \in {"open", "level", "ack"},
         UNCHANGED <<plan, file, remaining, scpFlags, result>>,
         records' \in Seq(Record), depth' \in Nat, Closes(records', depth'),
         phase' = AfterEntry(depth'),
         copied' \in [Names(tree) -> Fates],
         Ahead(records') \subseteq Names(tree),
         \A n \in Names(tree) : copied'[n] \in {"whole", "unsure"} \/ n \in Ahead(records'),
         scpDirection = "get" => \A n \in Names(tree) : copied'[n] # "partial"
  PROVE  ScpInv'
<1>1. /\ phase' \in {"level", "last"} /\ (phase' = "level" => depth' # 0)
      /\ phase' = "last" => depth' = 0 \/ records' = <<>>
  BY DEF AfterEntry
<1>2. phase' = "last" => Ahead(records') = {}
  BY <1>1, NothingAhead
<1>3. Ahead(records)' = Ahead(records') /\ Names(tree)' = Names(tree)
  BY NamesStay DEF Ahead, plan
<1>4. Closes(records, depth)'
  BY DEF Closes, NoFileAfter, Number
<1>5. RecordsInv'
  BY <1>1, <1>4 DEF RecordsInv
<1>6. NamesInv'
  BY <1>1, <1>2, <1>3 DEF NamesInv
<1>7. remaining' \in Nat
  BY DEF ScpInv, ScpTypeOK
<1> QED BY <1>1, <1>5, <1>6, <1>7, StepKeeps

LEMMA EndRecordKeeps ==
  ASSUME ScpInv, EndRecord
  PROVE  ScpInv'
<1>1. /\ records \in Seq(Record) /\ records # <<>> /\ records' \in Seq(Record)
      /\ Len(records') = Len(records) - 1 /\ Len(records) \in Nat /\ Len(records) >= 1
      /\ \A i \in 1..Len(records') : records'[i] = records[i + 1]
      /\ Ahead(records) = Ahead(records')
      /\ records[1].is = "E"
  <2>1. Reads("E")
    BY DEF EndRecord
  <2> QED BY <2>1, ReadIs
<1>2. /\ phase = "level" /\ phase' = AfterEntry(depth') /\ depth' = depth - 1 /\ depth \in Nat
      /\ depth > 0
      /\ UNCHANGED <<plan, file, remaining, scpFlags, result>>
      /\ \E doubts : copied' = Becomes({}, "whole", doubts)
  BY DEF EndRecord, ScpInv, ScpTypeOK, RecordsInv
<1>02. /\ copied' \in [Names(tree) -> Fates]
       /\ \A n \in Names(tree) : copied'[n] \in {copied[n], "unsure"}
  <2>1. PICK doubts : copied' = Becomes({}, "whole", doubts)
    BY <1>2
  <2> QED BY <2>1, BecomesIs
<1>3. depth' \in Nat /\ depth = depth' + 1
  BY <1>2
<1>4. Closes(records', depth')
  <2>1. \A i \in 1..Len(records) :
          depth + Number(records, "D", i) <= Number(records, "E", i) => NoFileAfter(records, i)
    BY <1>1, <1>2 DEF ScpInv, RecordsInv, Closes
  <2>2. Len(records') <= Len(records) - 1 /\ depth \in Nat /\ records[1].is # "D"
    BY <1>1, <1>2
  <2> QED BY <1>1, <1>3, <2>1, <2>2, CloseBehind
<1>5. /\ Ahead(records') \subseteq Names(tree)
      /\ \A n \in Names(tree) : copied'[n] \in {"whole", "unsure"} \/ n \in Ahead(records')
      /\ scpDirection = "get" => \A n \in Names(tree) : copied'[n] # "partial"
  BY <1>1, <1>2, <1>02 DEF ScpInv, NamesInv, PartsInv, NoneIsPart
<1> QED BY <1>1, <1>2, <1>02, <1>3, <1>4, <1>5, EntryEnds

LEMMA AcknowledgedKeeps ==
  ASSUME ScpInv, FileAcknowledged
  PROVE  ScpInv'
<1>1. /\ phase = "ack" /\ phase' = AfterEntry(depth') /\ depth' = depth /\ records' = records
      /\ UNCHANGED <<plan, file, remaining, scpFlags, result>> /\ depth \in Nat
      /\ records \in Seq(Record)
      /\ (\E doubts : copied' = Becomes({file}, "whole", doubts)) /\ file \in Names(tree)
      /\ copied \in [Names(tree) -> Fates]
      /\ Closes(records, depth) /\ Ahead(records) \subseteq Names(tree)
  BY DEF FileAcknowledged, ScpInv, ScpTypeOK, RecordsInv, NamesInv, progress, AfterEntry
<1>2. /\ copied' \in [Names(tree) -> Fates]
      /\ copied'[file] \in {"whole", "unsure"}
      /\ \A n \in Names(tree) : n # file => copied'[n] \in {copied[n], "unsure"}
  <2>1. PICK doubts : copied' = Becomes({file}, "whole", doubts)
    BY <1>1
  <2>2. /\ copied' \in [Names(tree) -> Fates]
        /\ \A n \in Names(tree) : n \in {file} => copied'[n] \in {"whole", "unsure"}
        /\ \A n \in Names(tree) : n \notin {file} => copied'[n] \in {copied[n], "unsure"}
    BY <2>1, BecomesIs
  <2> QED BY <1>1, <2>2
<1>3. /\ \A n \in Names(tree) : copied'[n] \in {"whole", "unsure"} \/ n \in Ahead(records)
      /\ scpDirection = "get" => \A n \in Names(tree) : copied'[n] # "partial"
  BY <1>1, <1>2 DEF ScpInv, NamesInv, PartsInv, NoneIsPart
<1> QED BY <1>1, <1>2, <1>3, EntryEnds

LEMMA OpenChannelKeeps ==
  ASSUME ScpInv, OpenChannel
  PROVE  ScpInv'
<1>1. /\ phase = "open" /\ depth = 0 /\ records \in Seq(Record) /\ OneEntry(records)
      /\ Ahead(records) = Names(tree) /\ remaining \in Nat
      /\ UNCHANGED <<plan, file, remaining, copied, scpFlags, result>>
      /\ copied \in [Names(tree) -> Fates]
      /\ scpDirection = "get" => \A n \in Names(tree) : copied[n] # "partial"
      /\ Len(records) \in Nat /\ DOMAIN records = 1..Len(records)
  BY DEF OpenChannel, ScpInv, ScpTypeOK, RecordsInv, NamesInv, PartsInv, NoneIsPart
<1>2. CASE phase' = "first" /\ UNCHANGED <<records, depth>>
  <2>1. Names(tree)' = Names(tree) /\ Ahead(records)' = Ahead(records)
    BY <1>1, <1>2, NamesStay DEF plan, Ahead
  <2>2. RecordsInv'
    BY <1>1, <1>2 DEF RecordsInv, OneEntry, NoFileAfter, Number
  <2>3. NamesInv'
    BY <1>1, <1>2, <2>1 DEF NamesInv
  <2> QED BY <1>1, <1>2, <2>2, <2>3, StepKeeps
<1>3. CASE tree[1].is = "D" /\ records' = SubSeq(records, 2, Len(records) - 1)
           /\ depth' = 1 /\ phase' = AfterEntry(1)
  <2>1. Len(records) >= 2 /\ records[1].is = "D" /\ records[Len(records)].is # "C"
    BY <1>1, <1>3 DEF ScpInv, RecordsInv
  <2>2. \A i \in 2..(Len(records) - 1) : records[i] \in Record
    BY <1>1
  <2>3. 2 \in Int /\ Len(records) - 1 \in Int
    BY <1>1
  <2>4. /\ records' \in Seq(Record) /\ Len(records') = Len(records) - 2
        /\ \A i \in 1..Len(records') : records'[i] = records[i + 1]
    <3>1. /\ records' \in Seq(Record)
          /\ Len(records') = IF 2 <= Len(records) - 1 THEN Len(records) - 1 - 2 + 1 ELSE 0
          /\ \A i \in 1..(Len(records) - 1 - 2 + 1) : records'[i] = records[2 + i - 1]
      BY <1>3, <2>2, <2>3, SubSeqProperties
    <3>2. Len(records') = Len(records) - 2
      <4> DEFINE n == Len(records)
                 m == Len(records')
      <4>0. n \in Nat /\ n >= 2
        BY <1>1, <2>1
      <4>1. m = IF 2 <= n - 1 THEN n - 1 - 2 + 1 ELSE 0
        BY <3>1
      <4> HIDE DEF n, m
      <4>2. m = n - 2
        BY ONLY <4>0, <4>1
      <4> QED BY <4>2 DEF n, m
    <3>3. \A i \in 1..Len(records') : i \in 1..(Len(records) - 1 - 2 + 1) /\ 2 + i - 1 = i + 1
      BY <1>1, <2>1, <3>2
    <3> QED BY <3>1, <3>2, <3>3
  <2>5. DOMAIN records' = 1..(Len(records) - 2)
    BY <2>4
  <2>6. Ahead(records') = Ahead(records)
    <3>1. \A i \in DOMAIN records' : i + 1 \in DOMAIN records /\ records'[i] = records[i + 1]
      BY <1>1, <2>1, <2>4, <2>5
    <3>2. \A i \in DOMAIN records : records[i].is = "C" => i - 1 \in DOMAIN records'
          /\ records'[i - 1] = records[i]
      <4> SUFFICES ASSUME NEW i \in DOMAIN records, records[i].is = "C"
                   PROVE  i - 1 \in DOMAIN records' /\ records'[i - 1] = records[i]
        OBVIOUS
      <4>1. i # 1 /\ i # Len(records)
        BY <2>1
      <4>2. i - 1 \in 1..Len(records')
        BY <1>1, <2>1, <2>4, <4>1
      <4>3. i - 1 + 1 = i
        BY <1>1
      <4> QED BY <2>4, <2>5, <4>2, <4>3
    <3> QED BY <3>1, <3>2 DEF Ahead
  <2>7. Closes(records', 1)
    <3>1. \A i \in 1..Len(records) :
            Number(records, "D", i) <= Number(records, "E", i) => NoFileAfter(records, i)
      BY <1>1, <2>1 DEF OneEntry
    <3>2. \A i \in 1..Len(records) : Number(records, "D", i) \in Nat
      <4>1. \A i \in 1..Len(records) : i \in Nat
        BY <1>1
      <4> QED BY <4>1, NumberIs
    <3>3. \A i \in 1..Len(records) :
            0 + Number(records, "D", i) <= Number(records, "E", i) => NoFileAfter(records, i)
      BY <3>1, <3>2
    <3>4. Len(records') <= Len(records) - 1 /\ records # <<>>
      BY <1>1, <2>1, <2>4
    <3> QED BY <1>1, <2>1, <2>4, <3>3, <3>4, CloseBehind
  <2> QED BY <1>1, <1>3, <2>4, <2>6, <2>7, EntryEnds
<1> QED BY <1>2, <1>3 DEF OpenChannel

LEMMA DataBlockKeeps ==
  ASSUME ScpInv, DataBlock
  PROVE  ScpInv'
<1>1. /\ records \in Seq(Record) /\ records # <<>> /\ records' \in Seq(Record)
      /\ Len(records') = Len(records) - 1 /\ Len(records) \in Nat /\ Len(records) >= 1
      /\ \A i \in 1..Len(records') : records'[i] = records[i + 1]
      /\ Ahead(records) = Ahead(records') /\ Ahead(records)' = Ahead(records')
      /\ records[1].is = "data"
  <2>1. Reads("data")
    BY DEF DataBlock
  <2> QED BY <2>1, ReadIs
<1>2. /\ phase = "data" /\ phase' = phase /\ remaining' = remaining - 1 /\ remaining \in Nat
      /\ remaining > 0
      /\ UNCHANGED <<plan, depth, file, phase, copied, scpFlags, result>> /\ depth \in Nat
      /\ copied \in [Names(tree) -> Fates]
      /\ Names(tree)' = Names(tree)
  BY NamesStay DEF DataBlock, ScpInv, ScpTypeOK, plan
<1>3. Closes(records', depth)
  <2>1. \A i \in 1..Len(records) :
          depth + Number(records, "D", i) <= Number(records, "E", i) => NoFileAfter(records, i)
    BY <1>1, <1>2 DEF ScpInv, RecordsInv, Closes
  <2>2. Len(records') <= Len(records) - 1 /\ records[1].is # "D" /\ records[1].is # "E"
    BY <1>1
  <2> QED BY <1>1, <1>2, <2>1, <2>2, CloseBehind
<1>4. Closes(records, depth)'
  BY <1>2, <1>3 DEF Closes, NoFileAfter, Number
<1>5. RecordsInv'
  BY <1>2, <1>4 DEF RecordsInv
<1>6. NamesInv'
  BY <1>1, <1>2 DEF ScpInv, NamesInv
<1>7. scpDirection = "get" => \A n \in Names(tree) : copied'[n] = "partial" => n = file'
  BY <1>2 DEF ScpInv, PartsInv, NoneIsPart
<1>8. remaining' \in Nat
  BY <1>2
<1> QED BY <1>1, <1>2, <1>5, <1>6, <1>7, <1>8, StepKeeps

LEMMA ReceivedKeeps ==
  ASSUME ScpInv, ReceivedFile
  PROVE  ScpInv'
<1>1. /\ phase = "data" /\ phase' = "ack" /\ depth' = depth /\ records' = records
      /\ file' = file
      /\ UNCHANGED <<plan, scpFlags, result>> /\ depth \in Nat /\ records \in Seq(Record)
      /\ remaining' = remaining /\ remaining \in Nat
      /\ (\E doubts : copied' = Becomes({file}, "whole", doubts)) /\ file \in Names(tree)
      /\ copied \in [Names(tree) -> Fates]
      /\ Closes(records, depth) /\ Names(tree)' = Names(tree)
  BY NamesStay DEF ReceivedFile, ScpInv, ScpTypeOK, RecordsInv, NamesInv, progress, plan
<1>2. /\ copied' \in [Names(tree) -> Fates]
      /\ copied'[file] \in {"whole", "unsure"}
      /\ \A n \in Names(tree) : n # file => copied'[n] \in {copied[n], "unsure"}
  <2>1. PICK doubts : copied' = Becomes({file}, "whole", doubts)
    BY <1>1
  <2>2. /\ copied' \in [Names(tree) -> Fates]
        /\ \A n \in Names(tree) : n \in {file} => copied'[n] \in {"whole", "unsure"}
        /\ \A n \in Names(tree) : n \notin {file} => copied'[n] \in {copied[n], "unsure"}
    BY <2>1, BecomesIs
  <2> QED BY <1>1, <2>2
<1>3. Closes(records, depth)' /\ Ahead(records)' = Ahead(records)
  BY <1>1 DEF Closes, NoFileAfter, Number, Ahead
<1>4. RecordsInv'
  BY <1>1, <1>3 DEF RecordsInv
<1>5. NamesInv'
  BY <1>1, <1>2, <1>3 DEF ScpInv, NamesInv
<1>6. scpDirection = "get" => \A n \in Names(tree) : copied'[n] # "partial"
  BY <1>1, <1>2 DEF ScpInv, PartsInv, NoneIsPart
<1> QED BY <1>1, <1>2, <1>4, <1>5, <1>6, StepKeeps

LEMMA AlienKeeps ==
  ASSUME ScpInv, AlienByte
  PROVE  ScpInv'
<1>1. Reads("nul") /\ phase = "level"
  BY DEF AlienByte
<1>2. records' \in Seq(Record) /\ Ahead(records') = Ahead(records)
  BY <1>1, ReadIs
<1> QED BY <1>1, <1>2, BrokenKeeps DEF AlienByte, Busy

LEMMA SentFileKeeps ==
  ASSUME ScpInv, SentFile
  PROVE  ScpInv'
<1>1. /\ records \in Seq(Record) /\ records # <<>> /\ records' \in Seq(Record)
      /\ Len(records') = Len(records) - 1 /\ Len(records) \in Nat /\ Len(records) >= 1
      /\ \A i \in 1..Len(records') : records'[i] = records[i + 1]
      /\ Ahead(records) = Ahead(records') /\ Ahead(records)' = Ahead(records')
      /\ records[1].is = "nul"
  <2>1. Reads("nul")
    BY DEF SentFile
  <2> QED BY <2>1, ReadIs
<1>2. /\ phase = "data" /\ phase' = "ack" /\ scpDirection = "put" /\ remaining \in Nat
      /\ UNCHANGED <<plan, depth, file, remaining, copied, scpFlags, result>> /\ depth \in Nat
      /\ copied \in [Names(tree) -> Fates]
      /\ Names(tree)' = Names(tree)
  BY NamesStay DEF SentFile, ScpInv, ScpTypeOK, plan
<1>3. Closes(records', depth)
  <2>1. \A i \in 1..Len(records) :
          depth + Number(records, "D", i) <= Number(records, "E", i) => NoFileAfter(records, i)
    BY <1>1, <1>2 DEF ScpInv, RecordsInv, Closes
  <2>2. Len(records') <= Len(records) - 1 /\ records[1].is # "D" /\ records[1].is # "E"
    BY <1>1
  <2> QED BY <1>1, <1>2, <2>1, <2>2, CloseBehind
<1>4. Closes(records, depth)'
  BY <1>2, <1>3 DEF Closes, NoFileAfter, Number
<1>5. RecordsInv'
  BY <1>2, <1>4 DEF RecordsInv
<1>6. NamesInv'
  BY <1>1, <1>2 DEF ScpInv, NamesInv
<1> QED BY <1>1, <1>2, <1>5, <1>6, StepKeeps

LEMMA ScpKeeps == ScpInv /\ [ScpNext]_scpVars => ScpInv'
BY Zenon, OpenChannelKeeps, FileRecordKeeps, DirRecordKeeps, EndRecordKeeps, DataBlockKeeps,
   ReceivedKeeps, AlienKeeps, SentFileKeeps, AcknowledgedKeeps, EndsOfScpKeep, FlagsOfScpKeep
   DEF ScpNext

LEMMA ScpSays == ScpInv => ScpTypeOK /\ ScpDelivers
<1> SUFFICES ASSUME ScpInv PROVE ScpTypeOK /\ ScpDelivers
  OBVIOUS
<1>1. ScpTypeOK /\ (result = "ok" => \A n \in Names(tree) : copied[n] \in {"whole", "unsure"})
  BY DEF ScpInv, ResultInv
<1>2. scpDirection = "get" /\ (result = "local" \/ phase = "failed")
        => \A n \in Names(tree) : copied[n] # "partial"
  BY DEF ScpInv, PartsInv, NoneIsPart
<1> QED BY <1>1, <1>2 DEF ScpDelivers

\* A copy that reports success has copied every file whole, whichever protocol
\* carried it, but for those the remote answered 1 for and those whose last write
\* failed, and a get that ends within SCP leaves no part of a file (scp.rs).
THEOREM ScpCopiesWhole == ScpSpec => [](ScpTypeOK /\ ScpDelivers)
BY ScpStarts, ScpKeeps, ScpSays, PTL DEF ScpSpec

------------------------------------------------------------------------------
(* The calls on a server's files.                                          *)

(***************************************************************************)
(* The invariant of a call on the server's files.                          *)
(***************************************************************************)
\* What may still be to do, whatever the call.
FileDos == {"list", "exists", "stat", "mkdir", "remove_file", "set", "clear", "rm", "rmdir",
            "look", "seek", "tryRm", "move", "tryMove"}
FileTasks == [do : FileDos, at : Paths, to : Paths \cup {NoPath}]

\* Removing a directory: everything is below it, and its own removal comes last.
RemovalTasks ==
  [do : {"clear", "rm", "rmdir"}, at : {p \in Paths : Under(p, call.at)}, to : {NoPath}]
RemovalFits(s) ==
  /\ s \in Seq(RemovalTasks)
  /\ s # <<>> => s[Len(s)].at = call.at /\ (s[Len(s)].do = "rmdir" \/ Len(s) = 1)

\* A rename: its target is cleared out of the way, and the move comes last.
ClearingTasks ==
  [do : {"look", "seek", "rm", "rmdir", "tryRm"}
        \cup (IF fbackend = "smb" THEN {"clear"} ELSE {}),
   at : {p \in Paths : Under(p, call.to)}, to : {NoPath}]
MoveTasks ==
  [do : {"move"} \cup (IF fbackend = "ftp" THEN {"tryMove"} ELSE {}),
   at : {call.at}, to : {call.to}]
RenameFits(s) ==
  \A i \in 1..Len(s) : IF i = Len(s) THEN s[i] \in MoveTasks ELSE s[i] \in ClearingTasks

\* Every other call has tasks for its own path only.
PlainTasks ==
  [do : {"list", "exists", "stat", "mkdir", "remove_file", "set"}, at : {call.at},
    to : {NoPath}]

Fits(s) ==
  /\ s \in Seq(FileTasks)
  /\ call.op = "remove_dir" => RemovalFits(s)
  /\ call.op = "rename" => RenameFits(s)
  /\ call.op \notin {"remove_dir", "rename"} => s \in Seq(PlainTasks)

\* A file being renamed, of which no lost reply can have moved it twice.
Renaming == call.op = "rename" /\ ~Under(call.at, call.to) /\ ~(unheard /\ fbackend = "ftp")

FilesInv ==
  /\ FilesTypeOK /\ CallsStayInPlace /\ RenameKeepsSource
  /\ Fits(todo)
  /\ todo # <<>> => /\ call \in Calls
                    /\ Renaming => node[call.at] = was[call.at] /\ was[call.at] \in Contents

(* Paths and tasks. *)

LEMMA UnderItself == ASSUME NEW p \in Paths PROVE Under(p, p)
BY PathsAssumption, SubSeqFull DEF Under, IsPrefix

LEMMA UnderAll ==
  ASSUME NEW p \in Paths, NEW d \in Paths, NEW e \in Paths, Under(p, d), Under(d, e)
  PROVE  Under(p, e)
<1>1. p \in Seq(STRING) /\ d \in Seq(STRING) /\ e \in Seq(STRING)
  BY PathsAssumption
<1>2. /\ Len(d) <= Len(p) /\ \A i \in 1..Len(d) : d[i] = p[i]
      /\ Len(e) <= Len(d) /\ \A i \in 1..Len(e) : e[i] = d[i]
  BY <1>1, PrefixIs DEF Under
<1>3. Len(e) <= Len(p) /\ \A i \in 1..Len(e) : e[i] = p[i]
  BY <1>1, <1>2
<1> QED BY <1>1, <1>3, PrefixIs DEF Under

\* The tasks for a set of paths.
LEMMA TasksAre ==
  ASSUME NEW do, NEW S \in SUBSET Paths
  PROVE  Tasks(do, S) \in Seq([do : {do}, at : S, to : {NoPath}])
<1> DEFINE X == {Task(do, p, NoPath) : p \in S}
<1>1. IsFiniteSet(S)
  BY PathsAssumption, FS_Subset
<1>2. IsFiniteSet(X)
  <2> DEFINE f == [p \in S |-> Task(do, p, NoPath)]
  <2>1. f \in Surjection(S, X)
    BY DEF Surjection
  <2> QED BY <1>1, <2>1, FS_Surjection
<1>3. Tasks(do, S) \in Seq(X)
  BY <1>2, SetToSeqIs DEF Tasks
<1>4. X \subseteq [do : {do}, at : S, to : {NoPath}]
  BY DEF Task
<1> QED BY <1>3, <1>4, SeqOfMore

LEMMA OneIs ==
  ASSUME NEW do, NEW p
  PROVE  /\ One(do, p) \in Seq([do : {do}, at : {p}, to : {NoPath}])
         /\ One(do, p) # <<>> /\ Len(One(do, p)) = 1
         /\ One(do, p)[1] = [do |-> do, at |-> p, to |-> NoPath]
BY DEF One, Task

\* The tasks of one kind, in their order.
LEMMA AreIs ==
  ASSUME NEW T, NEW s \in Seq(T), NEW do
  PROVE  /\ Are(do, s) \in Seq({t \in T : t.do = do})
         /\ s # <<>> /\ s[Len(s)].do = do =>
              Are(do, s) # <<>> /\ Are(do, s)[Len(Are(do, s))] = s[Len(s)]
<1> DEFINE I == {i \in DOMAIN s : s[i].do = do}
           k == Keep(s, I)
<1>1. I \in SUBSET (1..Len(s)) /\ Len(s) \in Nat
  OBVIOUS
<1>2. /\ k \in Seq(T) /\ Cardinality(I) \in Nat /\ Len(k) = Cardinality(I)
      /\ \A n \in 1..Cardinality(I) : \E i \in I : k[n] = s[i]
  BY <1>1, KeepIs
<1>3. s # <<>> /\ s[Len(s)].do = do => Cardinality(I) > 0 /\ k[Cardinality(I)] = s[Len(s)]
  BY <1>1, KeptLast
<1>4. \A i \in I : s[i] \in T /\ s[i].do = do
  OBVIOUS
<1>5. k = Are(do, s)
  BY DEF Are
<1> HIDE DEF k, I
<1>6. k \in Seq({t \in T : t.do = do})
  BY <1>2, <1>4
<1>7. Cardinality(I) > 0 => k # <<>>
  BY <1>2
<1> QED BY <1>2, <1>3, <1>5, <1>6, <1>7

(* The list of tasks. *)

\* What the first task is, and what is left when it is done.
LEMMA FirstTaskIs ==
  ASSUME NEW T, NEW s \in Seq(T), s # <<>>
  PROVE  /\ Len(s) \in Nat \ {0} /\ s[1] = Head(s) /\ Head(s) \in T
         /\ Tail(s) \in Seq(T) /\ Len(Tail(s)) = Len(s) - 1
         /\ \A i \in 1..Len(Tail(s)) : Tail(s)[i] = s[i + 1]
         /\ Tail(s) = <<>> <=> Len(s) = 1
         /\ Tail(s) # <<>> => Tail(s)[Len(Tail(s))] = s[Len(s)]
<1>1. Len(s) \in Nat \ {0} /\ s[1] = Head(s)
  OBVIOUS
<1>2. /\ Head(s) \in T /\ Tail(s) \in Seq(T) /\ Len(Tail(s)) = Len(s) - 1
      /\ \A i \in 1..Len(Tail(s)) : Tail(s)[i] = s[i + 1]
  BY HeadTailProperties
<1>3. Tail(s) = <<>> <=> Len(s) = 1
  <2> DEFINE u == Tail(s)
             n == Len(s)
  <2>1. u \in Seq(T) /\ Len(u) = n - 1 /\ n \in Nat \ {0}
    BY <1>1, <1>2
  <2> HIDE DEF u, n
  <2>2. u = <<>> <=> n = 1
    BY <2>1
  <2> QED BY <2>2 DEF u, n
<1>4. ASSUME Tail(s) # <<>> PROVE Tail(s)[Len(Tail(s))] = s[Len(s)]
  <2>1. Len(Tail(s)) \in 1..Len(Tail(s)) /\ Len(Tail(s)) + 1 = Len(s)
    BY <1>1, <1>2, <1>3, <1>4
  <2> QED BY <1>2, <2>1
<1> QED BY <1>1, <1>2, <1>3, <1>4

\* Joined sequences end as the second one does.
LEMMA JoinedIs ==
  ASSUME NEW T, NEW s \in Seq(T), NEW t \in Seq(T), t # <<>>
  PROVE  /\ s \o t \in Seq(T) /\ s \o t # <<>>
         /\ Len(s) \in Nat /\ Len(t) \in Nat \ {0} /\ Len(s \o t) = Len(s) + Len(t)
         /\ (s \o t)[Len(s \o t)] = t[Len(t)]
         /\ \A i \in 1..Len(s) : (s \o t)[i] = s[i]
         /\ \A i \in 1..Len(t) : (s \o t)[Len(s) + i] = t[i]
<1>1. Len(s) \in Nat /\ Len(t) \in Nat \ {0}
  OBVIOUS
<1>2. /\ s \o t \in Seq(T) /\ Len(s \o t) = Len(s) + Len(t)
      /\ \A i \in 1..Len(s) + Len(t) : (s \o t)[i] = IF i <= Len(s) THEN s[i] ELSE t[i - Len(s)]
  BY ConcatProperties
<1>3. s \o t # <<>>
  BY <1>1, <1>2
<1>4. \A i \in 1..Len(s) : (s \o t)[i] = s[i]
  BY <1>1, <1>2
<1>5. ASSUME NEW i \in 1..Len(t) PROVE (s \o t)[Len(s) + i] = t[i]
  <2>1. Len(s) + i \in 1..Len(s) + Len(t) /\ ~(Len(s) + i <= Len(s)) /\ Len(s) + i - Len(s) = i
    BY <1>1
  <2> QED BY <1>2, <2>1
<1>6. (s \o t)[Len(s \o t)] = t[Len(t)]
  BY <1>1, <1>2, <1>5
<1> QED BY <1>1, <1>2, <1>3, <1>4, <1>5, <1>6

\* The first task fits, and so do the others without it.
LEMMA RestFits ==
  ASSUME Fits(todo), ~Idle
  PROVE  Fits(Tail(todo)) /\ Head(todo) \in FileTasks
<1>1. /\ todo \in Seq(FileTasks) /\ todo # <<>>
      /\ call.op = "remove_dir" => RemovalFits(todo)
      /\ call.op = "rename" => RenameFits(todo)
      /\ call.op \notin {"remove_dir", "rename"} => todo \in Seq(PlainTasks)
  BY DEF Fits, Idle
<1>2. /\ Len(todo) \in Nat \ {0} /\ Head(todo) \in FileTasks
      /\ Tail(todo) \in Seq(FileTasks) /\ Len(Tail(todo)) = Len(todo) - 1
      /\ \A i \in 1..Len(Tail(todo)) : Tail(todo)[i] = todo[i + 1]
      /\ Tail(todo) # <<>> => Tail(todo)[Len(Tail(todo))] = todo[Len(todo)]
  BY <1>1, FirstTaskIs
<1>3. ASSUME call.op = "remove_dir" PROVE RemovalFits(Tail(todo))
  <2>1. todo \in Seq(RemovalTasks) /\ todo[Len(todo)].at = call.at
        /\ (todo[Len(todo)].do = "rmdir" \/ Len(todo) = 1)
    BY <1>1, <1>3 DEF RemovalFits
  <2>2. Tail(todo) \in Seq(RemovalTasks) /\ (Tail(todo) # <<>> => Len(todo) # 1)
    BY <1>1, <2>1, FirstTaskIs
  <2> QED BY <1>2, <2>1, <2>2 DEF RemovalFits
<1>4. ASSUME call.op = "rename" PROVE RenameFits(Tail(todo))
  <2> SUFFICES ASSUME NEW i \in 1..Len(Tail(todo))
               PROVE  IF i = Len(Tail(todo)) THEN Tail(todo)[i] \in MoveTasks
                      ELSE Tail(todo)[i] \in ClearingTasks
    BY DEF RenameFits
  <2>1. i + 1 \in 1..Len(todo) /\ (i + 1 = Len(todo) <=> i = Len(Tail(todo)))
    BY <1>2
  <2>2. IF i + 1 = Len(todo) THEN todo[i + 1] \in MoveTasks ELSE todo[i + 1] \in ClearingTasks
    BY <1>1, <1>4, <2>1 DEF RenameFits
  <2> QED BY <1>2, <2>1, <2>2
<1>5. call.op \notin {"remove_dir", "rename"} => Tail(todo) \in Seq(PlainTasks)
  BY <1>1, FirstTaskIs
<1> QED BY <1>2, <1>3, <1>4, <1>5 DEF Fits

LEMMA NothingFits == Fits(<<>>)
BY DEF Fits, RemovalFits, RenameFits

\* The first task of each kind of call.
LEMMA FirstOf ==
  ASSUME Fits(todo), ~Idle
  PROVE  /\ call.op = "remove_dir" => Head(todo) \in RemovalTasks
            /\ (Tail(todo) = <<>> => Here = call.at)
         /\ call.op = "rename" => IF Tail(todo) = <<>> THEN Head(todo) \in MoveTasks
                                  ELSE Head(todo) \in ClearingTasks
         /\ call.op \notin {"remove_dir", "rename"} => Head(todo) \in PlainTasks
<1>1. /\ todo \in Seq(FileTasks) /\ todo # <<>>
      /\ call.op = "remove_dir" => RemovalFits(todo)
      /\ call.op = "rename" => RenameFits(todo)
      /\ call.op \notin {"remove_dir", "rename"} => todo \in Seq(PlainTasks)
  BY DEF Fits, Idle
<1>2. /\ Len(todo) \in Nat \ {0} /\ todo[1] = Head(todo)
      /\ Tail(todo) = <<>> <=> Len(todo) = 1
  BY <1>1, FirstTaskIs
<1>3. call.op = "remove_dir" => Head(todo) \in RemovalTasks
      /\ (Tail(todo) = <<>> => Here = call.at)
  BY <1>1, <1>2 DEF RemovalFits, Here
<1>4. ASSUME call.op = "rename"
      PROVE  IF Tail(todo) = <<>> THEN Head(todo) \in MoveTasks
             ELSE Head(todo) \in ClearingTasks
  <2>1. 1 \in 1..Len(todo)
    BY <1>2
  <2>2. IF 1 = Len(todo) THEN todo[1] \in MoveTasks ELSE todo[1] \in ClearingTasks
    BY <1>1, <1>4, <2>1 DEF RenameFits
  <2> QED BY <1>2, <2>2
<1>5. call.op \notin {"remove_dir", "rename"} => Head(todo) \in PlainTasks
  BY <1>1, <1>2
<1> QED BY <1>3, <1>4, <1>5

LEMMA RenameGrows ==
  ASSUME NEW u \in Seq(ClearingTasks), NEW s \in Seq(FileTasks), RenameFits(s), s # <<>>,
         ClearingTasks \subseteq FileTasks
  PROVE  RenameFits(u \o s)
<1>1. u \in Seq(FileTasks)
  BY SeqOfMore
<1>2. /\ Len(u) \in Nat /\ Len(s) \in Nat \ {0} /\ Len(u \o s) = Len(u) + Len(s)
      /\ \A i \in 1..Len(u) : (u \o s)[i] = u[i]
      /\ \A i \in 1..Len(s) : (u \o s)[Len(u) + i] = s[i]
  BY <1>1, JoinedIs
<1> SUFFICES ASSUME NEW i \in 1..Len(u \o s)
             PROVE  IF i = Len(u \o s) THEN (u \o s)[i] \in MoveTasks
                    ELSE (u \o s)[i] \in ClearingTasks
  BY DEF RenameFits
<1>3. CASE i \in 1..Len(u)
  <2>1. i # Len(u \o s) /\ u[i] \in ClearingTasks
    BY <1>2, <1>3
  <2> QED BY <1>2, <1>3, <2>1
<1>4. CASE i \notin 1..Len(u)
  <2> DEFINE j == i - Len(u)
  <2>1. j \in 1..Len(s) /\ i = Len(u) + j /\ (i = Len(u \o s) <=> j = Len(s))
    BY <1>2, <1>4
  <2>2. (u \o s)[i] = s[j]
    BY <1>2, <2>1
  <2>3. IF j = Len(s) THEN s[j] \in MoveTasks ELSE s[j] \in ClearingTasks
    BY <2>1 DEF RenameFits
  <2> QED BY <2>1, <2>2, <2>3
<1> QED BY <1>3, <1>4

(* Each step. *)

LEMMA FilesStart == FilesInit => FilesInv
<1> SUFFICES ASSUME FilesInit PROVE FilesInv
  OBVIOUS
<1>1. {linked, flagged, unheard} \subseteq BOOLEAN
  BY Zenon DEF FilesInit
<1>2. FilesTypeOK
  BY <1>1, ServerAssumption DEF FilesInit, FilesTypeOK
<1>3. Fits(todo)
  BY NothingFits DEF FilesInit
<1> QED BY <1>2, <1>3 DEF FilesInit, FilesInv, CallsStayInPlace, RenameKeepsSource, NoCall

\* What fits a call depends on nothing but the call.
LEMMA StillFits ==
  ASSUME UNCHANGED <<fbackend, call>>, Fits(todo')
  PROVE  Fits(todo)'
<1>1. /\ RemovalTasks' = RemovalTasks /\ ClearingTasks' = ClearingTasks
      /\ MoveTasks' = MoveTasks /\ PlainTasks' = PlainTasks
  BY DEF RemovalTasks, ClearingTasks, MoveTasks, PlainTasks
<1>2. call.op = "remove_dir" => RemovalFits(todo)'
  BY <1>1 DEF Fits, RemovalFits
<1>3. call.op = "rename" => RenameFits(todo)'
  BY <1>1 DEF Fits, RenameFits
<1> QED BY <1>1, <1>2, <1>3 DEF Fits

LEMMA SessionKeeps == FilesInv /\ (Connect \/ Disconnect \/ UNCHANGED fileVars) => FilesInv'
<1> SUFFICES ASSUME FilesInv, Connect \/ Disconnect \/ UNCHANGED fileVars PROVE FilesInv'
  OBVIOUS
<1>1. UNCHANGED <<fbackend, node, call, todo, reply, was, unheard>>
  BY Zenon DEF Connect, Disconnect, fileVars, bounds
<1>2. {linked, flagged, unheard}' \subseteq BOOLEAN
  <2>1. linked \in BOOLEAN /\ flagged \in BOOLEAN /\ unheard \in BOOLEAN
    BY Zenon DEF FilesInv, FilesTypeOK
  <2>2. linked' \in BOOLEAN /\ flagged' \in BOOLEAN
    BY <2>1, Zenon DEF Connect, Disconnect, fileVars, session
  <2> QED BY <1>1, <2>1, <2>2, Zenon
<1>3. FilesTypeOK'
  BY <1>1, <1>2 DEF FilesInv, FilesTypeOK
<1>4. Fits(todo)'
  BY <1>1, StillFits DEF FilesInv
<1> QED BY <1>1, <1>3, <1>4
        DEF FilesInv, CallsStayInPlace, RenameKeepsSource, Survives, Renaming, Idle

\* A call begins with tasks that fit it.
LEMMA PlanFits ==
  ASSUME NEW c \in Calls, call' = c, fbackend' = fbackend, todo' = Plan(c)
  PROVE  Fits(todo)' /\ todo' # <<>>
<1>1. c.at \in Paths /\ c.to \in Paths \cup {NoPath} /\ (c.op = "rename" => c.to \in Paths)
  BY DEF Calls
<1>2. CASE c.op = "remove_dir"
  <2>1. todo' = <<[do |-> "clear", at |-> c.at, to |-> NoPath]>>
    BY <1>2 DEF Plan, One, Task
  <2>2. Under(c.at, c.at)
    BY <1>1, UnderItself
  <2>3. RemovalFits(todo)'
    BY <1>1, <2>1, <2>2 DEF RemovalFits, RemovalTasks, Under
  <2> QED BY <1>1, <1>2, <2>1, <2>3 DEF Fits, FileTasks, FileDos
<1>3. CASE c.op = "rename"
  <2>1. Under(c.to, c.to)
    BY <1>1, <1>3, UnderItself
  <2>2. todo' = RenamePlan(c)
    BY <1>3 DEF Plan
  <2>3. CASE todo' = <<Task("move", c.at, c.to)>>
        \/ (fbackend = "ftp" /\ todo' = <<Task("tryMove", c.at, c.to)>>)
    <3>0. PICK t : todo' = <<t>> /\ t \in MoveTasks' /\ t \in FileTasks
      BY <1>1, <1>3, <2>3 DEF MoveTasks, Task, FileTasks, FileDos
    <3>1. RenameFits(todo)' /\ todo' \in Seq(FileTasks) /\ todo' # <<>>
      BY <3>0 DEF RenameFits
    <3> QED BY <1>3, <3>1 DEF Fits, FileTasks, FileDos
  <2>4. ASSUME NEW do \in {"look", "seek"},
               todo' = One(do, c.to) \o <<Task("move", c.at, c.to)>>
        PROVE  RenameFits(todo)' /\ todo' \in Seq(FileTasks) /\ todo' # <<>>
    <3>1. todo' = <<[do |-> do, at |-> c.to, to |-> NoPath],
          [do |-> "move", at |-> c.at, to |-> c.to]>>
      BY <2>4, TwoJoined DEF One, Task
    <3>2. [do |-> do, at |-> c.to, to |-> NoPath] \in ClearingTasks'
      BY <1>1, <1>3, <2>1 DEF ClearingTasks, Under
    <3>3. [do |-> "move", at |-> c.at, to |-> c.to] \in MoveTasks'
      BY DEF MoveTasks
    <3>4. RenameFits(todo)'
      BY <3>1, <3>2, <3>3 DEF RenameFits
    <3> QED BY <1>1, <1>3, <3>1, <3>4 DEF FileTasks, FileDos
  <2>5. \/ todo' = <<Task("move", c.at, c.to)>>
        \/ fbackend = "ftp" /\ todo' = <<Task("tryMove", c.at, c.to)>>
        \/ \E do \in {"look", "seek"} : todo' = One(do, c.to) \o <<Task("move", c.at, c.to)>>
    BY <2>2, Zenon DEF RenamePlan
  <2> QED BY <1>3, <2>3, <2>4, <2>5 DEF Fits, FileTasks, FileDos
<1>4. CASE c.op \notin {"remove_dir", "rename"}
  <2>1. c.op \in {"list", "exists", "stat", "mkdir", "remove_file", "chmod", "chown",
        "set_times"}
    BY <1>4 DEF Calls
  <2>2. ASSUME NEW do \in {"list", "exists", "stat", "mkdir", "remove_file", "set"}
        PROVE  One(do, c.at) \in Seq(PlainTasks)' /\ One(do, c.at) # <<>>
    BY DEF One, Task, PlainTasks
  <2>3. todo' \in Seq(PlainTasks)' /\ todo' # <<>>
    <3>1. CASE c.op = "mkdir"
      <4>1. todo' = One("mkdir", c.at) \o (IF fbackend = "sftp" THEN One("set", c.at) ELSE <<>>)
        BY <3>1 DEF Plan
      <4> QED BY <2>2, <4>1, JoinedIs
    <3>2. CASE c.op \in {"chmod", "chown", "set_times"}
      BY <2>2, <3>2 DEF Plan
    <3>3. CASE c.op \in {"list", "exists", "stat", "remove_file"}
      BY <2>2, <3>3 DEF Plan
    <3> QED BY <2>1, <3>1, <3>2, <3>3
  <2>4. PlainTasks' \subseteq FileTasks'
    BY <1>1 DEF PlainTasks, FileTasks, FileDos
  <2>5. todo' \in Seq(FileTasks)'
    BY <2>3, <2>4, SeqOfMore
  <2> QED BY <1>4, <2>3, <2>5 DEF Fits
<1> QED BY <1>2, <1>3, <1>4

LEMMA BeginKeepsFiles ==
  ASSUME FilesInv, NEW c \in Calls, BeginCall(c)
  PROVE  FilesInv'
<1>1. /\ UNCHANGED <<fbackend, linked, flagged, node>> /\ call' = c /\ was' = node
      /\ unheard' = FALSE /\ (c.op = "rename" => IsFile(c.at))
      /\ \/ todo' = <<>> /\ reply' \in {"error", "unsupported"}
         \/ todo' = Plan(c) /\ reply' = "none"
  BY Zenon DEF BeginCall, session
<1>2. Fits(todo)' /\ (todo' = Plan(c) => todo' # <<>>)
  <2>1. CASE todo' = <<>>
    BY <1>1, <2>1, PlanFits, NothingFits DEF Fits, RemovalFits, RenameFits
  <2> QED BY <1>1, <2>1, PlanFits
<1>3. {linked, flagged, unheard}' \subseteq BOOLEAN
  <2>1. linked \in BOOLEAN /\ flagged \in BOOLEAN
    BY Zenon DEF FilesInv, FilesTypeOK
  <2> QED BY <1>1, <2>1, Zenon
<1>4. \A i \in DOMAIN todo' : todo'[i].at \in Paths
  <2>1. todo' \in Seq(FileTasks)
    BY <1>2 DEF Fits, FileTasks
  <2>2. \A i \in DOMAIN todo' : todo'[i] \in FileTasks
    BY <2>1
  <2> QED BY <2>2 DEF FileTasks
<1>5. FilesTypeOK'
  BY <1>1, <1>3, <1>4 DEF FilesInv, FilesTypeOK
<1>6. CallsStayInPlace'
  BY <1>1, <1>2 DEF CallsStayInPlace, Idle
<1>7. RenameKeepsSource'
  BY <1>1 DEF RenameKeepsSource, Survives
<1> QED BY <1>1, <1>2, <1>5, <1>6, <1>7 DEF FilesInv, Renaming, IsFile

\* The paths a call may touch.
InPlace(p) == Under(p, call.at) \/ (call.op = "rename" /\ Under(p, call.to))

\* A task of a call that touches no other path, tells no lie of a removed
\* directory and leaves a renamed file at one of its names.
LEMMA TaskKeeps ==
  ASSUME FilesInv, ~Idle, UNCHANGED <<fbackend, session, call, was>>, Fits(todo'),
         node' \in ServerTrees, unheard' \in BOOLEAN, unheard => unheard',
         reply' \in {"none", "ok", "there", "absent", "error", "unsupported"},
         \A p \in Paths : node'[p] # node[p] => InPlace(p),
         todo' = <<>> /\ call.op = "remove_dir" /\ reply' = "ok" => node'[call.at] = "absent",
         Renaming' => /\ was[call.at] \in {node'[call.at], node'[call.to]}
                      /\ todo' # <<>> => node'[call.at] = was[call.at]
  PROVE  FilesInv'
<1>1. Fits(todo)'
  BY StillFits
<1>2. \A i \in DOMAIN todo' : todo'[i].at \in Paths
  <2>1. todo' \in Seq(FileTasks)
    BY DEF Fits
  <2>2. \A i \in DOMAIN todo' : todo'[i] \in FileTasks
    BY <2>1
  <2> QED BY <2>2 DEF FileTasks
<1>3. {linked, flagged, unheard}' \subseteq BOOLEAN
  <2>1. linked \in BOOLEAN /\ flagged \in BOOLEAN
    BY Zenon DEF FilesInv, FilesTypeOK
  <2>2. linked' = linked /\ flagged' = flagged
    BY DEF session
  <2> QED BY <2>1, <2>2, Zenon
<1>4. FilesTypeOK'
  BY <1>2, <1>3 DEF FilesInv, FilesTypeOK, ServerTrees
<1>5. CallsStayInPlace'
  BY DEF FilesInv, CallsStayInPlace, InPlace, Idle
<1>6. RenameKeepsSource'
  BY DEF RenameKeepsSource, Renaming, Survives
<1>7. Renaming' => Renaming
  BY Zenon DEF Renaming
<1> QED BY <1>1, <1>4, <1>5, <1>6, <1>7 DEF FilesInv, Idle

\* Most tasks touch nothing but what is at their own path or under it.
LEMMA QuietTaskKeeps ==
  ASSUME FilesInv, ~Idle, UNCHANGED <<fbackend, session, call, was>>, Fits(todo'),
         node' \in ServerTrees, unheard' \in BOOLEAN, unheard => unheard',
         reply' \in {"none", "ok", "there", "absent", "error", "unsupported"},
         node' = node \/ (~Moving /\ \A p \in Paths : node'[p] # node[p] => Under(p, Here)),
         todo' = <<>> /\ call.op = "remove_dir" /\ reply' = "ok" => node'[call.at] = "absent"
  PROVE  FilesInv'
<1>1. Fits(todo) /\ call \in Calls
  BY DEF FilesInv, Idle
<1>2. Head(todo) \in FileTasks /\ Here \in Paths
  BY <1>1, RestFits DEF FileTasks, Here
<1>3. call.at \in Paths /\ (call.op = "rename" => call.to \in Paths)
  BY <1>1 DEF Calls
<1>4. CASE node' = node
  <2>1. Renaming' => node[call.at] = was[call.at]
    BY Zenon DEF FilesInv, Renaming, Idle
  <2> QED BY <1>4, <2>1, TaskKeeps
<1>5. CASE ~Moving /\ \A p \in Paths : node'[p] # node[p] => Under(p, Here)
  <2>1. Head(todo).do # "move" /\ Head(todo).do # "tryMove"
    BY <1>5 DEF Moving, Now
  <2>2. call.op = "rename" => Under(Here, call.to)
    BY <1>1, <2>1, FirstOf DEF MoveTasks, ClearingTasks, Here
  <2>3. call.op # "rename" => Under(Here, call.at)
    <3>1. Under(call.at, call.at)
      BY <1>3, UnderItself
    <3> QED BY <1>1, <3>1, FirstOf DEF RemovalTasks, PlainTasks, Here
  <2>4. \A p \in Paths : node'[p] # node[p] => IF call.op = "rename" THEN Under(p, call.to)
                                               ELSE Under(p, call.at)
    BY <1>2, <1>3, <1>5, <2>2, <2>3, UnderAll
  <2>5. Renaming' => node[call.at] = was[call.at] /\ call.op = "rename"
        /\ ~Under(call.at, call.to)
    BY Zenon DEF FilesInv, Renaming, Idle
  <2>6. Renaming' => node'[call.at] = was[call.at]
    BY <1>3, <2>4, <2>5
  <2>7. \A p \in Paths : node'[p] # node[p] => InPlace(p)
    BY <2>4 DEF InPlace
  <2> QED BY <2>6, <2>7, TaskKeeps
<1> QED BY <1>4, <1>5

(* Each task. *)

\* The first task is not one of these.
LEMMA NoSuchTask ==
  ASSUME FilesInv, ~Idle
  PROVE  /\ call.op = "remove_dir" => Now("clear") \/ Now("rm") \/ Now("rmdir")
         /\ call.op = "rename" /\ Now("clear") => fbackend = "smb"
         /\ call.op = "rename" /\ Tail(todo) = <<>> => Moving
         /\ Moving => call.op = "rename" /\ Here = call.at /\ There = call.to
            /\ Tail(todo) = <<>>
         /\ Now("tryMove") => fbackend = "ftp"
         /\ call \in Calls /\ Here \in Paths /\ call.at \in Paths
         /\ call.op = "rename" => call.to \in Paths
<1>1. Fits(todo) /\ call \in Calls
  BY DEF FilesInv, Idle
<1>2. Head(todo) \in FileTasks /\ Here \in Paths
  BY <1>1, RestFits DEF FileTasks, Here
<1>3. call.op = "remove_dir" => Head(todo) \in RemovalTasks
  BY <1>1, FirstOf
<1>4. call.op = "rename" => IF Tail(todo) = <<>> THEN Head(todo) \in MoveTasks
                            ELSE Head(todo) \in ClearingTasks
  BY <1>1, FirstOf
<1>5. call.op \notin {"remove_dir", "rename"} => Head(todo) \in PlainTasks
  BY <1>1, FirstOf
<1>6. call.op = "remove_dir" => Now("clear") \/ Now("rm") \/ Now("rmdir")
  BY <1>3 DEF RemovalTasks, Now
<1>7. call.op = "rename" /\ Now("clear") => fbackend = "smb"
  BY <1>4 DEF MoveTasks, ClearingTasks, Now
<1>8. call.op = "rename" /\ Tail(todo) = <<>> => Moving
  BY <1>4 DEF MoveTasks, Moving, Now
<1>9. Moving => call.op = "rename" /\ Here = call.at /\ There = call.to /\ Tail(todo) = <<>>
  BY <1>3, <1>4, <1>5 DEF RemovalTasks, PlainTasks, MoveTasks, ClearingTasks, Moving, Now,
    Here, There
<1>10. Now("tryMove") => fbackend = "ftp"
  BY <1>3, <1>4, <1>5 DEF RemovalTasks, PlainTasks, MoveTasks, ClearingTasks, Now
<1>11. call.at \in Paths /\ (call.op = "rename" => call.to \in Paths)
  BY <1>1 DEF Calls
<1> QED BY <1>1, <1>2, <1>6, <1>7, <1>8, <1>9, <1>10, <1>11

LEMMA AnswersKeep ==
  ASSUME FilesInv, MakeDir \/ SetAttributes \/ ListDir \/ Exists \/ Stat \/ SeekTarget
  PROVE  FilesInv'
<1>1. ~Idle /\ ~Moving /\ call.op # "remove_dir"
  <2>1. ~Idle /\ ~(Now("clear") \/ Now("rm") \/ Now("rmdir") \/ Moving)
    BY DEF MakeDir, SetAttributes, ListDir, Exists, Stat, SeekTarget, Now, Moving
  <2> QED BY <2>1, NoSuchTask
<1>2. Fits(todo) /\ Here \in Paths /\ unheard \in BOOLEAN /\ node \in ServerTrees
  <2>1. unheard \in BOOLEAN
    BY Zenon DEF FilesInv, FilesTypeOK
  <2> QED BY <1>1, <2>1, NoSuchTask DEF FilesInv, FilesTypeOK
<1>3. Fits(todo') /\ UNCHANGED <<fbackend, session, call, was, unheard>>
      /\ reply' \in {"none", "ok", "there", "absent", "error", "unsupported"}
  BY <1>1, <1>2, RestFits, NothingFits
     DEF MakeDir, SetAttributes, ListDir, Exists, Stat, SeekTarget, GoOn, Done, Fail, Looks
<1>4. node' \in ServerTrees /\ \A p \in Paths : node'[p] # node[p] => p = Here
  BY <1>2 DEF MakeDir, SetAttributes, ListDir, Exists, Stat, SeekTarget, Looks, ServerTrees
<1>5. Under(Here, Here)
  BY <1>2, UnderItself
<1>6. \A p \in Paths : node'[p] # node[p] => Under(p, Here)
  BY <1>4, <1>5
<1> QED BY <1>1, <1>2, <1>3, <1>4, <1>6, QuietTaskKeeps

LEMMA RemovalKeeps ==
  ASSUME FilesInv, RemoveFile \/ RemoveEmpty
  PROVE  FilesInv'
<1>1. ~Idle /\ ~Moving /\ todo' = Tail(todo)
  BY DEF RemoveFile, RemoveEmpty, Now, Moving, Done, GoOn
<1>2. Fits(todo) /\ Here \in Paths /\ unheard \in BOOLEAN /\ node \in ServerTrees
  <2>1. unheard \in BOOLEAN
    BY Zenon DEF FilesInv, FilesTypeOK
  <2> QED BY <1>1, <2>1, NoSuchTask DEF FilesInv, FilesTypeOK
<1>3. UNCHANGED <<fbackend, session, call, was, unheard>>
      /\ reply' \in {"none", "ok", "there", "absent", "error", "unsupported"}
  BY DEF RemoveFile, RemoveEmpty, GoOn, Done
<1>4. Under(Here, Here)
  BY <1>2, UnderItself
<1>5. \/ node' = node /\ node[Here] = "absent"
      \/ node' = Without({Here})
      \/ node' = Without({p \in Paths : Under(p, Here)})
  BY DEF RemoveFile, RemoveEmpty
<1>6. node' \in ServerTrees /\ node'[Here] = "absent"
      /\ \A p \in Paths : node'[p] # node[p] => Under(p, Here)
  BY <1>2, <1>4, <1>5 DEF Without, ServerTrees
<1>7. todo' = <<>> /\ call.op = "remove_dir" => node'[call.at] = "absent"
  BY <1>1, <1>2, <1>6, FirstOf
<1>8. Fits(todo')
  BY <1>1, <1>2, RestFits
<1> QED BY <1>1, <1>2, <1>3, <1>6, <1>7, <1>8, QuietTaskKeeps

LEMMA TasksOf == RemovalTasks \subseteq FileTasks /\ ClearingTasks \subseteq FileTasks
BY DEF RemovalTasks, ClearingTasks, FileTasks, FileDos

\* A directory's own removal, after that of what is in it.
LEMMA RemovalEnds ==
  ASSUME NEW u \in Seq(RemovalTasks), NEW r \in Seq(RemovalTasks), Here \in Paths,
         Under(Here, call.at),
         r = <<>> => Here = call.at,
         r # <<>> => r[Len(r)].at = call.at /\ r[Len(r)].do = "rmdir"
  PROVE  RemovalFits(u \o One("rmdir", Here) \o r) /\ u \o One("rmdir", Here) \o r # <<>>
<1> DEFINE o == One("rmdir", Here)
<1>1. /\ o \in Seq(RemovalTasks) /\ o # <<>> /\ o[Len(o)].do = "rmdir" /\ o[Len(o)].at = Here
  <2>1. o \in Seq(RemovalTasks)
    <3>1. [do : {"rmdir"}, at : {Here}, to : {NoPath}] \subseteq RemovalTasks
      BY DEF RemovalTasks
    <3>2. o \in Seq([do : {"rmdir"}, at : {Here}, to : {NoPath}])
      BY OneIs, Zenon
    <3> QED BY <3>1, <3>2, SeqOfMore, Zenon
  <2>2. o # <<>> /\ Len(o) = 1 /\ o[1] = [do |-> "rmdir", at |-> Here, to |-> NoPath]
    BY OneIs, Zenon
  <2> HIDE DEF o
  <2> QED BY <2>1, <2>2
<1> HIDE DEF o
<1>2. /\ u \o o \in Seq(RemovalTasks) /\ u \o o # <<>> /\ (u \o o)[Len(u \o o)] = o[Len(o)]
  BY <1>1, JoinedIs
<1>3. CASE r = <<>>
  <2>1. (u \o o) \o r = u \o o
    BY <1>2, <1>3, ConcatEmptySeq
  <2> QED BY <1>1, <1>2, <1>3, <2>1 DEF RemovalFits, o
<1>4. CASE r # <<>>
  <2>1. /\ (u \o o) \o r \in Seq(RemovalTasks) /\ (u \o o) \o r # <<>>
        /\ ((u \o o) \o r)[Len((u \o o) \o r)] = r[Len(r)]
    BY <1>2, <1>4, JoinedIs
  <2> QED BY <1>4, <2>1 DEF RemovalFits, o
<1> QED BY <1>3, <1>4

\* What is cleared of a directory that is being removed.
LEMMA ClearedRemoval ==
  ASSUME FilesInv, Now("clear"), call.op = "remove_dir",
         NEW files \in SUBSET Paths, NEW dirs \in SUBSET Paths,
         \A p \in files \cup dirs : Under(p, Here)
  PROVE  Fits(Cleared(files, dirs, Tail(todo))) /\ Cleared(files, dirs, Tail(todo)) # <<>>
<1> DEFINE r == Tail(todo)
<1>1. ~Idle /\ Fits(todo)
  BY DEF Now, FilesInv
<1>2. /\ Fits(r) /\ RemovalFits(r) /\ r \in Seq(RemovalTasks)
      /\ Head(todo) \in RemovalTasks /\ (r = <<>> => Here = call.at)
      /\ Here \in Paths /\ Under(Here, call.at) /\ call.at \in Paths
  <2>1. Fits(r) /\ RemovalFits(r) /\ r \in Seq(RemovalTasks)
    BY <1>1, RestFits DEF Fits, RemovalFits
  <2>2. Head(todo) \in RemovalTasks /\ (r = <<>> => Here = call.at)
    BY <1>1, FirstOf
  <2>3. Here \in Paths /\ Under(Here, call.at)
    BY <2>2 DEF RemovalTasks, Here
  <2> QED BY <1>1, <2>1, <2>2, <2>3, NoSuchTask
<1>3. r # <<>> => r[Len(r)].at = call.at /\ r[Len(r)].do = "rmdir"
  <2>1. RemovalFits(todo) /\ todo # <<>> /\ todo \in Seq(RemovalTasks)
    BY <1>1 DEF Fits, Idle, RemovalFits
  <2>2. r # <<>> => r[Len(r)] = todo[Len(todo)] /\ Len(todo) # 1
    BY <2>1, FirstTaskIs
  <2> QED BY <2>1, <2>2 DEF RemovalFits
<1>4. ASSUME NEW S \in SUBSET Paths, \A p \in S : Under(p, Here), NEW do \in {"rm", "clear"}
      PROVE  Tasks(do, S) \in Seq(RemovalTasks)
  <2>1. \A p \in S : Under(p, call.at)
    BY <1>2, <1>4, UnderAll
  <2>2. [do : {do}, at : S, to : {NoPath}] \subseteq RemovalTasks
    BY <2>1 DEF RemovalTasks
  <2>3. Tasks(do, S) \in Seq([do : {do}, at : S, to : {NoPath}])
    BY TasksAre, Zenon
  <2> QED BY <2>2, <2>3, SeqOfMore, Zenon
<1> DEFINE fileTasks == Tasks("rm", files)
           dirTasks == Tasks("clear", dirs)
           q == Are("rmdir", r)
           c == Are("clear", r)
           m == Are("rm", r)
<1>5. fileTasks \in Seq(RemovalTasks) /\ dirTasks \in Seq(RemovalTasks)
  BY <1>4
<1>6. c \in Seq(RemovalTasks) /\ m \in Seq(RemovalTasks) /\ q \in Seq(RemovalTasks)
  <2>1. ASSUME NEW do \in {"clear", "rm", "rmdir"} PROVE Are(do, r) \in Seq(RemovalTasks)
    <3> HIDE DEF r
    <3>0. r \in Seq(RemovalTasks)
      BY <1>2
    <3>1. Are(do, r) \in Seq({t \in RemovalTasks : t.do = do})
      BY <3>0, AreIs
    <3>2. {t \in RemovalTasks : t.do = do} \subseteq RemovalTasks
      OBVIOUS
    <3> QED BY <3>1, <3>2, SeqOfMore
  <2> QED BY <2>1
<1>7. /\ q = <<>> => Here = call.at
      /\ q # <<>> => q[Len(q)].at = call.at /\ q[Len(q)].do = "rmdir"
  <2>1. CASE r = <<>>
    <3>1. r \in Seq({})
      BY <2>1, EmptySeq, Zenon
    <3>2. q \in Seq({t \in {} : t.do = "rmdir"})
      BY <3>1, AreIs
    <3>3. q = <<>>
      BY <3>2
    <3> QED BY <1>2, <2>1, <3>3
  <2>2. CASE r # <<>>
    <3>1. q # <<>> /\ q[Len(q)] = r[Len(r)]
      BY <1>2, <1>3, <2>2, AreIs
    <3> QED BY <1>3, <2>2, <3>1
  <2> QED BY <2>1, <2>2
<1> DEFINE o == One("rmdir", Here)
<1>8. EachInTurn(files, dirs, r) = fileTasks \o dirTasks \o o \o r
  BY DEF EachInTurn
<1>9. LevelByLevel(files, dirs, r) = fileTasks \o c \o dirTasks \o o \o q
  BY DEF LevelByLevel
<1>10. ListedFirst(files, dirs, r) = c \o dirTasks \o m \o fileTasks \o o \o q
  BY DEF ListedFirst
<1> HIDE DEF fileTasks, dirTasks, q, c, m, r
<1>11. fileTasks \o dirTasks \in Seq(RemovalTasks)
       /\ fileTasks \o c \o dirTasks \in Seq(RemovalTasks)
       /\ c \o dirTasks \o m \o fileTasks \in Seq(RemovalTasks)
  BY <1>5, <1>6
<1>12. RemovalFits(fileTasks \o dirTasks \o o \o r) /\ fileTasks \o dirTasks \o o \o r # <<>>
  BY <1>2, <1>3, <1>11, RemovalEnds
<1>13. RemovalFits(fileTasks \o c \o dirTasks \o o \o q)
       /\ fileTasks \o c \o dirTasks \o o \o q # <<>>
  BY <1>2, <1>6, <1>7, <1>11, RemovalEnds
<1>14. RemovalFits(c \o dirTasks \o m \o fileTasks \o o \o q)
       /\ c \o dirTasks \o m \o fileTasks \o o \o q # <<>>
  BY <1>2, <1>6, <1>7, <1>11, RemovalEnds
<1>15. Cleared(files, dirs, r) \in {EachInTurn(files, dirs, r), LevelByLevel(files, dirs, r),
       ListedFirst(files, dirs, r)}
  BY Zenon DEF Cleared
<1>16. RemovalFits(Cleared(files, dirs, r)) /\ Cleared(files, dirs, r) # <<>>
  BY <1>8, <1>9, <1>10, <1>12, <1>13, <1>14, <1>15
<1>17. Cleared(files, dirs, r) \in Seq(FileTasks)
  BY <1>16, TasksOf, SeqOfMore DEF RemovalFits
<1> QED BY <1>16, <1>17 DEF Fits, r

\* What is put before the move of a rename.
LEMMA RenameAhead ==
  ASSUME FilesInv, ~Idle, ~Moving, call.op = "rename", NEW u \in Seq(ClearingTasks)
  PROVE  Fits(u \o Tail(todo)) /\ u \o Tail(todo) # <<>>
<1> DEFINE r == Tail(todo)
<1>1. Fits(r) /\ RenameFits(r) /\ r \in Seq(FileTasks)
  BY RestFits DEF FilesInv, Fits
<1>2. r # <<>>
  BY NoSuchTask
<1> HIDE DEF r
<1>3. RenameFits(u \o r)
  BY <1>1, <1>2, TasksOf, RenameGrows
<1>4. u \in Seq(FileTasks)
  BY TasksOf, SeqOfMore
<1>5. u \o r \in Seq(FileTasks) /\ u \o r # <<>>
  BY <1>1, <1>2, <1>4, JoinedIs
<1> QED BY <1>3, <1>5 DEF Fits, r

\* The target of a rename and what is under it, as tasks of their own.
LEMMA ClearingAre ==
  ASSUME FilesInv, ~Idle, ~Moving, call.op = "rename",
         NEW do \in {"rm", "rmdir"} \cup (IF fbackend = "smb" THEN {"clear"} ELSE {}),
         NEW S \in SUBSET Paths, \A p \in S : Under(p, Here)
  PROVE  Tasks(do, S) \in Seq(ClearingTasks) /\ One(do, Here) \in Seq(ClearingTasks)
<1>1. Fits(todo) /\ Tail(todo) # <<>> /\ call.to \in Paths
  BY NoSuchTask DEF FilesInv
<1>2. Here \in Paths /\ Under(Here, call.to)
  BY <1>1, FirstOf DEF ClearingTasks, Here
<1>3. \A p \in S : Under(p, call.to)
  BY <1>1, <1>2, UnderAll
<1>4. /\ [do : {do}, at : S, to : {NoPath}] \subseteq ClearingTasks
      /\ [do : {do}, at : {Here}, to : {NoPath}] \subseteq ClearingTasks
  BY <1>2, <1>3 DEF ClearingTasks
<1>5. Tasks(do, S) \in Seq([do : {do}, at : S, to : {NoPath}])
  BY TasksAre, Zenon
<1>6. One(do, Here) \in Seq([do : {do}, at : {Here}, to : {NoPath}])
  BY OneIs, Zenon
<1> QED BY <1>4, <1>5, <1>6, SeqOfMore, Zenon

LEMMA ClearDirKeeps ==
  ASSUME FilesInv, ClearDir
  PROVE  FilesInv'
<1>1. ~Idle /\ ~Moving /\ Now("clear") /\ UNCHANGED <<node, unheard>>
  BY DEF ClearDir, Now, Moving, Looks
<1>2. unheard \in BOOLEAN /\ node \in ServerTrees
  <2>1. unheard \in BOOLEAN
    BY Zenon DEF FilesInv, FilesTypeOK
  <2> QED BY <2>1 DEF FilesInv, FilesTypeOK
<1>3. CASE Fail
  <2>1. UNCHANGED <<fbackend, session, call, was>> /\ todo' = <<>> /\ reply' = "error"
    BY <1>3 DEF Fail, GoOn
  <2> QED BY <1>1, <1>2, <2>1, NothingFits, QuietTaskKeeps
<1>4. ASSUME NEW seen \in Listings(Here),
             GoOn(Cleared(seen \ {p \in seen : node[p] = "dir"},
               {p \in seen : node[p] = "dir"}, Tail(todo)), "ok")
      PROVE  FilesInv'
  <2> DEFINE dirs == {p \in seen : node[p] = "dir"}
             files == seen \ dirs
  <2>1. files \in SUBSET Paths /\ dirs \in SUBSET Paths
        /\ \A p \in files \cup dirs : Under(p, Here)
    <3>1. seen \subseteq Children(Here)
      BY <1>4 DEF Listings
    <3> QED BY <3>1 DEF Children
  <2>2. UNCHANGED <<fbackend, session, call, was>> /\ todo' = Cleared(files, dirs, Tail(todo))
        /\ reply' \in {"ok", "none"}
    BY <1>4 DEF GoOn
  <2> HIDE DEF files, dirs
  <2>3. Fits(todo') /\ todo' # <<>>
    <3>1. CASE call.op = "remove_dir"
      BY <1>1, <2>1, <2>2, <3>1, ClearedRemoval
    <3>2. CASE call.op = "rename"
      <4>1. fbackend = "smb"
        BY <1>1, <3>2, NoSuchTask
      <4>2. Tasks("rm", files) \in Seq(ClearingTasks)
            /\ Tasks("clear", dirs) \in Seq(ClearingTasks)
            /\ One("rmdir", Here) \in Seq(ClearingTasks)
        BY <1>1, <2>1, <3>2, <4>1, ClearingAre
      <4>3. Tasks("rm", files) \o Tasks("clear", dirs) \o One("rmdir", Here)
            \in Seq(ClearingTasks)
        BY <4>2
      <4>4. todo' = Tasks("rm", files) \o Tasks("clear", dirs) \o One("rmdir",
            Here) \o Tail(todo)
        BY <2>2, <4>1 DEF Cleared, EachInTurn
      <4> QED BY <1>1, <3>2, <4>3, <4>4, RenameAhead
    <3>3. CASE call.op \notin {"remove_dir", "rename"}
      BY <1>1, <3>3, FirstOf DEF FilesInv, PlainTasks, Now
    <3> QED BY <3>1, <3>2, <3>3
  <2> QED BY <1>1, <1>2, <2>2, <2>3, QuietTaskKeeps
<1>5. \/ Fail
      \/ \E seen \in Listings(Here) :
           GoOn(Cleared(seen \ {p \in seen : node[p] = "dir"}, {p \in seen : node[p] = "dir"},
             Tail(todo)), "ok")
  BY Zenon DEF ClearDir
<1> QED BY <1>3, <1>4, <1>5, Zenon

LEMMA LookKeeps ==
  ASSUME FilesInv, LookAtTarget
  PROVE  FilesInv'
<1>1. ~Idle /\ ~Moving /\ Now("look") /\ UNCHANGED <<node, unheard>>
  BY DEF LookAtTarget, Now, Moving, Looks
<1>2. unheard \in BOOLEAN /\ node \in ServerTrees
  <2>1. unheard \in BOOLEAN
    BY Zenon DEF FilesInv, FilesTypeOK
  <2> QED BY <2>1 DEF FilesInv, FilesTypeOK
<1>3. call.op = "rename"
  BY <1>1, FirstOf DEF FilesInv, PlainTasks, RemovalTasks, Now
<1>4. PICK u : /\ GoOn(u \o Tail(todo), "ok")
               /\ \/ u = <<>> \/ u = One("rm", Here)
                     \/ (fbackend = "smb" /\ u = One("clear", Here))
                  \/ u = One("rmdir", Here)
  BY DEF LookAtTarget
<1>5. u \in Seq(ClearingTasks)
  <2>1. One("rm", Here) \in Seq(ClearingTasks) /\ One("rmdir", Here) \in Seq(ClearingTasks)
        /\ (fbackend = "smb" => One("clear", Here) \in Seq(ClearingTasks))
    <3> DEFINE none == {p \in Paths : FALSE}
    <3>1. none \in SUBSET Paths /\ \A p \in none : Under(p, Here)
      OBVIOUS
    <3> HIDE DEF none
    <3> QED BY <1>1, <1>3, <3>1, ClearingAre
  <2>2. <<>> \in Seq(ClearingTasks)
    BY EmptySeq
  <2> QED BY <1>4, <2>1, <2>2
<1>6. UNCHANGED <<fbackend, session, call, was>> /\ todo' = u \o Tail(todo)
      /\ reply' \in {"ok", "none"}
  BY <1>4 DEF GoOn
<1>7. Fits(todo')
  BY <1>1, <1>3, <1>5, <1>6, RenameAhead
<1> QED BY <1>1, <1>2, <1>3, <1>6, <1>7, QuietTaskKeeps

\* A move takes what is at the old name to the new one.
LEMMA MovedIs ==
  ASSUME FilesInv, ~Idle, Moving, CanMove, node' = Moved
  PROVE  /\ node' \in ServerTrees
         /\ \A p \in Paths : node'[p] # node[p] => InPlace(p)
         /\ Renaming => node'[call.to] = was[call.at]
<1>1. /\ call.op = "rename" /\ Here = call.at /\ There = call.to
      /\ call.at \in Paths /\ call.to \in Paths
  BY NoSuchTask
<1>2. node \in ServerTrees
  BY DEF FilesInv, FilesTypeOK
<1>3. node' \in ServerTrees
  BY <1>1, <1>2 DEF Moved, ServerTrees
<1>4. Under(call.at, call.at) /\ Under(call.to, call.to)
  BY <1>1, UnderItself
<1>5. ASSUME NEW p \in Paths, node'[p] # node[p] PROVE InPlace(p)
  <2>1. p = There \/ p = Here \/ Under(p, There)
    BY <1>5 DEF Moved
  <2> QED BY <1>1, <1>4, <2>1 DEF InPlace
<1>6. node'[call.to] = node[call.at]
  <2>1. There \in Paths
    BY <1>1
  <2>2. Moved[There] = node[Here]
    BY <2>1 DEF Moved
  <2> QED BY <1>1, <2>2
<1>7. Renaming => node[call.at] = was[call.at]
  BY Zenon DEF FilesInv, Idle
<1> QED BY <1>3, <1>5, <1>6, <1>7

LEMMA MoveKeeps ==
  ASSUME FilesInv, Move \/ (TaskFails /\ Now("move") /\ CanMove /\ node' = Moved
    /\ unheard' = TRUE)
  PROVE  FilesInv'
<1>1. ~Idle /\ Moving /\ CanMove /\ node' = Moved
  BY DEF Move, TaskFails, Moving, Now
<1>2. /\ node' \in ServerTrees
      /\ \A p \in Paths : node'[p] # node[p] => InPlace(p)
      /\ Renaming => node'[call.to] = was[call.at]
  BY <1>1, MovedIs
<1>3. call.op = "rename" /\ Tail(todo) = <<>>
  BY <1>1, NoSuchTask
<1>4. UNCHANGED <<fbackend, session, call, was>> /\ todo' = <<>>
      /\ reply' \in {"ok", "none", "error"}
  BY <1>3 DEF Move, TaskFails, Done, Fail, GoOn
<1>5. unheard' \in BOOLEAN /\ (unheard => unheard')
  <2>1. unheard' = unheard \/ unheard' = TRUE
    BY Zenon DEF Move, Done
  <2>2. unheard \in BOOLEAN
    BY Zenon DEF FilesInv, FilesTypeOK
  <2>3. CASE unheard' = unheard
    BY <2>2, <2>3
  <2>4. CASE unheard' = TRUE
    BY <2>4
  <2> QED BY <2>1, <2>3, <2>4
<1>6. Renaming' => was[call.at] \in {node'[call.at], node'[call.to]}
  BY <1>2, <1>4, <1>5 DEF Renaming
<1>7. Fits(todo')
  BY <1>4, NothingFits
<1> QED BY <1>1, <1>2, <1>3, <1>4, <1>5, <1>6, <1>7, TaskKeeps

LEMMA TryAgainKeeps ==
  ASSUME FilesInv, TryAgain
  PROVE  FilesInv'
<1>1. ~Idle /\ Moving /\ Now("tryMove") /\ UNCHANGED <<fbackend, session, call, was>>
  BY DEF TryAgain, Moving, Now, GoOn
<1>2. /\ call.op = "rename" /\ Here = call.at /\ There = call.to /\ fbackend = "ftp"
      /\ call.at \in Paths /\ call.to \in Paths
  BY <1>1, NoSuchTask
<1>3. /\ Retry(Here, There) = <<[do |-> "tryRm", at |-> There, to |-> NoPath],
                                [do |-> "move", at |-> Here, to |-> There]>>
  <2>1. Retry(Here, There) = <<Task("tryRm", There, NoPath)>> \o <<Task("move", Here, There)>>
    BY DEF Retry, One
  <2>2. Retry(Here, There) = <<Task("tryRm", There, NoPath), Task("move", Here, There)>>
    BY <2>1, TwoJoined
  <2> QED BY <2>2 DEF Task
<1> DEFINE a == [do |-> "tryRm", at |-> There, to |-> NoPath]
           b == [do |-> "move", at |-> Here, to |-> There]
<1>4. /\ todo' = <<a, b>> /\ reply' = "none"
  <2>1. todo' = <<a, b>> /\ reply' = IF <<a, b>> = <<>> THEN "ok" ELSE "none"
    BY <1>3 DEF TryAgain, GoOn
  <2> QED BY <2>1
<1>5. a \in FileTasks /\ b \in FileTasks /\ a \in ClearingTasks /\ b \in MoveTasks
  <2>1. Under(There, call.to)
    BY <1>2, UnderItself
  <2> QED BY <1>2, <2>1 DEF FileTasks, FileDos, ClearingTasks, MoveTasks
<1> HIDE DEF a, b
<1>6. Fits(todo')
  <2>1. todo' \in Seq(FileTasks)
    BY <1>4, <1>5
  <2>2. RenameFits(todo')
    BY <1>4, <1>5 DEF RenameFits
  <2> QED BY <1>2, <2>1, <2>2 DEF Fits
<1>7. unheard \in BOOLEAN /\ node \in ServerTrees
  <2>1. unheard \in BOOLEAN
    BY Zenon DEF FilesInv, FilesTypeOK
  <2> QED BY <2>1 DEF FilesInv, FilesTypeOK
<1>8. todo' # <<>>
  BY <1>4
<1>9. CASE UNCHANGED <<node, unheard>>
  BY <1>1, <1>2, <1>4, <1>6, <1>7, <1>9, QuietTaskKeeps
<1>10. CASE CanMove /\ node' = Moved /\ unheard' = TRUE
  <2>1. /\ node' \in ServerTrees /\ \A p \in Paths : node'[p] # node[p] => InPlace(p)
    BY <1>1, <1>10, MovedIs
  <2>2. ~Renaming'
    BY <1>1, <1>2, <1>10 DEF Renaming
  <2> QED BY <1>1, <1>2, <1>4, <1>6, <1>10, <2>1, <2>2, TaskKeeps
<1> QED BY <1>9, <1>10, Zenon DEF TryAgain

LEMMA TryRemoveKeeps ==
  ASSUME FilesInv, TryRemove \/ (TaskFails
    /\ ~(Now("move") /\ CanMove /\ node' = Moved /\ unheard' = TRUE))
  PROVE  FilesInv'
<1>1. ~Idle /\ UNCHANGED <<fbackend, session, call, was>> /\ (TryRemove => Now("tryRm"))
  BY DEF TryRemove, TaskFails, Done, Fail, GoOn, Now
<1>2. Fits(todo) /\ Here \in Paths /\ unheard \in BOOLEAN /\ node \in ServerTrees
  <2>1. unheard \in BOOLEAN
    BY Zenon DEF FilesInv, FilesTypeOK
  <2> QED BY <1>1, <2>1, NoSuchTask DEF FilesInv, FilesTypeOK
<1>3. Fits(todo')
  BY <1>1, <1>2, RestFits, NothingFits DEF TryRemove, TaskFails, Done, Fail, GoOn
<1>4. reply' \in {"none", "ok", "error"} /\ unheard' \in BOOLEAN /\ (unheard => unheard')
  <2>1. unheard' = unheard \/ unheard' = TRUE
    BY Zenon DEF TryRemove, TaskFails, Done
  <2> QED BY <1>2, <2>1 DEF TryRemove, TaskFails, Done, Fail, GoOn
<1>5. node' = node \/ (~Moving /\ node' = Without({Here}))
  BY Zenon DEF TryRemove, TaskFails, Moving, Now
<1>6. Under(Here, Here)
  BY <1>2, UnderItself
<1>7. node' = node \/ (~Moving /\ \A p \in Paths : node'[p] # node[p] => Under(p, Here))
  BY <1>5, <1>6 DEF Without
<1>8. node' \in ServerTrees
  BY <1>2, <1>5 DEF Without, ServerTrees
<1>9. todo' = <<>> /\ call.op = "remove_dir" /\ reply' = "ok" => node'[call.at] = "absent"
  <2>1. call.op = "remove_dir" => ~Now("tryRm")
    BY <1>1, NoSuchTask DEF Now
  <2>2. TaskFails => reply' = "error"
    BY DEF TaskFails, Fail, GoOn
  <2> QED BY <1>1, <2>1, <2>2
<1> QED BY <1>1, <1>2, <1>3, <1>4, <1>7, <1>8, <1>9, QuietTaskKeeps

LEMMA OthersKeep ==
  ASSUME FilesInv, NEW p \in Paths, OtherCreates(p)
  PROVE  FilesInv'
<1>1. /\ ~Idle /\ node[p] = "absent" /\ UNCHANGED <<fbackend, linked, flagged, call, todo,
         reply, unheard>>
      /\ node' = [node EXCEPT ![p] = "theirs"] /\ was' = [was EXCEPT ![p] = "theirs"]
  BY DEF OtherCreates, session
<1>2. node \in ServerTrees /\ was \in ServerTrees /\ call \in Calls
  BY <1>1 DEF FilesInv, FilesTypeOK, Idle
<1>3. {linked, flagged, unheard}' \subseteq BOOLEAN
  BY <1>1, Zenon DEF FilesInv, FilesTypeOK
<1>4. node' \in ServerTrees /\ was' \in ServerTrees
  BY <1>1, <1>2 DEF ServerTrees, Contents
<1>5. FilesTypeOK'
  BY <1>1, <1>3, <1>4 DEF FilesInv, FilesTypeOK
<1>6. \A q \in Paths : node'[q] # was'[q] => node[q] # was[q]
  BY <1>1, <1>2 DEF ServerTrees
<1>7. CallsStayInPlace'
  BY <1>1, <1>6 DEF FilesInv, CallsStayInPlace, Idle
<1>8. Renaming' => node'[call.at] = was'[call.at] /\ was'[call.at] \in Contents
  <2>1. Renaming' => Renaming
    BY <1>1 DEF Renaming
  <2>2. Renaming => node[call.at] = was[call.at] /\ was[call.at] \in Contents
    BY <1>1, Zenon DEF FilesInv, Idle
  <2>3. call.at \in Paths
    BY <1>2 DEF Calls
  <2> QED BY <1>1, <1>2, <2>1, <2>2, <2>3 DEF ServerTrees, Contents
<1>9. RenameKeepsSource'
  BY <1>1, <1>8 DEF RenameKeepsSource, Renaming, Survives
<1>10. Fits(todo)'
  BY <1>1, StillFits DEF FilesInv
<1> QED BY <1>1, <1>2, <1>5, <1>7, <1>8, <1>9, <1>10 DEF FilesInv

LEMMA FilesKeep == FilesInv /\ [FilesNext]_fileVars => FilesInv'
BY Zenon, SessionKeeps, BeginKeepsFiles, AnswersKeep, RemovalKeeps, ClearDirKeeps, LookKeeps,
  MoveKeeps,
   TryAgainKeeps, TryRemoveKeeps, OthersKeep DEF FilesNext

(* A call on the server's files touches nothing but what it was given, a    *)
(* removal reported as done is done, and a renamed file is at its old or at *)
(* its new name at every moment (sftp.rs, ftp.rs, smb.rs, webdav.rs).       *)
THEOREM CallsAreSafe == FilesSpec => [](FilesTypeOK /\ CallsStayInPlace /\ RenameKeepsSource)
<1>1. FilesInv => FilesTypeOK /\ CallsStayInPlace /\ RenameKeepsSource
  BY DEF FilesInv
<1> QED BY <1>1, FilesStart, FilesKeep, PTL DEF FilesSpec

------------------------------------------------------------------------------
(* The listings.                                                           *)

(***************************************************************************)
(* The reading of a listing.                                               *)
(***************************************************************************)
ListingInv ==
  /\ listed \in [by : {"ftp", "webdav"}, has : SUBSET Entries0, dirs : SUBSET Entries0]
  /\ listed.dirs \subseteq listed.has
  /\ answers \in IF listed.by = "ftp"
                   THEN Answers(MlsdStyles, MlsdNoise) \X Answers(ListStyles, ListNoise)
                   ELSE DavAnswers0 \X {Refused}
  /\ listing \in {Uncalled, IF listed.by = "ftp" THEN ListFtp ELSE ListDav}

\* Entries that show the names S, each once.
EntryRecords == [name : Entries0, isDir : BOOLEAN]
Named(seen) == {seen[i].name : i \in DOMAIN seen}
Once(seen) == \A i, j \in DOMAIN seen : seen[i].name = seen[j].name => i = j
Shows(seen, S) == seen \in Seq(EntryRecords) /\ Once(seen) /\ Named(seen) = S

\* Names that are shown once are as many as the entries.
LEMMA OnceIsCounted ==
  ASSUME NEW T, NEW e \in Seq(T), Once(e)
  PROVE  Cardinality(Named(e)) = Len(e)
<1> DEFINE n == Len(e)
           f == [i \in 1..n |-> e[i].name]
<1>1. n \in Nat /\ DOMAIN e = 1..n
  OBVIOUS
<1> HIDE DEF n
<1>2. f \in [1..n -> Named(e)]
  BY <1>1 DEF Named
<1>3. \A i, j \in 1..n : f[i] = f[j] => i = j
  BY <1>1 DEF Once
<1>4. \A x \in Named(e) : \E i \in 1..n : f[i] = x
  BY <1>1 DEF Named
<1> HIDE DEF f
<1>5. f \in Bijection(1..n, Named(e))
  BY <1>2, <1>3, <1>4 DEF Bijection, Injection, Surjection, IsInjective
<1>6. ExistsBijection(1..n, Named(e))
  BY <1>5 DEF ExistsBijection
<1>7. Cardinality(Named(e)) = n
  BY <1>1, <1>6, FS_CountingElements
<1> QED BY <1>7 DEF n

\* The entries that were read, when they are named apart.
LEMMA EntriesAre ==
  ASSUME NEW T, NEW outcomes \in Seq(T),
         \A i \in DOMAIN outcomes : outcomes[i].is = "emitted"
           => outcomes[i].entry \in EntryRecords,
         \A i, j \in DOMAIN outcomes :
           outcomes[i].is = "emitted" /\ outcomes[j].is = "emitted"
             /\ outcomes[i].entry.name = outcomes[j].entry.name => i = j
  PROVE  Shows(EntriesOf(outcomes),
               {outcomes[i].entry.name :
                  i \in {j \in DOMAIN outcomes : outcomes[j].is = "emitted"}})
<1> DEFINE I == {i \in DOMAIN outcomes : outcomes[i].is = "emitted"}
           k == Keep(outcomes, I)
           n == Cardinality(I)
           e == [i \in DOMAIN k |-> k[i].entry]
<1>1. I \in SUBSET (1..Len(outcomes))
  OBVIOUS
<1>5. \A i \in I : outcomes[i].entry \in EntryRecords /\ i \in DOMAIN outcomes
      /\ outcomes[i].is = "emitted"
  OBVIOUS
<1>4. EntriesOf(outcomes) = e
  BY DEF EntriesOf
<1> HIDE DEF I
<1>2. /\ k \in Seq(T) /\ n \in Nat /\ Len(k) = n
      /\ \A m \in 1..n : \E i \in I : k[m] = outcomes[i]
      /\ \A i \in I : \E m \in 1..n : k[m] = outcomes[i]
  BY <1>1, KeepIs
<1>3. \A l, m \in 1..n : l # m => \E i, j \in I : i # j /\ k[l] = outcomes[i]
      /\ k[m] = outcomes[j]
  BY <1>1, KeptApart
<1>6. DOMAIN k = 1..n
  BY <1>2
<1> HIDE DEF k, n
<1>7. \A m \in 1..n : k[m].entry \in EntryRecords
  BY <1>2, <1>5
<1>8. e \in Seq(EntryRecords) /\ DOMAIN e = 1..n /\ \A m \in 1..n : e[m] = k[m].entry
  BY <1>2, <1>6, <1>7
<1> HIDE DEF e
<1>9. ASSUME NEW l \in 1..n, NEW m \in 1..n, e[l].name = e[m].name PROVE l = m
  <2>1. SUFFICES ASSUME l # m PROVE FALSE
    OBVIOUS
  <2>2. PICK i \in I, j \in I : i # j /\ k[l] = outcomes[i] /\ k[m] = outcomes[j]
    BY <1>3, <2>1
  <2>3. outcomes[i].entry.name = outcomes[j].entry.name
    BY <1>8, <1>9, <2>2
  <2> QED BY <1>5, <2>2, <2>3
<1>10. Named(e) = {outcomes[i].entry.name : i \in I}
  <2>0. Named(e) = {e[m].name : m \in 1..n}
    BY <1>8 DEF Named
  <2>1. ASSUME NEW x \in Named(e) PROVE \E i \in I : x = outcomes[i].entry.name
    <3>1. PICK m \in 1..n : x = e[m].name
      BY <2>0
    <3>2. PICK i \in I : k[m] = outcomes[i]
      BY <1>2
    <3>3. e[m] = outcomes[i].entry
      BY <1>8, <3>2
    <3> QED BY <3>1, <3>3
  <2>2. ASSUME NEW i \in I PROVE outcomes[i].entry.name \in Named(e)
    <3>1. PICK m \in 1..n : k[m] = outcomes[i]
      BY <1>2
    <3>2. e[m] = outcomes[i].entry
      BY <1>8, <3>1
    <3> QED BY <2>0, <3>2
  <2> QED BY <2>1, <2>2
<1>11. Once(e)
  BY <1>8, <1>9 DEF Once
<1> QED BY <1>4, <1>8, <1>10, <1>11 DEF Shows, I

(* The lines of an FTP listing. *)

\* What is read of the entry x.
ReadsAs(x) == {[is |-> "emitted", entry |-> Entry(x)], Unread}

\* When each entry is read or not and nothing else is, those read are shown.
LEMMA ReadAreShown ==
  ASSUME NEW T, NEW outcomes \in Seq(T), NEW n \in Nat, n <= Len(outcomes),
         NEW s \in [1..n -> Entries0],
         \A i, j \in 1..n : s[i] = s[j] => i = j,
         \A i \in 1..n : outcomes[i] \in ReadsAs(s[i]),
         \A i \in 1..Len(outcomes) : i > n => outcomes[i] = Skipped
  PROVE  Shows(EntriesOf(outcomes), {s[i] : i \in {j \in 1..n : outcomes[j].is = "emitted"}})
<1>1. DOMAIN outcomes = 1..Len(outcomes) /\ Len(outcomes) \in Nat
      /\ 1..n \subseteq 1..Len(outcomes)
  OBVIOUS
<1>2. \A i \in DOMAIN outcomes : outcomes[i].is = "emitted" => i \in 1..n
      /\ outcomes[i].entry = Entry(s[i])
  <2> SUFFICES ASSUME NEW i \in DOMAIN outcomes, outcomes[i].is = "emitted"
               PROVE  i \in 1..n /\ outcomes[i].entry = Entry(s[i])
    OBVIOUS
  <2>1. i \in 1..n
    BY <1>1 DEF Skipped
  <2> QED BY <2>1 DEF ReadsAs, Unread
<1>3. \A i \in 1..n : Entry(s[i]) \in EntryRecords /\ Entry(s[i]).name = s[i]
  BY DEF Entry, EntryRecords
<1>4. \A i \in DOMAIN outcomes : outcomes[i].is = "emitted"
      => outcomes[i].entry \in EntryRecords
  BY <1>2, <1>3
<1>5. \A i, j \in DOMAIN outcomes :
        outcomes[i].is = "emitted" /\ outcomes[j].is = "emitted"
          /\ outcomes[i].entry.name = outcomes[j].entry.name => i = j
  BY <1>2, <1>3
<1> DEFINE I == {j \in DOMAIN outcomes : outcomes[j].is = "emitted"}
           J == {j \in 1..n : outcomes[j].is = "emitted"}
<1>6. Shows(EntriesOf(outcomes), {outcomes[i].entry.name : i \in I})
  BY <1>4, <1>5, EntriesAre
<1>7. I = J
  BY <1>1, <1>2
<1>8. \A i \in I : outcomes[i].entry.name = s[i]
  BY <1>2, <1>3
<1> HIDE DEF I
<1>9. {outcomes[i].entry.name : i \in I} = {s[i] : i \in I}
  BY <1>8
<1> QED BY <1>6, <1>7, <1>9

\* The entries in the order a server lists them.
LEMMA OrderIs ==
  ASSUME ListingInv
  PROVE  /\ Cardinality(listed.has) \in Nat
         /\ SetToSeq(listed.has) \in [1..Cardinality(listed.has) -> Entries0]
         /\ Len(SetToSeq(listed.has)) = Cardinality(listed.has)
         /\ \A i, j \in 1..Cardinality(listed.has) :
              SetToSeq(listed.has)[i] = SetToSeq(listed.has)[j] => i = j
         /\ {SetToSeq(listed.has)[i] : i \in 1..Cardinality(listed.has)} = listed.has
<1> DEFINE S == listed.has
           q == SetToSeq(S)
           n == Cardinality(S)
<1>1. S \subseteq Entries0 /\ IsFiniteSet(S)
  <2>1. S \subseteq Entries0
    BY DEF ListingInv
  <2> QED BY <2>1, EntriesAssumption, FS_Subset
<1>2. /\ n \in Nat /\ q \in Seq(S) /\ Len(q) = n /\ IsInjective(q)
      /\ \A x \in S : \E i \in 1..n : q[i] = x
  BY <1>1, SetToSeqIs
<1> HIDE DEF q, n, S
<1>3. DOMAIN q = 1..n /\ \A i \in 1..n : q[i] \in S
  BY <1>2
<1>4. q \in [1..n -> Entries0]
  BY <1>1, <1>2, <1>3
<1>5. \A i, j \in 1..n : q[i] = q[j] => i = j
  BY <1>2, <1>3 DEF IsInjective
<1>6. {q[i] : i \in 1..n} = S
  BY <1>2, <1>3
<1> QED BY <1>2, <1>4, <1>5, <1>6 DEF q, n, S

\* An answer has a line for each entry, and perhaps one that is about none.
LEMMA AnswerIs ==
  ASSUME ListingInv, NEW styles, NEW noise, NEW a \in Answers(styles, noise), a # Refused
  PROVE  \E f \in [1..Cardinality(listed.has) -> styles] :
           /\ a \in Seq([style : styles, name : Entries0] \cup noise)
           /\ Cardinality(listed.has) <= Len(a)
           /\ \A i \in 1..Cardinality(listed.has) : a[i] = Line(f[i], SetToSeq(listed.has)[i])
           /\ \A i \in 1..Len(a) : i > Cardinality(listed.has) => a[i] \in noise
<1> DEFINE q == SetToSeq(listed.has)
           n == Cardinality(listed.has)
           T == [style : styles, name : Entries0] \cup noise
<1>1. n \in Nat /\ q \in [1..n -> Entries0] /\ Len(q) = n
  BY OrderIs
<1>2. PICK f \in [1..n -> styles], x \in {<<>>} \cup {<<l>> : l \in noise} :
        a = [i \in 1..n |-> Line(f[i], q[i])] \o x
  <2> DEFINE chosen == {[i \in 1..Len(q) |-> Line(f[i], q[i])] : f \in [1..Len(q) -> styles]}
             B == {<<>>} \cup {<<l>> : l \in noise}
  <2>1. Answers(styles, noise) = {Refused} \cup {c[1] \o c[2] : c \in chosen \X B}
    BY DEF Answers
  <2> HIDE DEF chosen, B, q, n
  <2>2. PICK d \in chosen, x \in B : a = d \o x
    BY <2>1
  <2>3. PICK f \in [1..n -> styles] : d = [i \in 1..n |-> Line(f[i], q[i])]
    BY <1>1 DEF chosen
  <2> QED BY <2>2, <2>3 DEF B
<1> DEFINE g == [i \in 1..n |-> Line(f[i], q[i])]
<1>3. g \in Seq(T) /\ Len(g) = n /\ \A i \in 1..n : g[i] = Line(f[i], q[i])
  <2> HIDE DEF q, n
  <2>1. \A i \in 1..n : Line(f[i], q[i]) \in [style : styles, name : Entries0]
    BY <1>1 DEF Line
  <2>2. \A i \in 1..n : Line(f[i], q[i]) \in T
    BY <2>1
  <2> HIDE DEF T
  <2>3. g \in [1..n -> T]
    BY <2>2
  <2> QED BY <1>1, <2>3
<1>4. x \in Seq(T) /\ \A i \in 1..Len(x) : x[i] \in noise
  <2>1. CASE x = <<>>
    BY <2>1, EmptySeq
  <2>2. ASSUME NEW l \in noise, x = <<l>> PROVE x \in Seq(T)
        /\ \A i \in 1..Len(x) : x[i] \in noise
    <3>1. l \in T
      OBVIOUS
    <3> HIDE DEF T
    <3> QED BY <2>2, <3>1
  <2> QED BY <1>2, <2>1, <2>2
<1>5. a = g \o x
  BY <1>2
<1> HIDE DEF g, T
<1>6. /\ a \in Seq(T) /\ Len(a) = n + Len(x)
      /\ \A i \in 1..n + Len(x) : a[i] = IF i <= n THEN g[i] ELSE x[i - n]
  <2>1. /\ g \o x \in Seq(T) /\ Len(g \o x) = Len(g) + Len(x)
        /\ \A i \in 1..Len(g) + Len(x) : (g \o x)[i] = IF i <= Len(g) THEN g[i]
                                                       ELSE x[i - Len(g)]
    BY <1>3, <1>4, ConcatProperties
  <2> QED BY <1>3, <1>5, <2>1
<1> HIDE DEF q, n
<1>7. Len(x) \in Nat
  BY <1>4
<1>8. \A i \in 1..n : a[i] = Line(f[i], q[i])
  BY <1>1, <1>3, <1>6, <1>7
<1>9. ASSUME NEW i \in 1..Len(a), i > n PROVE a[i] \in noise
  <2>1. i - n \in 1..Len(x) /\ a[i] = x[i - n]
    BY <1>1, <1>6, <1>7, <1>9
  <2> QED BY <1>4, <2>1
<1>10. n <= Len(a)
  BY <1>1, <1>6, <1>7
<1> QED BY <1>6, <1>8, <1>9, <1>10 DEF q, n, T

\* What is made of each line.
LEMMA OutcomesAre ==
  ASSUME NEW T, NEW a \in Seq(T), NEW o, DOMAIN o = DOMAIN a,
         o \in [DOMAIN a -> {o[i] : i \in DOMAIN a}]
  PROVE  o \in Seq({o[i] : i \in DOMAIN a}) /\ Len(o) = Len(a)
<1>1. DOMAIN a = 1..Len(a) /\ Len(a) \in Nat
  OBVIOUS
<1> DEFINE R == {o[i] : i \in DOMAIN a}
<1> HIDE DEF R
<1>2. o \in [1..Len(a) -> R]
  BY <1>1 DEF R
<1> QED BY <1>1, <1>2 DEF R

\* A line of LIST.
LEMMA LineIsRead ==
  ASSUME NEW l, l.style \in {"ls", "oddLs", "dos"}, l.name \notin Dots
  PROVE  ParseListLine(l) = Emitted(l)
<1> DEFINE oc == <<SuppaftpLine(l), ParseUnixListLine(l), ParseDosListLine(l)>>
           reads == {i \in 1..3 : oc[i].is # "failed"}
<1>1. /\ oc[1] \in {Emitted(l), Unread} /\ oc[2] \in {Emitted(l), Unread}
      /\ oc[3] \in {Emitted(l), Unread}
      /\ oc[1] = Emitted(l) \/ oc[2] = Emitted(l) \/ oc[3] = Emitted(l)
  BY DEF SuppaftpLine, ParseUnixListLine, ParseDosListLine
<1>2. Emitted(l).is # "failed" /\ Unread.is = "failed"
  BY DEF Emitted, Unread
<1>3. \A i \in 1..3 : i \in {1, 2, 3} /\ oc[i] \in {Emitted(l), Unread}
  BY <1>1
<1>4. reads # {} /\ \A i \in reads : oc[i] = Emitted(l)
  BY <1>1, <1>2, <1>3
<1>5. reads \subseteq 1..3
  OBVIOUS
<1>6. ParseListLine(l) = IF reads = {} THEN Unread
                         ELSE oc[CHOOSE i \in reads : \A j \in reads : i <= j]
  BY DEF ParseListLine
<1> HIDE DEF reads, oc
<1>7. \E i \in reads : \A j \in reads : i <= j
  <2>1. reads \subseteq Nat
    BY <1>5
  <2> QED BY <1>4, <2>1, LeastNat
<1> QED BY <1>4, <1>6, <1>7

LEMMA LineIsUnread ==
  ASSUME NEW l, l.style = "junk"
  PROVE  ParseListLine(l) = Unread
<1> DEFINE oc == <<SuppaftpLine(l), ParseUnixListLine(l), ParseDosListLine(l)>>
           reads == {i \in 1..3 : oc[i].is # "failed"}
<1>1. oc[1] = Unread /\ oc[2] = Unread /\ oc[3] = Unread
  BY DEF SuppaftpLine, ParseUnixListLine, ParseDosListLine
<1>2. \A i \in 1..3 : oc[i] = Unread
  BY <1>1
<1>3. reads = {}
  BY <1>2 DEF Unread
<1>4. ParseListLine(l) = IF reads = {} THEN Unread
                         ELSE oc[CHOOSE i \in reads : \A j \in reads : i <= j]
  BY DEF ParseListLine
<1> QED BY <1>3, <1>4

\* A line that is about no entry.
LEMMA NoiseIs ==
  /\ \A l \in ListNoise : l.style \in {"blank", "total"}
                           \/ ((l.style = "oddLs" \/ l.style = "dos") /\ l.name \in Dots)
  /\ \A l \in MlsdNoise : l.style = "blank" \/ l.name \in Dots
<1>0. \A x, y : Line(x, y).style = x /\ Line(x, y).name = y
  BY DEF Line
<1>1. ASSUME NEW l, NEW x, NEW y, l = Line(x, y) PROVE l.style = x /\ l.name = y
  BY <1>0, <1>1
<1>2. "." \in Dots /\ ".." \in Dots
  BY Zenon DEF Dots
<1>3. ASSUME NEW l \in ListNoise
      PROVE  l.style \in {"blank", "total"}
             \/ ((l.style = "oddLs" \/ l.style = "dos") /\ l.name \in Dots)
  <2>1. \/ l = Line("blank", "") \/ l = Line("total", "")
        \/ l = Line("oddLs", ".") \/ l = Line("dos", "..")
    BY <1>3, Zenon DEF ListNoise
  <2>2. CASE l = Line("blank", "")
    BY <1>1, <2>2, Zenon
  <2>3. CASE l = Line("total", "")
    BY <1>1, <2>3, Zenon
  <2>4. CASE l = Line("oddLs", ".")
    BY <1>1, <1>2, <2>4, Zenon
  <2>5. CASE l = Line("dos", "..")
    BY <1>1, <1>2, <2>5, Zenon
  <2> QED BY <2>1, <2>2, <2>3, <2>4, <2>5, Zenon
<1>4. ASSUME NEW l \in MlsdNoise PROVE l.style = "blank" \/ l.name \in Dots
  <2>1. l = Line("blank", "") \/ l = Line("facts", ".") \/ l = Line("cdir", ".")
    BY <1>4, Zenon DEF MlsdNoise
  <2>2. CASE l = Line("blank", "")
    BY <1>1, <2>2, Zenon
  <2>3. CASE l = Line("facts", ".")
    BY <1>1, <1>2, <2>3, Zenon
  <2>4. CASE l = Line("cdir", ".")
    BY <1>1, <1>2, <2>4, Zenon
  <2> QED BY <2>1, <2>2, <2>3, <2>4, Zenon
<1> QED BY <1>3, <1>4, Zenon

\* Such a line is passed over.
LEMMA NoiseIsSkipped ==
  ASSUME NEW l \in ListNoise
  PROVE  ParseListLine(l) = Skipped
<1>1. CASE l.style \in {"blank", "total"}
  BY <1>1 DEF ParseListLine
<1>2. CASE l.style \notin {"blank", "total"}
  <2> DEFINE oc == <<SuppaftpLine(l), ParseUnixListLine(l), ParseDosListLine(l)>>
             reads == {i \in 1..3 : oc[i].is # "failed"}
  <2>0. (l.style = "oddLs" \/ l.style = "dos") /\ l.name \in Dots
    BY <1>2, NoiseIs
  <2>1. /\ oc[1] = Unread
        /\ (oc[2] = Skipped /\ oc[3] = Unread) \/ (oc[2] = Unread /\ oc[3] = Skipped)
    <3>1. oc[1] = SuppaftpLine(l) /\ oc[2] = ParseUnixListLine(l) /\ oc[3] = ParseDosListLine(l)
      OBVIOUS
    <3>2. CASE l.style = "oddLs"
      BY <2>0, <3>1, <3>2 DEF SuppaftpLine, ParseUnixListLine, ParseDosListLine
    <3>3. CASE l.style = "dos"
      BY <2>0, <3>1, <3>3 DEF SuppaftpLine, ParseUnixListLine, ParseDosListLine
    <3> QED BY <2>0, <3>2, <3>3
  <2>2. Skipped.is # "failed" /\ Unread.is = "failed"
    BY DEF Skipped, Unread
  <2>3. (reads = {2} /\ oc[2] = Skipped) \/ (reads = {3} /\ oc[3] = Skipped)
    <3>1. CASE oc[2] = Skipped /\ oc[3] = Unread
      <4> HIDE DEF oc
      <4>1. \A i \in 1..3 : i = 1 \/ i = 2 \/ i = 3
        OBVIOUS
      <4>2. reads = {2}
        BY <2>1, <2>2, <3>1, <4>1
      <4> QED BY <3>1, <4>2
    <3>2. CASE oc[2] = Unread /\ oc[3] = Skipped
      <4> HIDE DEF oc
      <4>1. \A i \in 1..3 : i = 1 \/ i = 2 \/ i = 3
        OBVIOUS
      <4>2. reads = {3}
        BY <2>1, <2>2, <3>2, <4>1
      <4> QED BY <3>2, <4>2
    <3> QED BY <2>1, <3>1, <3>2
  <2>4. ParseListLine(l) = IF reads = {} THEN Unread
                           ELSE oc[CHOOSE i \in reads : \A j \in reads : i <= j]
    BY <1>2 DEF ParseListLine
  <2> HIDE DEF reads, oc
  <2>5. ASSUME NEW k \in {2, 3}, reads = {k}
        PROVE (CHOOSE i \in reads : \A j \in reads : i <= j) = k
    BY <2>5
  <2>6. reads # {}
    BY <2>3
  <2> QED BY <2>3, <2>4, <2>5, <2>6
<1> QED BY <1>1, <1>2

\* An answer to MLSD that is understood shows every entry.
LEMMA MlsdShows ==
  ASSUME ListingInv, NEW a \in Answers(MlsdStyles, MlsdNoise), a # Refused,
         ParseMlsd(a).is = "ok"
  PROVE  Shows(ParseMlsd(a).entries, listed.has)
<1> DEFINE q == SetToSeq(listed.has)
           n == Cardinality(listed.has)
           o == [i \in DOMAIN a |-> ParseMlsdLine(a[i])]
           R == {o[i] : i \in DOMAIN a}
           T == [style : MlsdStyles, name : Entries0] \cup MlsdNoise
<1>1. PICK f \in [1..n -> MlsdStyles] :
        /\ a \in Seq(T) /\ n <= Len(a)
        /\ \A i \in 1..n : a[i] = Line(f[i], q[i])
        /\ \A i \in 1..Len(a) : i > n => a[i] \in MlsdNoise
  BY AnswerIs
<1>2. /\ n \in Nat /\ q \in [1..n -> Entries0]
      /\ \A i, j \in 1..n : q[i] = q[j] => i = j
      /\ {q[i] : i \in 1..n} = listed.has
  BY OrderIs
<1> HIDE DEF q, n, T
<1>3. DOMAIN a = 1..Len(a) /\ Len(a) \in Nat /\ 1..n \subseteq 1..Len(a)
  BY <1>1, <1>2
<1>4. o \in Seq(R) /\ Len(o) = Len(a)
  BY <1>1, OutcomesAre
<1>5. \A i \in 1..n : o[i] \in ReadsAs(q[i]) /\ (o[i].is # "failed" => o[i].is = "emitted")
  <2> SUFFICES ASSUME NEW i \in 1..n
               PROVE  o[i] \in ReadsAs(q[i]) /\ (o[i].is # "failed" => o[i].is = "emitted")
    OBVIOUS
  <2>0. q[i] \in Entries0 /\ f[i] \in MlsdStyles /\ a[i] = Line(f[i], q[i])
    BY <1>1, <1>2
  <2>1. q[i] \notin Dots /\ f[i] \in {"facts", "untyped"} /\ a[i].style = f[i]
        /\ a[i].name = q[i]
    <3>1. a[i].style = f[i] /\ a[i].name = q[i]
      BY <2>0 DEF Line
    <3>2. f[i] \in {"facts", "untyped"}
      BY <2>0 DEF MlsdStyles
    <3> QED BY <2>0, <3>1, <3>2, EntriesAssumption
  <2>2. o[i] = ParseMlsdLine(a[i])
    BY <1>3
  <2>3. f[i] = "facts" => ParseMlsdLine(a[i]) = Emitted(a[i])
    BY <2>1 DEF ParseMlsdLine
  <2>4. f[i] = "untyped" => ParseMlsdLine(a[i]) = Unread
    BY <2>1 DEF ParseMlsdLine
  <2> QED BY <2>1, <2>2, <2>3, <2>4 DEF ReadsAs, Emitted, Unread
<1>6. \A i \in 1..Len(o) : i > n => o[i] = Skipped
  <2> SUFFICES ASSUME NEW i \in 1..Len(o), i > n PROVE o[i] = Skipped
    OBVIOUS
  <2>1. a[i] \in MlsdNoise /\ o[i] = ParseMlsdLine(a[i])
    BY <1>1, <1>3, <1>4
  <2> QED BY <2>1, NoiseIs DEF ParseMlsdLine
<1>7. ~Some(o, "failed") /\ ParseMlsd(a) = Returned(EntriesOf(o))
  BY DEF ParseMlsd, Failed
<1> HIDE DEF o, R
<1>8. \A i \in 1..n : o[i].is = "emitted"
  <2>1. \A i \in 1..n : i \in DOMAIN o
    BY <1>3, <1>4
  <2> QED BY <1>5, <1>7, <2>1 DEF Some
<1>9. Shows(EntriesOf(o), {q[i] : i \in {j \in 1..n : o[j].is = "emitted"}})
  BY <1>1, <1>2, <1>4, <1>5, <1>6, ReadAreShown
<1>10. {j \in 1..n : o[j].is = "emitted"} = 1..n
  BY <1>8
<1> DEFINE J == {j \in 1..n : o[j].is = "emitted"}
<1>11. {q[i] : i \in J} = listed.has
  <2> HIDE DEF J
  <2>1. J = 1..n
    BY <1>10 DEF J
  <2> QED BY <1>2, <2>1
<1>12. Shows(EntriesOf(o), {q[i] : i \in J})
  BY <1>9
<1> HIDE DEF J
<1>13. ParseMlsd(a).entries = EntriesOf(o)
  BY <1>7 DEF Returned
<1> QED BY <1>11, <1>12, <1>13

\* An answer to LIST shows every entry of which the line is understood, and
\* something if there is something.
LEMMA ListShows ==
  ASSUME ListingInv, NEW a \in Answers(ListStyles, ListNoise), a # Refused,
         ParseList(a).is = "ok"
  PROVE  \E S \in SUBSET listed.has :
           /\ Shows(ParseList(a).entries, S)
           /\ S = {} => listed.has = {}
           /\ S # listed.has => \E i \in DOMAIN a : a[i].style = "junk"
<1> DEFINE q == SetToSeq(listed.has)
           n == Cardinality(listed.has)
           o == [i \in DOMAIN a |-> ParseListLine(a[i])]
           R == {o[i] : i \in DOMAIN a}
           T == [style : ListStyles, name : Entries0] \cup ListNoise
<1>1. PICK f \in [1..n -> ListStyles] :
        /\ a \in Seq(T) /\ n <= Len(a)
        /\ \A i \in 1..n : a[i] = Line(f[i], q[i])
        /\ \A i \in 1..Len(a) : i > n => a[i] \in ListNoise
  BY AnswerIs
<1>2. /\ n \in Nat /\ q \in [1..n -> Entries0]
      /\ \A i, j \in 1..n : q[i] = q[j] => i = j
      /\ {q[i] : i \in 1..n} = listed.has
  BY OrderIs
<1> HIDE DEF q, n, T
<1>3. DOMAIN a = 1..Len(a) /\ Len(a) \in Nat /\ 1..n \subseteq 1..Len(a)
  BY <1>1, <1>2
<1>4. o \in Seq(R) /\ Len(o) = Len(a)
  BY <1>1, OutcomesAre
<1>5. \A i \in 1..n : /\ o[i] \in ReadsAs(q[i])
                      /\ o[i].is = "emitted" \/ (o[i].is = "failed" /\ a[i].style = "junk")
  <2> SUFFICES ASSUME NEW i \in 1..n
               PROVE  /\ o[i] \in ReadsAs(q[i])
                      /\ o[i].is = "emitted" \/ (o[i].is = "failed" /\ a[i].style = "junk")
    OBVIOUS
  <2>0. q[i] \in Entries0 /\ f[i] \in ListStyles /\ a[i] = Line(f[i], q[i])
    BY <1>1, <1>2
  <2>1. q[i] \notin Dots /\ f[i] \in {"ls", "oddLs", "dos", "junk"} /\ a[i].style = f[i]
        /\ a[i].name = q[i]
    <3>1. a[i].style = f[i] /\ a[i].name = q[i]
      BY <2>0 DEF Line
    <3>2. f[i] \in {"ls", "oddLs", "dos", "junk"}
      BY <2>0 DEF ListStyles
    <3> QED BY <2>0, <3>1, <3>2, EntriesAssumption
  <2>2. o[i] = ParseListLine(a[i])
    BY <1>3
  <2>3. f[i] # "junk" => ParseListLine(a[i]) = Emitted(a[i])
    BY <2>1, LineIsRead
  <2>4. f[i] = "junk" => ParseListLine(a[i]) = Unread
    BY <2>1, LineIsUnread
  <2> QED BY <2>1, <2>2, <2>3, <2>4 DEF ReadsAs, Emitted, Unread
<1>6. \A i \in 1..Len(o) : i > n => o[i] = Skipped
  BY <1>1, <1>3, <1>4, NoiseIsSkipped
<1>7. ~(Some(o, "failed") /\ ~Some(o, "emitted")) /\ ParseList(a) = Returned(EntriesOf(o))
  BY DEF ParseList, Failed
<1> HIDE DEF o, R
<1> DEFINE J == {j \in 1..n : o[j].is = "emitted"}
           S == {q[i] : i \in J}
<1>8. Shows(EntriesOf(o), S)
  BY <1>1, <1>2, <1>4, <1>5, <1>6, ReadAreShown
<1>9. S \subseteq listed.has
  BY <1>2
<1>10. ASSUME S = {}, listed.has # {} PROVE FALSE
  <2>1. PICK i \in 1..n : q[i] \in listed.has
    BY <1>2, <1>10
  <2>2. \A j \in 1..n : o[j].is # "emitted"
    BY <1>10
  <2>3. o[i].is = "failed" /\ i \in DOMAIN o
    BY <1>3, <1>4, <1>5, <2>2
  <2>4. \A j \in DOMAIN o : o[j].is # "emitted"
    <3> SUFFICES ASSUME NEW j \in DOMAIN o, o[j].is = "emitted" PROVE FALSE
      OBVIOUS
    <3>1. j \in 1..Len(o)
      BY <1>4
    <3>2. CASE j > n
      BY <1>6, <3>1, <3>2 DEF Skipped
    <3>3. CASE ~(j > n)
      BY <1>2, <2>2, <3>1, <3>3
    <3> QED BY <3>2, <3>3
  <2> QED BY <1>7, <2>3, <2>4 DEF Some
<1>11. ASSUME S # listed.has PROVE \E i \in DOMAIN a : a[i].style = "junk"
  <2>1. PICK i \in 1..n : i \notin J
    BY <1>2, <1>11
  <2> QED BY <1>3, <1>5, <2>1
<1> HIDE DEF S
<1> QED BY <1>7, <1>8, <1>9, <1>10, <1>11 DEF Returned

\* An FTP listing that is returned shows what it should.
LEMMA FtpShows ==
  ASSUME ListingInv, listed.by = "ftp", ListFtp.is = "ok"
  PROVE  \E S \in SUBSET listed.has :
           /\ Shows(ListFtp.entries, S)
           /\ S = {} => listed.has = {}
           /\ S # listed.has => \E i \in DOMAIN answers[2] : answers[2][i].style = "junk"
<1> DEFINE mlsd == IF answers[1] = Refused THEN Failed ELSE ParseMlsd(answers[1])
<1>1. answers[1] \in Answers(MlsdStyles, MlsdNoise)
      /\ answers[2] \in Answers(ListStyles, ListNoise)
  BY DEF ListingInv
<1>2. Failed.is = "failed"
  BY DEF Failed
<1>3. ListFtp = IF mlsd.is = "ok" THEN mlsd
                ELSE IF answers[2] = Refused THEN Failed ELSE ParseList(answers[2])
  BY DEF ListFtp
<1>4. CASE mlsd.is = "ok"
  <2>1. answers[1] # Refused /\ mlsd = ParseMlsd(answers[1])
    BY <1>2, <1>4
  <2>2. Shows(ParseMlsd(answers[1]).entries, listed.has)
    BY <1>1, <1>4, <2>1, MlsdShows
  <2> HIDE DEF mlsd
  <2>3. Shows(ListFtp.entries, listed.has)
    BY <1>3, <1>4, <2>1, <2>2
  <2> QED BY <2>3
<1>5. CASE mlsd.is # "ok"
  <2> HIDE DEF mlsd
  <2>1. answers[2] # Refused /\ ListFtp = ParseList(answers[2])
    BY <1>2, <1>3, <1>5
  <2>2. ParseList(answers[2]).is = "ok"
    BY <2>1
  <2> QED BY <1>1, <2>1, <2>2, ListShows
<1> QED BY <1>4, <1>5

(* The responses of PROPFIND. *)

\* An answer has a response for each entry, and perhaps one more.
LEMMA DavAnswerIs ==
  ASSUME ListingInv, NEW a \in DavAnswers0, a # Refused, a # Missing
  PROVE  /\ a \in Seq({a[i] : i \in DOMAIN a})
         /\ Cardinality(listed.has) <= Len(a)
         /\ \A i \in 1..Cardinality(listed.has) : a[i] \in Responses(SetToSeq(listed.has)[i])
         /\ \A i \in 1..Len(a) : i > Cardinality(listed.has) =>
              \/ a[i].href \in {"self", "below"}
              \/ \E x \in listed.has : a[i] \in Responses(x)
<1> DEFINE q == SetToSeq(listed.has)
           n == Cardinality(listed.has)
           all == UNION {Responses(x) : x \in listed.has}
           chosen == {f \in [1..Len(q) -> all] : \A i \in 1..Len(q) : f[i] \in Responses(q[i])}
           B1 == {<<>>, <<Response("self", "", TRUE, 200, TRUE)>>}
           B2 == {<<r>> : r \in all}
           B3 == {<<Response("below", x, FALSE, 200, FALSE)>> : x \in listed.dirs}
           B == B1 \cup B2 \cup B3
<1>1. n \in Nat /\ q \in [1..n -> Entries0] /\ Len(q) = n
  BY OrderIs
<1>2. DavAnswers0 = {Refused, Missing} \cup {c[1] \o c[2] : c \in chosen \X B}
  BY Zenon DEF DavAnswers0
<1>3. \A r \in all : \E x \in listed.has : r \in Responses(x)
  OBVIOUS
<1>4. \A y : Response("below", y, FALSE, 200, FALSE).href = "below"
  BY DEF Response
<1>5. Response("self", "", TRUE, 200, TRUE).href = "self"
  BY Zenon DEF Response
<1> DEFINE Beside(r) == r.href \in {"self", "below"} \/ \E x \in listed.has : r \in Responses(x)
           one == Response("self", "", TRUE, 200, TRUE)
<1>6. \A x \in B : x = <<>> \/ \E r : x = <<r>> /\ Beside(r)
  <2>0. one.href = "self"
    BY <1>5, Zenon
  <2>1. \A x \in B1 : x = <<>> \/ \E r : x = <<r>> /\ Beside(r)
    <3> HIDE DEF one
    <3>1. Beside(one)
      BY <2>0
    <3>2. B1 = {<<>>, <<one>>}
      BY DEF one
    <3> HIDE DEF B1, Beside
    <3> QED BY <3>1, <3>2
  <2>2. \A x \in B2 : \E r : x = <<r>> /\ Beside(r)
    <3>1. \A r \in all : Beside(r)
      BY <1>3
    <3> HIDE DEF Beside, all
    <3> QED BY <3>1
  <2>3. \A x \in B3 : \E r : x = <<r>> /\ Beside(r)
    <3>1. \A y : Beside(Response("below", y, FALSE, 200, FALSE))
      BY <1>4
    <3> HIDE DEF Beside
    <3> QED BY <3>1
  <2> HIDE DEF B1, B2, B3, Beside
  <2> QED BY <2>1, <2>2, <2>3
<1> HIDE DEF B, one
<1>7. PICK f \in chosen, x \in B : a = f \o x
  <2> HIDE DEF chosen
  <2> QED BY <1>2
<1>8. /\ f \in [1..n -> all] /\ \A i \in 1..n : f[i] \in Responses(q[i])
  BY <1>1, <1>7
<1> HIDE DEF all, q, n, chosen, Beside
<1>9. f \in Seq(all) /\ Len(f) = n
  BY <1>1, <1>8
<1>10. \E U : x \in Seq(U) /\ \A i \in 1..Len(x) : Beside(x[i])
  <2>1. CASE x = <<>>
    BY <2>1, EmptySeq
  <2>2. ASSUME NEW r, x = <<r>>, Beside(r) PROVE \E U : x \in Seq(U)
        /\ \A i \in 1..Len(x) : Beside(x[i])
    <3>1. x \in Seq({r}) /\ Len(x) = 1 /\ x[1] = r
      BY <2>2
    <3>2. \A i \in 1..Len(x) : Beside(x[i])
      BY <2>2, <3>1
    <3> QED BY <3>1, <3>2
  <2> QED BY <1>6, <1>7, <2>1, <2>2
<1>11. PICK U : x \in Seq(U) /\ \A i \in 1..Len(x) : Beside(x[i])
  BY <1>10
<1> DEFINE V == all \cup U
<1>12. f \in Seq(V) /\ x \in Seq(V)
  <2>1. \A i \in 1..n : f[i] \in V
    BY <1>8
  <2>2. x \in [1..Len(x) -> V] /\ Len(x) \in Nat
    BY <1>11
  <2> HIDE DEF V
  <2>3. f \in [1..n -> V]
    BY <1>8, <2>1
  <2> QED BY <1>1, <2>2, <2>3
<1> HIDE DEF V
<1>13. /\ a \in Seq(V) /\ Len(a) = n + Len(x)
       /\ \A i \in 1..n + Len(x) : a[i] = IF i <= n THEN f[i] ELSE x[i - n]
  BY <1>7, <1>9, <1>12, ConcatProperties
<1>14. Len(x) \in Nat
  BY <1>11
<1>15. a \in Seq({a[i] : i \in DOMAIN a})
  <2> DEFINE R == {a[i] : i \in DOMAIN a}
  <2>1. \A i \in DOMAIN a : a[i] \in R
    OBVIOUS
  <2> HIDE DEF R
  <2>2. a \in [1..Len(a) -> R] /\ Len(a) \in Nat
    BY <1>13, <2>1
  <2>3. a \in Seq(R)
    BY <2>2
  <2> QED BY <2>3 DEF R
<1>16. \A i \in 1..n : a[i] \in Responses(q[i])
  BY <1>1, <1>8, <1>13, <1>14
<1>17. ASSUME NEW i \in 1..Len(a), i > n PROVE Beside(a[i])
  <2>1. i - n \in 1..Len(x) /\ a[i] = x[i - n]
    BY <1>1, <1>13, <1>14, <1>17
  <2> QED BY <1>11, <2>1
<1>18. n <= Len(a)
  BY <1>1, <1>13, <1>14
<1> QED BY <1>15, <1>16, <1>17, <1>18 DEF q, n, Beside

\* Resources as they were described.
Described(all) ==
  /\ all \in Seq({all[i] : i \in DOMAIN all})
  /\ \A i \in DOMAIN all :
       all[i] = [href |-> all[i].href, name |-> all[i].name, isDir |-> all[i].isDir]

\* One resource is left of each path that is described.
LEMMA MergedOnce ==
  ASSUME NEW all, Described(all)
  PROVE  /\ Merge(all) \in Seq({Merge(all)[i] : i \in DOMAIN Merge(all)})
         /\ \A k \in DOMAIN Merge(all) : \E i \in DOMAIN all :
              /\ Merge(all)[k].href = all[i].href /\ Merge(all)[k].name = all[i].name
              /\ Merge(all)[k].isDir = (\E j \in SamePath(all, i) : all[j].isDir)
         /\ \A i \in DOMAIN all : \E k \in DOMAIN Merge(all) :
              Merge(all)[k].href = all[i].href /\ Merge(all)[k].name = all[i].name
         /\ \A k, l \in DOMAIN Merge(all) :
              Merge(all)[k].href = Merge(all)[l].href /\ Merge(all)[k].name = Merge(all)[l].name
                => k = l
<1> DEFINE W == [i \in DOMAIN all |->
                   [all[i] EXCEPT !.isDir = \E j \in SamePath(all, i) : all[j].isDir]]
           P == {i \in DOMAIN all : \A j \in SamePath(all, i) : i <= j}
           left == Merge(all)
           N == Cardinality(P)
           R == {W[i] : i \in DOMAIN all}
<1>1. left = Keep(W, P)
  BY DEF Merge
<1>2. DOMAIN all = 1..Len(all) /\ Len(all) \in Nat
  BY DEF Described
<1>3. \A i \in DOMAIN all : /\ W[i].href = all[i].href /\ W[i].name = all[i].name
                            /\ W[i].isDir = (\E j \in SamePath(all, i) : all[j].isDir)
  <2> SUFFICES ASSUME NEW i \in DOMAIN all
               PROVE  /\ W[i].href = all[i].href /\ W[i].name = all[i].name
                      /\ W[i].isDir = (\E j \in SamePath(all, i) : all[j].isDir)
    OBVIOUS
  <2> DEFINE b == \E j \in SamePath(all, i) : all[j].isDir
  <2>1. W[i] = [all[i] EXCEPT !.isDir = b]
    OBVIOUS
  <2> HIDE DEF b, W
  <2>2. W[i] = [href |-> all[i].href, name |-> all[i].name, isDir |-> b]
    BY <2>1, Zenon DEF Described
  <2>3. W[i].href = all[i].href /\ W[i].name = all[i].name /\ W[i].isDir = b
    BY <2>2
  <2> QED BY <2>3 DEF b
<1>4. W \in Seq(R) /\ Len(W) = Len(all)
  <2>1. DOMAIN W = DOMAIN all /\ all \in Seq({all[i] : i \in DOMAIN all})
    BY DEF Described
  <2> HIDE DEF R
  <2>2. W \in [DOMAIN all -> R]
    BY DEF R
  <2> HIDE DEF W
  <2> QED BY <2>1, <2>2, OutcomesAre DEF R
<1>5. P \in SUBSET (1..Len(W))
  BY <1>2, <1>4
<1> HIDE DEF W, R, left
<1>6. /\ left \in Seq(R) /\ N \in Nat /\ Len(left) = N
      /\ \A k \in 1..N : \E i \in P : left[k] = W[i]
      /\ \A i \in P : \E k \in 1..N : left[k] = W[i]
  <2> HIDE DEF P
  <2> QED BY <1>1, <1>4, <1>5, KeepIs
<1>7. \A k, l \in 1..N : k # l => \E i, j \in P : i # j /\ left[k] = W[i] /\ left[l] = W[j]
  <2> HIDE DEF P
  <2>1. \A k, l \in 1..Cardinality(P) : k # l =>
          \E i, j \in P : i # j /\ Keep(W, P)[k] = W[i] /\ Keep(W, P)[l] = W[j]
    BY <1>4, <1>5, KeptAllApart
  <2> QED BY <1>1, <2>1
<1>8. DOMAIN left = 1..N
  BY <1>6
<1>9. left \in Seq({left[k] : k \in DOMAIN left})
  <2> DEFINE U == {left[k] : k \in DOMAIN left}
  <2>1. \A k \in 1..N : left[k] \in U
    BY <1>8
  <2> HIDE DEF U, N
  <2>2. left \in [1..N -> U]
    BY <1>6, <2>1
  <2>3. left \in Seq(U)
    BY <1>6, <2>2
  <2> QED BY <2>3 DEF U
<1>10. ASSUME NEW i \in DOMAIN all
       PROVE  \E k \in DOMAIN left : left[k].href = all[i].href /\ left[k].name = all[i].name
  <2>1. i \in SamePath(all, i) /\ SamePath(all, i) \subseteq Nat
    BY <1>2, <1>10 DEF SamePath
  <2>2. PICK h \in SamePath(all, i) : \A j \in SamePath(all, i) : h <= j
    BY <2>1, LeastNat
  <2>3. h \in DOMAIN all /\ all[h].href = all[i].href /\ all[h].name = all[i].name
    BY <2>2 DEF SamePath
  <2>4. SamePath(all, h) = SamePath(all, i)
    BY <2>3 DEF SamePath
  <2>5. h \in P
    BY <2>2, <2>3, <2>4
  <2> HIDE DEF P
  <2>6. PICK k \in 1..N : left[k] = W[h]
    BY <1>6, <2>5
  <2> QED BY <1>3, <1>8, <2>3, <2>6
<1>11. ASSUME NEW k \in DOMAIN left, NEW l \in DOMAIN left,
             left[k].href = left[l].href, left[k].name = left[l].name,
              k # l
       PROVE  FALSE
  <2>0. k \in 1..N /\ l \in 1..N /\ k # l
    BY <1>8, <1>11
  <2>1. PICK i \in P, j \in P : i # j /\ left[k] = W[i] /\ left[l] = W[j]
    BY <1>7, <2>0, Zenon
  <2>2. i \in DOMAIN all /\ j \in DOMAIN all /\ all[i].href = all[j].href
        /\ all[i].name = all[j].name
    BY <1>3, <1>11, <2>1
  <2>3. i \in SamePath(all, j) /\ j \in SamePath(all, i)
    BY <2>2 DEF SamePath
  <2>4. i <= j /\ j <= i
    BY <2>3
  <2>5. i \in Nat /\ j \in Nat
    BY <1>2, <2>2
  <2> QED BY <2>1, <2>4, <2>5
<1>12. ASSUME NEW k \in DOMAIN left
       PROVE  \E i \in DOMAIN all :
                /\ left[k].href = all[i].href /\ left[k].name = all[i].name
                /\ left[k].isDir = (\E j \in SamePath(all, i) : all[j].isDir)
  <2>1. PICK i \in P : left[k] = W[i]
    BY <1>6, <1>8, <1>12
  <2>2. i \in DOMAIN all
    OBVIOUS
  <2>3. /\ W[i].href = all[i].href /\ W[i].name = all[i].name
        /\ W[i].isDir = (\E j \in SamePath(all, i) : all[j].isDir)
    BY <1>3, <2>2
  <2> QED BY <2>1, <2>2, <2>3, Zenon
<1> QED BY <1>9, <1>10, <1>11, <1>12, Zenon DEF left

\* A response names an entry.
LEMMA ResponseIs ==
  ASSUME NEW x, NEW r \in Responses(x)
  PROVE  r.href = "child" /\ r.name = x
BY DEF Responses

\* A WebDAV listing that is returned shows every entry, unless the directory is missing.
LEMMA DavShows ==
  ASSUME ListingInv, listed.by = "webdav", ListDav.is = "ok", answers[1] # Missing
  PROVE  Shows(ListDav.entries, listed.has)
<1> DEFINE a == answers[1]
           q == SetToSeq(listed.has)
           n == Cardinality(listed.has)
           all == [i \in DOMAIN a |-> Resource(a[i])]
           left == Merge(all)
           kidsAt == {i \in DOMAIN left : left[i].href = "child"}
           children == Keep(left, kidsAt)
           N == Cardinality(kidsAt)
           T == {left[i] : i \in DOMAIN left}
           e == [i \in DOMAIN children |-> [name |-> children[i].name,
             isDir |-> children[i].isDir]]
<1>1. a \in DavAnswers0 /\ listed.has \subseteq Entries0
  BY DEF ListingInv
<1>2. Failed.is = "failed"
  BY DEF Failed
<1>3. a # Refused
  BY <1>2 DEF ListDav
<1>4. ListDav = Returned(e)
  <2>1. ListDav = IF left = <<>> THEN Failed ELSE Returned(e)
    BY <1>3, Zenon DEF ListDav, ParsePropfind
  <2> HIDE DEF left, e
  <2> QED BY <1>2, <2>1
<1>5. /\ a \in Seq({a[i] : i \in DOMAIN a}) /\ n <= Len(a)
      /\ \A i \in 1..n : a[i] \in Responses(q[i])
      /\ \A i \in 1..Len(a) : i > n =>
           a[i].href \in {"self", "below"} \/ \E x \in listed.has : a[i] \in Responses(x)
  BY <1>1, <1>3, DavAnswerIs
<1>6. /\ n \in Nat /\ q \in [1..n -> Entries0] /\ {q[i] : i \in 1..n} = listed.has
  BY OrderIs
<1> HIDE DEF a, q, n
<1>7. DOMAIN a = 1..Len(a) /\ Len(a) \in Nat /\ 1..n \subseteq 1..Len(a)
  BY <1>5, <1>6
<1>8. \A i \in DOMAIN a : all[i].href = a[i].href /\ all[i].name = a[i].name
  BY DEF Resource
<1>9. Described(all)
  <2>1. all \in Seq({all[i] : i \in DOMAIN all})
    <3>1. DOMAIN all = DOMAIN a
      OBVIOUS
    <3> DEFINE R == {all[i] : i \in DOMAIN a}
    <3>2. all \in [DOMAIN a -> R]
      OBVIOUS
    <3> HIDE DEF all
    <3> QED BY <1>5, <3>1, <3>2, OutcomesAre
  <2>2. ASSUME NEW i \in DOMAIN all
        PROVE  all[i] = [href |-> all[i].href, name |-> all[i].name, isDir |-> all[i].isDir]
    <3>1. all[i] = Resource(a[i])
      OBVIOUS
    <3> HIDE DEF all
    <3> QED BY <3>1 DEF Resource
  <2> QED BY <2>1, <2>2 DEF Described
<1>10. \A i \in DOMAIN all : all[i].href = "child" => all[i].name \in listed.has
  <2> SUFFICES ASSUME NEW i \in DOMAIN a, a[i].href = "child" PROVE a[i].name \in listed.has
    BY <1>8
  <2>1. CASE i <= n
    <3>1. i \in 1..n
      BY <1>6, <1>7, <2>1
    <3>2. a[i].name = q[i]
      BY <1>5, <3>1, ResponseIs
    <3> QED BY <1>6, <3>1, <3>2
  <2>2. CASE ~(i <= n)
    <3>1. i \in 1..Len(a) /\ i > n
      BY <1>6, <1>7, <2>2
    <3>2. PICK x \in listed.has : a[i] \in Responses(x)
      BY <1>5, <3>1
    <3> QED BY <3>2, ResponseIs
  <2> QED BY <2>1, <2>2
<1>11. \A x \in listed.has : \E i \in DOMAIN all : all[i].href = "child" /\ all[i].name = x
  <2> SUFFICES ASSUME NEW x \in listed.has
               PROVE  \E i \in DOMAIN all : all[i].href = "child" /\ all[i].name = x
    OBVIOUS
  <2>1. PICK i \in 1..n : q[i] = x
    BY <1>6
  <2>2. a[i].href = "child" /\ a[i].name = x /\ i \in DOMAIN a
    BY <1>5, <1>7, <2>1, ResponseIs
  <2> QED BY <1>8, <2>2
<1> HIDE DEF all
<1>12. /\ left \in Seq(T)
       /\ \A k \in DOMAIN left : \E i \in DOMAIN all :
            /\ left[k].href = all[i].href /\ left[k].name = all[i].name
            /\ left[k].isDir = (\E j \in SamePath(all, i) : all[j].isDir)
       /\ \A i \in DOMAIN all : \E k \in DOMAIN left :
            left[k].href = all[i].href /\ left[k].name = all[i].name
       /\ \A k, l \in DOMAIN left :
            left[k].href = left[l].href /\ left[k].name = left[l].name => k = l
  BY <1>9, MergedOnce
<1> HIDE DEF left
<1>13. kidsAt \in SUBSET (1..Len(left)) /\ DOMAIN left = 1..Len(left)
  BY <1>12
<1>14. \A i \in kidsAt : i \in DOMAIN left /\ left[i].href = "child"
  OBVIOUS
<1>15. \A i \in DOMAIN left : left[i].href = "child" => i \in kidsAt
  OBVIOUS
<1> HIDE DEF kidsAt, T
<1>16. /\ children \in Seq(T) /\ N \in Nat /\ Len(children) = N
       /\ \A k \in 1..N : \E i \in kidsAt : children[k] = left[i]
       /\ \A i \in kidsAt : \E k \in 1..N : children[k] = left[i]
  BY <1>12, <1>13, KeepIs
<1>17. \A k, l \in 1..N : k # l => \E i, j \in kidsAt : i # j /\ children[k] = left[i]
       /\ children[l] = left[j]
  BY <1>12, <1>13, KeptAllApart
<1>18. DOMAIN children = 1..N
  BY <1>16
<1>19. \A i \in kidsAt : left[i].isDir \in BOOLEAN /\ left[i].name \in listed.has
  <2> SUFFICES ASSUME NEW i \in kidsAt PROVE left[i].isDir \in BOOLEAN
    /\ left[i].name \in listed.has
    OBVIOUS
  <2>1. PICK h \in DOMAIN all :
          /\ left[i].href = all[h].href /\ left[i].name = all[h].name
          /\ left[i].isDir = (\E j \in SamePath(all, h) : all[j].isDir)
    BY <1>12, <1>14, Zenon
  <2>2. left[i].isDir \in BOOLEAN
    BY <2>1, Zenon
  <2>3. left[i].name \in listed.has
    BY <1>10, <1>14, <2>1
  <2> QED BY <2>2, <2>3
<1> HIDE DEF children, N
<1>20. DOMAIN e = 1..N /\ \A k \in 1..N : e[k].name = children[k].name
       /\ e[k].isDir = children[k].isDir
                                          /\ e[k] = [name |-> e[k].name, isDir |-> e[k].isDir]
  BY <1>18
<1> HIDE DEF e
<1>21. \A k \in 1..N : e[k].name \in listed.has /\ e[k] \in EntryRecords
  <2> SUFFICES ASSUME NEW k \in 1..N PROVE e[k].name \in listed.has /\ e[k] \in EntryRecords
    OBVIOUS
  <2>1. PICK i \in kidsAt : children[k] = left[i]
    BY <1>16
  <2>2. e[k].name \in listed.has /\ e[k].isDir \in BOOLEAN
    BY <1>19, <1>20, <2>1, Zenon
  <2>3. e[k] = [name |-> e[k].name, isDir |-> e[k].isDir] /\ e[k].name \in Entries0
    BY <1>1, <1>20, <2>2
  <2> QED BY <2>2, <2>3, Zenon DEF EntryRecords
<1>22. e \in Seq(EntryRecords)
  <2>1. e \in [1..N -> EntryRecords]
    BY <1>18, <1>20, <1>21 DEF e
  <2> QED BY <1>16, <2>1
<1>23. Once(e)
  <2> SUFFICES ASSUME NEW k \in 1..N, NEW l \in 1..N, e[k].name = e[l].name, k # l PROVE FALSE
    BY <1>20 DEF Once
  <2>1. PICK i \in kidsAt, j \in kidsAt : i # j /\ children[k] = left[i]
        /\ children[l] = left[j]
    BY <1>17
  <2>2. left[i].name = left[j].name /\ left[i].href = left[j].href
    BY <1>14, <1>20, <2>1
  <2> QED BY <1>12, <1>14, <2>1, <2>2
<1>24. Named(e) = listed.has
  <2>1. \A k \in 1..N : e[k].name \in listed.has
    BY <1>21
  <2>2. ASSUME NEW x \in listed.has PROVE \E k \in 1..N : e[k].name = x
    <3>1. PICK i \in DOMAIN all : all[i].href = "child" /\ all[i].name = x
      BY <1>11
    <3>2. PICK k \in DOMAIN left : left[k].href = "child" /\ left[k].name = x
      BY <1>12, <3>1
    <3>3. PICK h \in 1..N : children[h] = left[k]
      BY <1>15, <1>16, <3>2
    <3> QED BY <1>20, <3>2, <3>3
  <2> QED BY <1>20, <2>1, <2>2 DEF Named
<1> QED BY <1>4, <1>22, <1>23, <1>24 DEF Shows, Returned

\* What a call returns is what it should show.
LEMMA ListingShows ==
  ASSUME ListingInv, listing.is = "ok"
  PROVE  \E S \in SUBSET listed.has :
           /\ Shows(listing.entries, S)
           /\ (S = {} /\ listed.has # {}) => answers[1] = Missing
           /\ S = listed.has \/ answers[1] = Missing
              \/ \E i \in DOMAIN answers[2] : answers[2][i].style = "junk"
<1>1. listing # Uncalled /\ listed.by \in {"ftp", "webdav"}
  <2>1. Uncalled.is = "uncalled"
    BY DEF Uncalled
  <2>2. listing # Uncalled
    BY <2>1, Zenon
  <2> QED BY <2>2 DEF ListingInv
<1>2. CASE listed.by = "ftp"
  <2>1. listing = ListFtp
    BY <1>1, <1>2 DEF ListingInv
  <2>2. \E S \in SUBSET listed.has :
           /\ Shows(ListFtp.entries, S)
           /\ S = {} => listed.has = {}
           /\ S # listed.has => \E i \in DOMAIN answers[2] : answers[2][i].style = "junk"
    BY <1>2, <2>1, FtpShows
  <2> QED BY <2>1, <2>2
<1>3. CASE listed.by = "webdav"
  <2>1. listing = ListDav
    BY <1>1, <1>3 DEF ListingInv
  <2>2. CASE answers[1] = Missing
    <3>1. Refused # Missing
      <4>1. \A x, y : Line(x, y).style = x
        BY DEF Line
      <4>2. Refused[1] = Line("refused", "") /\ Missing[1] = Line("missing", "")
        BY Zenon DEF Refused, Missing
      <4>3. Refused[1].style = "refused" /\ Missing[1].style = "missing"
        BY <4>1, <4>2, Zenon
      <4> QED BY <4>3
    <3>2. ListDav = Returned(<<>>)
      BY <2>2, <3>1 DEF ListDav
    <3>3. listing.entries = <<>>
      BY <2>1, <3>2 DEF Returned
    <3>4. Shows(<<>>, {})
      BY DEF Shows, Once, Named
    <3> QED BY <2>2, <3>3, <3>4
  <2>3. CASE answers[1] # Missing
    <3>1. Shows(ListDav.entries, listed.has)
      BY <1>3, <2>1, <2>3, DavShows
    <3> QED BY <2>1, <3>1
  <2> QED BY <2>2, <2>3
<1> QED BY <1>1, <1>2, <1>3

LEMMA OneOfThree ==
  ASSUME ListingInv
  PROVE  listing.is \in {"uncalled", "failed", "ok"}
    /\ (listing.is # "ok" => listing.entries = <<>>)
<1>1. /\ Uncalled.is = "uncalled" /\ Uncalled.entries = <<>>
      /\ Failed.is = "failed" /\ Failed.entries = <<>>
      /\ \A e : Returned(e).is = "ok"
  BY DEF Uncalled, Failed, Returned
<1>2. \A a : ParseMlsd(a) = Failed \/ ParseMlsd(a).is = "ok"
  BY <1>1, Zenon DEF ParseMlsd
<1>3. \A a : ParseList(a) = Failed \/ ParseList(a).is = "ok"
  BY <1>1, Zenon DEF ParseList
<1>4. ListFtp = Failed \/ ListFtp.is = "ok"
  <2> DEFINE mlsd == IF answers[1] = Refused THEN Failed ELSE ParseMlsd(answers[1])
  <2>1. ListFtp = IF mlsd.is = "ok" THEN mlsd
                  ELSE IF answers[2] = Refused THEN Failed ELSE ParseList(answers[2])
    BY DEF ListFtp
  <2> HIDE DEF mlsd
  <2> QED BY <1>3, <2>1
<1>5. ListDav = Failed \/ ListDav.is = "ok"
  <2>1. \/ ListDav = Failed
        \/ \E e : ListDav = Returned(e)
    BY Zenon DEF ListDav
  <2> QED BY <1>1, <2>1
<1>6. listing = Uncalled \/ listing = ListFtp \/ listing = ListDav
  BY DEF ListingInv
<1> QED BY <1>1, <1>4, <1>5, <1>6

LEMMA ListingHolds ==
  ASSUME ListingInv
  PROVE  ListingTypeOK /\ ListingIsExact
<1>1. CASE listing.is # "ok"
  <2>1. listing.is \in {"uncalled", "failed", "ok"} /\ listing.entries = <<>>
    BY <1>1, OneOfThree
  <2>2. ListingTypeOK
    BY <2>1 DEF ListingTypeOK
  <2> QED BY <1>1, <2>2 DEF ListingIsExact
<1>2. CASE listing.is = "ok"
  <2>1. PICK S \in SUBSET listed.has :
           /\ Shows(listing.entries, S)
           /\ (S = {} /\ listed.has # {}) => answers[1] = Missing
           /\ S = listed.has \/ answers[1] = Missing
              \/ \E i \in DOMAIN answers[2] : answers[2][i].style = "junk"
    BY <1>2, ListingShows
  <2>2. Shown = S
    BY <2>1 DEF Shown, Shows, Named
  <2>3. Cardinality(Shown) = Len(listing.entries)
    <3>1. Cardinality(Named(listing.entries)) = Len(listing.entries)
      BY <2>1, OnceIsCounted DEF Shows
    <3> QED BY <3>1 DEF Shown, Named
  <2>4. ListingTypeOK
    <3>1. \A i \in DOMAIN listing.entries : listing.entries[i] \in EntryRecords
      BY <2>1 DEF Shows
    <3> QED BY <1>2, <3>1 DEF ListingTypeOK, EntryRecords
  <2>5. ListingIsExact
    BY <2>1, <2>2, <2>3, Zenon DEF ListingIsExact
  <2> QED BY <2>4, <2>5
<1> QED BY <1>1, <1>2

LEMMA ListingStart == ListingInit => ListingInv
BY DEF ListingInit, ListingInv

LEMMA ListingStays == ListingInv /\ [ListingNext]_listingVars => ListingInv'
<1> SUFFICES ASSUME ListingInv, [ListingNext]_listingVars PROVE ListingInv'
  OBVIOUS
<1>1. UNCHANGED <<listed, answers>>
  BY DEF ListingNext, List, listingVars
<1>2. listing' \in {listing, IF listed.by = "ftp" THEN ListFtp ELSE ListDav}
  BY DEF ListingNext, List, listingVars
<1>3. \A x : Entry(x)' = Entry(x)
  BY <1>1 DEF Entry
<1>4. \A l : ParseMlsdLine(l)' = ParseMlsdLine(l)
  BY <1>3 DEF ParseMlsdLine, Emitted
<1>5. \A l : ParseListLine(l)' = ParseListLine(l)
  <2> SUFFICES ASSUME NEW l PROVE ParseListLine(l)' = ParseListLine(l)
    OBVIOUS
  <2>1. Emitted(l)' = Emitted(l)
    BY <1>3 DEF Emitted
  <2>2. /\ SuppaftpLine(l)' = SuppaftpLine(l)
        /\ ParseUnixListLine(l)' = ParseUnixListLine(l)
        /\ ParseDosListLine(l)' = ParseDosListLine(l)
    BY <2>1 DEF SuppaftpLine, ParseUnixListLine, ParseDosListLine
  <2> DEFINE oc == <<SuppaftpLine(l), ParseUnixListLine(l), ParseDosListLine(l)>>
             Read(o) == LET reads == {i \in 1..3 : o[i].is # "failed"}
                        IN  IF reads = {} THEN Unread
                            ELSE o[CHOOSE i \in reads : \A j \in reads : i <= j]
             oc1 == <<SuppaftpLine(l)', ParseUnixListLine(l)', ParseDosListLine(l)'>>
  <2>3. oc1 = oc
    BY <2>2
  <2>4. /\ ParseListLine(l) = IF l.style \in {"blank", "total"} THEN Skipped ELSE Read(oc)
        /\ ParseListLine(l)' = IF l.style \in {"blank", "total"} THEN Skipped ELSE Read(oc1)
    BY Zenon DEF ParseListLine
  <2> HIDE DEF oc, oc1, Read
  <2> QED BY <2>3, <2>4
<1>6. \A a : ParseMlsd(a)' = ParseMlsd(a)
  BY <1>4 DEF ParseMlsd
<1>7. \A a : ParseList(a)' = ParseList(a)
  BY <1>5 DEF ParseList
<1>8. ListFtp' = ListFtp
  BY <1>1, <1>6, <1>7 DEF ListFtp
<1>9. ListDav' = ListDav
  BY <1>1 DEF ListDav
<1>10. \A styles, noise : Answers(styles, noise)' = Answers(styles, noise)
  BY <1>1 DEF Answers
<1>11. \A x : Responses(x)' = Responses(x)
  BY <1>1 DEF Responses
<1>12. DavAnswers0' = DavAnswers0
  BY <1>1 DEF DavAnswers0, Responses
<1> QED BY <1>1, <1>2, <1>8, <1>9, <1>10, <1>12 DEF ListingInv

\* A listing shows what it should.
THEOREM ListingsAreExact == ListingSpec => [](ListingTypeOK /\ ListingIsExact)
<1>1. ListingInv /\ [ListingNext]_listingVars => ListingInv'
  BY ListingStays
<1>2. ListingInv => ListingTypeOK /\ ListingIsExact
  BY ListingHolds
<1> QED BY <1>1, <1>2, ListingStart, PTL DEF ListingSpec

------------------------------------------------------------------------------
(* The composition.                                                        *)

(* The composition implements each part's own specification. *)
LEMMA PlaysTheTransfer == Spec => TransferSpec
<1>1. Init => TransferInit
  BY DEF Init
<1>2. [Next]_allVars => [TransferNext]_transferVars
  BY DEF Next, allVars
<1> QED BY <1>1, <1>2, PTL DEF Spec, TransferSpec

LEMMA PlaysTheScp == Spec => ScpSpec
<1>1. Init => ScpInit
  BY DEF Init
<1>2. [Next]_allVars => [ScpNext]_scpVars
  BY DEF Next, allVars
<1> QED BY <1>1, <1>2, PTL DEF Spec, ScpSpec

LEMMA PlaysTheBackend == Spec => FilesSpec
<1>1. Init => FilesInit
  BY DEF Init
<1>2. [Next]_allVars => [FilesNext]_fileVars
  BY DEF Next, allVars
<1> QED BY <1>1, <1>2, PTL DEF Spec, FilesSpec

LEMMA PlaysTheLocal == Spec => LocalSpec
<1>1. Init => LocalInit
  BY DEF Init
<1>2. [Next]_allVars => [LocalNext]_localVars
  BY DEF Next, allVars
<1> QED BY <1>1, <1>2, PTL DEF Spec, LocalSpec

LEMMA PlaysTheRemote == Spec => RemoteSpec
<1>1. Init => RemoteInit
  BY DEF Init
<1>2. [Next]_allVars => [RemoteNext]_remoteVars
  BY DEF Next, allVars
<1> QED BY <1>1, <1>2, PTL DEF Spec, RemoteSpec

LEMMA PlaysTheListing == Spec => ListingSpec
<1>1. Init => ListingInit
  BY DEF Init
<1>2. [Next]_allVars => [ListingNext]_listingVars
  BY DEF Next, allVars
<1> QED BY <1>1, <1>2, PTL DEF Spec, ListingSpec

(* A transfer that reports success has delivered what was to be copied,     *)
(* for files of any length, any leftover of earlier attempts, any number of *)
(* attempts and any tree copied over SCP.  (ftp.rs, smb.rs, webdav.rs,      *)
(* sftp.rs, scp.rs)                                                         *)
THEOREM FilesAreDelivered == Spec => []TransfersDeliver
<1>1. RetriesDeliver /\ ScpDelivers => TransfersDeliver
  BY DEF TransfersDeliver
<1> QED BY <1>1, PlaysTheTransfer, PlaysTheScp, TransfersStayWhole, ScpCopiesWhole, PTL

(* No operation on files loses or touches one it was not asked for, for any *)
(* paths, any server and any disk: a failed rename leaves the file at one   *)
(* of its names, a removal stays inside what it was given, a local copy or  *)
(* move that is counted has brought every file and a failed one has lost    *)
(* none.  (ftp.rs, smb.rs, sftp.rs, webdav.rs, local_fs.rs, remote.rs,      *)
(* main.rs)                                                                 *)
THEOREM FilesAreSafe == Spec => []FilesSurvive
<1>1. CallsStayInPlace /\ RenameKeepsSource /\ FilesArrive /\ DeletesInside => FilesSurvive
  BY DEF FilesSurvive
<1> QED
  BY <1>1, PlaysTheBackend, PlaysTheLocal, PlaysTheRemote, CallsAreSafe, LocalFilesArrive,
     RemotePaneIsSafe, PTL

(* A listing shows what the server answered for, for any entries in any     *)
(* style, and a search that says it is complete has found all there was.    *)
(* (ftp.rs, webdav.rs, remote.rs)                                           *)
THEOREM ListingsShowAll == Spec => []ListingsAreWhole
<1>1. ListingIsExact /\ SearchTells => ListingsAreWhole
  BY DEF ListingsAreWhole
<1> QED BY <1>1, PlaysTheListing, PlaysTheRemote, ListingsAreExact, RemotePaneIsSafe, PTL

(* What a delete counts as deleted is gone with all it held, however deep.  *)
(* (remote.rs: delete_entries, delete_one)                                  *)
THEOREM DeletedStaysGone == Spec => DeletedIsGone
BY PlaysTheRemote, CountedAsDeletedIsGone, PTL

(* The variables of every part keep their types, while it plays.            *)
(* (ftp.rs, smb.rs, webdav.rs, sftp.rs, scp.rs, local_fs.rs, remote.rs)     *)
THEOREM FilesKeepTypes == Spec => []AllTypesOK
<1>1. TransferTypeOK /\ ScpTypeOK /\ FilesTypeOK /\ LocalTypeOK /\ RemoteTypeOK /\ ListingTypeOK
      => AllTypesOK
  BY DEF AllTypesOK
<1> QED
  BY <1>1, PlaysTheTransfer, PlaysTheScp, PlaysTheBackend, PlaysTheLocal, PlaysTheRemote,
     PlaysTheListing, TransfersStayWhole, ScpCopiesWhole, CallsAreSafe, LocalFilesArrive,
     RemotePaneIsSafe, ListingsAreExact, PTL
==============================================================================
