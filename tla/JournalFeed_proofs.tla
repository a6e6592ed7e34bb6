-------------------------- MODULE JournalFeed_proofs --------------------------
(***************************************************************************)
(* Proofs about JournalFeed, for any directories, channel capacities and   *)
(* bounds: what a subscriber hears is what ChangeFeed promises, and at     *)
(* rest the index is complete and exact but for what the two properties    *)
(* except, after any number of crashes, restarts and dropped histories.    *)
(*                                                                         *)
(* The argument follows one path from the tree to its row.  Either a       *)
(* record the reader has not converted still concerns the path, or the     *)
(* last change on its way to the store that bears on it has its present    *)
(* version, or there is none and the row has it, or the walk will come by  *)
(* (OnItsWay).  For the first case to turn into the second, the last       *)
(* record that concerns a path must convert to its present version         *)
(* (LogIsCurrent), which on Windows depends on the paths the reader has    *)
(* cached (CacheFits, RecordsFit).                                         *)
(*                                                                         *)
(* The last part is about searches that page: the rows sorted have         *)
(* positions, and those before the offset have been seen.                  *)
(***************************************************************************)
EXTENDS JournalFeed, TLAPS, SequenceTheorems, FiniteSetTheorems

Removal == {"delete", "rename old"}
Reasons == Removal \cup {"create", "modify", "rename new"}

\* What is said of directories, of files, and that everything is to be read again.
Records ==
  [reason : Reasons, dir : {"root"}, path : {<<n>> : n \in DirName}]
    \cup [reason : Reasons, dir : Dir, path : {<<n, 0>> : n \in DirName}]
    \cup [reason : {"rescan"}, dir : {"root"}, path : {<<>>}]

\* A change that removes has no version, one that states has.
Changes == {c \in Change : c.op = "removed" <=> c.version = 0}

\* How far the reader has converted the journal.
Converted == pos - Len(batch)

\* Records up to here no later start can need again.
Base == IF cursor >= 0 THEN cursor ELSE IF up THEN Converted ELSE Len(journal)

\* Only macOS drops history; a directory that was never there has no file and
\* no records.
WorldFits ==
  /\ platform \in Platform /\ client \in Client
  /\ at \in [Dir -> DirName \cup {0, Gone}] /\ holds \in [Dir -> 0 .. MaxVersion]
  /\ \A d, e \in Dir : d # e /\ at[d] \in DirName => at[d] # at[e]
  /\ journal \in Seq(Records)
  /\ \A i \in 1 .. Len(journal) : journal[i].reason = "rescan" => platform = "macos"
  /\ \A d \in Dir : at[d] = 0 => holds[d] = 0 /\ \A i \in 1 .. Len(journal) : journal[i].dir # d
  /\ moved \subseteq DirName
  /\ ops \in 0 .. MaxOps[client] /\ mishaps \in 0 .. MaxMishaps[client]

\* The reader is behind the journal and ahead of the cursor; nothing of it is
\* there while the indexer does not run.
ReaderFits ==
  /\ pos \in 0 .. Len(journal) /\ cursor \in -1 .. Len(journal)
  /\ up \in BOOLEAN /\ reading \in BOOLEAN
  /\ batch \in Seq(Records) /\ Len(batch) <= pos
  /\ \A i \in 1 .. Len(batch) : batch[i] = journal[Converted + i]
  /\ pending \in Seq(Changes)
  /\ cache \in [Dir -> DirName \cup {0}]
  /\ up => cursor <= Converted
  /\ ~reading => batch = <<>> /\ pending = <<>>
  /\ pending # <<>> => Converted > 0 /\ cursor < Converted
  /\ ~up => pos = 0 /\ ~reading /\ cache = [d \in Dir |-> 0]

StoreFits ==
  /\ chan \in Seq(Changes) /\ Len(chan) <= ChanCap
  /\ index \in [Path -> 0 .. MaxVersion] /\ toWalk \subseteq Path
  /\ ~up => chan = <<>> /\ toWalk = {}

\* The changes on their way to the subscriber are later than what it heard of,
\* in order, and earlier than the one to be fanned out.
SubFits ==
  /\ applied \in Nat /\ hand \in {0, applied}
  /\ sub \in [there : BOOLEAN, buffer : Seq(Nat), upTo : Nat, heard : Nat]
  /\ Len(sub.buffer) <= SubCap
  /\ sub.upTo <= applied /\ (hand # 0 => sub.upTo < hand)
  /\ \A i \in 1 .. Len(sub.buffer) :
       /\ sub.upTo < sub.buffer[i] /\ sub.buffer[i] <= applied
       /\ hand # 0 => sub.buffer[i] < hand
       /\ \A j \in 1 .. Len(sub.buffer) : i < j => sub.buffer[i] < sub.buffer[j]

\* What the reader thinks a directory's path is, and what its records had.
CacheFits ==
  \A d \in Dir : cache[d] \in {0, at[d]} \/ at[d] = Gone
                   \/ (at[d] \in moved /\ cache[d] \in moved)

RecordsFit ==
  \A i \in Base + 1 .. Len(journal) :
    journal[i].dir \in Dir =>
      /\ journal[i].path = <<at[journal[i].dir], 0>> \/ at[journal[i].dir] \in moved \cup {Gone}
      /\ \/ cache[journal[i].dir] = 0 \/ journal[i].path = <<cache[journal[i].dir], 0>>
         \/ cache[journal[i].dir] \in moved

\* What a record means to a path that leads to v, on a platform f.
Wipes(r, p, f)       == f = "windows" /\ r.reason \in Removal /\ IsPrefix(r.path, p)
Concerns(r, p, f, v) == r.path = p \/ Wipes(r, p, f) \/ (r.reason = "rescan" /\ v # 0)

Settles(r, p, A, v) ==
  /\ r.reason \in Removal <=> v = 0
  /\ r.dir = "root" \/ (r.dir \in Dir /\ A[r.dir] = p[1])

\* On Windows the last record that concerns a path converts to what it is now.
LogIsCurrent ==
  platform = "windows" =>
    \A p \in Path : \A i \in Base + 1 .. Len(journal) :
      /\ ~InMoved(p) /\ Concerns(journal[i], p, platform, Stat(p))
      /\ \A j \in i + 1 .. Len(journal) : ~Concerns(journal[j], p, platform, Stat(p))
      => Settles(journal[i], p, at, Stat(p))

\* The changes that bear on a path that leads to v, and the last of them in s.
\* On macOS no removal of a directory stands for what was in it.
Bears(c, p, f, v) == c.path = p \/ ((v # 0 \/ f = "windows") /\ c.op = "removed" /\ IsPrefix(c.path, p))

Shows(s, p, f, v) ==
  \E i \in 1 .. Len(s) : /\ Bears(s[i], p, f, v) /\ s[i].version = v
                         /\ \A j \in i + 1 .. Len(s) : ~Bears(s[j], p, f, v)

Silent(s, p, f, v) == \A i \in 1 .. Len(s) : ~Bears(s[i], p, f, v)

ToBeWalked(p) == Stat(p) # 0 /\ (p \in toWalk \/ <<p[1]>> \in toWalk)

Excused(p) == InMoved(p) \/ (IF Stat(p) # 0 THEN p \in missed ELSE Under(p, stale))

\* The row of a path is right, or will be when the reader has read on, or once
\* the changes on their way are applied and the walk is over.
ToBeRead(p) == \E i \in Converted + 1 .. Len(journal) : Concerns(journal[i], p, platform, Stat(p))

WillShow(p) ==
  \/ Shows(chan \o pending, p, platform, Stat(p))
  \/ /\ Silent(chan \o pending, p, platform, Stat(p))
     /\ index[p] = Stat(p) \/ ToBeWalked(p)

OnItsWay == up => \A p \in Path : ~Excused(p) => ToBeRead(p) \/ WillShow(p)

\* While the indexer does not run, a row of what is gone is in the records
\* the reader will resume with, or would have.
Resumed == IF cursor >= 0 THEN cursor ELSE 0

Remembered ==
  ~up => \A p \in Path : Stat(p) = 0 /\ ~Excused(p) =>
           \/ index[p] = 0
           \/ \E i \in Resumed + 1 .. Len(journal) : Concerns(journal[i], p, platform, Stat(p))

\* A removal still to be sent would be made of the same record again.
PendingFits ==
  \A p \in Path : \A i \in 1 .. Len(pending) :
    /\ pending[i].op = "removed" /\ ~InMoved(p)
    /\ Bears(pending[i], p, platform, 0)
    => Concerns(journal[Converted], p, platform, 0)

Basics == WorldFits /\ ReaderFits /\ StoreFits /\ SubFits

Courses ==
  /\ CacheFits /\ RecordsFit /\ LogIsCurrent
  /\ OnItsWay /\ Remembered /\ PendingFits

-----------------------------------------------------------------------------
(* Paths, what they lead to, and prefixes. *)

LEMMA Bounds ==
  /\ DirName \subseteq Nat /\ 0 \notin DirName /\ Gone \notin DirName /\ Gone # 0 /\ "root" \notin Dir
  /\ MaxVersion \in Nat /\ MaxVersion >= 1 /\ ChanCap \in Nat /\ SubCap \in Nat
  /\ \A c \in Client : MaxOps[c] \in Nat /\ MaxMishaps[c] \in Nat
BY FeedAssumption DEF Gone

LEMMA PathParts ==
  /\ \A n \in DirName : <<n>> \in Path /\ <<n, 0>> \in Path
  /\ \A p \in Path : /\ p[1] \in DirName /\ p \in Seq(Nat)
                     /\ \/ p = <<p[1]>> /\ Len(p) = 1
                        \/ p = <<p[1], 0>> /\ Len(p) = 2
  /\ <<>> \notin Path
<1>1. \A n \in DirName : <<n>> \in Path /\ <<n, 0>> \in Path
  BY DEF Path
<1>2. ASSUME NEW p \in Path
      PROVE  /\ p[1] \in DirName /\ p \in Seq(Nat) /\ p # <<>>
             /\ \/ p = <<p[1]>> /\ Len(p) = 1
                \/ p = <<p[1], 0>> /\ Len(p) = 2
  <2>1. CASE p \in {<<n>> : n \in DirName}
    <3>1. PICK n \in DirName : p = <<n>>
      BY <2>1
    <3>2. n \in Nat
      BY Bounds
    <3> QED BY <3>1, <3>2
  <2>2. CASE p \in {<<n, 0>> : n \in DirName}
    <3>1. PICK n \in DirName : p = <<n, 0>>
      BY <2>2
    <3>2. n \in Nat
      BY Bounds
    <3> QED BY <3>1, <3>2
  <2> QED BY <2>1, <2>2 DEF Path
<1> QED BY <1>1, <1>2

LEMMA PathPrefix ==
  ASSUME NEW p \in Path, NEW q \in Path
  PROVE  (IsPrefix(q, p) <=> q = p \/ q = <<p[1]>>) /\ (IsPrefix(q, p) => q[1] = p[1])
<1>1. p[1] \in Nat /\ q[1] \in Nat
  BY PathParts, Bounds
<1>2. CASE q = <<q[1]>>
  <2>1. Len(q) = 1 /\ Len(p) \in {1, 2}
    BY <1>2, PathParts
  <2>2. q \in Seq(Nat) /\ p \in Seq(Nat)
    BY PathParts
  <2>6. 1 \in 1 .. 1 /\ \A i \in 1 .. 1 : i = 1 /\ q[i] \in Nat /\ p[i] \in Nat
    BY <1>1
  <2>4. /\ SubSeq(q, 1, 1) \in Seq(Nat) /\ Len(SubSeq(q, 1, 1)) = 1 /\ SubSeq(q, 1, 1)[1] = q[1]
        /\ SubSeq(p, 1, 1) \in Seq(Nat) /\ Len(SubSeq(p, 1, 1)) = 1 /\ SubSeq(p, 1, 1)[1] = p[1]
    <3>1. /\ SubSeq(q, 1, 1) \in Seq(Nat) /\ Len(SubSeq(q, 1, 1)) = (IF 1 <= 1 THEN 1 - 1 + 1 ELSE 0)
          /\ \A i \in 1 .. 1 - 1 + 1 : SubSeq(q, 1, 1)[i] = q[1 + i - 1]
      BY <2>6, SubSeqProperties
    <3>2. /\ SubSeq(p, 1, 1) \in Seq(Nat) /\ Len(SubSeq(p, 1, 1)) = (IF 1 <= 1 THEN 1 - 1 + 1 ELSE 0)
          /\ \A i \in 1 .. 1 - 1 + 1 : SubSeq(p, 1, 1)[i] = p[1 + i - 1]
      BY <2>6, SubSeqProperties
    <3> QED BY <3>1, <3>2
  <2>5. SubSeq(q, 1, 1) = SubSeq(p, 1, 1) <=> q[1] = p[1]
    <3>1. ASSUME q[1] = p[1]
          PROVE  \A i \in 1 .. 1 : SubSeq(q, 1, 1)[i] = SubSeq(p, 1, 1)[i]
      BY <2>4, <2>6, <3>1
    <3> QED BY <2>4, <3>1, SeqEqual
  <2>3. IsPrefix(q, p) <=> q[1] = p[1]
    BY <2>1, <2>5 DEF IsPrefix
  <2> QED BY <1>2, <2>3, PathParts
<1>3. CASE q = <<q[1], 0>>
  <2>1. Len(q) = 2
    BY <1>3
  <2>2. CASE p = <<p[1]>>
    BY <1>3, <2>1, <2>2 DEF IsPrefix
  <2>3. CASE p = <<p[1], 0>>
    <3>1. q \in Seq(Nat) /\ p \in Seq(Nat) /\ Len(p) = 2
      BY <2>3, PathParts
    <3>2. SubSeq(q, 1, 2) = q /\ SubSeq(p, 1, 2) = p
      BY <2>1, <3>1, SubSeqFull
    <3> QED BY <1>3, <2>1, <2>3, <3>1, <3>2 DEF IsPrefix
  <2> QED BY <2>2, <2>3, PathParts
<1>4. q = <<q[1]>> \/ q = <<q[1], 0>>
  BY PathParts
<1> QED BY <1>2, <1>3, <1>4

\* What the paths lead to, given the directories' names and their files.
FileIn(A, H, p) == H[CHOOSE d \in Dir : A[d] = p[1]]

PresentIn(A, H) ==
  [p \in Path |-> IF \A d \in Dir : A[d] # p[1] THEN 0
                  ELSE IF Len(p) = 1 THEN 1 ELSE FileIn(A, H, p)]

LEMMA PresentParts ==
  ASSUME NEW A \in [Dir -> DirName \cup {0, Gone}], NEW H \in [Dir -> 0 .. MaxVersion],
         \A d, e \in Dir : d # e /\ A[d] \in DirName => A[d] # A[e]
  PROVE  /\ PresentIn(A, H) \in [Path -> 0 .. MaxVersion]
         /\ \A p \in Path : (\A d \in Dir : A[d] # p[1]) => PresentIn(A, H)[p] = 0
         /\ \A d \in Dir : A[d] \in DirName => /\ PresentIn(A, H)[<<A[d]>>] = 1
                                              /\ PresentIn(A, H)[<<A[d], 0>>] = H[d]
         /\ \A p \in Path : PresentIn(A, H)[p] # 0 => PresentIn(A, H)[<<p[1]>>] = 1
<1>1. ASSUME NEW d \in Dir, A[d] \in DirName
      PROVE  PresentIn(A, H)[<<A[d]>>] = 1 /\ PresentIn(A, H)[<<A[d], 0>>] = H[d]
  <2>1. <<A[d]>> \in Path /\ <<A[d], 0>> \in Path
    BY <1>1, PathParts
  <2>2. /\ <<A[d]>>[1] = A[d] /\ Len(<<A[d]>>) = 1
        /\ <<A[d], 0>>[1] = A[d] /\ Len(<<A[d], 0>>) = 2
    OBVIOUS
  <2> DEFINE c == CHOOSE e \in Dir : A[e] = <<A[d], 0>>[1]
  <2>3. c = d
    BY <1>1, <2>2
  <2>4. PresentIn(A, H)[<<A[d], 0>>] = H[c]
    <3>1. PresentIn(A, H)[<<A[d], 0>>] = FileIn(A, H, <<A[d], 0>>)
      BY <2>1, <2>2 DEF PresentIn
    <3> QED BY <3>1 DEF FileIn
  <2>5. PresentIn(A, H)[<<A[d]>>] = 1
    BY <2>1, <2>2 DEF PresentIn
  <2> QED BY <2>3, <2>4, <2>5
<1>2. ASSUME NEW p \in Path, \A d \in Dir : A[d] # p[1]
      PROVE  PresentIn(A, H)[p] = 0
  BY <1>2 DEF PresentIn
<1>3. ASSUME NEW p \in Path
      PROVE  PresentIn(A, H)[p] \in 0 .. MaxVersion
  <2>1. CASE \A d \in Dir : A[d] # p[1]
    BY <1>2, <2>1, Bounds
  <2>2. ASSUME NEW d \in Dir, A[d] = p[1]
        PROVE  PresentIn(A, H)[p] \in 0 .. MaxVersion
    <3>1. A[d] \in DirName
      BY <2>2, PathParts
    <3>2. p = <<A[d]>> \/ p = <<A[d], 0>>
      BY <2>2, PathParts
    <3>3. H[d] \in 0 .. MaxVersion /\ 1 \in 0 .. MaxVersion
      BY Bounds
    <3> QED BY <1>1, <3>1, <3>2, <3>3
  <2> QED BY <2>1, <2>2
<1>4. ASSUME NEW p \in Path, PresentIn(A, H)[p] # 0
      PROVE  PresentIn(A, H)[<<p[1]>>] = 1
  <2>1. PICK d \in Dir : A[d] = p[1]
    BY <1>2, <1>4
  <2> QED BY <1>1, <2>1, PathParts
<1>5. PresentIn(A, H) \in [Path -> 0 .. MaxVersion]
  <2>1. PresentIn(A, H) = [p \in Path |-> PresentIn(A, H)[p]]
    BY DEF PresentIn
  <2> QED BY <1>3, <2>1
<1> QED BY <1>1, <1>2, <1>4, <1>5

LEMMA StatIsPresent ==
  /\ \A p \in Path : Stat(p) = PresentIn(at, holds)[p]
  /\ \A p \in Path : Stat(p)' = PresentIn(at', holds')[p]
<1>1. ASSUME NEW p \in Path
      PROVE  Stat(p) = PresentIn(at, holds)[p]
  BY DEF Stat, DirAt, PresentIn, FileIn
<1>2. ASSUME NEW p \in Path
      PROVE  Stat(p)' = PresentIn(at', holds')[p]
  BY DEF Stat, DirAt, PresentIn, FileIn
<1> QED BY <1>1, <1>2

LEMMA StatType ==
  ASSUME WorldFits
  PROVE  /\ \A p \in Path : Stat(p) \in 0 .. MaxVersion
         /\ \A p \in Path : (\A d \in Dir : at[d] # p[1]) => Stat(p) = 0
         /\ \A d \in Dir : at[d] \in DirName => Stat(<<at[d]>>) = 1 /\ Stat(<<at[d], 0>>) = holds[d]
         /\ \A p \in Path : Stat(p) # 0 => Stat(<<p[1]>>) = 1
<1>1. /\ at \in [Dir -> DirName \cup {0, Gone}] /\ holds \in [Dir -> 0 .. MaxVersion]
      /\ \A d, e \in Dir : d # e /\ at[d] \in DirName => at[d] # at[e]
  BY DEF WorldFits
<1> DEFINE now == PresentIn(at, holds)
<1>2. /\ now \in [Path -> 0 .. MaxVersion]
      /\ \A p \in Path : (\A d \in Dir : at[d] # p[1]) => now[p] = 0
      /\ \A d \in Dir : at[d] \in DirName => now[<<at[d]>>] = 1 /\ now[<<at[d], 0>>] = holds[d]
      /\ \A p \in Path : now[p] # 0 => now[<<p[1]>>] = 1
  BY <1>1, PresentParts
<1> HIDE DEF now
<1>3. \A p \in Path : Stat(p) = now[p]
  BY StatIsPresent DEF now
<1>4. ASSUME NEW d \in Dir, at[d] \in DirName
      PROVE  Stat(<<at[d]>>) = 1 /\ Stat(<<at[d], 0>>) = holds[d]
  BY <1>2, <1>3, <1>4, PathParts
<1>5. ASSUME NEW p \in Path
      PROVE  /\ Stat(p) \in 0 .. MaxVersion
             /\ (\A d \in Dir : at[d] # p[1]) => Stat(p) = 0
             /\ Stat(p) # 0 => Stat(<<p[1]>>) = 1
  BY <1>2, <1>3, PathParts
<1> QED BY <1>4, <1>5

LEMMA RecordMade ==
  ASSUME NEW reason \in Reasons, NEW n \in DirName
  PROVE  /\ Record(reason, "root", <<n>>) \in Records
         /\ \A d \in Dir : Record(reason, d, <<n, 0>>) \in Records
BY DEF Record, Records

LEMMA RecordParts ==
  ASSUME NEW r \in Records
  PROVE  /\ r.reason # "rescan" => /\ r.path \in Path
                                   /\ r.dir = "root" \/ (r.dir \in Dir /\ r.path = <<r.path[1], 0>>)
         /\ r.reason = "rescan" => r.dir = "root" /\ r.path = <<>>
         /\ r.dir \in Dir => r.reason # "rescan" /\ r.dir # "root"
<1>1. CASE r \in [reason : Reasons, dir : {"root"}, path : {<<n>> : n \in DirName}]
  BY <1>1, PathParts, Bounds DEF Reasons, Removal
<1>2. CASE r \in [reason : Reasons, dir : Dir, path : {<<n, 0>> : n \in DirName}]
  <2>1. PICK n \in DirName : r.path = <<n, 0>>
    BY <1>2
  <2> QED BY <1>2, <2>1, PathParts, Bounds DEF Reasons, Removal
<1>3. CASE r \in [reason : {"rescan"}, dir : {"root"}, path : {<<>>}]
  BY <1>3, Bounds
<1> QED BY <1>1, <1>2, <1>3 DEF Records

LEMMA StatedIsChange ==
  ASSUME WorldFits, NEW p \in Path
  PROVE  /\ Removed(p) \in Changes /\ Removed(p).path = p /\ Removed(p).op = "removed"
         /\ Removed(p).version = 0
         /\ Stated(p).path = p /\ Stated(p).op = "stated" /\ Stated(p).version = Stat(p)
         /\ Stat(p) # 0 => Stated(p) \in Changes
BY StatType, Bounds DEF Removed, Stated, Changes, Change

\* Everything there is can be put into a sequence.
LEMMA PathsAreFinite == IsFiniteSet(Path)
<1> DEFINE D == {<<n>> : n \in DirName}  F == {<<n, 0>> : n \in DirName}
           toD == [n \in DirName |-> <<n>>]  toF == [n \in DirName |-> <<n, 0>>]
<1>1. toD \in Surjection(DirName, D) /\ toF \in Surjection(DirName, F)
  BY DEF Surjection
<1>2. IsFiniteSet(DirName)
  BY FeedAssumption
<1> HIDE DEF D, F, toD, toF
<1>3. IsFiniteSet(D) /\ IsFiniteSet(F)
  BY <1>1, <1>2, FS_Surjection
<1>4. IsFiniteSet(D \cup F)
  BY <1>3, FS_Union
<1> QED BY <1>4 DEF Path, D, F

LEMMA ListOfSet ==
  ASSUME NEW S \in SUBSET Path
  PROVE  /\ SetToSeq(S) \in [1 .. Cardinality(S) -> S] /\ Cardinality(S) \in Nat
         /\ \A x \in S : \E i \in 1 .. Cardinality(S) : SetToSeq(S)[i] = x
         /\ \A i, j \in 1 .. Cardinality(S) : i # j => SetToSeq(S)[i] # SetToSeq(S)[j]
<1>1. IsFiniteSet(S)
  BY PathsAreFinite, FS_Subset
<1>2. Cardinality(S) \in Nat /\ ExistsBijection(1 .. Cardinality(S), S)
  BY <1>1, FS_CardinalityType
<1> DEFINE n == Cardinality(S)
<1>3. \E f \in [1 .. n -> S] : IsInjective(f)
  BY <1>2 DEF ExistsBijection, Bijection, Injection
<1>4. SetToSeq(S) \in [1 .. n -> S] /\ IsInjective(SetToSeq(S))
  BY <1>3 DEF SetToSeq
<1>5. SetToSeq(S) \in Injection(1 .. n, S)
  BY <1>4 DEF Injection
<1>6. IsFiniteSet(1 .. n) /\ Cardinality(1 .. n) = n
  BY <1>2, FS_Interval
<1>7. SetToSeq(S) \in Surjection(1 .. n, S)
  BY <1>1, <1>5, <1>6, FS_Injection
<1>8. \A i, j \in 1 .. n : i # j => SetToSeq(S)[i] # SetToSeq(S)[j]
  BY <1>4 DEF IsInjective
<1> QED BY <1>2, <1>4, <1>7, <1>8 DEF Surjection

-----------------------------------------------------------------------------
(* What holds of the variables of their own: Basics. *)

LEMMA InitBasics == Init => Basics
<1> SUFFICES ASSUME Init PROVE Basics
  OBVIOUS
<1>1. journal = <<>> /\ batch = <<>> /\ pending = <<>> /\ chan = <<>> /\ Len(journal) = 0
  BY DEF Init
<1>2. <<>> \in Seq(Records) /\ <<>> \in Seq(Changes) /\ <<>> \in Seq(Nat) /\ Len(<<>>) = 0
  OBVIOUS
<1>3. WorldFits
  <2> DEFINE first == CHOOSE e \in Dir : TRUE  name == CHOOSE n \in DirName : TRUE
  <2>1. name \in DirName
    BY FeedAssumption
  <2>2. at \in [Dir -> DirName \cup {0, Gone}] /\ \A d \in Dir : at[d] \in DirName => d = first
    <3>1. at = [d \in Dir |-> IF d = first THEN name ELSE 0]
      BY DEF Init
    <3> HIDE DEF first, name
    <3> QED BY <2>1, <3>1, Bounds
  <2> HIDE DEF first, name
  <2>3. holds \in [Dir -> 0 .. MaxVersion] /\ \A d \in Dir : at[d] = 0 => holds[d] = 0
    BY Bounds DEF Init
  <2>4. \A d, f \in Dir : d # f /\ at[d] \in DirName => at[d] # at[f]
    BY <2>2
  <2>5. ops \in 0 .. MaxOps[client] /\ mishaps \in 0 .. MaxMishaps[client] /\ moved \subseteq DirName
    BY Bounds DEF Init
  <2> QED BY <1>1, <1>2, <2>2, <2>3, <2>4, <2>5 DEF WorldFits, Init
<1>4. ReaderFits
  <2>1. cache = [d \in Dir |-> 0] /\ cache \in [Dir -> DirName \cup {0}]
    BY DEF Init
  <2>2. /\ pos \in 0 .. Len(journal) /\ cursor \in -1 .. Len(journal) /\ pos = 0
        /\ Len(batch) <= pos /\ \A i \in 1 .. Len(batch) : batch[i] = journal[Converted + i]
    BY <1>1, <1>2 DEF Init
  <2>3. ~up /\ ~reading /\ up \in BOOLEAN /\ reading \in BOOLEAN
    BY DEF Init
  <2> QED BY <1>1, <1>2, <2>1, <2>2, <2>3 DEF ReaderFits
<1>5. StoreFits
  BY <1>1, <1>2, Bounds DEF StoreFits, Init
<1>6. SubFits
  BY <1>2, Bounds DEF SubFits, Init, NoSub
<1> QED BY <1>3, <1>4, <1>5, <1>6 DEF Basics

-----------------------------------------------------------------------------
(* What an operation on the tree amounts to. *)

\* Directories differ in d only: so do the paths.
LEMMA PresentChange ==
  ASSUME NEW A \in [Dir -> DirName \cup {0, Gone}], NEW H \in [Dir -> 0 .. MaxVersion],
         NEW B \in [Dir -> DirName \cup {0, Gone}], NEW G \in [Dir -> 0 .. MaxVersion],
         \A e, f \in Dir : e # f /\ A[e] \in DirName => A[e] # A[f],
         \A e, f \in Dir : e # f /\ B[e] \in DirName => B[e] # B[f],
         NEW d \in Dir, \A e \in Dir : e # d => B[e] = A[e] /\ G[e] = H[e],
         NEW p \in Path, p[1] \notin {A[d], B[d]}
  PROVE  PresentIn(A, H)[p] = PresentIn(B, G)[p]
<1>1. CASE \A e \in Dir : A[e] # p[1]
  <2>1. \A e \in Dir : B[e] # p[1]
    BY <1>1
  <2> QED BY <1>1, <2>1, PresentParts
<1>2. ASSUME NEW e \in Dir, A[e] = p[1]
      PROVE  PresentIn(A, H)[p] = PresentIn(B, G)[p]
  <2>1. e # d /\ B[e] = A[e] /\ G[e] = H[e] /\ A[e] \in DirName
    BY <1>2, PathParts
  <2>2. PresentIn(A, H)[<<A[e]>>] = 1 /\ PresentIn(A, H)[<<A[e], 0>>] = H[e]
    BY <2>1, PresentParts
  <2>3. PresentIn(B, G)[<<B[e]>>] = 1 /\ PresentIn(B, G)[<<B[e], 0>>] = G[e]
    BY <2>1, PresentParts
  <2>4. p = <<A[e]>> \/ p = <<A[e], 0>>
    BY <1>2, PathParts
  <2> QED BY <2>1, <2>2, <2>3, <2>4
<1> QED BY <1>1, <1>2

Touches(r, p) == r.path = p \/ (r.reason \in Removal /\ IsPrefix(r.path, p))

TreeType(A, H) ==
  /\ A \in [Dir -> DirName \cup {0, Gone}] /\ H \in [Dir -> 0 .. MaxVersion]
  /\ \A e, f \in Dir : e # f /\ A[e] \in DirName => A[e] # A[f]
  /\ \A e \in Dir : A[e] = 0 => H[e] = 0

\* The records that an operation on d leaves tell of every path it changes,
\* but for the files of a directory that is renamed, and the last that
\* touches a path tells what has become of it.
Tells(d, rs, A, B, m, S, T) ==
  /\ \A i \in 1 .. Len(rs) :
       /\ rs[i].reason # "rescan" /\ rs[i].dir \in {"root", d}
       /\ rs[i].dir = d => rs[i].path = <<A[d], 0>> /\ B[d] = A[d] /\ A[d] \in DirName
  /\ B[d] # 0
  /\ B[d] # A[d] /\ A[d] # 0 =>
       /\ A[d] \in DirName /\ (B[d] = Gone \/ (A[d] \in m /\ B[d] \in m))
       /\ \E i \in 1 .. Len(rs) : rs[i].path = <<A[d]>> /\ rs[i].reason \in Removal
  /\ \A p \in Path : \/ Len(p) = 2 /\ p[1] \in m
                     \/ T[p] = S[p]
                     \/ \E i \in 1 .. Len(rs) : rs[i].path = p
  /\ \A p \in Path : \A i \in 1 .. Len(rs) :
       /\ ~(Len(p) = 2 /\ p[1] \in m) /\ Touches(rs[i], p)
       /\ \A j \in i + 1 .. Len(rs) : ~Touches(rs[j], p)
       => /\ rs[i].reason \in Removal <=> T[p] = 0
          /\ rs[i].dir = "root" \/ (rs[i].dir = d /\ B[d] = p[1])

Happened(d, rs) ==
  /\ rs \in Seq(Records) /\ journal' = journal \o rs
  /\ ops' \in 0 .. MaxOps[client]
  /\ UNCHANGED <<fixed, up, reader, cursor, chan, hand, toWalk, store, clients, mishaps,
                 stale, missed>>
  /\ moved \subseteq moved' /\ moved' \subseteq DirName
  /\ TreeType(at', holds')
  /\ \A e \in Dir : e # d => at'[e] = at[e] /\ holds'[e] = holds[e]
  /\ Tells(d, rs, at, at', moved', PresentIn(at, holds), PresentIn(at', holds'))

LEMMA OneRecordTells ==
  ASSUME NEW d, NEW r \in Records, NEW A, NEW B, NEW m, NEW S, NEW T, d # "root",
         r.reason # "rescan", r.dir \in {"root", d}, B[d] # 0,
         r.dir = d => r.path = <<A[d], 0>> /\ B[d] = A[d] /\ A[d] \in DirName,
         B[d] # A[d] /\ A[d] # 0 =>
           /\ A[d] \in DirName /\ (B[d] = Gone \/ (A[d] \in m /\ B[d] \in m))
           /\ r.path = <<A[d]>> /\ r.reason \in Removal,
         \A p \in Path : T[p] = S[p] \/ r.path = p,
         \A p \in Path :
           Touches(r, p) =>
             /\ r.reason \in Removal <=> T[p] = 0
             /\ r.dir = "root" \/ B[d] = p[1]
  PROVE  <<r>> \in Seq(Records) /\ Tells(d, <<r>>, A, B, m, S, T)
<1> DEFINE rs == <<r>>
<1>1. rs \in Seq(Records) /\ Len(rs) = 1 /\ rs[1] = r /\ \A i \in 1 .. Len(rs) : rs[i] = r
  OBVIOUS
<1>2. 1 \in 1 .. Len(rs)
  BY <1>1
<1> HIDE DEF rs
<1>3. ASSUME NEW i \in 1 .. Len(rs)
      PROVE  /\ rs[i].reason # "rescan" /\ rs[i].dir \in {"root", d}
             /\ rs[i].dir = d => rs[i].path = <<A[d], 0>> /\ B[d] = A[d] /\ A[d] \in DirName
  BY <1>1
<1>4. B[d] # A[d] /\ A[d] # 0 => \E i \in 1 .. Len(rs) : rs[i].path = <<A[d]>> /\ rs[i].reason \in Removal
  BY <1>1, <1>2
<1>5. \A p \in Path : T[p] = S[p] \/ \E i \in 1 .. Len(rs) : rs[i].path = p
  BY <1>1, <1>2
<1>6. ASSUME NEW p \in Path, NEW i \in 1 .. Len(rs), Touches(rs[i], p)
      PROVE  /\ rs[i].reason \in Removal <=> T[p] = 0
             /\ rs[i].dir = "root" \/ (rs[i].dir = d /\ B[d] = p[1])
  <2>1. rs[i] = r
    BY <1>1
  <2>2. Touches(r, p)
    BY <1>6, <2>1
  <2> QED BY <2>1, <2>2
<1>7. Tells(d, rs, A, B, m, S, T)
  BY <1>3, <1>4, <1>5, <1>6 DEF Tells
<1> QED BY <1>1, <1>7 DEF rs

LEMMA LogHappens ==
  ASSUME WorldFits, NEW rs \in Seq(Records), Log(rs)
  PROVE  /\ journal' = journal \o rs /\ ops' \in 0 .. MaxOps[client]
         /\ UNCHANGED <<fixed, up, reader, cursor, chan, hand, toWalk, store, clients, mishaps,
                        stale, missed>>
<1>1. ops \in Nat /\ MaxOps[client] \in Nat /\ ops < MaxOps[client]
  BY Bounds DEF WorldFits, Log
<1>2. ops + 1 \in 0 .. MaxOps[client]
  BY <1>1
<1> QED BY <1>2 DEF Log

LEMMA TreeFits ==
  ASSUME WorldFits
  PROVE  TreeType(at, holds) /\ PresentIn(at, holds) \in [Path -> 0 .. MaxVersion]
<1>1. TreeType(at, holds)
  BY DEF WorldFits, TreeType
<1> QED BY <1>1, PresentParts DEF TreeType

LEMMA OneRecordHappens ==
  ASSUME WorldFits, NEW d \in Dir, NEW r \in Records, Log(<<r>>),
         moved \subseteq moved', moved' \subseteq DirName,
         TreeType(at', holds'), \A e \in Dir : e # d => at'[e] = at[e] /\ holds'[e] = holds[e],
         r.reason # "rescan", r.dir \in {"root", d}, at'[d] # 0,
         r.dir = d => r.path = <<at[d], 0>> /\ at'[d] = at[d] /\ at[d] \in DirName,
         at'[d] # at[d] /\ at[d] # 0 =>
           /\ at[d] \in DirName /\ (at'[d] = Gone \/ (at[d] \in moved' /\ at'[d] \in moved'))
           /\ r.path = <<at[d]>> /\ r.reason \in Removal,
         \A p \in Path : PresentIn(at', holds')[p] = PresentIn(at, holds)[p] \/ r.path = p,
         \A p \in Path :
           Touches(r, p) =>
             /\ r.reason \in Removal <=> PresentIn(at', holds')[p] = 0
             /\ r.dir = "root" \/ at'[d] = p[1]
  PROVE  Happened(d, <<r>>)
<1>1. d # "root"
  BY Bounds
<1>2. <<r>> \in Seq(Records) /\ Tells(d, <<r>>, at, at', moved', PresentIn(at, holds), PresentIn(at', holds'))
  BY <1>1, OneRecordTells
<1> QED BY <1>2, LogHappens DEF Happened

LEMMA MakeDirHappens ==
  ASSUME WorldFits, NEW d \in Dir, NEW n \in DirName, MakeDir(d, n)
  PROVE  Happened(d, <<Record("create", "root", <<n>>)>>)
<1> DEFINE r == Record("create", "root", <<n>>)
           S == PresentIn(at, holds)  T == PresentIn(at', holds')
<1>1. /\ at[d] = 0 /\ holds[d] = 0 /\ (\A e \in Dir : at[e] # n) /\ at' = [at EXCEPT ![d] = n]
      /\ holds' = holds /\ moved' = moved /\ moved \subseteq DirName
  BY DEF MakeDir, DirAt, WorldFits
<1>2. TreeType(at, holds) /\ d # "root" /\ n # 0 /\ n # Gone
  BY TreeFits, Bounds
<1>3. at'[d] = n /\ \A e \in Dir : e # d => at'[e] = at[e] /\ holds'[e] = holds[e]
  BY <1>1, <1>2 DEF TreeType
<1>4. TreeType(at', holds')
  BY <1>1, <1>2, <1>3 DEF TreeType
<1>5. r \in Records /\ r.reason = "create" /\ r.dir = "root" /\ r.path = <<n>>
  BY RecordMade DEF Record, Reasons
<1>6. T[<<n>>] = 1 /\ T[<<n, 0>>] = 0 /\ S[<<n, 0>>] = 0
  <2>1. T[<<n>>] = 1 /\ T[<<n, 0>>] = holds'[d]
    BY <1>3, <1>4, PresentParts DEF TreeType
  <2>2. <<n, 0>> \in Path /\ <<n, 0>>[1] = n
    BY PathParts
  <2>3. S[<<n, 0>>] = 0
    BY <1>1, <1>2, <2>2, PresentParts DEF TreeType
  <2> QED BY <1>1, <2>1, <2>3
<1>7. ASSUME NEW p \in Path
      PROVE  T[p] = S[p] \/ r.path = p
  <2>1. CASE p[1] = n
    BY <1>5, <1>6, <2>1, PathParts
  <2>2. CASE p[1] # n
    <3>1. p[1] # at[d]
      BY <1>1, PathParts, Bounds
    <3> QED BY <1>2, <1>3, <1>4, <2>2, <3>1, PresentChange DEF TreeType
  <2> QED BY <2>1, <2>2
<1> HIDE DEF r, S, T
<1>8. ASSUME NEW p \in Path, Touches(r, p)
      PROVE  /\ r.reason \in Removal <=> T[p] = 0
             /\ r.dir = "root" \/ at'[d] = p[1]
  <2>1. r.reason \notin Removal
    BY <1>5 DEF Removal
  <2>2. p = <<n>>
    BY <1>5, <1>8, <2>1 DEF Touches
  <2> QED BY <1>5, <1>6, <2>1, <2>2
<1>9. at'[d] # 0 /\ r.reason # "rescan" /\ r.dir \in {"root", d} /\ r.dir # d
  BY <1>2, <1>3, <1>5
<1>10. Log(<<r>>) /\ moved \subseteq moved' /\ moved' \subseteq DirName
  BY <1>1 DEF MakeDir, r
<1>12. \A p \in Path : PresentIn(at', holds')[p] = PresentIn(at, holds)[p] \/ r.path = p
  BY <1>7 DEF S, T
<1>13. \A p \in Path :
         Touches(r, p) =>
           /\ r.reason \in Removal <=> PresentIn(at', holds')[p] = 0
           /\ r.dir = "root" \/ at'[d] = p[1]
  BY <1>8 DEF T
<1>14. r.dir = d => r.path = <<at[d], 0>> /\ at'[d] = at[d] /\ at[d] \in DirName
  BY <1>9
<1>15. at'[d] # at[d] /\ at[d] # 0 =>
         /\ at[d] \in DirName /\ (at'[d] = Gone \/ (at[d] \in moved' /\ at'[d] \in moved'))
         /\ r.path = <<at[d]>> /\ r.reason \in Removal
  BY <1>1
<1>11. Happened(d, <<r>>)
  BY <1>1, <1>3, <1>4, <1>5, <1>9, <1>10, <1>12, <1>13, <1>14, <1>15, OneRecordHappens
<1> QED BY <1>11 DEF r

LEMMA RemoveDirHappens ==
  ASSUME WorldFits, NEW d \in Dir, RemoveDir(d)
  PROVE  Happened(d, <<Record("delete", "root", <<at[d]>>)>>)
<1> DEFINE a == at[d]  r == Record("delete", "root", <<a>>)
           S == PresentIn(at, holds)  T == PresentIn(at', holds')
<1>1. /\ a \in DirName /\ holds[d] = 0 /\ at' = [at EXCEPT ![d] = Gone] /\ Log(<<r>>)
      /\ holds' = holds /\ moved' = moved /\ moved \subseteq DirName
  BY DEF RemoveDir, WorldFits
<1>2. TreeType(at, holds) /\ d # "root"
  BY TreeFits, Bounds
<1>3. at'[d] = Gone /\ \A e \in Dir : e # d => at'[e] = at[e] /\ holds'[e] = holds[e]
  BY <1>1, <1>2 DEF TreeType
<1>4. TreeType(at', holds')
  BY <1>1, <1>2, <1>3, Bounds DEF TreeType
<1>5. r \in Records /\ r.reason = "delete" /\ r.dir = "root" /\ r.path = <<a>> /\ r.reason \in Removal
  BY <1>1, RecordMade DEF Record, Reasons, Removal
<1>6. T[<<a>>] = 0 /\ T[<<a, 0>>] = 0 /\ S[<<a, 0>>] = 0
  <2>1. <<a>> \in Path /\ <<a, 0>> \in Path /\ <<a>>[1] = a /\ <<a, 0>>[1] = a
    BY <1>1, PathParts
  <2>2. \A e \in Dir : at'[e] # a
    BY <1>1, <1>2, <1>3, Bounds DEF TreeType
  <2>3. T[<<a>>] = 0 /\ T[<<a, 0>>] = 0
    BY <1>4, <2>1, <2>2, PresentParts DEF TreeType
  <2>4. S[<<a, 0>>] = 0
    BY <1>1, <1>2, PresentParts DEF TreeType
  <2> QED BY <2>3, <2>4
<1>7. ASSUME NEW p \in Path
      PROVE  T[p] = S[p] \/ r.path = p
  <2>1. CASE p[1] = a
    <3> HIDE DEF r, S, T, a
    <3>1. p = <<a>> \/ p = <<a, 0>>
      BY <2>1, PathParts
    <3> QED BY <1>5, <1>6, <3>1
  <2>2. CASE p[1] # a
    <3>1. p[1] # at'[d]
      BY <1>3, PathParts, Bounds
    <3> QED BY <1>2, <1>3, <1>4, <2>2, <3>1, PresentChange DEF TreeType
  <2> QED BY <2>1, <2>2
<1> HIDE DEF r, S, T, a
<1>8. ASSUME NEW p \in Path, Touches(r, p)
      PROVE  (r.reason \in Removal <=> T[p] = 0) /\ (r.dir = "root" \/ at'[d] = p[1])
  <2>1. <<a>> \in Path /\ <<a>>[1] = a
    BY <1>1, PathParts
  <2>2. p[1] = a
    BY <1>5, <1>8, <2>1, PathPrefix DEF Touches
  <2> QED BY <1>5, <1>6, <2>2, PathParts
<1>9. at'[d] # 0 /\ r.reason # "rescan" /\ r.dir \in {"root", d} /\ r.dir # d
  BY <1>2, <1>3, <1>5, Bounds
<1>10. /\ at[d] \in DirName /\ (at'[d] = Gone \/ (at[d] \in moved' /\ at'[d] \in moved'))
       /\ r.path = <<at[d]>> /\ r.reason \in Removal
  BY <1>1, <1>3, <1>5 DEF a
<1>12. \A p \in Path : PresentIn(at', holds')[p] = PresentIn(at, holds)[p] \/ r.path = p
  BY <1>7 DEF S, T
<1>13. \A p \in Path :
         Touches(r, p) =>
           /\ r.reason \in Removal <=> PresentIn(at', holds')[p] = 0
           /\ r.dir = "root" \/ at'[d] = p[1]
  BY <1>8 DEF T
<1>14. r.dir = d => r.path = <<at[d], 0>> /\ at'[d] = at[d] /\ at[d] \in DirName
  BY <1>9
<1>15. at'[d] # at[d] /\ at[d] # 0 =>
         /\ at[d] \in DirName /\ (at'[d] = Gone \/ (at[d] \in moved' /\ at'[d] \in moved'))
         /\ r.path = <<at[d]>> /\ r.reason \in Removal
  BY <1>10
<1>11. Happened(d, <<r>>)
  BY <1>1, <1>3, <1>4, <1>5, <1>9, <1>10, <1>12, <1>13, <1>14, <1>15, OneRecordHappens
<1> QED BY <1>11 DEF r, a

LEMMA WriteFileHappens ==
  ASSUME WorldFits, NEW d \in Dir, WriteFile(d)
  PROVE  Happened(d, <<Record(IF holds[d] = 0 THEN "create" ELSE "modify", d, <<at[d], 0>>)>>)
<1> DEFINE a == at[d]  r == Record(IF holds[d] = 0 THEN "create" ELSE "modify", d, <<a, 0>>)
           S == PresentIn(at, holds)  T == PresentIn(at', holds')
<1>1. /\ a \in DirName /\ holds[d] < MaxVersion /\ holds' = [holds EXCEPT ![d] = @ + 1] /\ Log(<<r>>)
      /\ at' = at /\ moved' = moved /\ moved \subseteq DirName
  BY DEF WriteFile, WorldFits
<1>2. TreeType(at, holds) /\ d # "root" /\ holds[d] \in 0 .. MaxVersion /\ a # 0
  BY <1>1, TreeFits, Bounds DEF TreeType
<1>3. /\ holds'[d] = holds[d] + 1 /\ holds[d] + 1 \in 1 .. MaxVersion
      /\ \A e \in Dir : e # d => at'[e] = at[e] /\ holds'[e] = holds[e]
  BY <1>1, <1>2, Bounds DEF TreeType
<1>4. TreeType(at', holds')
  BY <1>1, <1>2, <1>3 DEF TreeType
<1>5. r \in Records /\ r.reason \in {"create", "modify"} /\ r.dir = d /\ r.path = <<a, 0>>
  BY <1>1, RecordMade DEF Record, Reasons
<1>6. T[<<a>>] = 1 /\ S[<<a>>] = 1 /\ T[<<a, 0>>] # 0
  <2>1. at'[d] = a /\ holds'[d] # 0
    BY <1>1, <1>3
  <2>2. S[<<a>>] = 1
    BY <1>1, <1>2, PresentParts DEF TreeType
  <2>3. T[<<at'[d]>>] = 1 /\ T[<<at'[d], 0>>] = holds'[d]
    BY <1>1, <1>4, <2>1, PresentParts DEF TreeType
  <2> QED BY <2>1, <2>2, <2>3
<1>7. ASSUME NEW p \in Path
      PROVE  T[p] = S[p] \/ r.path = p
  <2>1. CASE p[1] = a
    <3> HIDE DEF r, S, T, a
    <3>1. p = <<a>> \/ p = <<a, 0>>
      BY <2>1, PathParts
    <3> QED BY <1>5, <1>6, <3>1
  <2>2. CASE p[1] # a
    <3>1. p[1] \notin {at[d], at'[d]}
      BY <1>1, <2>2
    <3> QED BY <1>2, <1>3, <1>4, <3>1, PresentChange DEF TreeType
  <2> QED BY <2>1, <2>2
<1> HIDE DEF r, S, T, a
<1>8. ASSUME NEW p \in Path, Touches(r, p)
      PROVE  (r.reason \in Removal <=> T[p] = 0) /\ (r.dir = "root" \/ at'[d] = p[1])
  <2>1. r.reason \notin Removal
    BY <1>5 DEF Removal
  <2>2. p = <<a, 0>> /\ p[1] = a
    BY <1>5, <1>8, <2>1 DEF Touches
  <2> QED BY <1>1, <1>6, <2>1, <2>2 DEF a
<1>9. /\ at'[d] # 0 /\ at'[d] = at[d] /\ r.reason # "rescan" /\ r.dir \in {"root", d}
      /\ r.path = <<at[d], 0>> /\ at[d] \in DirName
  BY <1>1, <1>2, <1>5 DEF a
<1>12. \A p \in Path : PresentIn(at', holds')[p] = PresentIn(at, holds)[p] \/ r.path = p
  BY <1>7 DEF S, T
<1>13. \A p \in Path :
         Touches(r, p) =>
           /\ r.reason \in Removal <=> PresentIn(at', holds')[p] = 0
           /\ r.dir = "root" \/ at'[d] = p[1]
  BY <1>8 DEF T
<1>14. r.dir = d => r.path = <<at[d], 0>> /\ at'[d] = at[d] /\ at[d] \in DirName
  BY <1>9
<1>15. at'[d] # at[d] /\ at[d] # 0 =>
         /\ at[d] \in DirName /\ (at'[d] = Gone \/ (at[d] \in moved' /\ at'[d] \in moved'))
         /\ r.path = <<at[d]>> /\ r.reason \in Removal
  BY <1>9
<1>11. Happened(d, <<r>>)
  BY <1>1, <1>3, <1>4, <1>5, <1>9, <1>12, <1>13, <1>14, <1>15, OneRecordHappens
<1> QED BY <1>11 DEF r, a

LEMMA DeleteFileHappens ==
  ASSUME WorldFits, NEW d \in Dir, DeleteFile(d)
  PROVE  Happened(d, <<Record("delete", d, <<at[d], 0>>)>>)
<1> DEFINE a == at[d]  r == Record("delete", d, <<a, 0>>)
           S == PresentIn(at, holds)  T == PresentIn(at', holds')
<1>1. /\ a \in DirName /\ holds' = [holds EXCEPT ![d] = 0] /\ Log(<<r>>)
      /\ at' = at /\ moved' = moved /\ moved \subseteq DirName
  BY DEF DeleteFile, WorldFits
<1>2. TreeType(at, holds) /\ d # "root" /\ a # 0
  BY <1>1, TreeFits, Bounds DEF TreeType
<1>3. /\ holds'[d] = 0 /\ 0 \in 0 .. MaxVersion
      /\ \A e \in Dir : e # d => at'[e] = at[e] /\ holds'[e] = holds[e]
  BY <1>1, <1>2, Bounds DEF TreeType
<1>4. TreeType(at', holds')
  BY <1>1, <1>2, <1>3 DEF TreeType
<1>5. r \in Records /\ r.reason = "delete" /\ r.reason \in Removal /\ r.dir = d /\ r.path = <<a, 0>>
  BY <1>1, RecordMade DEF Record, Reasons, Removal
<1>6. T[<<a>>] = 1 /\ S[<<a>>] = 1 /\ T[<<a, 0>>] = 0
  <2>1. at'[d] = a /\ holds'[d] = 0
    BY <1>1, <1>3
  <2>2. S[<<a>>] = 1
    BY <1>1, <1>2, PresentParts DEF TreeType
  <2>3. T[<<at'[d]>>] = 1 /\ T[<<at'[d], 0>>] = holds'[d]
    BY <1>1, <1>4, <2>1, PresentParts DEF TreeType
  <2> QED BY <2>1, <2>2, <2>3
<1>7. ASSUME NEW p \in Path
      PROVE  T[p] = S[p] \/ r.path = p
  <2>1. CASE p[1] = a
    <3> HIDE DEF r, S, T, a
    <3>1. p = <<a>> \/ p = <<a, 0>>
      BY <2>1, PathParts
    <3> QED BY <1>5, <1>6, <3>1
  <2>2. CASE p[1] # a
    <3>1. p[1] \notin {at[d], at'[d]}
      BY <1>1, <2>2
    <3> QED BY <1>2, <1>3, <1>4, <3>1, PresentChange DEF TreeType
  <2> QED BY <2>1, <2>2
<1> HIDE DEF r, S, T, a
<1>8. ASSUME NEW p \in Path, Touches(r, p)
      PROVE  (r.reason \in Removal <=> T[p] = 0) /\ (r.dir = "root" \/ at'[d] = p[1])
  <2>1. <<a, 0>> \in Path /\ <<a, 0>> # <<p[1]>>
    BY <1>1, PathParts
  <2>2. p = <<a, 0>> /\ p[1] = a
    BY <1>5, <1>8, <2>1, PathPrefix DEF Touches
  <2> QED BY <1>1, <1>5, <1>6, <2>2 DEF a
<1>9. /\ at'[d] # 0 /\ at'[d] = at[d] /\ r.reason # "rescan" /\ r.dir \in {"root", d}
      /\ r.path = <<at[d], 0>> /\ at[d] \in DirName
  BY <1>1, <1>2, <1>5 DEF a
<1>12. \A p \in Path : PresentIn(at', holds')[p] = PresentIn(at, holds)[p] \/ r.path = p
  BY <1>7 DEF S, T
<1>13. \A p \in Path :
         Touches(r, p) =>
           /\ r.reason \in Removal <=> PresentIn(at', holds')[p] = 0
           /\ r.dir = "root" \/ at'[d] = p[1]
  BY <1>8 DEF T
<1>14. r.dir = d => r.path = <<at[d], 0>> /\ at'[d] = at[d] /\ at[d] \in DirName
  BY <1>9
<1>15. at'[d] # at[d] /\ at[d] # 0 =>
         /\ at[d] \in DirName /\ (at'[d] = Gone \/ (at[d] \in moved' /\ at'[d] \in moved'))
         /\ r.path = <<at[d]>> /\ r.reason \in Removal
  BY <1>9
<1>11. Happened(d, <<r>>)
  BY <1>1, <1>3, <1>4, <1>5, <1>9, <1>12, <1>13, <1>14, <1>15, OneRecordHappens
<1> QED BY <1>11 DEF r, a

LEMMA TwoRecords ==
  ASSUME NEW r \in Records, NEW s \in Records
  PROVE  /\ <<r, s>> \in Seq(Records) /\ Len(<<r, s>>) = 2 /\ <<r, s>>[1] = r /\ <<r, s>>[2] = s
         /\ \A i \in 1 .. Len(<<r, s>>) : i = 1 \/ i = 2
OBVIOUS

LEMMA RenameDirHappens ==
  ASSUME WorldFits, NEW d \in Dir, NEW n \in DirName, RenameDir(d, n)
  PROVE  Happened(d, <<Record("rename old", "root", <<at[d]>>), Record("rename new", "root", <<n>>)>>)
<1> DEFINE a == at[d]  r == Record("rename old", "root", <<a>>)  s == Record("rename new", "root", <<n>>)
           rs == <<r, s>>  S == PresentIn(at, holds)  T == PresentIn(at', holds')
<1>1. /\ a \in DirName /\ (\A e \in Dir : at[e] # n) /\ at' = [at EXCEPT ![d] = n] /\ Log(rs)
      /\ holds' = holds /\ moved' = moved \cup {a, n} /\ moved \subseteq DirName
  BY DEF RenameDir, DirAt, WorldFits
<1>2. TreeType(at, holds) /\ d # "root" /\ n # 0 /\ n # Gone /\ a # 0 /\ a # Gone /\ a # n
  BY <1>1, TreeFits, Bounds
<1>3. at'[d] = n /\ \A e \in Dir : e # d => at'[e] = at[e] /\ holds'[e] = holds[e]
  BY <1>1, <1>2 DEF TreeType
<1>4. TreeType(at', holds')
  BY <1>1, <1>2, <1>3 DEF TreeType
<1>5. /\ r \in Records /\ r.reason = "rename old" /\ r.dir = "root" /\ r.path = <<a>>
      /\ s \in Records /\ s.reason = "rename new" /\ s.dir = "root" /\ s.path = <<n>>
  BY <1>1, RecordMade DEF Record, Reasons, Removal
<1>6. T[<<a>>] = 0 /\ T[<<n>>] = 1
  <2>1. <<a>> \in Path /\ <<a>>[1] = a
    BY <1>1, PathParts
  <2>2. \A e \in Dir : at'[e] # a
    BY <1>1, <1>2, <1>3 DEF TreeType
  <2>3. T[<<a>>] = 0
    BY <1>4, <2>1, <2>2, PresentParts DEF TreeType
  <2>4. T[<<at'[d]>>] = 1
    BY <1>3, <1>4, PresentParts DEF TreeType
  <2> QED BY <1>3, <2>3, <2>4
<1>7. /\ Len(rs) = 2 /\ rs[1] = r /\ rs[2] = s /\ rs \in Seq(Records)
      /\ \A i \in 1 .. Len(rs) : i = 1 \/ i = 2
  <2> HIDE DEF r, s
  <2> QED BY <1>5, TwoRecords
<1>8. ASSUME NEW p \in Path
      PROVE  \/ Len(p) = 2 /\ p[1] \in moved'
             \/ T[p] = S[p]
             \/ \E i \in 1 .. Len(rs) : rs[i].path = p
  <2>1. CASE p[1] \in {a, n}
    <3> HIDE DEF r, s, S, T, a, rs
    <3>1. CASE Len(p) = 2
      BY <1>1, <2>1, <3>1
    <3>2. CASE p = <<p[1]>>
      <4>1. 1 \in 1 .. Len(rs) /\ 2 \in 1 .. Len(rs)
        BY <1>7
      <4>2. rs[1].path = p \/ rs[2].path = p
        BY <1>5, <1>7, <2>1, <3>2
      <4> QED BY <4>1, <4>2
    <3> QED BY <3>1, <3>2, PathParts
  <2>2. CASE p[1] \notin {a, n}
    <3>1. p[1] \notin {at[d], at'[d]}
      BY <1>3, <2>2
    <3>2. S[p] = T[p]
      BY <1>2, <1>3, <1>4, <3>1, PresentChange DEF TreeType
    <3> QED BY <3>2
  <2> QED BY <2>1, <2>2
<1>9. \E i \in 1 .. Len(rs) : rs[i].path = <<at[d]>> /\ rs[i].reason \in Removal
  <2> HIDE DEF r, s, rs
  <2>1. 1 \in 1 .. Len(rs)
    BY <1>7
  <2>2. rs[1].path = <<at[d]>> /\ rs[1].reason \in Removal
    BY <1>5, <1>7 DEF Removal
  <2> QED BY <2>1, <2>2
<1> HIDE DEF r, s, S, T, a, rs
<1>10. ASSUME NEW p \in Path, NEW i \in 1 .. Len(rs), ~(Len(p) = 2 /\ p[1] \in moved'), Touches(rs[i], p)
       PROVE  (rs[i].reason \in Removal <=> T[p] = 0) /\ (rs[i].dir = "root" \/ (rs[i].dir = d /\ at'[d] = p[1]))
  <2>1. CASE i = 1
    <3>1. Touches(r, p) /\ rs[i] = r
      BY <1>7, <1>10, <2>1
    <3>2. <<a>> \in Path /\ <<a>>[1] = a
      BY <1>1, PathParts DEF a
    <3>3. p[1] = a
      BY <1>5, <3>1, <3>2, PathPrefix DEF Touches
    <3>4. p = <<a>>
      BY <1>1, <1>10, <3>3, PathParts
    <3> QED BY <1>5, <1>6, <3>1, <3>4 DEF Removal
  <2>2. CASE i = 2
    <3>1. Touches(s, p) /\ rs[i] = s
      BY <1>7, <1>10, <2>2
    <3>2. s.reason \notin Removal
      BY <1>5 DEF Removal
    <3>3. p = <<n>>
      BY <1>5, <3>1, <3>2 DEF Touches
    <3>4. T[p] # 0
      BY <1>6, <3>3
    <3> QED BY <1>5, <3>1, <3>2, <3>4
  <2> QED BY <1>7, <2>1, <2>2
<1>11. ASSUME NEW i \in 1 .. Len(rs)
       PROVE  rs[i].reason # "rescan" /\ rs[i].dir \in {"root", d} /\ rs[i].dir # d
  BY <1>2, <1>5, <1>7
<1>12. Tells(d, rs, at, at', moved', S, T)
  <2>1. at'[d] # 0 /\ at[d] \in DirName /\ at[d] \in moved' /\ at'[d] \in moved'
    BY <1>1, <1>2, <1>3 DEF a
  <2> QED BY <1>8, <1>9, <1>10, <1>11, <2>1 DEF Tells
<1>13. moved \subseteq moved' /\ moved' \subseteq DirName
  BY <1>1
<1>14. Happened(d, rs)
  BY <1>1, <1>3, <1>4, <1>7, <1>12, <1>13, LogHappens DEF Happened, S, T
<1> QED BY <1>14 DEF r, s, a, rs

LEMMA OperateHappens ==
  ASSUME WorldFits, Operate
  PROVE  \E d \in Dir : \E rs \in Seq(Records) : Happened(d, rs)
<1>1. ASSUME NEW d \in Dir, NEW rs, Happened(d, rs)
      PROVE  \E e \in Dir : \E ss \in Seq(Records) : Happened(e, ss)
  <2>1. rs \in Seq(Records)
    BY <1>1 DEF Happened
  <2> QED BY <1>1, <2>1
<1>2. PICK d \in Dir : \/ WriteFile(d) \/ DeleteFile(d) \/ RemoveDir(d)
                       \/ \E n \in DirName : MakeDir(d, n) \/ RenameDir(d, n)
  BY DEF Operate
<1>3. CASE WriteFile(d)
  BY <1>1, <1>3, WriteFileHappens
<1>4. CASE DeleteFile(d)
  BY <1>1, <1>4, DeleteFileHappens
<1>5. CASE RemoveDir(d)
  BY <1>1, <1>5, RemoveDirHappens
<1>6. ASSUME NEW n \in DirName, MakeDir(d, n)
      PROVE  \E e \in Dir : \E ss \in Seq(Records) : Happened(e, ss)
  BY <1>1, <1>6, MakeDirHappens
<1>7. ASSUME NEW n \in DirName, RenameDir(d, n)
      PROVE  \E e \in Dir : \E ss \in Seq(Records) : Happened(e, ss)
  BY <1>1, <1>7, RenameDirHappens
<1> QED BY <1>2, <1>3, <1>4, <1>5, <1>6, <1>7

-----------------------------------------------------------------------------
(* Basics is inductive. *)

LEMMA WorldKept ==
  ASSUME WorldFits, UNCHANGED <<fixed, world, moved, mishaps>>
  PROVE  WorldFits'
BY DEF WorldFits, fixed, world

LEMMA Logged ==
  ASSUME WorldFits, NEW d \in Dir, NEW rs, Happened(d, rs)
  PROVE  /\ rs \in Seq(Records) /\ journal' \in Seq(Records) /\ Len(journal') = Len(journal) + Len(rs)
         /\ Len(journal) \in Nat /\ Len(rs) \in Nat
         /\ \A i \in 1 .. Len(journal) : journal'[i] = journal[i]
         /\ \A i \in 1 .. Len(rs) : journal'[Len(journal) + i] = rs[i]
         /\ \A i \in 1 .. Len(journal') :
              \/ i \in 1 .. Len(journal) /\ journal'[i] = journal[i]
              \/ i - Len(journal) \in 1 .. Len(rs) /\ journal'[i] = rs[i - Len(journal)]
<1>1. rs \in Seq(Records) /\ journal \in Seq(Records) /\ journal' = journal \o rs
  BY DEF Happened, WorldFits
<1>2. /\ journal' \in Seq(Records) /\ Len(journal') = Len(journal) + Len(rs)
      /\ \A i \in 1 .. Len(journal) + Len(rs) :
           journal'[i] = IF i <= Len(journal) THEN journal[i] ELSE rs[i - Len(journal)]
  BY <1>1, ConcatProperties
<1>3. Len(journal) \in Nat /\ Len(rs) \in Nat
  BY <1>1
<1>4. ASSUME NEW i \in 1 .. Len(rs)
      PROVE  journal'[Len(journal) + i] = rs[i]
  <2>1. Len(journal) + i \in 1 .. Len(journal) + Len(rs) /\ ~(Len(journal) + i <= Len(journal))
    BY <1>3
  <2>2. Len(journal) + i - Len(journal) = i
    BY <1>3
  <2> QED BY <1>2, <2>1, <2>2
<1> QED BY <1>1, <1>2, <1>3, <1>4

LEMMA Dropped ==
  ASSUME WorldFits, ReaderFits, HistoryDropped
  PROVE  /\ platform = "macos" /\ up /\ pos \in Nat /\ pos < Len(journal)
         /\ journal' \in Seq(Records) /\ Len(journal') = pos + 1
         /\ \A i \in 1 .. pos : journal'[i] = journal[i]
         /\ journal'[pos + 1] = [reason |-> "rescan", dir |-> "root", path |-> <<>>]
<1> DEFINE j == SubSeq(journal, 1, pos)  r == Record("rescan", "root", <<>>)
<1>1. journal' = Append(j, r) /\ platform = "macos" /\ up /\ pos < Len(journal)
  BY DEF HistoryDropped
<1>2. pos \in Nat /\ journal \in Seq(Records)
  BY DEF ReaderFits, WorldFits
<1>3. \A i \in 1 .. pos : journal[i] \in Records
  BY <1>1, <1>2, ElementOfSeq
<1>4. /\ j \in Seq(Records) /\ Len(j) = (IF 1 <= pos THEN pos - 1 + 1 ELSE 0)
      /\ \A i \in 1 .. pos - 1 + 1 : j[i] = journal[1 + i - 1]
  BY <1>2, <1>3, SubSeqProperties
<1>5. Len(j) = pos /\ \A i \in 1 .. pos : j[i] = journal[i]
  BY <1>2, <1>4
<1>6. r \in Records /\ r = [reason |-> "rescan", dir |-> "root", path |-> <<>>]
  BY DEF Record, Records
<1> HIDE DEF j, r
<1>7. /\ journal' \in Seq(Records) /\ Len(journal') = pos + 1
      /\ \A i \in 1 .. pos : journal'[i] = journal[i]
      /\ journal'[pos + 1] = r
  BY <1>1, <1>4, <1>5, <1>6, AppendProperties
<1> QED BY <1>1, <1>2, <1>6, <1>7

LEMMA WorldStep ==
  ASSUME Basics, [Next]_vars
  PROVE  WorldFits'
<1> USE DEF Basics
<1>1. CASE Operate
  <2>1. PICK d \in Dir, rs \in Seq(Records) : Happened(d, rs)
    BY <1>1, OperateHappens
  <2>2. /\ journal' = journal \o rs /\ ops' \in 0 .. MaxOps[client] /\ moved' \subseteq DirName
        /\ TreeType(at', holds') /\ UNCHANGED <<fixed, mishaps>>
        /\ \A e \in Dir : e # d => at'[e] = at[e] /\ holds'[e] = holds[e]
    BY <2>1 DEF Happened
  <2>3. /\ \A i \in 1 .. Len(rs) : rs[i].reason # "rescan" /\ rs[i].dir \in {"root", d}
        /\ at'[d] # 0
    BY <2>1 DEF Happened, Tells
  <2>4. journal' \in Seq(Records)
    BY <2>1, Logged
  <2>5. ASSUME NEW i \in 1 .. Len(journal')
        PROVE  \/ i \in 1 .. Len(journal) /\ journal'[i] = journal[i]
               \/ journal'[i].reason # "rescan" /\ journal'[i].dir \in {"root", d}
    BY <2>1, <2>3, Logged
  <2>6. \A i \in 1 .. Len(journal') : journal'[i].reason = "rescan" => platform' = "macos"
    BY <2>2, <2>5 DEF WorldFits, fixed
  <2>7. ASSUME NEW e \in Dir, at'[e] = 0
        PROVE  holds'[e] = 0 /\ \A i \in 1 .. Len(journal') : journal'[i].dir # e
    <3>1. e # d /\ at[e] = 0 /\ e # "root"
      BY <2>2, <2>3, <2>7, Bounds
    <3>2. \A i \in 1 .. Len(journal) : journal[i].dir # e
      BY <3>1 DEF WorldFits
    <3>3. holds'[e] = 0
      BY <2>2, <2>7 DEF TreeType
    <3> QED BY <2>5, <3>1, <3>2, <3>3
  <2> QED BY <2>2, <2>4, <2>6, <2>7 DEF WorldFits, TreeType, fixed
<1>2. CASE StartUp
  <2>1. moved' \subseteq moved /\ UNCHANGED <<fixed, world, mishaps>>
    BY <1>2 DEF StartUp
  <2> QED BY <2>1 DEF WorldFits, fixed, world
<1>3. CASE Crash
  <2>1. mishaps' \in 0 .. MaxMishaps[client] /\ UNCHANGED <<fixed, world, moved>>
    BY <1>3, Bounds DEF Crash, WorldFits
  <2> QED BY <2>1 DEF WorldFits, fixed, world
<1>4. CASE HistoryDropped
  <2>1. mishaps' \in 0 .. MaxMishaps[client] /\ UNCHANGED <<fixed, at, holds, ops, moved>>
    BY <1>4, Bounds DEF HistoryDropped, WorldFits
  <2>2. platform = "macos" /\ journal' \in Seq(Records)
    BY <1>4, Dropped
  <2>3. ASSUME NEW i \in 1 .. Len(journal')
        PROVE  journal'[i].dir = "root" \/ (i \in 1 .. Len(journal) /\ journal'[i] = journal[i])
    BY <1>4, Dropped
  <2>4. ASSUME NEW e \in Dir, at'[e] = 0
        PROVE  holds'[e] = 0 /\ \A i \in 1 .. Len(journal') : journal'[i].dir # e
    <3>1. e # "root" /\ at[e] = 0 /\ holds'[e] = holds[e]
      BY <2>1, <2>4, Bounds
    <3> QED BY <2>3, <3>1 DEF WorldFits
  <2> QED BY <2>1, <2>2, <2>4 DEF WorldFits, fixed
<1>5. ASSUME UNCHANGED vars \/ ReadBatch \/ Convert \/ Send \/ DropChange \/ SaveCursor
                \/ SaveIdleCursor \/ Consume \/ Fanout \/ (\E p \in Path : WalkRow(p)) \/ Serve
      PROVE  UNCHANGED <<fixed, world, moved, mishaps>>
  BY <1>5 DEF vars, ReadBatch, Convert, Send, DropChange, SaveCursor, SaveIdleCursor, Consume, Fanout,
              WalkRow, Serve, Subscribe, Unsubscribe, Deliver, Count, ReadRows, history
<1> QED BY <1>1, <1>2, <1>3, <1>4, <1>5, WorldKept DEF Next

LEMMA ReaderNumbers ==
  ASSUME WorldFits, ReaderFits
  PROVE  /\ pos \in Nat /\ Len(batch) \in Nat /\ Len(journal) \in Nat /\ Converted \in Nat
         /\ Converted = pos - Len(batch) /\ Converted <= pos /\ pos <= Len(journal) /\ cursor \in Int
         /\ \A i \in 1 .. Len(batch) : Converted + i \in Converted + 1 .. pos
<1>1. pos \in Nat /\ Len(batch) \in Nat /\ Len(journal) \in Nat /\ Len(batch) <= pos /\ pos <= Len(journal)
  BY DEF ReaderFits, WorldFits
<1>2. cursor \in Int
  BY <1>1 DEF ReaderFits
<1> QED BY <1>1, <1>2 DEF Converted

LEMMA ReaderKept ==
  ASSUME WorldFits, ReaderFits, UNCHANGED <<up, reader, cursor>>,
         Len(journal') \in Nat, pos <= Len(journal'), cursor <= Len(journal'),
         \A i \in 1 .. pos : journal'[i] = journal[i]
  PROVE  ReaderFits'
<1>1. UNCHANGED <<up, cursor, pos, batch, reading, pending, cache>>
  BY DEF reader
<1>2. Converted' = Converted /\ Converted \in Nat /\ Converted + Len(batch) = pos /\ pos \in Nat /\ Len(batch) \in Nat
  BY <1>1, ReaderNumbers DEF Converted
<1>3. ASSUME NEW i \in 1 .. Len(batch)
      PROVE  batch[i] = journal'[Converted + i]
  <2>1. Converted + i \in 1 .. pos
    BY <1>2
  <2> QED BY <2>1 DEF ReaderFits
<1>4. pos \in 0 .. Len(journal') /\ cursor \in -1 .. Len(journal')
  BY <1>2, ReaderNumbers DEF ReaderFits
<1> QED BY <1>1, <1>2, <1>3, <1>4 DEF ReaderFits

LEMMA ReadEffect ==
  ASSUME WorldFits, ReaderFits, ReadBatch
  PROVE  /\ batch' \in Seq(Records) /\ Len(batch') <= pos' /\ pos' \in pos + 1 .. Len(journal)
         /\ Converted' = Converted /\ Converted = pos
         /\ \A i \in 1 .. Len(batch') : batch'[i] = journal[Converted + i]
<1>1. PICK k \in pos + 1 .. Len(journal) : batch' = SubSeq(journal, pos + 1, k) /\ pos' = k
  BY DEF ReadBatch
<1>2. pos \in Nat /\ Len(journal) \in Nat /\ Len(batch) = 0 /\ Converted = pos
  BY ReaderNumbers DEF ReadBatch, ReaderFits
<1>3. \A i \in pos + 1 .. k : journal[i] \in Records
  BY <1>2, ElementOfSeq DEF WorldFits
<1>4. /\ batch' \in Seq(Records) /\ Len(batch') = (IF pos + 1 <= k THEN k - (pos + 1) + 1 ELSE 0)
      /\ \A i \in 1 .. k - (pos + 1) + 1 : batch'[i] = journal[(pos + 1) + i - 1]
  BY <1>1, <1>2, <1>3, SubSeqProperties
<1>5. Len(batch') = k - pos /\ \A i \in 1 .. k - pos : batch'[i] = journal[pos + i]
  <2>1. k \in Nat /\ pos + 1 <= k /\ k - (pos + 1) + 1 = k - pos
    BY <1>2
  <2>2. ASSUME NEW i \in 1 .. k - pos
        PROVE  batch'[i] = journal[pos + i]
    <3>1. (pos + 1) + i - 1 = pos + i
      BY <1>2
    <3> QED BY <1>4, <2>1, <3>1
  <2> QED BY <1>4, <2>1, <2>2
<1> QED BY <1>1, <1>2, <1>4, <1>5 DEF Converted

\* The record that Convert takes is the next of the journal.
LEMMA NextRecord ==
  ASSUME WorldFits, ReaderFits, batch # <<>>, batch' = Tail(batch), pos' = pos
  PROVE  /\ Converted' = Converted + 1 /\ Converted + 1 <= pos /\ Converted \in Nat
         /\ Head(batch) = journal[Converted + 1] /\ Head(batch) \in Records
         /\ batch' \in Seq(Records) /\ Len(batch') <= pos
         /\ \A i \in 1 .. Len(batch') : batch'[i] = journal[Converted + 1 + i]
<1>1. /\ batch \in Seq(Records) /\ Len(batch) \in Nat /\ Len(batch) >= 1 /\ Len(batch) <= pos /\ pos \in Nat
      /\ \A i \in 1 .. Len(batch) : batch[i] = journal[Converted + i]
  BY DEF ReaderFits, WorldFits
<1>2. /\ Head(batch) \in Records /\ batch' \in Seq(Records) /\ Len(batch') = Len(batch) - 1
      /\ \A i \in 1 .. Len(batch') : batch'[i] = batch[i + 1]
  BY HeadTailProperties DEF ReaderFits
<1>3. Head(batch) = batch[1]
  BY <1>1
<1>4. Converted' = Converted + 1 /\ Converted \in Nat /\ Converted + 1 <= pos
  BY <1>1, <1>2 DEF Converted
<1>5. ASSUME NEW i \in 1 .. Len(batch')
      PROVE  batch'[i] = journal[Converted + 1 + i]
  <2>1. i + 1 \in 1 .. Len(batch) /\ Converted + (i + 1) = Converted + 1 + i
    BY <1>1, <1>2, <1>4
  <2> QED BY <1>1, <1>2, <2>1
<1> QED BY <1>1, <1>2, <1>3, <1>4, <1>5

LEMMA ChangeOfPath ==
  ASSUME WorldFits, NEW p \in Path
  PROVE  /\ <<Removed(p)>> \in Seq(Changes) /\ <<>> \in Seq(Changes)
         /\ Stat(p) # 0 => <<Stated(p)>> \in Seq(Changes)
BY StatedIsChange DEF Removed, Stated

LEMMA ConvertEffect ==
  ASSUME WorldFits, ReaderFits, Convert
  PROVE  /\ pending' \in Seq(Changes) /\ cache' \in [Dir -> DirName \cup {0}]
<1> DEFINE r == Head(batch)
<1>1. r \in Records
  BY NextRecord DEF Convert
<1>2. ASSUME NEW p \in Path
      PROVE  WindowsChange(r, p) \in Seq(Changes)
  BY ChangeOfPath DEF WindowsChange
<1>3. r.reason = "rescan" => platform = "macos"
  <2>1. r = journal[Converted + 1] /\ Converted + 1 \in 1 .. Len(journal)
    BY NextRecord, ReaderNumbers DEF Convert
  <2> QED BY <2>1 DEF WorldFits
<1>4. r.reason # "rescan" => r.path \in Path /\ r.dir \in Dir \cup {"root"}
  BY <1>1, RecordParts
<1> HIDE DEF r
<1>5. CASE platform = "windows"
  <2>1. ConvertWindows(r) /\ r.reason # "rescan" /\ r.path \in Path
    BY <1>3, <1>4, <1>5 DEF Convert, r
  <2>2. CASE r.dir = "root"
    BY <1>2, <2>1, <2>2 DEF ConvertWindows, ReaderFits
  <2>3. CASE r.dir # "root"
    <3> DEFINE known == IF cache[r.dir] # 0 THEN cache[r.dir] ELSE at[r.dir]
    <3>1. r.dir \in Dir /\ known \in DirName \cup {0, Gone}
      BY <1>4, <2>1, <2>3 DEF ReaderFits, WorldFits
    <3>2. known # 0
      <4>1. r = journal[Converted + 1] /\ Converted + 1 \in 1 .. Len(journal)
        BY NextRecord, ReaderNumbers DEF Convert, r
      <4> QED BY <3>1, <4>1 DEF WorldFits
    <3>3. CASE known = Gone
      BY <2>1, <2>3, <3>3, ChangeOfPath DEF ConvertWindows, ReaderFits
    <3>4. CASE known # Gone
      <4>1. cache' = [cache EXCEPT ![r.dir] = known] /\ pending' = WindowsChange(r, <<known, 0>>)
        BY <2>1, <2>3, <3>4 DEF ConvertWindows
      <4>2. known \in DirName /\ <<known, 0>> \in Path
        BY <3>1, <3>2, <3>4, PathParts
      <4> HIDE DEF known
      <4> QED BY <1>2, <3>1, <4>1, <4>2 DEF ReaderFits
    <3> QED BY <3>3, <3>4
  <2> QED BY <2>2, <2>3
<1>6. CASE platform # "windows"
  <2>1. ConvertMac(r)
    BY <1>6 DEF Convert, r
  <2>2. CASE r.reason = "rescan"
    <3> DEFINE there == {p \in Path : Stat(p) # 0}  n == Cardinality(there)
    <3>1. SetToSeq(there) \in [1 .. n -> there] /\ n \in Nat
      BY ListOfSet
    <3> DEFINE l == SetToSeq(there)
    <3>2. pending' = [i \in DOMAIN l |-> Stated(l[i])]
      BY <2>1, <2>2 DEF ConvertMac
    <3> HIDE DEF l
    <3>3. l \in [1 .. n -> there] /\ DOMAIN l = 1 .. n
      BY <3>1 DEF l
    <3>4. \A i \in 1 .. n : l[i] \in Path /\ Stat(l[i]) # 0
      BY <3>3
    <3>5. \A i \in 1 .. n : Stated(l[i]) \in Changes
      BY <3>4, StatedIsChange
    <3> HIDE DEF n
    <3>6. pending' \in [1 .. n -> Changes]
      BY <3>2, <3>3, <3>5
    <3>7. pending' \in Seq(Changes)
      BY <3>1, <3>6
    <3> QED BY <2>1, <3>7 DEF ConvertMac, ReaderFits
  <2>3. CASE r.reason # "rescan"
    BY <1>4, <2>1, <2>3, ChangeOfPath DEF ConvertMac, ReaderFits
  <2> QED BY <2>2, <2>3
<1> QED BY <1>5, <1>6

\* Sending and dropping take the first of pending.
LEMMA SentEffect ==
  ASSUME ReaderFits, pending # <<>>
  PROVE  /\ Head(pending) \in Changes /\ Tail(pending) \in Seq(Changes) /\ Head(pending) = pending[1]
         /\ Len(pending) \in Nat /\ Len(pending) >= 1 /\ Len(Tail(pending)) = Len(pending) - 1
         /\ \A i \in 1 .. Len(Tail(pending)) : Tail(pending)[i] = pending[i + 1]
<1>1. pending \in Seq(Changes)
  BY DEF ReaderFits
<1> QED BY <1>1, HeadTailProperties

LEMMA ReaderStep ==
  ASSUME Basics, [Next]_vars
  PROVE  ReaderFits'
<1> USE DEF Basics
<1>0. /\ pos \in Nat /\ Len(batch) \in Nat /\ Len(journal) \in Nat /\ Converted \in Nat
      /\ Converted = pos - Len(batch) /\ Converted <= pos /\ pos <= Len(journal) /\ cursor \in Int
  BY ReaderNumbers
<1>1. CASE Operate
  <2>1. PICK d \in Dir, rs \in Seq(Records) : Happened(d, rs)
    BY <1>1, OperateHappens
  <2>2. /\ Len(journal') = Len(journal) + Len(rs) /\ Len(rs) \in Nat
        /\ \A i \in 1 .. Len(journal) : journal'[i] = journal[i]
    BY <2>1, Logged
  <2>3. UNCHANGED <<up, reader, cursor>>
    BY <2>1 DEF Happened
  <2> QED BY <1>0, <2>2, <2>3, ReaderKept DEF ReaderFits
<1>2. CASE HistoryDropped
  <2>1. UNCHANGED <<up, reader, cursor>> /\ cursor <= pos
    BY <1>0, <1>2, Dropped DEF HistoryDropped, ReaderFits
  <2> QED BY <1>0, <1>2, <2>1, Dropped, ReaderKept
<1>3. CASE StartUp
  <2>1. /\ up' = TRUE /\ UNCHANGED <<batch, reading, pending, cache, journal>>
        /\ \/ pos' = cursor /\ cursor' = cursor /\ cursor >= 0
           \/ pos' = Len(journal) /\ cursor' = -1
    BY <1>3 DEF StartUp, world
  <2>2. batch = <<>> /\ pending = <<>> /\ ~reading /\ Len(<<>>) = 0
    BY <1>3 DEF StartUp, ReaderFits
  <2>3. pos' \in 0 .. Len(journal') /\ cursor' \in -1 .. Len(journal') /\ cursor' <= pos'
    BY <1>0, <2>1 DEF ReaderFits
  <2>6. Len(batch') = 0 /\ pos' \in Nat
    BY <1>0, <2>1, <2>2
  <2>7. ASSUME NEW x \in Nat, NEW n, n = 0
        PROVE  x - n = x
    BY <2>7
  <2>4. Len(batch') = 0 /\ Converted' = pos'
    BY <2>6, <2>7, Zenon DEF Converted
  <2>5. up' \in BOOLEAN /\ up' /\ reading' \in BOOLEAN /\ ~reading'
    BY <2>1, <2>2 DEF ReaderFits
  <2> QED BY <2>1, <2>2, <2>3, <2>4, <2>5 DEF ReaderFits
<1>4. CASE Crash
  <2>1. /\ up' = FALSE /\ pos' = 0 /\ batch' = <<>> /\ reading' = FALSE /\ pending' = <<>>
        /\ cache' = [d \in Dir |-> 0] /\ cursor' \in {cursor, -1} /\ journal' = journal
    BY <1>4 DEF Crash, world
  <2>2. Len(batch') = 0 /\ cursor' \in -1 .. Len(journal') /\ pos' \in 0 .. Len(journal')
    BY <1>0, <2>1 DEF ReaderFits
  <2>3. cache' \in [Dir -> DirName \cup {0}]
    BY <2>1
  <2>4. batch' \in Seq(Records) /\ pending' \in Seq(Changes) /\ \A i \in 1 .. Len(batch') : FALSE
    BY <2>1, <2>2
  <2>5. up' \in BOOLEAN /\ ~up' /\ reading' \in BOOLEAN /\ ~reading'
    BY <2>1
  <2> QED BY <2>1, <2>2, <2>3, <2>4, <2>5 DEF ReaderFits
<1>5. CASE ReadBatch
  <2>1. UNCHANGED <<up, pending, cache, cursor, journal>> /\ reading' = TRUE /\ up /\ ~reading
    BY <1>5 DEF ReadBatch, world
  <2>2. reading' /\ reading' \in BOOLEAN /\ pos' \in 0 .. Len(journal')
    BY <1>0, <1>5, <2>1, ReadEffect
  <2>3. \A i \in 1 .. Len(batch') : batch'[i] = journal'[Converted' + i]
    BY <1>5, <2>1, ReadEffect
  <2>4. batch' \in Seq(Records) /\ Len(batch') <= pos' /\ Converted' = Converted
    BY <1>5, ReadEffect
  <2> QED BY <2>1, <2>2, <2>3, <2>4 DEF ReaderFits
<1>6. CASE Convert
  <2>1. UNCHANGED <<up, pos, reading, cursor, journal>> /\ up /\ batch # <<>> /\ batch' = Tail(batch)
    BY <1>6 DEF Convert, world
  <2>2. /\ Converted' = Converted + 1 /\ batch' \in Seq(Records) /\ Len(batch') <= pos'
        /\ \A i \in 1 .. Len(batch') : batch'[i] = journal'[Converted' + i]
    BY <2>1, NextRecord
  <2>3. pending' \in Seq(Changes) /\ cache' \in [Dir -> DirName \cup {0}]
    BY <1>6, ConvertEffect
  <2>4. reading /\ cursor <= Converted
    BY <2>1 DEF ReaderFits
  <2>5. Converted' > 0 /\ cursor' < Converted' /\ cursor' <= Converted'
    BY <1>0, <2>1, <2>2, <2>4
  <2>6. pos' \in 0 .. Len(journal') /\ cursor' \in -1 .. Len(journal') /\ up' \in BOOLEAN /\ reading' \in BOOLEAN
    BY <2>1 DEF ReaderFits
  <2> QED BY <2>1, <2>2, <2>3, <2>4, <2>5, <2>6 DEF ReaderFits
<1>7. CASE Send \/ DropChange
  <2>1. /\ UNCHANGED <<up, pos, batch, reading, cache, cursor, journal>> /\ up
        /\ pending # <<>> /\ pending' = Tail(pending)
    BY <1>7 DEF Send, DropChange, world
  <2>2. pending' \in Seq(Changes) /\ Converted' = Converted
    BY <2>1, SentEffect DEF Converted
  <2> QED BY <2>1, <2>2 DEF ReaderFits
<1>8. CASE SaveCursor
  <2>1. /\ UNCHANGED <<up, pos, batch, pending, cache, journal>> /\ up /\ batch = <<>> /\ pending = <<>>
        /\ cursor' = pos /\ reading' = FALSE
    BY <1>8 DEF SaveCursor, world
  <2>2. Converted' = pos
    BY <1>0, <2>1 DEF Converted
  <2>5. ~reading' /\ reading' \in BOOLEAN
    BY <2>1
  <2>3. cursor' \in -1 .. Len(journal') /\ cursor' <= Converted'
    BY <1>0, <2>1, <2>2
  <2>4. \A i \in 1 .. Len(batch') : batch'[i] = journal'[Converted' + i]
    BY <1>0, <2>1, <2>2 DEF ReaderFits
  <2> QED BY <2>1, <2>2, <2>3, <2>4, <2>5 DEF ReaderFits
<1>9. CASE SaveIdleCursor
  <2>1. UNCHANGED <<up, pos, batch, pending, cache, reading, journal>> /\ up /\ ~reading /\ cursor' = pos
    BY <1>9 DEF SaveIdleCursor, world, reader
  <2>2. batch = <<>> /\ pending = <<>> /\ Converted' = pos
    BY <1>0, <2>1 DEF Converted, ReaderFits
  <2> QED BY <1>0, <2>1, <2>2 DEF ReaderFits
<1>10. ASSUME UNCHANGED vars \/ Consume \/ Fanout \/ (\E p \in Path : WalkRow(p)) \/ Serve
       PROVE  UNCHANGED <<up, reader, cursor, journal>>
  BY <1>10 DEF vars, Consume, Fanout, WalkRow, Serve, Subscribe, Unsubscribe, Deliver, Count, ReadRows, world
<1>11. ASSUME UNCHANGED <<up, reader, cursor, journal>>
       PROVE  ReaderFits'
  BY <1>0, <1>11, ReaderKept DEF ReaderFits
<1> QED BY <1>1, <1>2, <1>3, <1>4, <1>5, <1>6, <1>7, <1>8, <1>9, <1>10, <1>11 DEF Next

LEMMA ChanEffect ==
  ASSUME StoreFits, chan # <<>>
  PROVE  /\ Head(chan) \in Changes /\ Tail(chan) \in Seq(Changes) /\ Head(chan) = chan[1]
         /\ Len(chan) \in Nat /\ Len(chan) >= 1 /\ Len(Tail(chan)) = Len(chan) - 1
         /\ \A i \in 1 .. Len(Tail(chan)) : Tail(chan)[i] = chan[i + 1]
<1>1. chan \in Seq(Changes)
  BY DEF StoreFits
<1> QED BY <1>1, HeadTailProperties

LEMMA StoreStep ==
  ASSUME Basics, [Next]_vars
  PROVE  StoreFits'
<1> USE DEF Basics
<1>1. CASE StartUp
  <2>1. UNCHANGED <<chan, index>> /\ toWalk' \subseteq Path /\ up' = TRUE
    BY <1>1, PathParts DEF StartUp, store
  <2> QED BY <2>1 DEF StoreFits
<1>2. CASE Crash
  <2>1. chan' = <<>> /\ toWalk' = {} /\ index' = index /\ up' = FALSE
    BY <1>2 DEF Crash
  <2>2. chan' \in Seq(Changes) /\ Len(chan') <= ChanCap
    BY <2>1, Bounds
  <2> QED BY <2>1, <2>2 DEF StoreFits
<1>3. CASE Send
  <2>1. chan' = Append(chan, Head(pending)) /\ Len(chan) < ChanCap /\ UNCHANGED <<index, toWalk, up>> /\ up
    BY <1>3 DEF Send, store
  <2>2. Head(pending) \in Changes
    BY <1>3, SentEffect DEF Send
  <2>3. chan' \in Seq(Changes) /\ Len(chan') = Len(chan) + 1 /\ Len(chan) \in Nat
    BY <2>1, <2>2, AppendProperties DEF StoreFits
  <2> QED BY <2>1, <2>3, Bounds DEF StoreFits
<1>4. CASE Consume
  <2>1. chan' = Tail(chan) /\ index' = AfterChange(Head(chan)) /\ UNCHANGED <<toWalk, up>> /\ up /\ chan # <<>>
    BY <1>4 DEF Consume
  <2>2. Head(chan).version \in 0 .. MaxVersion
    BY <2>1, ChanEffect DEF Changes, Change
  <2>3. index' \in [Path -> 0 .. MaxVersion]
    BY <2>1, <2>2, Bounds DEF AfterChange, StoreFits
  <2>4. chan' \in Seq(Changes) /\ Len(chan') <= ChanCap
    BY <2>1, ChanEffect, Bounds DEF StoreFits
  <2> QED BY <2>1, <2>3, <2>4 DEF StoreFits
<1>5. ASSUME NEW p \in Path, WalkRow(p)
      PROVE  StoreFits'
  <2>1. /\ index' = (IF Stat(p) = 0 THEN index ELSE [index EXCEPT ![p] = Stat(p)])
        /\ toWalk' = (toWalk \ {p}) \cup Children(p) /\ UNCHANGED <<chan, up>> /\ up
    BY <1>5 DEF WalkRow
  <2>2. Stat(p) \in 0 .. MaxVersion /\ Children(p) \subseteq Path
    BY StatType DEF Children
  <2>3. index' \in [Path -> 0 .. MaxVersion]
    BY <2>1, <2>2 DEF StoreFits
  <2> QED BY <2>1, <2>2, <2>3 DEF StoreFits
<1>6. CASE Operate
  <2>1. PICK d \in Dir, rs \in Seq(Records) : Happened(d, rs)
    BY <1>6, OperateHappens
  <2>2. UNCHANGED <<chan, index, toWalk, up>>
    BY <2>1 DEF Happened, store
  <2> QED BY <2>2 DEF StoreFits
<1>7. ASSUME UNCHANGED vars \/ ReadBatch \/ Convert \/ DropChange \/ SaveCursor
                \/ SaveIdleCursor \/ HistoryDropped \/ Fanout \/ Serve
      PROVE  UNCHANGED <<chan, index, toWalk, up>>
  BY <1>7 DEF vars, ReadBatch, Convert, DropChange, SaveCursor, SaveIdleCursor, HistoryDropped, Fanout,
              Serve, Subscribe, Unsubscribe, Deliver, Count, ReadRows, store
<1>8. ASSUME UNCHANGED <<chan, index, toWalk, up>>
      PROVE  StoreFits'
  BY <1>8 DEF StoreFits
<1> QED BY <1>1, <1>2, <1>3, <1>4, <1>5, <1>6, <1>7, <1>8 DEF Next

LEMMA SubStep ==
  ASSUME Basics, [Next]_vars
  PROVE  SubFits'
<1> DEFINE b == sub.buffer
<1>1. /\ applied \in Nat /\ hand \in {0, applied} /\ sub.there \in BOOLEAN /\ sub.heard \in Nat
      /\ sub \in [there : BOOLEAN, buffer : Seq(Nat), upTo : Nat, heard : Nat]
      /\ b \in Seq(Nat) /\ Len(b) \in Nat /\ Len(b) <= SubCap /\ sub.upTo \in Nat
      /\ sub.upTo <= applied /\ (hand # 0 => sub.upTo < hand)
      /\ \A i \in 1 .. Len(b) :
           /\ b[i] \in Nat /\ sub.upTo < b[i] /\ b[i] <= applied
           /\ hand # 0 => b[i] < hand
           /\ \A j \in 1 .. Len(b) : i < j => b[i] < b[j]
  BY DEF Basics, SubFits
<1>2. ASSUME NEW there \in BOOLEAN, NEW upTo \in Nat, NEW heard \in Nat, upTo <= applied',
             sub' = [there |-> there, buffer |-> <<>>, upTo |-> upTo, heard |-> heard],
             applied' \in Nat, hand' \in {0, applied'}, hand' # 0 => upTo < hand'
      PROVE  SubFits'
  <2>1. sub'.buffer = <<>> /\ sub'.upTo = upTo /\ Len(<<>>) = 0 /\ <<>> \in Seq(Nat)
    BY <1>2
  <2>2. sub' \in [there : BOOLEAN, buffer : Seq(Nat), upTo : Nat, heard : Nat]
    BY <1>2
  <2>3. Len(sub'.buffer) <= SubCap /\ \A i \in 1 .. Len(sub'.buffer) : FALSE
    BY <2>1, Bounds
  <2> QED BY <1>2, <2>1, <2>2, <2>3 DEF SubFits
<1>3. CASE Consume
  <2>1. CASE client = "subscriber"
    <3>1. applied' = applied + 1 /\ hand' = applied + 1 /\ sub' = sub
      BY <1>3, <2>1 DEF Consume
    <3> QED BY <1>1, <3>1 DEF SubFits
  <2>2. CASE client # "subscriber"
    <3>1. UNCHANGED <<applied, hand, sub>>
      BY <1>3, <2>2 DEF Consume
    <3> QED BY <1>1, <3>1 DEF SubFits
  <2> QED BY <2>1, <2>2
<1>4. CASE Fanout
  <2>1. hand # 0 /\ hand' = 0 /\ applied' = applied /\ hand = applied
    BY <1>1, <1>4 DEF Fanout, store
  <2>2. CASE sub.there /\ Len(sub.buffer) < SubCap
    <3>1. sub' = [sub EXCEPT !.buffer = Append(b, hand)]
      BY <1>4, <2>2 DEF Fanout
    <3>2. sub'.buffer = Append(b, hand) /\ sub'.upTo = sub.upTo
      BY <1>1, <3>1
    <3>3. /\ Append(b, hand) \in Seq(Nat) /\ Len(Append(b, hand)) = Len(b) + 1
          /\ \A i \in 1 .. Len(b) : Append(b, hand)[i] = b[i]
          /\ Append(b, hand)[Len(b) + 1] = hand
      BY <1>1, <2>1, AppendProperties
    <3> DEFINE c == Append(b, hand)
    <3>4. sub' \in [there : BOOLEAN, buffer : Seq(Nat), upTo : Nat, heard : Nat]
      BY <1>1, <3>1, <3>3
    <3> HIDE DEF c
    <3>5. c \in Seq(Nat) /\ Len(c) = Len(b) + 1 /\ (\A i \in 1 .. Len(b) : c[i] = b[i]) /\ c[Len(b) + 1] = hand
      BY <3>3 DEF c
    <3> HIDE DEF b
    <3>6. \A i \in 1 .. Len(c) : i = Len(b) + 1 \/ i \in 1 .. Len(b)
      BY <1>1, <3>5
    <3>7. ASSUME NEW i \in 1 .. Len(c)
          PROVE  sub.upTo < c[i] /\ c[i] <= applied
      <4>1. CASE i = Len(b) + 1
        BY <1>1, <2>1, <3>5, <4>1
      <4>2. CASE i \in 1 .. Len(b)
        BY <1>1, <3>5, <4>2
      <4> QED BY <3>6, <4>1, <4>2
    <3>8. ASSUME NEW i \in 1 .. Len(c), NEW j \in 1 .. Len(c), i < j
          PROVE  c[i] < c[j]
      <4>1. i \in 1 .. Len(b)
        BY <1>1, <3>5, <3>6, <3>8
      <4>2. CASE j = Len(b) + 1
        BY <1>1, <2>1, <3>5, <4>1, <4>2
      <4>3. CASE j \in 1 .. Len(b)
        BY <1>1, <3>5, <3>8, <4>1, <4>3
      <4> QED BY <3>6, <4>2, <4>3
    <3>9. Len(c) <= SubCap
      BY <1>1, <2>2, <3>5, Bounds DEF b
    <3>10. sub'.buffer = c /\ sub'.upTo = sub.upTo
      BY <3>2 DEF c
    <3> QED BY <1>1, <2>1, <3>4, <3>7, <3>8, <3>9, <3>10 DEF SubFits
  <2>3. CASE ~(sub.there /\ Len(sub.buffer) < SubCap)
    <3>1. sub' = sub
      BY <1>4, <2>3 DEF Fanout
    <3> QED BY <1>1, <2>1, <3>1 DEF SubFits
  <2> QED BY <2>2, <2>3
<1>5. CASE Subscribe
  <2> DEFINE u == IF hand = 0 THEN applied ELSE hand - 1
  <2>1. UNCHANGED <<applied, hand>> /\ sub' = [there |-> TRUE, buffer |-> <<>>, upTo |-> u, heard |-> 0]
    BY <1>5 DEF Subscribe, store
  <2>2. u \in Nat /\ u <= applied /\ (hand # 0 => u < hand)
    BY <1>1
  <2> HIDE DEF u
  <2> QED BY <1>1, <1>2, <2>1, <2>2
<1>6. CASE Unsubscribe
  <2>1. UNCHANGED <<applied, hand>> /\ sub' = [sub EXCEPT !.there = FALSE, !.buffer = <<>>]
    BY <1>6 DEF Unsubscribe, store
  <2>2. sub' = [there |-> FALSE, buffer |-> <<>>, upTo |-> sub.upTo, heard |-> sub.heard]
    BY <1>1, <2>1
  <2> QED BY <1>1, <1>2, <2>1, <2>2
<1>7. CASE Crash
  <2>1. applied' = 0 /\ hand' = 0 /\ sub' = [there |-> FALSE, buffer |-> <<>>, upTo |-> 0, heard |-> 0]
    BY <1>7 DEF Crash, NoSub
  <2>2. FALSE \in BOOLEAN /\ 0 \in Nat /\ applied' \in Nat /\ 0 <= applied' /\ hand' \in {0, applied'} /\ ~(hand' # 0)
    BY <2>1
  <2> QED BY <1>2, <2>1, <2>2
<1>8. CASE Deliver
  <2> DEFINE c == Tail(b)
  <2>1. /\ UNCHANGED <<applied, hand>> /\ b # <<>>
        /\ sub' = [sub EXCEPT !.buffer = c, !.upTo = Head(b), !.heard = @ + 1]
    BY <1>8 DEF Deliver, store
  <2>2. /\ Head(b) \in Nat /\ c \in Seq(Nat) /\ Len(c) = Len(b) - 1 /\ Head(b) = b[1] /\ 1 \in 1 .. Len(b)
        /\ \A i \in 1 .. Len(c) : c[i] = b[i + 1]
    BY <1>1, <2>1, HeadTailProperties
  <2>3. sub'.buffer = c /\ sub'.upTo = Head(b)
    BY <1>1, <2>1
  <2>4. sub' \in [there : BOOLEAN, buffer : Seq(Nat), upTo : Nat, heard : Nat]
    <3>1. sub.heard + 1 \in Nat
      BY <1>1
    <3> HIDE DEF c, b
    <3> QED BY <1>1, <2>1, <2>2, <3>1
  <2> HIDE DEF c, b
  <2>5. \A i \in 1 .. Len(c) : i + 1 \in 1 .. Len(b) /\ i \in Nat /\ 1 < i + 1
    BY <1>1, <2>2
  <2>6. ASSUME NEW i \in 1 .. Len(c)
        PROVE  /\ Head(b) < c[i] /\ c[i] <= applied /\ (hand # 0 => c[i] < hand)
               /\ \A j \in 1 .. Len(c) : i < j => c[i] < c[j]
    <3>1. c[i] = b[i + 1] /\ b[1] < b[i + 1] /\ b[i + 1] <= applied /\ (hand # 0 => b[i + 1] < hand)
      BY <1>1, <2>2, <2>5
    <3>2. ASSUME NEW j \in 1 .. Len(c), i < j
          PROVE  b[i + 1] < b[j + 1]
      BY <1>1, <2>5, <3>2
    <3> QED BY <2>2, <3>1, <3>2
  <2>7. Head(b) <= applied /\ (hand # 0 => Head(b) < hand) /\ Len(c) <= SubCap
    BY <1>1, <2>2, Bounds
  <2> QED BY <1>1, <2>1, <2>3, <2>4, <2>6, <2>7 DEF SubFits
<1>9. CASE Operate
  <2>1. PICK d \in Dir, rs \in Seq(Records) : Happened(d, rs)
    BY <1>9, OperateHappens DEF Basics
  <2>2. UNCHANGED <<applied, hand, sub>>
    BY <2>1 DEF Happened, store, clients
  <2> QED BY <1>1, <2>2 DEF SubFits
<1>10. CASE StartUp \/ ReadBatch \/ Convert \/ Send \/ DropChange \/ SaveCursor \/ SaveIdleCursor
              \/ HistoryDropped \/ (\E p \in Path : WalkRow(p)) \/ Count \/ ReadRows \/ UNCHANGED vars
  <2>1. UNCHANGED <<applied, hand, sub>>
    BY <1>10 DEF vars, StartUp, ReadBatch, Convert, Send, DropChange, SaveCursor, SaveIdleCursor,
                 HistoryDropped, WalkRow, Count, ReadRows, store, clients
  <2> QED BY <1>1, <2>1 DEF SubFits
<1> QED BY <1>3, <1>4, <1>5, <1>6, <1>7, <1>8, <1>9, <1>10 DEF Next, Serve

LEMMA BasicsStep == Basics /\ [Next]_vars => Basics'
BY WorldStep, ReaderStep, StoreStep, SubStep DEF Basics

LEMMA BasicsHold == Spec => []Basics
BY InitBasics, BasicsStep, PTL DEF Spec

\* The variables keep their types and bounds: no directory has another's name,
\* the cursor is not ahead of the reader, the channels are not longer than they may be.
THEOREM TypeCorrect == Spec => []TypeOK
<1>1. Basics => TypeOK
  <2> SUFFICES ASSUME Basics PROVE TypeOK
    OBVIOUS
  <2>1. up => cursor <= pos
    BY ReaderNumbers DEF Basics, ReaderFits
  <2>2. chan \in Seq(Change) /\ Len(chan) <= ChanCap /\ index \in [Path -> 0 .. MaxVersion]
    BY SeqMonotonic DEF Basics, StoreFits, Changes
  <2>3. hand \in 0 .. applied /\ Len(sub.buffer) <= SubCap /\ sub.upTo <= applied
    BY DEF Basics, SubFits
  <2> QED BY <2>1, <2>2, <2>3 DEF TypeOK, Basics, WorldFits, ReaderFits
<1> QED BY <1>1, BasicsHold, PTL

-----------------------------------------------------------------------------
(* What the subscriber hears. *)

LEMMA FeedStep ==
  ASSUME Basics, [Next]_vars
  PROVE  [Feed!Next]_<<applied, sub.upTo, sub.heard>>
<1> USE DEF Feed!Next
<1>1. /\ applied \in Nat /\ hand \in {0, applied} /\ sub.buffer \in Seq(Nat) /\ sub.upTo \in Nat
      /\ sub \in [there : BOOLEAN, buffer : Seq(Nat), upTo : Nat, heard : Nat]
      /\ \A i \in 1 .. Len(sub.buffer) : sub.upTo < sub.buffer[i] /\ sub.buffer[i] <= applied
  BY DEF Basics, SubFits
<1>2. CASE Consume
  <2>1. sub' = sub /\ (applied' = applied + 1 \/ applied' = applied)
    BY <1>2 DEF Consume
  <2> QED BY <2>1 DEF Feed!Apply
<1>3. CASE Subscribe
  <2> DEFINE u == IF hand = 0 THEN applied ELSE hand - 1
  <2>1. applied' = applied /\ sub' = [there |-> TRUE, buffer |-> <<>>, heard |-> 0, upTo |-> u]
    BY <1>3 DEF Subscribe, store
  <2>2. u \in {applied, applied - 1} \cap Nat
    BY <1>1
  <2> HIDE DEF u
  <2>3. sub'.upTo = u /\ sub'.heard = 0
    BY <2>1
  <2> QED BY <2>1, <2>2, <2>3 DEF Feed!Join
<1>4. CASE Deliver
  <2>1. /\ applied' = applied /\ sub.buffer # <<>>
        /\ sub' = [sub EXCEPT !.buffer = Tail(sub.buffer), !.upTo = Head(sub.buffer), !.heard = @ + 1]
    BY <1>4 DEF Deliver, store
  <2>2. sub'.upTo = Head(sub.buffer) /\ sub'.heard = sub.heard + 1
    BY <1>1, <2>1
  <2>3. 1 \in 1 .. Len(sub.buffer) /\ Head(sub.buffer) = sub.buffer[1] /\ sub.buffer[1] \in Nat
    BY <1>1, <2>1
  <2>4. Head(sub.buffer) \in sub.upTo + 1 .. applied
    BY <1>1, <2>3
  <2> QED BY <2>1, <2>2, <2>4 DEF Feed!Hear
<1>5. CASE Crash
  BY <1>5 DEF Crash, NoSub, Feed!Restart
<1>6. CASE Unsubscribe \/ Fanout
  <2>1. applied' = applied /\ \/ sub' = sub
                              \/ sub' = [sub EXCEPT !.there = FALSE, !.buffer = <<>>]
                              \/ sub' = [sub EXCEPT !.buffer = Append(sub.buffer, hand)]
    BY <1>6 DEF Unsubscribe, Fanout, store
  <2>2. sub'.upTo = sub.upTo /\ sub'.heard = sub.heard
    BY <1>1, <2>1
  <2> QED BY <2>1, <2>2
<1>7. CASE Operate
  <2>1. PICK d \in Dir, rs \in Seq(Records) : Happened(d, rs)
    BY <1>7, OperateHappens DEF Basics
  <2> QED BY <2>1 DEF Happened, store, clients
<1>8. CASE StartUp \/ ReadBatch \/ Convert \/ Send \/ DropChange \/ SaveCursor \/ SaveIdleCursor
              \/ HistoryDropped \/ (\E p \in Path : WalkRow(p)) \/ Count \/ ReadRows \/ UNCHANGED vars
  BY <1>8 DEF vars, StartUp, ReadBatch, Convert, Send, DropChange, SaveCursor, SaveIdleCursor,
              HistoryDropped, WalkRow, Count, ReadRows, store, clients
<1> QED BY <1>2, <1>3, <1>4, <1>5, <1>6, <1>7, <1>8 DEF Next, Serve

\* The indexer keeps what ChangeFeed promises a subscriber: it hears of applied
\* changes only, in order, each once and none from before it subscribed, however
\* its subscription falls between a change and its fan-out.
THEOREM SubscribersHearInOrder == Spec => HearsInOrder
<1>1. Init => Feed!Init
  BY DEF Init, NoSub, Feed!Init
<1>2. Basics /\ [Next]_vars => [Feed!Next]_<<applied, sub.upTo, sub.heard>>
  BY FeedStep
<1> QED BY <1>1, <1>2, BasicsHold, PTL DEF Spec, HearsInOrder, Feed!Spec

-----------------------------------------------------------------------------
(* The changes on their way: what becomes of Shows and Silent. *)

LEMMA Joined ==
  ASSUME NEW a \in Seq(Changes), NEW b \in Seq(Changes)
  PROVE  /\ a \o b \in Seq(Changes) /\ Len(a) \in Nat /\ Len(b) \in Nat /\ Len(a \o b) = Len(a) + Len(b)
         /\ \A i \in 1 .. Len(a) : i \in 1 .. Len(a \o b) /\ (a \o b)[i] = a[i]
         /\ \A i \in 1 .. Len(b) : Len(a) + i \in 1 .. Len(a \o b) /\ (a \o b)[Len(a) + i] = b[i]
         /\ \A i \in 1 .. Len(a \o b) :
              i \in 1 .. Len(a) \/ (i - Len(a) \in 1 .. Len(b) /\ i > Len(a) /\ i = Len(a) + (i - Len(a)))
<1>1. /\ a \o b \in Seq(Changes) /\ Len(a \o b) = Len(a) + Len(b)
      /\ \A i \in 1 .. Len(a) + Len(b) : (a \o b)[i] = IF i <= Len(a) THEN a[i] ELSE b[i - Len(a)]
  BY ConcatProperties
<1>2. Len(a) \in Nat /\ Len(b) \in Nat
  OBVIOUS
<1>3. ASSUME NEW i \in 1 .. Len(b)
      PROVE  Len(a) + i \in 1 .. Len(a \o b) /\ (a \o b)[Len(a) + i] = b[i]
  <2>1. Len(a) + i \in 1 .. Len(a) + Len(b) /\ ~(Len(a) + i <= Len(a)) /\ Len(a) + i - Len(a) = i
    BY <1>2
  <2> QED BY <1>1, <2>1
<1> QED BY <1>1, <1>2, <1>3

\* Of a joined with b, when nothing of b bears on the path, and when it shows.
LEMMA ShowsJoined ==
  ASSUME NEW a \in Seq(Changes), NEW b \in Seq(Changes), NEW p, NEW f, NEW v
  PROVE  /\ Silent(b, p, f, v) /\ Shows(a, p, f, v) => Shows(a \o b, p, f, v)
         /\ Silent(b, p, f, v) /\ Silent(a, p, f, v) => Silent(a \o b, p, f, v)
         /\ Shows(b, p, f, v) => Shows(a \o b, p, f, v)
         /\ Silent(a \o b, p, f, v) => Silent(a, p, f, v) /\ Silent(b, p, f, v)
         /\ Shows(a \o b, p, f, v) =>
              Shows(b, p, f, v) \/ (Silent(b, p, f, v) /\ Shows(a, p, f, v))
<1> DEFINE s == a \o b  n == Len(a)
<1>1. /\ n \in Nat /\ Len(b) \in Nat
      /\ \A i \in 1 .. n : i \in 1 .. Len(s) /\ s[i] = a[i]
      /\ \A i \in 1 .. Len(b) : n + i \in 1 .. Len(s) /\ s[n + i] = b[i]
      /\ \A i \in 1 .. Len(s) : i \in 1 .. n \/ (i - n \in 1 .. Len(b) /\ i > n /\ i = n + (i - n))
      /\ Len(s) = n + Len(b)
  BY Joined
<1>2. n = Len(a)
  OBVIOUS
<1> HIDE DEF s, n
<1>3. ASSUME Silent(b, p, f, v), NEW i \in 1 .. n, Bears(a[i], p, f, v), a[i].version = v,
             \A j \in i + 1 .. Len(a) : ~Bears(a[j], p, f, v)
      PROVE  Shows(s, p, f, v)
  <2>1. ASSUME NEW j \in i + 1 .. Len(s)
        PROVE  ~Bears(s[j], p, f, v)
    <3>1. j \in 1 .. Len(s)
      BY <1>1, <2>1
    <3>2. CASE j \in 1 .. n
      <4>1. j \in i + 1 .. Len(a) /\ s[j] = a[j]
        BY <1>1, <1>2, <2>1, <3>2
      <4> QED BY <1>3, <4>1
    <3>3. CASE j - n \in 1 .. Len(b) /\ j = n + (j - n)
      <4>1. s[j] = b[j - n]
        BY <1>1, <3>3
      <4> QED BY <1>3, <3>3, <4>1 DEF Silent
    <3> QED BY <1>1, <3>1, <3>2, <3>3
  <2>2. i \in 1 .. Len(s) /\ s[i] = a[i]
    BY <1>1
  <2>3. Bears(s[i], p, f, v) /\ s[i].version = v
    BY <1>3, <2>2
  <2> QED BY <2>1, <2>2, <2>3 DEF Shows
<1>4. ASSUME Silent(b, p, f, v), Silent(a, p, f, v), NEW i \in 1 .. Len(s)
      PROVE  ~Bears(s[i], p, f, v)
  <2>1. CASE i \in 1 .. n
    <3>1. s[i] = a[i]
      BY <1>1, <2>1
    <3> QED BY <1>2, <1>4, <2>1, <3>1 DEF Silent
  <2>2. CASE i - n \in 1 .. Len(b) /\ i = n + (i - n)
    <3>1. s[i] = b[i - n]
      BY <1>1, <2>2
    <3> QED BY <1>4, <2>2, <3>1 DEF Silent
  <2> QED BY <1>1, <2>1, <2>2
<1>5. ASSUME NEW i \in 1 .. Len(b), Bears(b[i], p, f, v), b[i].version = v,
             \A j \in i + 1 .. Len(b) : ~Bears(b[j], p, f, v)
      PROVE  Shows(s, p, f, v)
  <2>1. ASSUME NEW j \in n + i + 1 .. Len(s)
        PROVE  ~Bears(s[j], p, f, v)
    <3>1. j - n \in i + 1 .. Len(b) /\ j - n \in 1 .. Len(b) /\ n + (j - n) = j
      BY <1>1, <2>1
    <3>2. s[j] = b[j - n]
      BY <1>1, <3>1
    <3> QED BY <1>5, <3>1, <3>2
  <2>2. n + i \in 1 .. Len(s) /\ s[n + i] = b[i]
    BY <1>1
  <2>3. Bears(s[n + i], p, f, v) /\ s[n + i].version = v
    BY <1>5, <2>2
  <2> QED BY <2>1, <2>2, <2>3 DEF Shows
<1>6. ASSUME Silent(s, p, f, v)
      PROVE  Silent(a, p, f, v) /\ Silent(b, p, f, v)
  <2>1. ASSUME NEW i \in 1 .. Len(a)
        PROVE  ~Bears(a[i], p, f, v)
    <3>1. i \in 1 .. Len(s) /\ s[i] = a[i]
      BY <1>1, <1>2
    <3>2. ~Bears(s[i], p, f, v)
      BY <1>6, <3>1 DEF Silent
    <3> QED BY <3>1, <3>2
  <2>2. ASSUME NEW i \in 1 .. Len(b)
        PROVE  ~Bears(b[i], p, f, v)
    <3>1. n + i \in 1 .. Len(s) /\ s[n + i] = b[i]
      BY <1>1
    <3>2. ~Bears(s[n + i], p, f, v)
      BY <1>6, <3>1 DEF Silent
    <3> QED BY <3>1, <3>2
  <2> QED BY <2>1, <2>2 DEF Silent
<1>7. ASSUME NEW i \in 1 .. Len(s), Bears(s[i], p, f, v), s[i].version = v,
             \A j \in i + 1 .. Len(s) : ~Bears(s[j], p, f, v)
      PROVE  Shows(b, p, f, v) \/ (Silent(b, p, f, v) /\ Shows(a, p, f, v))
  <2>1. CASE i \in 1 .. n
    <3>1. ASSUME NEW j \in 1 .. Len(b)
          PROVE  ~Bears(b[j], p, f, v)
      <4>1. n + j \in i + 1 .. Len(s) /\ s[n + j] = b[j]
        BY <1>1, <2>1
      <4>2. ~Bears(s[n + j], p, f, v)
        BY <1>7, <4>1
      <4> QED BY <4>1, <4>2
    <3>2. ASSUME NEW j \in i + 1 .. Len(a)
          PROVE  ~Bears(a[j], p, f, v)
      <4>1. j \in i + 1 .. Len(s) /\ s[j] = a[j]
        BY <1>1, <1>2, <2>1
      <4>2. ~Bears(s[j], p, f, v)
        BY <1>7, <4>1
      <4> QED BY <4>1, <4>2
    <3>3. s[i] = a[i]
      BY <1>1, <2>1
    <3>4. Bears(a[i], p, f, v) /\ a[i].version = v
      BY <1>7, <3>3
    <3> QED BY <1>2, <2>1, <3>1, <3>2, <3>4 DEF Silent, Shows
  <2>2. CASE i - n \in 1 .. Len(b) /\ i = n + (i - n)
    <3>1. s[i] = b[i - n]
      BY <1>1, <2>2
    <3>2. ASSUME NEW j \in (i - n) + 1 .. Len(b)
          PROVE  ~Bears(b[j], p, f, v)
      <4>1. n + j \in i + 1 .. Len(s) /\ j \in 1 .. Len(b) /\ s[n + j] = b[j]
        BY <1>1, <2>2
      <4>2. ~Bears(s[n + j], p, f, v)
        BY <1>7, <4>1
      <4> QED BY <4>1, <4>2
    <3>3. Bears(b[i - n], p, f, v) /\ b[i - n].version = v
      BY <1>7, <3>1
    <3> QED BY <2>2, <3>2, <3>3 DEF Shows
  <2> QED BY <1>1, <2>1, <2>2
<1>8. Silent(b, p, f, v) /\ Shows(a, p, f, v) => Shows(s, p, f, v)
  BY <1>2, <1>3 DEF Shows
<1>9. Silent(b, p, f, v) /\ Silent(a, p, f, v) => Silent(s, p, f, v)
  BY <1>4 DEF Silent
<1>10. Shows(b, p, f, v) => Shows(s, p, f, v)
  BY <1>5 DEF Shows
<1>11. Shows(s, p, f, v) => Shows(b, p, f, v) \/ (Silent(b, p, f, v) /\ Shows(a, p, f, v))
  BY <1>7 DEF Shows
<1> QED BY <1>6, <1>8, <1>9, <1>10, <1>11 DEF s

LEMMA ShowsOne ==
  ASSUME NEW c \in Changes, NEW p, NEW f, NEW v
  PROVE  /\ <<c>> \in Seq(Changes)
         /\ Shows(<<c>>, p, f, v) <=> Bears(c, p, f, v) /\ c.version = v
         /\ Silent(<<c>>, p, f, v) <=> ~Bears(c, p, f, v)
<1> DEFINE s == <<c>>
<1>1. s \in Seq(Changes) /\ Len(s) = 1 /\ s[1] = c
  OBVIOUS
<1> HIDE DEF s
<1>2. 1 \in 1 .. Len(s) /\ (\A i \in 1 .. Len(s) : i = 1) /\ \A j \in 1 + 1 .. Len(s) : FALSE
  BY <1>1
<1>3. \A i \in 1 .. Len(s) : Bears(s[i], p, f, v) <=> Bears(c, p, f, v)
  BY <1>1, <1>2
<1>4. Silent(s, p, f, v) <=> ~Bears(c, p, f, v)
  BY <1>2, <1>3 DEF Silent
<1>5. ASSUME Bears(c, p, f, v), c.version = v
      PROVE  Shows(s, p, f, v)
  BY <1>1, <1>2, <1>5 DEF Shows
<1>6. ASSUME NEW i \in 1 .. Len(s), Bears(s[i], p, f, v), s[i].version = v
      PROVE  Bears(c, p, f, v) /\ c.version = v
  BY <1>1, <1>2, <1>6
<1>7. Shows(s, p, f, v) => Bears(c, p, f, v) /\ c.version = v
  BY <1>6 DEF Shows
<1> QED BY <1>1, <1>4, <1>5, <1>7 DEF s

LEMMA HeadAndTail ==
  ASSUME NEW s \in Seq(Changes), s # <<>>
  PROVE  /\ Head(s) \in Changes /\ Tail(s) \in Seq(Changes) /\ <<Head(s)>> \in Seq(Changes)
         /\ <<Head(s)>> \o Tail(s) = s
<1>1. /\ Head(s) \in Changes /\ Tail(s) \in Seq(Changes) /\ Len(Tail(s)) = Len(s) - 1
      /\ \A i \in 1 .. Len(Tail(s)) : Tail(s)[i] = s[i + 1]
  BY HeadTailProperties
<1>2. Len(s) \in Nat /\ Len(s) >= 1 /\ Head(s) = s[1]
  OBVIOUS
<1> DEFINE h == <<Head(s)>>  t == Tail(s)
<1>3. h \in Seq(Changes) /\ Len(h) = 1 /\ h[1] = s[1]
  BY <1>1, <1>2
<1>4. t \in Seq(Changes) /\ Len(t) = Len(s) - 1 /\ \A i \in 1 .. Len(t) : t[i] = s[i + 1]
  BY <1>1
<1> HIDE DEF h, t
<1>5. h \o t \in Seq(Changes) /\ Len(h \o t) = Len(s)
  <2>1. h \o t \in Seq(Changes) /\ Len(h \o t) = Len(h) + Len(t)
    BY <1>3, <1>4, ConcatProperties
  <2> QED BY <1>2, <1>3, <1>4, <2>1
<1>6. ASSUME NEW i \in 1 .. Len(h \o t)
      PROVE  (h \o t)[i] = s[i]
  <2>1. (h \o t)[i] = IF i <= Len(h) THEN h[i] ELSE t[i - Len(h)]
    BY <1>2, <1>3, <1>4, <1>5, ConcatProperties
  <2>2. CASE i = 1
    BY <1>3, <2>1, <2>2
  <2>3. CASE i # 1
    <3>1. i - 1 \in 1 .. Len(t) /\ (i - 1) + 1 = i /\ ~(i <= 1)
      BY <1>2, <1>4, <1>5, <2>3
    <3> QED BY <1>3, <1>4, <2>1, <3>1
  <2> QED BY <2>2, <2>3
<1>7. h \o t = s
  BY <1>5, <1>6, SeqEqual
<1> QED BY <1>1, <1>3, <1>7 DEF h, t

\* The first of what is still to be sent is left out.
LEMMA ShowsWithout ==
  ASSUME NEW a \in Seq(Changes), NEW b \in Seq(Changes), b # <<>>, NEW p, NEW f, NEW v,
         ~(Bears(Head(b), p, f, v) /\ Head(b).version = v)
  PROVE  /\ Shows(a \o b, p, f, v) => Shows(a \o Tail(b), p, f, v)
         /\ Silent(a \o b, p, f, v) => Silent(a \o Tail(b), p, f, v)
<1> DEFINE c == Head(b)  t == Tail(b)
<1>1. c \in Changes /\ t \in Seq(Changes) /\ <<c>> \in Seq(Changes) /\ <<c>> \o t = b
  BY HeadAndTail
<1>2. ~(Bears(c, p, f, v) /\ c.version = v)
  OBVIOUS
<1> HIDE DEF c, t
<1>3. ~Shows(<<c>>, p, f, v)
  BY <1>1, <1>2, ShowsOne
<1>4. Shows(b, p, f, v) => Shows(t, p, f, v)
  BY <1>1, <1>3, ShowsJoined
<1>5. Silent(b, p, f, v) => Silent(t, p, f, v)
  BY <1>1, ShowsJoined
<1>6. Shows(a \o b, p, f, v) => Shows(a \o t, p, f, v)
  BY <1>1, <1>4, <1>5, ShowsJoined
<1>7. Silent(a \o b, p, f, v) => Silent(a \o t, p, f, v)
  BY <1>1, <1>5, ShowsJoined
<1> QED BY <1>6, <1>7 DEF t

\* The first change on its way is taken.
LEMMA ShowsTaken ==
  ASSUME NEW a \in Seq(Changes), NEW b \in Seq(Changes), a # <<>>, NEW p, NEW f, NEW v
  PROVE  /\ Shows(a \o b, p, f, v) =>
              \/ Shows(Tail(a) \o b, p, f, v)
              \/ Silent(Tail(a) \o b, p, f, v) /\ Bears(Head(a), p, f, v) /\ Head(a).version = v
         /\ Silent(a \o b, p, f, v) => Silent(Tail(a) \o b, p, f, v) /\ ~Bears(Head(a), p, f, v)
<1> DEFINE c == Head(a)  t == Tail(a)
<1>1. c \in Changes /\ t \in Seq(Changes) /\ <<c>> \in Seq(Changes) /\ <<c>> \o t = a
  BY HeadAndTail
<1> HIDE DEF c, t
<1>2. a \o b = <<c>> \o (t \o b) /\ t \o b \in Seq(Changes)
  <2>1. (<<c>> \o t) \o b = <<c>> \o (t \o b)
    BY <1>1, ConcatAssociative
  <2>2. t \o b \in Seq(Changes)
    BY <1>1, ConcatProperties
  <2> QED BY <1>1, <2>1, <2>2
<1>3. Shows(a \o b, p, f, v) =>
        \/ Shows(t \o b, p, f, v)
        \/ Silent(t \o b, p, f, v) /\ Bears(c, p, f, v) /\ c.version = v
  BY <1>1, <1>2, ShowsJoined, ShowsOne
<1>4. Silent(a \o b, p, f, v) => Silent(t \o b, p, f, v) /\ ~Bears(c, p, f, v)
  BY <1>1, <1>2, ShowsJoined, ShowsOne
<1> QED BY <1>3, <1>4 DEF c, t

\* Sending changes nothing.
LEMMA SentIsOnItsWay ==
  ASSUME NEW a \in Seq(Changes), NEW b \in Seq(Changes), b # <<>>
  PROVE  Append(a, Head(b)) \o Tail(b) = a \o b
<1> DEFINE c == Head(b)  t == Tail(b)
<1>1. c \in Changes /\ t \in Seq(Changes) /\ <<c>> \in Seq(Changes) /\ <<c>> \o t = b
  BY HeadAndTail
<1> HIDE DEF c, t
<1>2. Append(a, c) = a \o <<c>>
  BY <1>1, AppendIsConcat
<1>3. (a \o <<c>>) \o t = a \o (<<c>> \o t)
  BY <1>1, ConcatAssociative
<1> QED BY <1>1, <1>2, <1>3 DEF c, t

-----------------------------------------------------------------------------
(* The records a start may still need, and what the reader makes of them. *)

LEMMA StatKept ==
  ASSUME UNCHANGED <<at, holds>>
  PROVE  \A p \in Path : Stat(p)' = Stat(p)
<1>1. PresentIn(at', holds') = PresentIn(at, holds)
  OBVIOUS
<1> QED BY <1>1, StatIsPresent

LEMMA BaseBounds ==
  ASSUME Basics
  PROVE  /\ Base \in Nat /\ Base <= Len(journal) /\ (up => Base <= Converted)
         /\ (cursor >= 0 => Base = cursor) /\ (up /\ ~(cursor >= 0) => Base = Converted)
         /\ Len(journal) \in Nat /\ cursor \in Int
<1>1. /\ pos \in Nat /\ Len(batch) \in Nat /\ Len(journal) \in Nat /\ Converted \in Nat
      /\ Converted <= pos /\ pos <= Len(journal) /\ cursor \in Int
  BY ReaderNumbers DEF Basics
<1>2. cursor <= Len(journal) /\ (up => cursor <= Converted)
  BY <1>1 DEF Basics, ReaderFits
<1> QED BY <1>1, <1>2 DEF Base

\* No start will need more than before, unless the tree changes.
LEMMA BaseStep ==
  ASSUME Basics, Basics', Next, ~Operate
  PROVE  /\ Base' \in Nat /\ Base' >= Base /\ (moved' = moved \/ Base' = Len(journal'))
         /\ UNCHANGED <<at, holds, platform>>
<1>1. /\ Base \in Nat /\ Base <= Len(journal) /\ (up => Base <= Converted) /\ Len(journal) \in Nat /\ cursor \in Int
      /\ (cursor >= 0 => Base = cursor) /\ (up /\ ~(cursor >= 0) => Base = Converted)
  BY BaseBounds
<1>2. /\ cursor' \in Int /\ Len(journal') \in Nat /\ pos' \in Nat /\ Len(batch') \in Nat
      /\ cursor' <= Len(journal') /\ Len(batch') <= pos'
  <2>1. /\ pos' \in 0 .. Len(journal') /\ cursor' \in -1 .. Len(journal') /\ Len(batch') <= pos'
        /\ batch' \in Seq(Records) /\ journal' \in Seq(Records)
    BY DEF Basics, ReaderFits, WorldFits
  <2>2. Len(journal') \in Nat /\ Len(batch') \in Nat
    BY <2>1
  <2> QED BY <2>1, <2>2
<1>3. Base' = IF cursor' >= 0 THEN cursor' ELSE IF up' THEN pos' - Len(batch') ELSE Len(journal')
  BY DEF Base, Converted
<1>4. Base' \in Nat
  BY <1>2, <1>3
<1>5. /\ pos \in Nat /\ Len(batch) \in Nat /\ Converted = pos - Len(batch) /\ Len(batch) <= pos
      /\ Converted \in Nat /\ pos <= Len(journal)
  BY ReaderNumbers DEF Basics, ReaderFits
<1>6. CASE StartUp
  <2>1. /\ up' = TRUE /\ UNCHANGED <<platform, at, holds, journal, batch>>
        /\ \/ pos' = cursor /\ cursor' = cursor /\ cursor >= 0
           \/ pos' = Len(journal) /\ cursor' = -1
        /\ moved' = IF pos' = Len(journal) THEN {} ELSE moved
    BY <1>6 DEF StartUp, world, fixed
  <2>2. batch = <<>> /\ Len(<<>>) = 0
    BY <1>6 DEF StartUp, Basics, ReaderFits
  <2>3. CASE pos' = cursor /\ cursor' = cursor /\ cursor >= 0
    BY <1>1, <1>3, <1>4, <2>1, <2>3
  <2>4. CASE pos' = Len(journal) /\ cursor' = -1
    <3>1. Base' = Len(journal)
      BY <1>1, <1>3, <2>1, <2>2, <2>4
    <3> QED BY <1>1, <1>4, <2>1, <3>1
  <2> QED BY <2>1, <2>3, <2>4
<1>7. CASE Crash
  <2>1. up' = FALSE /\ cursor' \in {cursor, -1} /\ UNCHANGED <<platform, at, holds, journal, moved>>
    BY <1>7 DEF Crash, world, fixed
  <2> QED BY <1>1, <1>3, <1>4, <2>1
<1>8. CASE ReadBatch
  <2>1. UNCHANGED <<up, cursor, platform, at, holds, journal, moved>> /\ up
    BY <1>8 DEF ReadBatch, world, fixed, history
  <2>2. pos' - Len(batch') = Converted
    BY <1>8, ReadEffect DEF Converted, Basics
  <2> QED BY <1>1, <1>3, <1>4, <2>1, <2>2
<1>9. CASE Convert
  <2>1. UNCHANGED <<up, cursor, platform, at, holds, journal, moved, pos>> /\ up /\ batch # <<>> /\ batch' = Tail(batch)
    BY <1>9 DEF Convert, world, fixed, history
  <2>2. pos' - Len(batch') = Converted + 1
    BY <2>1, NextRecord DEF Converted, Basics
  <2> QED BY <1>1, <1>3, <1>4, <1>5, <2>1, <2>2
<1>10. CASE SaveCursor \/ SaveIdleCursor
  <2>1. UNCHANGED <<up, platform, at, holds, journal, moved>> /\ up /\ cursor' = pos
    BY <1>10 DEF SaveCursor, SaveIdleCursor, world, fixed, history
  <2> QED BY <1>1, <1>3, <1>4, <1>5, <2>1
<1>11. CASE HistoryDropped
  <2>1. UNCHANGED <<up, cursor, pos, batch, platform, at, holds, moved>> /\ up
    BY <1>11 DEF HistoryDropped, reader, fixed
  <2> QED BY <1>1, <1>3, <1>4, <1>5, <2>1
<1>12. CASE Send \/ DropChange \/ Consume \/ Fanout \/ (\E p \in Path : WalkRow(p)) \/ Serve
  <2>1. UNCHANGED <<up, cursor, pos, batch, platform, at, holds, journal, moved>>
    BY <1>12 DEF Send, DropChange, Consume, Fanout, WalkRow, Serve, Subscribe, Unsubscribe, Deliver, Count,
                 ReadRows, reader, fixed, world, history
  <2>2. up
    BY <1>12 DEF Send, DropChange, Consume, Fanout, WalkRow, Serve, Subscribe, Unsubscribe, Deliver, Count,
                 ReadRows
  <2> QED BY <1>1, <1>3, <1>4, <1>5, <2>1, <2>2
<1> QED BY <1>6, <1>7, <1>8, <1>9, <1>10, <1>11, <1>12 DEF Next

LEMMA JournalKept ==
  ASSUME Basics, Next, ~Operate
  PROVE  \/ journal' = journal
         \/ /\ HistoryDropped /\ platform = "macos" /\ Len(journal') \in Nat /\ Len(journal) \in Nat
            /\ Len(journal') <= Len(journal)
            /\ \A i \in 1 .. Len(journal') :
                 \/ i < Len(journal') /\ i \in 1 .. Len(journal) /\ journal'[i] = journal[i]
                 \/ i = Len(journal') /\ journal'[i] = [reason |-> "rescan", dir |-> "root", path |-> <<>>]
<1>1. CASE HistoryDropped
  BY <1>1, Dropped, ReaderNumbers DEF Basics
<1>2. CASE StartUp \/ Crash \/ ReadBatch \/ Convert \/ Send \/ DropChange \/ SaveCursor \/ SaveIdleCursor
              \/ Consume \/ Fanout \/ (\E p \in Path : WalkRow(p)) \/ Serve
  BY <1>2 DEF StartUp, Crash, ReadBatch, Convert, Send, DropChange, SaveCursor, SaveIdleCursor, Consume,
              Fanout, WalkRow, Serve, Subscribe, Unsubscribe, Deliver, Count, ReadRows, world
<1> QED BY <1>1, <1>2 DEF Next

\* What a record that is read is about, on Windows: see ConvertWindows.
KnownDir(r) == IF cache[r.dir] # 0 THEN cache[r.dir] ELSE at[r.dir]

LEMMA CacheChange ==
  ASSUME Basics, Next, ~Operate
  PROVE  \/ cache' = cache
         \/ Crash /\ cache' = [d \in Dir |-> 0]
         \/ /\ Convert /\ Head(batch).dir \in Dir /\ KnownDir(Head(batch)) # Gone
            /\ cache' = [cache EXCEPT ![Head(batch).dir] = KnownDir(Head(batch))]
<1>1. CASE Convert
  <2>1. Head(batch) \in Records
    BY <1>1, NextRecord DEF Convert, Basics
  <2>2. Head(batch).dir # "root" => Head(batch).dir \in Dir
    BY <2>1, RecordParts
  <2> QED BY <1>1, <2>2 DEF Convert, ConvertWindows, ConvertMac, KnownDir
<1>2. CASE Crash
  BY <1>2 DEF Crash
<1>3. CASE StartUp \/ ReadBatch \/ Send \/ DropChange \/ SaveCursor \/ SaveIdleCursor \/ HistoryDropped
              \/ Consume \/ Fanout \/ (\E p \in Path : WalkRow(p)) \/ Serve
  BY <1>3 DEF StartUp, ReadBatch, Send, DropChange, SaveCursor, SaveIdleCursor, HistoryDropped, Consume,
              Fanout, WalkRow, Serve, Subscribe, Unsubscribe, Deliver, Count, ReadRows, reader
<1> QED BY <1>1, <1>2, <1>3 DEF Next

LEMMA CacheStep ==
  ASSUME Basics, Basics', CacheFits, Next
  PROVE  CacheFits'
<1>1. cache \in [Dir -> DirName \cup {0}] /\ at \in [Dir -> DirName \cup {0, Gone}] /\ moved \subseteq DirName
  BY DEF Basics, ReaderFits, WorldFits
<1>2. CASE Operate
  <2>1. PICK d \in Dir, rs \in Seq(Records) : Happened(d, rs)
    BY <1>2, OperateHappens DEF Basics
  <2>2. /\ cache' = cache /\ moved \subseteq moved'
        /\ \A e \in Dir : e # d => at'[e] = at[e]
        /\ at'[d] # at[d] /\ at[d] # 0 =>
             /\ at[d] \in DirName /\ (at'[d] = Gone \/ (at[d] \in moved' /\ at'[d] \in moved'))
    BY <2>1 DEF Happened, Tells, reader
  <2>3. ASSUME NEW e \in Dir
        PROVE  cache[e] \in {0, at'[e]} \/ at'[e] = Gone \/ (at'[e] \in moved' /\ cache[e] \in moved')
    <3>1. cache[e] \in {0, at[e]} \/ at[e] = Gone \/ (at[e] \in moved /\ cache[e] \in moved)
      BY DEF CacheFits
    <3>2. CASE at'[e] = at[e]
      BY <2>2, <3>1, <3>2
    <3>3. CASE at'[e] # at[e] /\ at[e] = 0
      BY <1>1, <3>1, <3>3, Bounds
    <3>4. CASE at'[e] # at[e] /\ at[e] # 0
      BY <1>1, <2>2, <3>1, <3>4, Bounds
    <3> QED BY <3>2, <3>3, <3>4
  <2> QED BY <2>2, <2>3 DEF CacheFits
<1>3. CASE ~Operate
  <2>1. UNCHANGED at /\ (moved' = moved \/ StartUp)
    <3>1. at' = at
      BY <1>3, BaseStep
    <3>2. CASE Crash \/ ReadBatch \/ Convert \/ Send \/ DropChange \/ SaveCursor \/ SaveIdleCursor
                  \/ HistoryDropped \/ Consume \/ Fanout \/ (\E p \in Path : WalkRow(p)) \/ Serve
      BY <3>1, <3>2 DEF Crash, ReadBatch, Convert, Send, DropChange, SaveCursor, SaveIdleCursor, HistoryDropped,
              Consume, Fanout, WalkRow, Serve, Subscribe, Unsubscribe, Deliver, Count, ReadRows, history
    <3> QED BY <1>3, <3>1, <3>2 DEF Next
  <2>2. CASE StartUp
    <3>1. cache' = [e \in Dir |-> 0]
      BY <2>2 DEF StartUp, Basics, ReaderFits
    <3> QED BY <3>1 DEF CacheFits
  <2>3. CASE moved' = moved /\ cache' = cache
    BY <2>1, <2>3 DEF CacheFits
  <2>4. CASE cache' = [e \in Dir |-> 0]
    BY <2>4 DEF CacheFits
  <2>5. CASE /\ moved' = moved /\ Convert /\ Head(batch).dir \in Dir
             /\ cache' = [cache EXCEPT ![Head(batch).dir] = KnownDir(Head(batch))]
    <3> DEFINE e == Head(batch).dir  k == KnownDir(Head(batch))
    <3>1. e \in Dir /\ cache' = [cache EXCEPT ![e] = k] /\ (k = cache[e] \/ k = at[e])
      BY <2>5 DEF KnownDir
    <3> HIDE DEF e, k
    <3>2. ASSUME NEW c \in Dir
          PROVE  cache'[c] \in {0, at[c]} \/ at[c] = Gone \/ (at[c] \in moved /\ cache'[c] \in moved)
      <4>1. cache'[c] = cache[c] \/ cache'[c] = at[c]
        BY <1>1, <3>1
      <4> QED BY <4>1 DEF CacheFits
    <3> QED BY <2>1, <2>5, <3>2 DEF CacheFits
  <2> QED BY <1>3, <2>1, <2>2, <2>3, <2>4, <2>5, CacheChange
<1> QED BY <1>2, <1>3

\* Operations: how far the records that may be needed reach.
LEMMA BaseLogged ==
  ASSUME Basics, NEW d \in Dir, NEW rs, Happened(d, rs), NEW i \in Base' + 1 .. Len(journal')
  PROVE  \/ i \in Base + 1 .. Len(journal) /\ i \in 1 .. Len(journal) /\ journal'[i] = journal[i]
         \/ /\ i \in Len(journal) + 1 .. Len(journal') /\ i - Len(journal) \in 1 .. Len(rs)
            /\ journal'[i] = rs[i - Len(journal)]
<1>1. /\ Base \in Nat /\ Base <= Len(journal) /\ Len(journal) \in Nat /\ Len(rs) \in Nat
      /\ Len(journal') = Len(journal) + Len(rs)
      /\ \A j \in 1 .. Len(journal') :
           \/ j \in 1 .. Len(journal) /\ journal'[j] = journal[j]
           \/ j - Len(journal) \in 1 .. Len(rs) /\ journal'[j] = rs[j - Len(journal)]
  BY BaseBounds, Logged DEF Basics
<1>2. UNCHANGED <<cursor, up, pos, batch>>
  BY DEF Happened, reader
<1> DEFINE b == Base'
<1>3. b = Base \/ b = Len(journal')
  BY <1>2 DEF Base, Converted
<1>4. i \in b + 1 .. Len(journal')
  OBVIOUS
<1> HIDE DEF b
<1>5. i \in Base + 1 .. Len(journal')
  BY <1>1, <1>3, <1>4
<1>6. i \in 1 .. Len(journal')
  BY <1>1, <1>5
<1>7. CASE i \in 1 .. Len(journal) /\ journal'[i] = journal[i]
  BY <1>1, <1>5, <1>7
<1>8. CASE i - Len(journal) \in 1 .. Len(rs) /\ journal'[i] = rs[i - Len(journal)]
  BY <1>1, <1>6, <1>8
<1> QED BY <1>1, <1>6, <1>7, <1>8

RecordFits(r, A, c, m) ==
  r.dir \in Dir =>
    /\ r.path = <<A[r.dir], 0>> \/ A[r.dir] \in m \cup {Gone}
    /\ c[r.dir] = 0 \/ r.path = <<c[r.dir], 0>> \/ c[r.dir] \in m

LEMMA RecordFit ==
  ASSUME RecordsFit, NEW i \in Base + 1 .. Len(journal)
  PROVE  RecordFits(journal[i], at, cache, moved)
BY DEF RecordsFit, RecordFits

LEMMA RecordsStep ==
  ASSUME Basics, Basics', CacheFits, RecordsFit, Next
  PROVE  RecordsFit'
<1> SUFFICES ASSUME NEW i \in Base' + 1 .. Len(journal')
             PROVE  RecordFits(journal'[i], at', cache', moved')
  BY DEF RecordsFit, RecordFits
<1>1. cache \in [Dir -> DirName \cup {0}] /\ at \in [Dir -> DirName \cup {0, Gone}] /\ moved \subseteq DirName
  BY DEF Basics, ReaderFits, WorldFits
<1>2. CASE Operate
  <2>1. PICK d \in Dir, rs \in Seq(Records) : Happened(d, rs)
    BY <1>2, OperateHappens DEF Basics
  <2>2. /\ cache' = cache /\ moved \subseteq moved'
        /\ \A e \in Dir : e # d => at'[e] = at[e]
        /\ at'[d] # at[d] /\ at[d] # 0 =>
             /\ at[d] \in DirName /\ (at'[d] = Gone \/ (at[d] \in moved' /\ at'[d] \in moved'))
        /\ \A j \in 1 .. Len(rs) :
             /\ rs[j].dir \in {"root", d}
             /\ rs[j].dir = d => rs[j].path = <<at[d], 0>> /\ at'[d] = at[d] /\ at[d] \in DirName
    BY <2>1 DEF Happened, Tells, reader
  <2>3. CASE i \in Base + 1 .. Len(journal) /\ i \in 1 .. Len(journal) /\ journal'[i] = journal[i]
    <3>1. RecordFits(journal[i], at, cache, moved)
      BY <2>3, RecordFit
    <3> DEFINE r == journal[i]
    <3>2. RecordFits(r, at, cache, moved)
      BY <3>1
    <3>3. r.dir = d => at[d] # 0
      BY <2>3 DEF Basics, WorldFits
    <3> HIDE DEF r
    <3>4. RecordFits(r, at', cache', moved')
      BY <1>1, <2>2, <3>2, <3>3, Bounds DEF RecordFits
    <3> QED BY <2>3, <3>4 DEF r
  <2>4. CASE i - Len(journal) \in 1 .. Len(rs) /\ journal'[i] = rs[i - Len(journal)]
    <3> DEFINE r == rs[i - Len(journal)]
    <3>1. r.dir \in {"root", d} /\ (r.dir = d => r.path = <<at[d], 0>> /\ at'[d] = at[d] /\ at[d] \in DirName)
      BY <2>2, <2>4
    <3> HIDE DEF r
    <3>2. RecordFits(r, at', cache', moved')
      <4>1. cache[d] \in {0, at[d]} \/ at[d] = Gone \/ (at[d] \in moved /\ cache[d] \in moved)
        BY DEF CacheFits
      <4> QED BY <2>2, <3>1, <4>1, Bounds DEF RecordFits
    <3> QED BY <2>4, <3>2 DEF r
  <2> QED BY <2>1, <2>3, <2>4, BaseLogged
<1>3. CASE ~Operate
  <2> DEFINE b == Base'
  <2>1. /\ Base \in Nat /\ Len(journal) \in Nat /\ b \in Nat /\ b >= Base /\ at' = at
        /\ moved' = moved \/ b = Len(journal')
    BY <1>3, BaseStep, BaseBounds
  <2>2. i \in b + 1 .. Len(journal')
    OBVIOUS
  <2> HIDE DEF b
  <2>3. /\ i \in Base + 1 .. Len(journal') /\ i \in 1 .. Len(journal') /\ moved' = moved
    <3>1. Len(journal') \in Nat
      BY DEF Basics, WorldFits
    <3> QED BY <2>1, <2>2, <3>1
  <2>4. CASE i \in 1 .. Len(journal) /\ journal'[i] = journal[i]
    <3> DEFINE r == journal[i]
    <3>1. i \in Base + 1 .. Len(journal)
      BY <2>1, <2>3, <2>4
    <3>2. RecordFits(r, at, cache, moved)
      BY <3>1, RecordFit
    <3> HIDE DEF r
    <3>3. RecordFits(r, at, cache', moved)
      <4>1. CASE cache' = cache
        BY <3>2, <4>1
      <4>2. CASE cache' = [e \in Dir |-> 0]
        BY <3>2, <4>2 DEF RecordFits
      <4>3. CASE /\ Convert /\ Head(batch).dir \in Dir /\ KnownDir(Head(batch)) # Gone
                 /\ cache' = [cache EXCEPT ![Head(batch).dir] = KnownDir(Head(batch))]
        <5> DEFINE e == Head(batch).dir  k == KnownDir(Head(batch))
        <5>1. /\ e \in Dir /\ cache' = [cache EXCEPT ![e] = k] /\ k # Gone
              /\ IF cache[e] # 0 THEN k = cache[e] ELSE k = at[e]
          BY <4>3 DEF KnownDir
        <5> HIDE DEF e, k
        <5> QED BY <1>1, <3>2, <5>1 DEF RecordFits
      <4> QED BY <1>3, <4>1, <4>2, <4>3, CacheChange
    <3> QED BY <2>1, <2>3, <2>4, <3>3 DEF r
  <2>5. CASE journal'[i].dir = "root"
    BY <2>5, Bounds DEF RecordFits
  <2> QED BY <1>3, <2>3, <2>4, <2>5, JournalKept
<1> QED BY <1>2, <1>3

-----------------------------------------------------------------------------
(* The courses of the changes. *)

LEMMA InitCourses == Init => Courses
<1> SUFFICES ASSUME Init PROVE Courses
  OBVIOUS
<1>1. /\ up = FALSE /\ cache = [d \in Dir |-> 0] /\ index = [p \in Path |-> 0]
      /\ pending = <<>> /\ journal = <<>> /\ cursor = -1
  BY DEF Init
<1>2. Base + 1 .. Len(journal) = {} /\ 1 .. Len(pending) = {}
  BY <1>1 DEF Base
<1>3. CacheFits /\ OnItsWay
  BY <1>1 DEF CacheFits, OnItsWay
<1>4. RecordsFit /\ LogIsCurrent
  BY <1>2 DEF RecordsFit, LogIsCurrent
<1>5. Remembered /\ PendingFits
  BY <1>1, <1>2 DEF Remembered, PendingFits
<1> QED BY <1>3, <1>4, <1>5 DEF Courses

LEMMA BasePrimed ==
  ASSUME Basics'
  PROVE  Base' \in Nat
<1>1. /\ pos' \in 0 .. Len(journal') /\ cursor' \in -1 .. Len(journal') /\ Len(batch') <= pos'
      /\ batch' \in Seq(Records) /\ journal' \in Seq(Records)
  BY DEF Basics, ReaderFits, WorldFits
<1>2. Len(journal') \in Nat /\ Len(batch') \in Nat
  BY <1>1
<1>3. Base' = IF cursor' >= 0 THEN cursor' ELSE IF up' THEN pos' - Len(batch') ELSE Len(journal')
  BY DEF Base, Converted
<1> QED BY <1>1, <1>2, <1>3

LEMMA TouchesIsConcerns ==
  ASSUME NEW r, NEW p, NEW v, r.reason # "rescan"
  PROVE  Concerns(r, p, "windows", v) <=> Touches(r, p)
BY DEF Concerns, Wipes, Touches

\* The last record that concerns a path converts to what it is: of what the
\* tree's changes log, and because a directory that is renamed or removed is
\* logged as gone.
LEMMA LogStep ==
  ASSUME Basics, Basics', LogIsCurrent, Next
  PROVE  LogIsCurrent'
<1> SUFFICES ASSUME platform' = "windows", NEW p \in Path, NEW i \in Base' + 1 .. Len(journal'),
                    ~InMoved(p)', Concerns(journal'[i], p, "windows", Stat(p)'),
                    \A j \in i + 1 .. Len(journal') : ~Concerns(journal'[j], p, "windows", Stat(p)')
             PROVE  Settles(journal'[i], p, at', Stat(p)')
  BY DEF LogIsCurrent
<1>1. Len(journal') \in Nat /\ \A j \in 1 .. Len(journal') : journal'[j].reason # "rescan"
  BY DEF Basics, WorldFits
<1>2. Base \in Nat /\ Len(journal) \in Nat /\ Base <= Len(journal) /\ Base' \in Nat
  BY BaseBounds, BasePrimed
<1>3. i \in 1 .. Len(journal') /\ \A j \in i + 1 .. Len(journal') : j \in 1 .. Len(journal')
  <2> DEFINE b == Base'
  <2>1. i \in b + 1 .. Len(journal') /\ b \in Nat
    BY <1>2
  <2> HIDE DEF b
  <2> QED BY <1>1, <2>1
<1>4. Touches(journal'[i], p) /\ \A j \in i + 1 .. Len(journal') : ~Touches(journal'[j], p)
  BY <1>1, <1>3, TouchesIsConcerns
<1>5. CASE Operate
  <2>1. PICK d \in Dir, rs \in Seq(Records) : Happened(d, rs)
    BY <1>5, OperateHappens DEF Basics
  <2> DEFINE S == PresentIn(at, holds)  T == PresentIn(at', holds')  n == Len(journal)
  <2>2. /\ platform = "windows" /\ moved \subseteq moved'
        /\ \A e \in Dir : e # d => at'[e] = at[e]
        /\ Tells(d, rs, at, at', moved', S, T)
    BY <2>1 DEF Happened, fixed
  <2>3. Stat(p) = S[p] /\ Stat(p)' = T[p]
    BY StatIsPresent
  <2>4. ~(Len(p) = 2 /\ p[1] \in moved') /\ ~InMoved(p)
    BY <2>2 DEF InMoved
  <2>5. /\ n \in Nat /\ Len(rs) \in Nat /\ Len(journal') = n + Len(rs)
        /\ \A j \in 1 .. n : journal'[j] = journal[j]
        /\ \A j \in 1 .. Len(rs) : journal'[n + j] = rs[j]
    BY <2>1, Logged DEF Basics
  <2> HIDE DEF S, T
  <2>6. CASE i - n \in 1 .. Len(rs) /\ journal'[i] = rs[i - n] /\ i \in n + 1 .. Len(journal')
    <3> DEFINE k == i - n
    <3>1. k \in 1 .. Len(rs) /\ journal'[i] = rs[k] /\ i = n + k
      BY <1>3, <2>5, <2>6
    <3> HIDE DEF n
    <3>2. ASSUME NEW j \in k + 1 .. Len(rs)
          PROVE  ~Touches(rs[j], p)
      <4>1. n + j \in i + 1 .. Len(journal') /\ j \in 1 .. Len(rs)
        BY <2>5, <3>1
      <4> QED BY <1>4, <2>5, <4>1
    <3> HIDE DEF k
    <3>3. Touches(rs[k], p)
      BY <1>4, <3>1
    <3>4. /\ rs[k].reason \in Removal <=> T[p] = 0
          /\ rs[k].dir = "root" \/ (rs[k].dir = d /\ at'[d] = p[1])
      BY <2>2, <2>4, <3>1, <3>2, <3>3 DEF Tells
    <3> QED BY <2>3, <3>1, <3>4 DEF Settles
  <2>7. CASE i \in Base + 1 .. n /\ i \in 1 .. n /\ journal'[i] = journal[i]
    <3>1. ASSUME NEW j \in 1 .. Len(rs)
          PROVE  ~Touches(rs[j], p)
      <4>1. n + j \in i + 1 .. Len(journal')
        BY <2>5, <2>7
      <4> QED BY <1>4, <2>5, <4>1
    <3>2. T[p] = S[p]
      BY <2>2, <2>4, <3>1 DEF Tells, Touches
    <3>3. ASSUME NEW j \in i + 1 .. n
          PROVE  ~Concerns(journal[j], p, "windows", Stat(p))
      <4>1. j \in i + 1 .. Len(journal') /\ journal[j] = journal'[j]
        BY <2>5, <2>7
      <4>2. ~Touches(journal[j], p) /\ journal[j].reason # "rescan"
        BY <1>1, <1>3, <1>4, <4>1
      <4> QED BY <4>2, TouchesIsConcerns
    <3>4. Concerns(journal[i], p, "windows", Stat(p))
      BY <2>3, <2>7, <3>2
    <3>5. Settles(journal[i], p, at, Stat(p))
      BY <2>2, <2>4, <2>7, <3>3, <3>4 DEF LogIsCurrent
    <3> DEFINE e == journal[i].dir
    <3>6. e = "root" \/ (e \in Dir /\ at[e] = p[1])
      BY <3>5 DEF Settles
    <3>7. ASSUME e \in Dir, at[e] = p[1]
          PROVE  at'[e] = at[e]
      <4>1. e # d => at'[e] = at[e]
        BY <2>2, <3>7
      <4>2. at[e] # 0
        BY <3>7, PathParts, Bounds
      <4>3. ASSUME at'[d] # at[d], e = d
            PROVE  FALSE
        <5>1. PICK j \in 1 .. Len(rs) : rs[j].path = <<at[d]>> /\ rs[j].reason \in Removal
          BY <2>2, <4>2, <4>3 DEF Tells
        <5>2. <<p[1]>> \in Path /\ IsPrefix(<<p[1]>>, p)
          BY PathParts, PathPrefix
        <5>3. Touches(rs[j], p)
          BY <3>7, <4>3, <5>1, <5>2 DEF Touches
        <5> QED BY <3>1, <5>3
      <4> QED BY <4>1, <4>3
    <3> QED BY <2>3, <2>7, <3>2, <3>5, <3>6, <3>7 DEF Settles
  <2> QED BY <2>1, <2>6, <2>7, BaseLogged
<1>6. CASE ~Operate
  <2> DEFINE b == Base'
  <2>1. b \in Nat /\ b >= Base /\ (moved' = moved \/ b = Len(journal')) /\ UNCHANGED <<at, holds, platform>>
    BY <1>6, BaseStep
  <2>2. journal' = journal
    BY <1>6, <2>1, JournalKept
  <2>3. i \in b + 1 .. Len(journal)
    BY <2>2
  <2> HIDE DEF b
  <2>4. i \in Base + 1 .. Len(journal) /\ moved' = moved
    BY <1>2, <2>1, <2>2, <2>3
  <2>5. Stat(p)' = Stat(p)
    BY <2>1, StatKept
  <2> QED BY <2>1, <2>2, <2>4, <2>5 DEF LogIsCurrent, InMoved
<1> QED BY <1>5, <1>6

-----------------------------------------------------------------------------
(* What the reader makes of a record. *)

\* On Windows the change is of the path the record had, unless the directory
\* has been renamed or is not known any more.
LEMMA WindowsConverts ==
  ASSUME Basics, RecordsFit, Convert, platform = "windows", NEW r, r = Head(batch)
  PROVE  /\ r \in Records /\ r.reason # "rescan" /\ r.path \in Path
         /\ \/ pending' = WindowsChange(r, r.path)
            \/ /\ r.dir \in Dir /\ KnownDir(r) \in moved \cup {Gone}
               /\ pending' = <<>> \/ \E n \in moved : pending' = WindowsChange(r, <<n, 0>>)
<1>1. batch # <<>> /\ batch' = Tail(batch) /\ pos' = pos /\ up /\ ConvertWindows(r)
  BY DEF Convert
<1>2. /\ r = journal[Converted + 1] /\ r \in Records /\ Converted + 1 <= pos /\ Converted \in Nat
  BY <1>1, NextRecord DEF Basics
<1>3. pos \in Nat /\ pos <= Len(journal) /\ Len(journal) \in Nat
  BY ReaderNumbers DEF Basics
<1>4. Base \in Nat /\ Base <= Converted
  BY <1>1, BaseBounds
<1>5. Converted + 1 \in Base + 1 .. Len(journal) /\ Converted + 1 \in 1 .. Len(journal)
  BY <1>2, <1>3, <1>4
<1>6. r.reason # "rescan"
  BY <1>2, <1>5 DEF Basics, WorldFits
<1>7. r.path \in Path /\ (r.dir = "root" \/ r.dir \in Dir)
  BY <1>2, <1>6, RecordParts
<1>8. RecordFits(r, at, cache, moved)
  BY <1>2, <1>5, RecordFit
<1>9. /\ at \in [Dir -> DirName \cup {0, Gone}] /\ cache \in [Dir -> DirName \cup {0}]
      /\ r.dir \in Dir => at[r.dir] # 0
  BY <1>2, <1>5 DEF Basics, WorldFits, ReaderFits
<1>10. CASE r.dir = "root"
  BY <1>1, <1>2, <1>6, <1>7, <1>10 DEF ConvertWindows
<1>11. CASE r.dir \in Dir
  <2> DEFINE k == KnownDir(r)
  <2>1. k \in DirName \cup {Gone}
    BY <1>9, <1>11 DEF KnownDir
  <2>2. k = Gone \/ k \in moved \/ r.path = <<k, 0>>
    BY <1>8, <1>9, <1>11 DEF KnownDir, RecordFits
  <2>3. pending' = IF k = Gone THEN <<>> ELSE WindowsChange(r, <<k, 0>>)
    BY <1>1, <1>11, Bounds DEF KnownDir, ConvertWindows
  <2> HIDE DEF k
  <2>4. CASE k = Gone
    BY <1>2, <1>6, <1>7, <1>11, <2>3, <2>4 DEF k
  <2>5. CASE k # Gone /\ k \in moved
    BY <1>2, <1>6, <1>7, <1>11, <2>3, <2>5 DEF k
  <2>6. CASE k # Gone /\ r.path = <<k, 0>>
    BY <1>2, <1>6, <1>7, <2>3, <2>6
  <2> QED BY <2>2, <2>4, <2>5, <2>6
<1> QED BY <1>7, <1>10, <1>11

LEMMA MacConverts ==
  ASSUME Basics, Convert, platform # "windows", NEW r, r = Head(batch)
  PROVE  /\ r \in Records
         /\ r.reason # "rescan" =>
              /\ r.path \in Path
              /\ pending' = IF Stat(r.path) # 0 THEN <<Stated(r.path)>> ELSE <<Removed(r.path)>>
         /\ r.reason = "rescan" =>
              /\ r.path = <<>> /\ Len(pending') \in Nat
              /\ \A i \in 1 .. Len(pending') :
                   /\ pending'[i].op = "stated" /\ pending'[i].path \in Path
                   /\ Stat(pending'[i].path) # 0
                   /\ pending'[i].version = Stat(pending'[i].path)
                   /\ \A j \in 1 .. Len(pending') : i # j => pending'[i].path # pending'[j].path
              /\ \A p \in Path : Stat(p) # 0 => \E i \in 1 .. Len(pending') : pending'[i].path = p
<1>1. batch # <<>> /\ batch' = Tail(batch) /\ pos' = pos /\ ConvertMac(r)
  BY DEF Convert
<1>2. r \in Records
  BY <1>1, NextRecord DEF Basics
<1>3. ASSUME r.reason # "rescan"
      PROVE  /\ r.path \in Path
             /\ pending' = IF Stat(r.path) # 0 THEN <<Stated(r.path)>> ELSE <<Removed(r.path)>>
  BY <1>1, <1>2, <1>3, RecordParts DEF ConvertMac
<1>4. ASSUME r.reason = "rescan"
      PROVE  /\ r.path = <<>> /\ Len(pending') \in Nat
             /\ \A i \in 1 .. Len(pending') :
                  /\ pending'[i].op = "stated" /\ pending'[i].path \in Path
                  /\ Stat(pending'[i].path) # 0
                  /\ pending'[i].version = Stat(pending'[i].path)
                  /\ \A j \in 1 .. Len(pending') : i # j => pending'[i].path # pending'[j].path
             /\ \A p \in Path : Stat(p) # 0 => \E i \in 1 .. Len(pending') : pending'[i].path = p
  <2> DEFINE S == {p \in Path : Stat(p) # 0}  s == SetToSeq(S)  n == Cardinality(S)
  <2>1. S \in SUBSET Path
    OBVIOUS
  <2>2. pending' = [i \in DOMAIN s |-> Stated(s[i])]
    BY <1>1, <1>4 DEF ConvertMac
  <2>3. /\ s \in [1 .. n -> S] /\ n \in Nat
        /\ \A x \in S : \E i \in 1 .. n : s[i] = x
        /\ \A i, j \in 1 .. n : i # j => s[i] # s[j]
    BY <2>1, ListOfSet
  <2>4. \A x \in S : x \in Path /\ Stat(x) # 0
    OBVIOUS
  <2>5. \A x \in Path : Stat(x) # 0 => x \in S
    OBVIOUS
  <2> HIDE DEF S, s, n
  <2>6. DOMAIN s = 1 .. n /\ Len(pending') = n
    BY <2>2, <2>3
  <2>7. ASSUME NEW i \in 1 .. n
        PROVE  /\ pending'[i].op = "stated" /\ pending'[i].path = s[i]
               /\ pending'[i].version = Stat(s[i]) /\ s[i] \in Path /\ Stat(s[i]) # 0
    <3>1. pending'[i] = Stated(s[i])
      BY <2>2, <2>6
    <3> QED BY <2>3, <2>4, <3>1 DEF Stated
  <2>8. r.path = <<>>
    BY <1>2, <1>4, RecordParts
  <2> QED BY <2>3, <2>5, <2>6, <2>7, <2>8
<1> QED BY <1>2, <1>3, <1>4

LEMMA MadeBears ==
  ASSUME NEW p, NEW q, NEW f, NEW v
  PROVE  /\ Bears(Removed(q), p, f, v) <=> q = p \/ ((v # 0 \/ f = "windows") /\ IsPrefix(q, p))
         /\ Bears(Stated(q), p, f, v) <=> q = p
BY DEF Bears, Removed, Stated

LEMMA NothingIsSilent ==
  ASSUME NEW p, NEW f, NEW v
  PROVE  Silent(<<>>, p, f, v) /\ ~Shows(<<>>, p, f, v) /\ <<>> \in Seq(Changes)
BY DEF Silent, Shows

\* What a record that is read as a change of q makes of it, on Windows.
LEMMA WindowsShows ==
  ASSUME WorldFits, NEW r, r.reason # "rescan", NEW p \in Path, NEW q \in Path, NEW v, v = Stat(p)
  PROVE  /\ ~(q = p \/ (r.reason \in Removal /\ IsPrefix(q, p))) => Silent(WindowsChange(r, q), p, "windows", v)
         /\ (q = p \/ (r.reason \in Removal /\ IsPrefix(q, p))) /\ (r.reason \in Removal <=> v = 0)
              => Shows(WindowsChange(r, q), p, "windows", v)
         /\ \A i \in 1 .. Len(WindowsChange(r, q)) :
              WindowsChange(r, q)[i].op = "removed" =>
                r.reason \in Removal /\ WindowsChange(r, q)[i] = Removed(q)
<1>1. CASE r.reason \in Removal
  <2>1. WindowsChange(r, q) = <<Removed(q)>> /\ Removed(q) \in Changes /\ Removed(q).version = 0
    BY <1>1, StatedIsChange DEF WindowsChange, Removal
  <2>2. Bears(Removed(q), p, "windows", v) <=> q = p \/ IsPrefix(q, p)
    BY MadeBears
  <2> QED BY <1>1, <2>1, <2>2, ShowsOne
<1>2. CASE r.reason \notin Removal /\ Stat(q) # 0
  <2>1. /\ WindowsChange(r, q) = <<Stated(q)>> /\ Stated(q) \in Changes /\ Stated(q).version = Stat(q)
        /\ Stated(q).op = "stated"
    BY <1>2, StatedIsChange DEF WindowsChange, Removal
  <2>2. Bears(Stated(q), p, "windows", v) <=> q = p
    BY MadeBears
  <2> QED BY <1>2, <2>1, <2>2, ShowsOne
<1>3. CASE r.reason \notin Removal /\ Stat(q) = 0
  <2>1. WindowsChange(r, q) = <<>>
    BY <1>3 DEF WindowsChange, Removal
  <2> QED BY <1>3, <2>1, NothingIsSilent
<1> QED BY <1>1, <1>2, <1>3

LEMMA ConvertWindowsShows ==
  ASSUME Basics, CacheFits, RecordsFit, Convert, platform = "windows", NEW p \in Path, ~InMoved(p),
         NEW r, r = Head(batch), NEW v, v = Stat(p)
  PROVE  /\ ~Concerns(r, p, "windows", v) => Silent(pending', p, "windows", v)
         /\ Concerns(r, p, "windows", v) /\ Settles(r, p, at, v) => Shows(pending', p, "windows", v)
         /\ \A i \in 1 .. Len(pending') :
              pending'[i].op = "removed" /\ Bears(pending'[i], p, "windows", 0)
              => Concerns(r, p, "windows", 0)
<1>1. /\ r \in Records /\ r.reason # "rescan" /\ r.path \in Path /\ WorldFits
      /\ \/ pending' = WindowsChange(r, r.path)
         \/ /\ r.dir \in Dir /\ KnownDir(r) \in moved \cup {Gone}
            /\ pending' = <<>> \/ \E n \in moved : pending' = WindowsChange(r, <<n, 0>>)
  BY WindowsConverts DEF Basics
<1>2. /\ Concerns(r, p, "windows", v) <=> r.path = p \/ (r.reason \in Removal /\ IsPrefix(r.path, p))
      /\ Concerns(r, p, "windows", 0) <=> r.path = p \/ (r.reason \in Removal /\ IsPrefix(r.path, p))
  BY <1>1 DEF Concerns, Wipes
<1>3. CASE pending' = WindowsChange(r, r.path)
  <2>1. ASSUME NEW i \in 1 .. Len(pending'), pending'[i].op = "removed", Bears(pending'[i], p, "windows", 0)
        PROVE  Concerns(r, p, "windows", 0)
    <3>1. r.reason \in Removal /\ pending'[i] = Removed(r.path)
      BY <1>1, <1>3, <2>1, WindowsShows
    <3>2. r.path = p \/ IsPrefix(r.path, p)
      BY <2>1, <3>1, MadeBears
    <3> QED BY <1>2, <3>1, <3>2
  <2>2. Settles(r, p, at, v) => (r.reason \in Removal <=> v = 0)
    BY DEF Settles
  <2> QED BY <1>1, <1>2, <1>3, <2>1, <2>2, WindowsShows
<1>4. CASE /\ r.dir \in Dir /\ KnownDir(r) \in moved \cup {Gone}
           /\ pending' = <<>> \/ \E n \in moved : pending' = WindowsChange(r, <<n, 0>>)
  <2>1. ASSUME Concerns(r, p, "windows", v), Settles(r, p, at, v)
        PROVE  FALSE
    <3>1. r.path = <<r.path[1], 0>> /\ r.dir # "root"
      BY <1>1, <1>4, RecordParts, Bounds
    <3>2. r.path = p /\ Len(p) = 2
      <4>1. Len(r.path) = 2 /\ Len(<<p[1]>>) = 1
        BY <3>1
      <4>2. r.path # <<p[1]>>
        BY <4>1
      <4>3. r.path = p
        BY <1>1, <1>2, <2>1, <4>2, PathPrefix
      <4> QED BY <4>1, <4>3
    <3>3. p[1] \notin moved /\ at[r.dir] = p[1] /\ p[1] \in DirName
      BY <2>1, <3>1, <3>2, PathParts DEF InMoved, Settles
    <3>4. cache[r.dir] \in {0, at[r.dir]}
      BY <1>4, <3>3, Bounds DEF CacheFits
    <3>5. KnownDir(r) = p[1]
      BY <3>3, <3>4 DEF KnownDir
    <3> QED BY <1>4, <3>3, <3>5, Bounds
  <2>2. CASE pending' = <<>>
    BY <2>1, <2>2, NothingIsSilent
  <2>3. ASSUME NEW n \in moved, pending' = WindowsChange(r, <<n, 0>>)
        PROVE  /\ Silent(pending', p, "windows", v)
               /\ \A i \in 1 .. Len(pending') :
                    ~(pending'[i].op = "removed" /\ Bears(pending'[i], p, "windows", 0))
    <3> DEFINE q == <<n, 0>>
    <3>1. q \in Path /\ q[1] = n /\ Len(q) = 2 /\ Len(<<p[1]>>) = 1
      BY PathParts DEF Basics, WorldFits
    <3>2. q # p /\ q # <<p[1]>>
      BY <2>3, <3>1 DEF InMoved
    <3> HIDE DEF q
    <3>3. ~IsPrefix(q, p)
      BY <3>1, <3>2, PathPrefix
    <3>4. Silent(WindowsChange(r, q), p, "windows", v)
      BY <1>1, <3>1, <3>2, <3>3, WindowsShows
    <3>5. \A i \in 1 .. Len(WindowsChange(r, q)) :
             WindowsChange(r, q)[i].op = "removed" => WindowsChange(r, q)[i] = Removed(q)
      BY <1>1, <3>1, WindowsShows
    <3>6. ~Bears(Removed(q), p, "windows", 0)
      BY <3>2, <3>3, MadeBears
    <3> QED BY <2>3, <3>4, <3>5, <3>6 DEF q
  <2> QED BY <1>4, <2>1, <2>2, <2>3
<1> QED BY <1>1, <1>3, <1>4

LEMMA ConvertMacShows ==
  ASSUME Basics, Convert, platform # "windows", NEW p \in Path,
         NEW r, r = Head(batch), NEW v, v = Stat(p)
  PROVE  /\ ~Concerns(r, p, platform, v) => Silent(pending', p, platform, v)
         /\ Concerns(r, p, platform, v) => Shows(pending', p, platform, v)
         /\ \A i \in 1 .. Len(pending') :
              pending'[i].op = "removed" /\ Bears(pending'[i], p, platform, 0)
              => Concerns(r, p, platform, 0)
<1>1. WorldFits
  BY DEF Basics
<1>2. Concerns(r, p, platform, v) <=> r.path = p \/ (r.reason = "rescan" /\ v # 0)
  BY DEF Concerns, Wipes
<1>3. CASE r.reason = "rescan"
  <2>1. /\ r.path = <<>> /\ Len(pending') \in Nat
        /\ \A i \in 1 .. Len(pending') :
             /\ pending'[i].op = "stated" /\ pending'[i].path \in Path
             /\ Stat(pending'[i].path) # 0
             /\ pending'[i].version = Stat(pending'[i].path)
             /\ \A j \in 1 .. Len(pending') : i # j => pending'[i].path # pending'[j].path
        /\ Stat(p) # 0 => \E i \in 1 .. Len(pending') : pending'[i].path = p
    BY <1>3, MacConverts
  <2>2. r.path # p
    BY <2>1, PathParts
  <2>3. \A i \in 1 .. Len(pending') : Bears(pending'[i], p, platform, v) <=> pending'[i].path = p
    BY <2>1 DEF Bears
  <2>4. ASSUME v = 0
        PROVE  Silent(pending', p, platform, v)
    BY <2>1, <2>3, <2>4 DEF Silent
  <2>5. ASSUME v # 0
        PROVE  Shows(pending', p, platform, v)
    <3>1. PICK i \in 1 .. Len(pending') : pending'[i].path = p
      BY <2>1, <2>5
    <3>2. Bears(pending'[i], p, platform, v) /\ pending'[i].version = v
      BY <2>1, <2>3, <3>1
    <3>3. ASSUME NEW j \in i + 1 .. Len(pending')
          PROVE  ~Bears(pending'[j], p, platform, v)
      <4>1. j \in 1 .. Len(pending') /\ i # j
        BY <2>1, <3>3
      <4>2. pending'[j].path # p
        BY <2>1, <3>1, <4>1
      <4> QED BY <2>3, <4>1, <4>2
    <3> QED BY <3>2, <3>3 DEF Shows
  <2> QED BY <1>2, <1>3, <2>1, <2>2, <2>4, <2>5
<1>4. CASE r.reason # "rescan"
  <2> DEFINE q == r.path
  <2>1. q \in Path /\ pending' = IF Stat(q) # 0 THEN <<Stated(q)>> ELSE <<Removed(q)>>
    BY <1>4, MacConverts
  <2>2. Concerns(r, p, platform, v) <=> q = p
    BY <1>2, <1>4
  <2>3. Concerns(r, p, platform, 0) <=> q = p
    BY <1>4 DEF Concerns, Wipes
  <2> HIDE DEF q
  <2>4. CASE Stat(q) # 0
    <3>1. /\ Stated(q) \in Changes /\ Stated(q).version = Stat(q) /\ Stated(q).op = "stated"
          /\ pending' = <<Stated(q)>>
      BY <1>1, <2>1, <2>4, StatedIsChange
    <3>2. Bears(Stated(q), p, platform, v) <=> q = p
      BY MadeBears
    <3> QED BY <2>2, <2>3, <3>1, <3>2, ShowsOne
  <2>5. CASE Stat(q) = 0
    <3>1. /\ Removed(q) \in Changes /\ Removed(q).version = 0
          /\ pending' = <<Removed(q)>>
      BY <1>1, <2>1, <2>5, StatedIsChange
    <3>2. Bears(Removed(q), p, platform, v) <=> q = p \/ (v # 0 /\ IsPrefix(q, p))
      BY MadeBears
    <3>3. v # 0 /\ IsPrefix(q, p) => q = p
      <4>1. v # 0 => Stat(<<p[1]>>) = 1
        BY <1>1, StatType
      <4> QED BY <2>1, <2>5, <4>1, PathPrefix
    <3>4. Bears(Removed(q), p, platform, 0) <=> q = p
      BY MadeBears
    <3> QED BY <2>2, <2>3, <2>5, <3>1, <3>2, <3>3, <3>4, ShowsOne
  <2> QED BY <2>4, <2>5
<1> QED BY <1>3, <1>4

\* Both platforms.
LEMMA ConvertShows ==
  ASSUME Basics, CacheFits, RecordsFit, LogIsCurrent, Convert, NEW p \in Path, ~InMoved(p)
  PROVE  LET r == journal[Converted + 1] IN
           /\ Converted' = Converted + 1 /\ Converted \in Nat /\ Converted + 1 \in 1 .. Len(journal)
           /\ ~Concerns(r, p, platform, Stat(p)) => Silent(pending', p, platform, Stat(p))
           /\ /\ Concerns(r, p, platform, Stat(p))
              /\ \A j \in Converted + 2 .. Len(journal) : ~Concerns(journal[j], p, platform, Stat(p))
              => Shows(pending', p, platform, Stat(p))
           /\ \A i \in 1 .. Len(pending') :
                pending'[i].op = "removed" /\ Bears(pending'[i], p, platform, 0)
                => Concerns(r, p, platform, 0)
<1> DEFINE r == Head(batch)  v == Stat(p)  n == Converted
<1>1. batch # <<>> /\ batch' = Tail(batch) /\ pos' = pos /\ up
  BY DEF Convert
<1>2. Converted' = n + 1 /\ n + 1 <= pos /\ n \in Nat /\ r = journal[n + 1] /\ r \in Records
  BY <1>1, NextRecord DEF Basics
<1>3. pos \in Nat /\ pos <= Len(journal) /\ Len(journal) \in Nat /\ Base \in Nat /\ Base <= n
  BY <1>1, ReaderNumbers, BaseBounds DEF Basics
<1>4. r = Head(batch) /\ v = Stat(p)
  OBVIOUS
<1> HIDE DEF r, v, n
<1>5. n + 1 \in 1 .. Len(journal) /\ n + 1 \in Base + 1 .. Len(journal) /\ n + 1 + 1 = n + 2
  BY <1>2, <1>3
<1>6. CASE platform = "windows"
  <2>1. /\ ~Concerns(r, p, "windows", v) => Silent(pending', p, "windows", v)
        /\ Concerns(r, p, "windows", v) /\ Settles(r, p, at, v) => Shows(pending', p, "windows", v)
        /\ \A i \in 1 .. Len(pending') :
              pending'[i].op = "removed" /\ Bears(pending'[i], p, "windows", 0)
              => Concerns(r, p, "windows", 0)
    BY <1>4, <1>6, ConvertWindowsShows
  <2>2. /\ Concerns(r, p, "windows", v)
        /\ \A j \in n + 2 .. Len(journal) : ~Concerns(journal[j], p, "windows", v)
        => Settles(r, p, at, v)
    BY <1>2, <1>4, <1>5, <1>6 DEF LogIsCurrent
  <2> QED BY <1>2, <1>4, <1>5, <1>6, <2>1, <2>2 DEF n
<1>7. CASE platform # "windows"
  <2>1. /\ ~Concerns(r, p, platform, v) => Silent(pending', p, platform, v)
        /\ Concerns(r, p, platform, v) => Shows(pending', p, platform, v)
        /\ \A i \in 1 .. Len(pending') :
              pending'[i].op = "removed" /\ Bears(pending'[i], p, platform, 0)
              => Concerns(r, p, platform, 0)
    BY <1>4, <1>7, ConvertMacShows
  <2> QED BY <1>2, <1>4, <1>5, <2>1 DEF n
<1> QED BY <1>6, <1>7

LEMMA PendingStep ==
  ASSUME Basics, Basics', CacheFits, RecordsFit, LogIsCurrent, PendingFits, Next
  PROVE  PendingFits'
<1> SUFFICES ASSUME NEW p \in Path, NEW i \in 1 .. Len(pending'),
                    pending'[i].op = "removed", ~InMoved(p)', Bears(pending'[i], p, platform', 0)
             PROVE  Concerns(journal'[Converted'], p, platform', 0)
  BY DEF PendingFits
<1>1. /\ pending \in Seq(Changes) /\ (~reading => pending = <<>>) /\ (~up => ~reading)
      /\ (pending # <<>> => Converted > 0)
      /\ Converted \in Nat /\ pos \in Nat /\ Converted <= pos /\ pos <= Len(journal) /\ Len(journal) \in Nat
      /\ Converted = pos - Len(batch)
  BY ReaderNumbers DEF Basics, ReaderFits
<1>2. pending' # <<>>
  OBVIOUS
<1>3. CASE Convert
  <2>1. UNCHANGED <<journal, platform, moved>>
    BY <1>3 DEF Convert, world, fixed, history
  <2>2. ~InMoved(p)
    BY <2>1 DEF InMoved
  <2> QED BY <1>3, <2>1, <2>2, ConvertShows
<1>4. CASE Send \/ DropChange
  <2>1. /\ UNCHANGED <<journal, platform, moved, pos, batch>> /\ pending' = Tail(pending) /\ pending # <<>>
    BY <1>4 DEF Send, DropChange, world, fixed, history
  <2>2. i + 1 \in 1 .. Len(pending) /\ pending'[i] = pending[i + 1]
    BY <1>1, <2>1, HeadTailProperties
  <2>3. ~InMoved(p)
    BY <2>1 DEF InMoved
  <2>4. Converted' = Converted
    BY <2>1 DEF Converted
  <2> QED BY <2>1, <2>2, <2>3, <2>4 DEF PendingFits
<1>5. CASE Operate \/ HistoryDropped
  <2>1. UNCHANGED <<platform, pos, batch, pending>> /\ (~InMoved(p)' => ~InMoved(p))
    <3>1. CASE Operate
      <4>1. PICK d \in Dir, rs \in Seq(Records) : Happened(d, rs)
        BY <3>1, OperateHappens DEF Basics
      <4> QED BY <4>1 DEF Happened, fixed, reader, InMoved
    <3>2. CASE HistoryDropped
      BY <3>2 DEF HistoryDropped, fixed, reader, InMoved
    <3> QED BY <1>5, <3>1, <3>2
  <2>2. Converted' = Converted
    BY <2>1 DEF Converted
  <2>3. Converted \in 1 .. Len(journal) /\ Converted \in 1 .. pos
    BY <1>1, <1>2, <2>1
  <2>4. journal'[Converted] = journal[Converted]
    <3>1. CASE Operate
      <4>1. PICK d \in Dir, rs \in Seq(Records) : Happened(d, rs)
        BY <3>1, OperateHappens DEF Basics
      <4> QED BY <2>3, <4>1, Logged DEF Basics
    <3>2. CASE HistoryDropped
      BY <2>3, <3>2, Dropped DEF Basics
    <3> QED BY <1>5, <3>1, <3>2
  <2> QED BY <2>1, <2>2, <2>4 DEF PendingFits
<1>6. CASE Crash
  BY <1>2, <1>6 DEF Crash
<1>7. CASE StartUp \/ ReadBatch
  BY <1>1, <1>2, <1>7 DEF StartUp, ReadBatch
<1>8. CASE SaveCursor \/ SaveIdleCursor \/ Consume \/ Fanout \/ (\E q \in Path : WalkRow(q)) \/ Serve
  <2>1. UNCHANGED <<journal, platform, moved, pos, batch, pending>>
    BY <1>8 DEF SaveCursor, SaveIdleCursor, Consume, Fanout, WalkRow, Serve, Subscribe, Unsubscribe,
                Deliver, Count, ReadRows, world, fixed, history, reader
  <2>2. Converted' = Converted /\ ~InMoved(p)
    BY <2>1 DEF Converted, InMoved
  <2> QED BY <2>1, <2>2 DEF PendingFits
<1> QED BY <1>3, <1>4, <1>5, <1>6, <1>7, <1>8 DEF Next

-----------------------------------------------------------------------------
(* Each path stays on its way: what the actions that matter to it do. *)

LEMMA WayKept ==
  ASSUME NEW p \in Path, Stat(p)' = Stat(p), platform' = platform
  PROVE  /\ WillShow(p) /\ chan' \o pending' = chan \o pending /\ index'[p] = index[p] /\ toWalk' = toWalk
              => WillShow(p)'
         /\ ToBeRead(p) /\ Converted' = Converted /\ journal' = journal => ToBeRead(p)'
         /\ (~InMoved(p)' => ~InMoved(p)) /\ missed \subseteq missed' /\ stale \subseteq stale'
              => (~Excused(p)' => ~Excused(p))
<1>1. WillShow(p) /\ chan' \o pending' = chan \o pending /\ index'[p] = index[p] /\ toWalk' = toWalk
        => WillShow(p)'
  BY DEF WillShow, ToBeWalked
<1>2. ToBeRead(p) /\ Converted' = Converted /\ journal' = journal => ToBeRead(p)'
  BY DEF ToBeRead
<1>3. (~InMoved(p)' => ~InMoved(p)) /\ missed \subseteq missed' /\ stale \subseteq stale'
        => (~Excused(p)' => ~Excused(p))
  BY DEF Excused, Under
<1> QED BY <1>1, <1>2, <1>3

LEMMA SamePathIsUnder ==
  ASSUME NEW p \in Path, NEW s
  PROVE  p \in s => Under(p, s)
BY PathPrefix DEF Under

LEMMA OperateWay ==
  ASSUME Basics, OnItsWay, Operate, up, NEW p \in Path, ~Excused(p)'
  PROVE  ToBeRead(p)' \/ WillShow(p)'
<1>1. PICK d \in Dir, rs \in Seq(Records) : Happened(d, rs)
  BY OperateHappens DEF Basics
<1> DEFINE S == PresentIn(at, holds)  T == PresentIn(at', holds')  n == Len(journal)
<1>2. /\ UNCHANGED <<platform, up, pos, batch, pending, chan, toWalk, index, missed, stale>>
      /\ moved \subseteq moved'
      /\ Tells(d, rs, at, at', moved', S, T)
  BY <1>1 DEF Happened, fixed, reader, store
<1>3. Stat(p) = S[p] /\ Stat(p)' = T[p]
  BY StatIsPresent
<1>4. /\ n \in Nat /\ Len(rs) \in Nat /\ Len(journal') = n + Len(rs)
      /\ \A j \in 1 .. n : journal'[j] = journal[j]
      /\ \A j \in 1 .. Len(rs) : journal'[n + j] = rs[j]
  BY <1>1, Logged DEF Basics
<1>5. Converted \in Nat /\ Converted <= n /\ Converted' = Converted
  <2>1. Converted' = Converted
    BY <1>2 DEF Converted
  <2> QED BY <2>1, ReaderNumbers DEF Basics
<1> HIDE DEF S, T, n
<1>6. ASSUME NEW k \in 1 .. Len(rs), rs[k].path = p
      PROVE  ToBeRead(p)'
  <2>1. n + k \in Converted + 1 .. Len(journal')
    BY <1>4, <1>5
  <2>2. Concerns(journal'[n + k], p, platform', Stat(p)')
    BY <1>4, <1>6 DEF Concerns
  <2> QED BY <1>5, <2>1, <2>2 DEF ToBeRead
<1>7. ASSUME ~ \E k \in 1 .. Len(rs) : rs[k].path = p
      PROVE  ToBeRead(p)' \/ WillShow(p)'
  <2>1. ~InMoved(p)' /\ ~InMoved(p)
    BY <1>2 DEF Excused, InMoved
  <2>2. Stat(p)' = Stat(p)
    BY <1>2, <1>3, <1>7, <2>1 DEF Tells, InMoved
  <2>3. ~Excused(p)
    BY <1>2, <2>1, <2>2, WayKept
  <2>4. CASE WillShow(p)
    BY <1>2, <2>2, <2>4, WayKept
  <2>5. CASE ToBeRead(p)
    <3>1. PICK i \in Converted + 1 .. n : Concerns(journal[i], p, platform, Stat(p))
      BY <2>5 DEF ToBeRead, n
    <3>2. i \in Converted + 1 .. Len(journal') /\ journal'[i] = journal[i]
      BY <1>4, <1>5
    <3> QED BY <1>2, <1>5, <2>2, <3>1, <3>2 DEF ToBeRead
  <2> QED BY <2>3, <2>4, <2>5 DEF OnItsWay
<1> QED BY <1>6, <1>7

\* The walk lists what is there; of what is gone the reader resumes with the
\* record, unless it has skipped it.
LEMMA StartUpWay ==
  ASSUME Basics, Remembered, StartUp, NEW p \in Path, ~Excused(p)'
  PROVE  ToBeRead(p)' \/ WillShow(p)'
<1>1. /\ UNCHANGED <<platform, at, holds, journal, batch, pending, chan, index>> /\ ~up
      /\ toWalk' = {<<n>> : n \in {m \in DirName : DirAt(m) # {}}}
  BY DEF StartUp, fixed, world, store
<1>2. chan = <<>> /\ pending = <<>> /\ batch = <<>>
  BY <1>1 DEF Basics, StoreFits, ReaderFits
<1>3. Silent(chan' \o pending', p, platform', Stat(p)')
  BY <1>1, <1>2, NothingIsSilent, ShowsJoined
<1>4. Stat(p)' = Stat(p)
  BY <1>1, StatKept
<1>5. CASE Stat(p) # 0
  <2>1. \E d \in Dir : at[d] = p[1]
    BY <1>5, StatType DEF Basics
  <2>2. p[1] \in {m \in DirName : DirAt(m) # {}}
    BY <2>1, PathParts DEF DirAt
  <2>3. ToBeWalked(p)'
    BY <1>1, <1>4, <1>5, <2>2 DEF ToBeWalked
  <2> QED BY <1>3, <2>3 DEF WillShow
<1>6. CASE Stat(p) = 0
  <2>1. /\ stale \subseteq stale' /\ \A n \in moved : <<n, 0>> \in stale'
        /\ ~Under(p, stale')
    BY <1>4, <1>6 DEF Excused, StartUp
  <2>2. ~InMoved(p)
    <3>1. ASSUME InMoved(p)
          PROVE  FALSE
      <4>1. p = <<p[1], 0>> /\ p[1] \in moved
        BY <3>1, PathParts DEF InMoved
      <4> QED BY <2>1, <4>1, SamePathIsUnder
    <3> QED BY <3>1
  <2>3. ~Excused(p)
    BY <1>6, <2>1, <2>2 DEF Excused, Under
  <2>4. CASE index[p] = 0
    BY <1>1, <1>3, <1>4, <1>6, <2>4 DEF WillShow
  <2>5. ASSUME NEW i \in Resumed + 1 .. Len(journal), Concerns(journal[i], p, platform, Stat(p))
        PROVE  ToBeRead(p)'
    <3>1. \/ pos' = cursor /\ cursor >= 0
          \/ \A j \in Resumed + 1 .. Len(journal) : journal[j].path \in stale'
      <4>1. Resumed = IF cursor < 0 THEN 0 ELSE cursor
        BY DEF Resumed, Basics, ReaderFits
      <4> QED BY <4>1 DEF StartUp, Skipped
    <3>2. journal[i].path \notin stale'
      <4>1. journal[i].path = p \/ IsPrefix(journal[i].path, p)
        BY <1>6, <2>5 DEF Concerns, Wipes
      <4> QED BY <2>1, <4>1, SamePathIsUnder DEF Under
    <3>3. pos' = cursor /\ cursor >= 0
      BY <3>1, <3>2
    <3>4. Converted' = Resumed
      <4>1. Len(batch') = 0 /\ cursor \in Int
        BY <1>1, <1>2 DEF Basics, ReaderFits
      <4> QED BY <3>3, <4>1 DEF Converted, Resumed
    <3> QED BY <1>1, <1>4, <2>5, <3>4 DEF ToBeRead
  <2> QED BY <1>1, <1>6, <2>3, <2>4, <2>5 DEF Remembered
<1> QED BY <1>5, <1>6

LEMMA ConvertWay ==
  ASSUME Basics, CacheFits, RecordsFit, LogIsCurrent, OnItsWay, Convert, NEW p \in Path, ~Excused(p)'
  PROVE  ToBeRead(p)' \/ WillShow(p)'
<1> DEFINE n == Converted  v == Stat(p)  f == platform
<1>1. /\ UNCHANGED <<platform, at, holds, journal, chan, index, toWalk, missed, stale, moved>>
      /\ up /\ pending = <<>>
  BY DEF Convert, fixed, world, store, history
<1>2. Stat(p)' = v
  BY <1>1, StatKept
<1>3. ~Excused(p)
  BY <1>1, <1>2, WayKept DEF InMoved
<1>4. ~InMoved(p)
  BY <1>3 DEF Excused
<1>5. /\ Converted' = n + 1 /\ n \in Nat /\ n + 1 \in 1 .. Len(journal)
      /\ ~Concerns(journal[n + 1], p, f, v) => Silent(pending', p, f, v)
      /\ /\ Concerns(journal[n + 1], p, f, v)
         /\ \A j \in n + 2 .. Len(journal) : ~Concerns(journal[j], p, f, v)
         => Shows(pending', p, f, v)
  BY <1>4, ConvertShows
<1>6. ToBeRead(p) \/ WillShow(p)
  BY <1>1, <1>3 DEF OnItsWay
<1>7. chan \in Seq(Changes) /\ pending' \in Seq(Changes)
  BY ConvertEffect DEF Basics, StoreFits
<1>8. /\ ToBeRead(p) <=> \E i \in n + 1 .. Len(journal) : Concerns(journal[i], p, f, v)
      /\ ToBeRead(p)' <=> \E i \in n + 1 + 1 .. Len(journal) : Concerns(journal[i], p, f, v)
  BY <1>1, <1>2, <1>5 DEF ToBeRead
<1>9. /\ WillShow(p) <=> \/ Shows(chan \o pending, p, f, v)
                         \/ Silent(chan \o pending, p, f, v) /\ (index[p] = v \/ ToBeWalked(p))
      /\ WillShow(p)' <=> \/ Shows(chan \o pending', p, f, v)
                          \/ Silent(chan \o pending', p, f, v) /\ (index[p] = v \/ ToBeWalked(p))
  BY <1>1, <1>2 DEF WillShow, ToBeWalked
<1> HIDE DEF n, v, f
<1>10. CASE \E i \in n + 2 .. Len(journal) : Concerns(journal[i], p, f, v)
  <2>1. n + 1 + 1 = n + 2
    BY <1>5
  <2> QED BY <1>8, <1>10, <2>1
<1>11. CASE ~ (\E i \in n + 2 .. Len(journal) : Concerns(journal[i], p, f, v))
  <2>1. CASE Concerns(journal[n + 1], p, f, v)
    <3>1. Shows(pending', p, f, v)
      BY <1>5, <1>11, <2>1
    <3> QED BY <1>7, <1>9, <3>1, ShowsJoined
  <2>2. CASE ~Concerns(journal[n + 1], p, f, v)
    <3>1. Silent(pending', p, f, v)
      BY <1>5, <2>2
    <3>2. ~ToBeRead(p)
      <4>1. \A i \in n + 1 .. Len(journal) : i = n + 1 \/ i \in n + 2 .. Len(journal)
        BY <1>5
      <4> QED BY <1>8, <1>11, <2>2, <4>1
    <3>3. \/ Shows(chan, p, f, v)
          \/ Silent(chan, p, f, v) /\ (index[p] = v \/ ToBeWalked(p))
      <4>1. WillShow(p)
        BY <1>6, <3>2
      <4> QED BY <1>1, <1>7, <1>9, <4>1, NothingIsSilent, ShowsJoined
    <3> QED BY <1>7, <1>9, <3>1, <3>3, ShowsJoined
  <2> QED BY <2>1, <2>2
<1> QED BY <1>10, <1>11

LEMMA SendWay ==
  ASSUME Basics, OnItsWay, Send, NEW p \in Path, ~Excused(p)'
  PROVE  ToBeRead(p)' \/ WillShow(p)'
<1>1. /\ UNCHANGED <<platform, at, holds, journal, pos, batch, index, toWalk, missed, stale, moved>>
      /\ up /\ pending # <<>> /\ chan' = Append(chan, Head(pending)) /\ pending' = Tail(pending)
  BY DEF Send, fixed, world, store, history
<1>2. chan' \o pending' = chan \o pending
  BY <1>1, SentIsOnItsWay DEF Basics, ReaderFits, StoreFits
<1>3. Stat(p)' = Stat(p) /\ Converted' = Converted
  BY <1>1, StatKept DEF Converted
<1>4. ~Excused(p)
  BY <1>1, <1>3, WayKept DEF InMoved
<1> QED BY <1>1, <1>2, <1>3, <1>4, WayKept DEF OnItsWay

\* What is dropped is excused.
LEMMA DropWay ==
  ASSUME Basics, OnItsWay, DropChange, NEW p \in Path, ~Excused(p)'
  PROVE  ToBeRead(p)' \/ WillShow(p)'
<1> DEFINE h == Head(pending)  v == Stat(p)  f == platform
<1>1. /\ UNCHANGED <<platform, at, holds, journal, pos, batch, chan, index, toWalk, moved>>
      /\ up /\ f = "macos" /\ pending # <<>> /\ pending' = Tail(pending)
      /\ missed' = missed \cup {h.path} /\ stale' = stale \cup {h.path}
  BY DEF DropChange, fixed, world, store
<1>2. Stat(p)' = v /\ Converted' = Converted
  BY <1>1, StatKept DEF Converted
<1>3. ~Excused(p)
  BY <1>1, <1>2, WayKept DEF InMoved
<1>4. chan \in Seq(Changes) /\ pending \in Seq(Changes) /\ h \in Changes
  BY <1>1, SentEffect DEF Basics, ReaderFits, StoreFits
<1>5. v # 0 => p \notin missed'
  BY <1>2 DEF Excused
<1>6. v = 0 => ~Under(p, stale')
  BY <1>2 DEF Excused
<1>7. /\ WillShow(p) <=> \/ Shows(chan \o pending, p, f, v)
                         \/ Silent(chan \o pending, p, f, v) /\ (index[p] = v \/ ToBeWalked(p))
      /\ WillShow(p)' <=> \/ Shows(chan \o Tail(pending), p, f, v)
                          \/ Silent(chan \o Tail(pending), p, f, v) /\ (index[p] = v \/ ToBeWalked(p))
  BY <1>1, <1>2 DEF WillShow, ToBeWalked
<1>8. CASE ToBeRead(p)
  BY <1>1, <1>2, <1>8, WayKept
<1>9. CASE WillShow(p)
  <2> HIDE DEF h, v, f
  <2>1. ASSUME Bears(h, p, f, v), h.version = v
        PROVE  FALSE
    <3>1. h.path = p
      BY <1>1, <1>4, <2>1 DEF Bears, Changes
    <3>2. p \in stale' /\ p \in missed'
      BY <1>1, <3>1
    <3> QED BY <1>5, <1>6, <3>2, SamePathIsUnder
  <2> QED BY <1>1, <1>4, <1>7, <1>9, <2>1, ShowsWithout DEF h
<1> QED BY <1>1, <1>3, <1>8, <1>9 DEF OnItsWay

\* A rescan finds what is there; of what is gone nothing is told.
LEMMA HistoryWay ==
  ASSUME Basics, OnItsWay, HistoryDropped, NEW p \in Path, ~Excused(p)'
  PROVE  ToBeRead(p)' \/ WillShow(p)'
<1>1. /\ UNCHANGED <<platform, at, holds, pos, batch, pending, chan, index, toWalk, missed, moved>>
      /\ stale' = stale \cup Skipped(pos)
  BY DEF HistoryDropped, fixed, reader, store
<1>2. Stat(p)' = Stat(p) /\ Converted' = Converted
  BY <1>1, StatKept DEF Converted
<1>3. ~Excused(p)
  BY <1>1, <1>2, WayKept DEF InMoved
<1>4. /\ platform = "macos" /\ up /\ pos \in Nat /\ Len(journal') = pos + 1
      /\ \A i \in 1 .. pos : journal'[i] = journal[i]
      /\ journal'[pos + 1] = [reason |-> "rescan", dir |-> "root", path |-> <<>>]
      /\ Converted \in Nat /\ Converted <= pos /\ Len(journal) \in Nat
  BY Dropped, ReaderNumbers DEF Basics
<1>5. CASE Stat(p) # 0
  <2>1. pos + 1 \in Converted + 1 .. Len(journal')
    BY <1>4
  <2>2. Concerns(journal'[pos + 1], p, platform', Stat(p)')
    BY <1>2, <1>4, <1>5 DEF Concerns
  <2> QED BY <1>2, <2>1, <2>2 DEF ToBeRead
<1>6. CASE Stat(p) = 0
  <2>1. CASE WillShow(p)
    BY <1>1, <1>2, <2>1, WayKept
  <2>2. CASE ToBeRead(p)
    <3>1. PICK i \in Converted + 1 .. Len(journal) : Concerns(journal[i], p, platform, Stat(p))
      BY <2>2 DEF ToBeRead
    <3>2. journal[i].path = p
      BY <1>4, <1>6, <3>1 DEF Concerns, Wipes
    <3>3. i <= pos
      <4>1. ASSUME i \in pos + 1 .. Len(journal)
            PROVE  FALSE
        <5>1. p \in stale'
          BY <1>1, <3>2, <4>1 DEF Skipped
        <5> QED BY <1>2, <1>6, <5>1, SamePathIsUnder DEF Excused
      <4> QED BY <1>4, <4>1
    <3>4. i \in Converted + 1 .. Len(journal') /\ i \in 1 .. pos
      BY <1>4, <3>3
    <3> QED BY <1>1, <1>2, <1>4, <3>1, <3>4 DEF ToBeRead
  <2> QED BY <1>3, <1>4, <2>1, <2>2 DEF OnItsWay
<1> QED BY <1>5, <1>6

LEMMA ConsumeWay ==
  ASSUME Basics, OnItsWay, Consume, NEW p \in Path, ~Excused(p)'
  PROVE  ToBeRead(p)' \/ WillShow(p)'
<1> DEFINE c == Head(chan)  v == Stat(p)  f == platform
<1>1. /\ UNCHANGED <<platform, at, holds, journal, pos, batch, pending, toWalk, missed, stale, moved>>
      /\ up /\ chan # <<>> /\ chan' = Tail(chan) /\ index' = AfterChange(c)
  BY DEF Consume, fixed, world, reader, history
<1>2. Stat(p)' = v /\ Converted' = Converted
  BY <1>1, StatKept DEF Converted
<1>3. ~Excused(p)
  BY <1>1, <1>2, WayKept DEF InMoved
<1>4. chan \in Seq(Changes) /\ pending \in Seq(Changes) /\ c \in Changes
  BY <1>1, ChanEffect DEF Basics, ReaderFits, StoreFits
<1>5. /\ WillShow(p) <=> \/ Shows(chan \o pending, p, f, v)
                         \/ Silent(chan \o pending, p, f, v) /\ (index[p] = v \/ ToBeWalked(p))
      /\ WillShow(p)' <=> \/ Shows(Tail(chan) \o pending, p, f, v)
                          \/ Silent(Tail(chan) \o pending, p, f, v) /\ (index'[p] = v \/ ToBeWalked(p))
  BY <1>1, <1>2 DEF WillShow, ToBeWalked
<1>6. index'[p] = IF c.op = "removed" /\ IsPrefix(c.path, p) THEN 0
                  ELSE IF c.op = "stated" /\ p = c.path THEN c.version ELSE index[p]
  BY <1>1 DEF AfterChange
<1>7. c.op \in {"stated", "removed"} /\ (c.op = "removed" <=> c.version = 0) /\ IsPrefix(p, p)
  BY <1>4, PathPrefix DEF Changes, Change
<1>8. CASE ToBeRead(p)
  BY <1>1, <1>2, <1>8, WayKept
<1>9. CASE WillShow(p)
  <2> HIDE DEF c, v, f
  <2>1. ASSUME Bears(c, p, f, v), c.version = v
        PROVE  index'[p] = v
    BY <1>6, <1>7, <2>1 DEF Bears
  <2>2. ASSUME ~Bears(c, p, f, v), index[p] = v
        PROVE  index'[p] = v
    BY <1>6, <1>7, <2>2 DEF Bears
  <2> QED BY <1>1, <1>4, <1>5, <1>9, <2>1, <2>2, ShowsTaken DEF c
<1> QED BY <1>1, <1>3, <1>8, <1>9 DEF OnItsWay

LEMMA WalkWay ==
  ASSUME Basics, OnItsWay, NEW q \in Path, WalkRow(q), NEW p \in Path, ~Excused(p)'
  PROVE  ToBeRead(p)' \/ WillShow(p)'
<1> DEFINE v == Stat(p)  f == platform
<1>1. /\ UNCHANGED <<platform, at, holds, journal, pos, batch, pending, chan, missed, stale, moved>>
      /\ up /\ q \in toWalk
      /\ index' = (IF Stat(q) = 0 THEN index ELSE [index EXCEPT ![q] = Stat(q)])
      /\ toWalk' = (toWalk \ {q}) \cup Children(q)
  BY DEF WalkRow, fixed, world, reader, history
<1>2. Stat(p)' = v /\ Converted' = Converted
  BY <1>1, StatKept DEF Converted
<1>3. ~Excused(p)
  BY <1>1, <1>2, WayKept DEF InMoved
<1>4. /\ WillShow(p) <=> \/ Shows(chan \o pending, p, f, v)
                         \/ Silent(chan \o pending, p, f, v) /\ (index[p] = v \/ ToBeWalked(p))
      /\ WillShow(p)' <=> \/ Shows(chan \o pending, p, f, v)
                          \/ Silent(chan \o pending, p, f, v) /\ (index'[p] = v \/ ToBeWalked(p)')
  BY <1>1, <1>2 DEF WillShow
<1>5. index \in [Path -> 0 .. MaxVersion]
  BY DEF Basics, StoreFits
<1>6. /\ ToBeWalked(p) <=> v # 0 /\ (p \in toWalk \/ <<p[1]>> \in toWalk)
      /\ ToBeWalked(p)' <=> v # 0 /\ (p \in toWalk' \/ <<p[1]>> \in toWalk')
  BY <1>2 DEF ToBeWalked
<1>7. index[p] = v \/ ToBeWalked(p) => index'[p] = v \/ ToBeWalked(p)'
  <2>1. CASE p = q
    <3>1. CASE v = 0
      BY <1>1, <1>6, <2>1, <3>1
    <3>2. CASE v # 0
      BY <1>1, <1>5, <2>1, <3>2
    <3> QED BY <3>1, <3>2
  <2>2. CASE p # q
    <3>1. index'[p] = index[p]
      BY <1>1, <1>5, <2>2
    <3>2. v # 0 /\ q = <<p[1]>> => p \in Children(q)
      <4>1. ASSUME q = <<p[1]>>, v # 0
            PROVE  Len(p) = 2 /\ Len(q) = 1 /\ p[1] = q[1]
        BY <2>2, <4>1, PathParts
      <4> QED BY <4>1 DEF Children
    <3> QED BY <1>1, <1>6, <2>2, <3>1, <3>2
  <2> QED BY <2>1, <2>2
<1>8. CASE ToBeRead(p)
  BY <1>1, <1>2, <1>8, WayKept
<1>9. CASE WillShow(p)
  BY <1>4, <1>7, <1>9
<1> QED BY <1>1, <1>3, <1>8, <1>9 DEF OnItsWay

LEMMA WayStep ==
  ASSUME Basics, Basics', Courses, Next
  PROVE  OnItsWay'
<1> SUFFICES ASSUME up', NEW p \in Path, ~Excused(p)'
             PROVE  ToBeRead(p)' \/ WillShow(p)'
  BY DEF OnItsWay
<1>1. CacheFits /\ RecordsFit /\ LogIsCurrent /\ OnItsWay /\ Remembered
  BY DEF Courses
<1>2. CASE Operate
  <2>1. up
    <3>1. PICK d \in Dir, rs \in Seq(Records) : Happened(d, rs)
      BY <1>2, OperateHappens DEF Basics
    <3> QED BY <3>1 DEF Happened
  <2> QED BY <1>1, <1>2, <2>1, OperateWay
<1>3. CASE StartUp
  BY <1>1, <1>3, StartUpWay
<1>4. CASE Crash
  BY <1>4 DEF Crash
<1>5. CASE ReadBatch \/ SaveCursor \/ SaveIdleCursor \/ Fanout \/ Serve
  <2>1. /\ UNCHANGED <<platform, at, holds, journal, pending, chan, index, toWalk, missed, stale, moved>>
        /\ up
    BY <1>5 DEF ReadBatch, SaveCursor, SaveIdleCursor, Fanout, Serve, Subscribe, Unsubscribe, Deliver, Count,
                ReadRows, fixed, world, store, history, reader
  <2>2. Converted' = Converted
    <3>1. CASE ReadBatch
      BY <3>1, ReadEffect DEF Basics
    <3>2. CASE SaveCursor \/ SaveIdleCursor \/ Fanout \/ Serve
      BY <3>2 DEF Converted, SaveCursor, SaveIdleCursor, Fanout, Serve, Subscribe, Unsubscribe, Deliver,
                  Count, ReadRows, reader
    <3> QED BY <1>5, <3>1, <3>2
  <2>3. Stat(p)' = Stat(p)
    BY <2>1, StatKept
  <2>4. ~Excused(p)
    BY <2>1, <2>3, WayKept DEF InMoved
  <2> QED BY <1>1, <2>1, <2>2, <2>3, <2>4, WayKept DEF OnItsWay
<1>6. CASE Convert
  BY <1>1, <1>6, ConvertWay
<1>7. CASE Send
  BY <1>1, <1>7, SendWay
<1>8. CASE DropChange
  BY <1>1, <1>8, DropWay
<1>9. CASE HistoryDropped
  BY <1>1, <1>9, HistoryWay
<1>10. CASE Consume
  BY <1>1, <1>10, ConsumeWay
<1>11. CASE \E q \in Path : WalkRow(q)
  BY <1>1, <1>11, WalkWay
<1> QED BY <1>2, <1>3, <1>4, <1>5, <1>6, <1>7, <1>8, <1>9, <1>10, <1>11 DEF Next

-----------------------------------------------------------------------------
(* What a start will find. *)

\* The cursor is never ahead of what the store has: what a crash loses of
\* removals is in the records after it, or was in the channel.
LEMMA CrashRemembers ==
  ASSUME Basics, OnItsWay, PendingFits, Crash, NEW p \in Path, Stat(p)' = 0, ~Excused(p)'
  PROVE  \/ index'[p] = 0
         \/ \E i \in Resumed' + 1 .. Len(journal') : Concerns(journal'[i], p, platform', 0)
<1>1. /\ UNCHANGED <<platform, at, holds, journal, index, moved, missed>> /\ up
      /\ cursor' \in {cursor, -1} /\ stale \subseteq stale'
      /\ \A i \in DOMAIN chan : chan[i].path \in stale'
  BY DEF Crash, fixed, world
<1>2. Stat(p) = 0
  BY <1>1, StatKept
<1>3. ~Excused(p) /\ ~InMoved(p) /\ ~Under(p, stale')
  BY <1>1, <1>2 DEF Excused, InMoved, Under
<1>4. /\ Converted \in Nat /\ Converted <= pos /\ pos <= Len(journal) /\ pos \in Nat
      /\ Len(journal) \in Nat /\ cursor \in Int /\ cursor <= Converted
      /\ (pending # <<>> => Converted > 0 /\ cursor < Converted)
      /\ pending \in Seq(Changes) /\ chan \in Seq(Changes)
  BY <1>1, ReaderNumbers DEF Basics, ReaderFits, StoreFits
<1>5. /\ Resumed' = (IF cursor' >= 0 THEN cursor' ELSE 0)
  BY DEF Resumed
<1> DEFINE s == Resumed'
<1>6. /\ s \in Nat /\ s <= Converted /\ (pending # <<>> => s < Converted)
  BY <1>1, <1>4, <1>5
<1> HIDE DEF s
<1>7. ASSUME NEW i \in Converted + 1 .. Len(journal), Concerns(journal[i], p, platform, 0)
      PROVE  \E j \in s + 1 .. Len(journal) : Concerns(journal[j], p, platform, 0)
  <2>1. i \in s + 1 .. Len(journal)
    BY <1>4, <1>6
  <2> QED BY <1>7, <2>1
<1>8. ASSUME Shows(pending, p, platform, 0)
      PROVE  \E j \in s + 1 .. Len(journal) : Concerns(journal[j], p, platform, 0)
  <2>1. PICK i \in 1 .. Len(pending) : Bears(pending[i], p, platform, 0) /\ pending[i].version = 0
    BY <1>8 DEF Shows
  <2>2. pending[i].op = "removed" /\ pending # <<>>
    <3>1. pending[i] \in Changes
      BY <1>4
    <3> QED BY <2>1, <3>1 DEF Changes
  <2>3. Concerns(journal[Converted], p, platform, 0)
    BY <1>3, <2>1, <2>2 DEF PendingFits
  <2>4. Converted \in s + 1 .. Len(journal)
    BY <1>4, <1>6, <2>2
  <2> QED BY <2>3, <2>4
<1>9. ~Shows(chan, p, platform, 0)
  <2>1. ASSUME NEW i \in 1 .. Len(chan), Bears(chan[i], p, platform, 0)
        PROVE  FALSE
    <3>1. chan[i].path = p \/ IsPrefix(chan[i].path, p)
      BY <2>1 DEF Bears
    <3>2. chan[i].path \in stale'
      BY <1>1, <1>4
    <3> QED BY <1>3, <3>1, <3>2, SamePathIsUnder DEF Under
  <2> QED BY <2>1 DEF Shows
<1>10. ToBeRead(p) \/ WillShow(p)
  BY <1>1, <1>3 DEF OnItsWay
<1>11. CASE ToBeRead(p)
  BY <1>1, <1>2, <1>7, <1>11 DEF ToBeRead, s
<1>12. CASE Shows(chan \o pending, p, platform, Stat(p))
  <2>1. Shows(pending, p, platform, 0)
    BY <1>2, <1>4, <1>9, <1>12, ShowsJoined
  <2> QED BY <1>1, <1>8, <2>1 DEF s
<1>13. CASE index[p] = Stat(p) \/ ToBeWalked(p)
  BY <1>1, <1>2, <1>13 DEF ToBeWalked
<1> QED BY <1>10, <1>11, <1>12, <1>13 DEF WillShow

LEMMA RememberedStep ==
  ASSUME Basics, Courses, Next
  PROVE  Remembered'
<1> SUFFICES ASSUME ~up', NEW p \in Path, Stat(p)' = 0, ~Excused(p)'
             PROVE  \/ index'[p] = 0
                    \/ \E i \in Resumed' + 1 .. Len(journal') : Concerns(journal'[i], p, platform', 0)
  BY DEF Remembered
<1>1. OnItsWay /\ Remembered /\ PendingFits
  BY DEF Courses
<1>2. CASE Operate
  <2>1. PICK d \in Dir, rs \in Seq(Records) : Happened(d, rs)
    BY <1>2, OperateHappens DEF Basics
  <2> DEFINE S == PresentIn(at, holds)  T == PresentIn(at', holds')  n == Len(journal)
  <2>2. /\ UNCHANGED <<platform, up, cursor, index, missed, stale>> /\ moved \subseteq moved'
        /\ Tells(d, rs, at, at', moved', S, T)
    BY <2>1 DEF Happened, fixed, store
  <2>3. Stat(p) = S[p] /\ T[p] = 0
    BY StatIsPresent
  <2>4. /\ n \in Nat /\ Len(rs) \in Nat /\ Len(journal') = n + Len(rs)
        /\ \A j \in 1 .. n : journal'[j] = journal[j]
        /\ \A j \in 1 .. Len(rs) : journal'[n + j] = rs[j]
    BY <2>1, Logged DEF Basics
  <2>5. Resumed' = Resumed /\ Resumed \in Nat /\ Resumed <= n
    <3>1. Resumed' = Resumed
      BY <2>2 DEF Resumed
    <3>2. cursor \in -1 .. n
      BY DEF Basics, ReaderFits
    <3> HIDE DEF n
    <3> QED BY <2>4, <3>1, <3>2 DEF Resumed
  <2>6. ~InMoved(p)' /\ ~InMoved(p) /\ ~Under(p, stale)
    BY <2>2 DEF Excused, InMoved
  <2> HIDE DEF S, T, n
  <2>7. ASSUME NEW k \in 1 .. Len(rs), rs[k].path = p
        PROVE  \E i \in Resumed' + 1 .. Len(journal') : Concerns(journal'[i], p, platform', 0)
    <3>1. n + k \in Resumed + 1 .. Len(journal')
      BY <2>4, <2>5
    <3>2. Concerns(journal'[n + k], p, platform', 0)
      BY <2>4, <2>7 DEF Concerns
    <3> QED BY <2>5, <3>1, <3>2
  <2>8. CASE ~ \E k \in 1 .. Len(rs) : rs[k].path = p
    <3>1. Stat(p) = 0
      BY <2>2, <2>3, <2>6, <2>8 DEF Tells, InMoved
    <3>2. \/ index[p] = 0
          \/ \E i \in Resumed + 1 .. n : Concerns(journal[i], p, platform, 0)
      BY <1>1, <2>2, <2>6, <3>1 DEF Remembered, Excused, n
    <3>3. ASSUME NEW i \in Resumed + 1 .. n, Concerns(journal[i], p, platform, 0)
          PROVE  \E j \in Resumed' + 1 .. Len(journal') : Concerns(journal'[j], p, platform', 0)
      <4>1. i \in Resumed + 1 .. Len(journal') /\ journal'[i] = journal[i]
        BY <2>4, <2>5
      <4> QED BY <2>2, <2>5, <3>3, <4>1
    <3> QED BY <2>2, <3>2, <3>3
  <2> QED BY <2>7, <2>8
<1>3. CASE Crash
  BY <1>1, <1>3, CrashRemembers
<1>4. CASE StartUp \/ ReadBatch \/ Convert \/ Send \/ DropChange \/ SaveCursor \/ SaveIdleCursor
              \/ HistoryDropped \/ Consume \/ Fanout \/ (\E q \in Path : WalkRow(q)) \/ Serve
  BY <1>4 DEF StartUp, ReadBatch, Convert, Send, DropChange, SaveCursor, SaveIdleCursor, HistoryDropped,
              Consume, Fanout, WalkRow, Serve, Subscribe, Unsubscribe, Deliver, Count, ReadRows
<1> QED BY <1>2, <1>3, <1>4 DEF Next

-----------------------------------------------------------------------------
(* At rest. *)

LEMMA CoursesKept ==
  ASSUME Courses, UNCHANGED vars
  PROVE  Courses'
<1>1. /\ UNCHANGED <<platform, at, holds, journal, up, pos, batch, pending, cache, cursor, chan>>
      /\ UNCHANGED <<toWalk, index, stale, missed, moved>>
  BY DEF vars, fixed, world, reader, store, history
<1>2. \A p \in Path : Stat(p)' = Stat(p)
  BY <1>1, StatKept
<1>3. CacheFits' /\ RecordsFit'
  BY <1>1 DEF Courses, CacheFits, RecordsFit, Base, Converted
<1>4. LogIsCurrent' /\ PendingFits'
  BY <1>1, <1>2 DEF Courses, LogIsCurrent, PendingFits, Base, Converted, InMoved
<1>5. OnItsWay' /\ Remembered'
  BY <1>1, <1>2 DEF Courses, OnItsWay, Remembered, Excused, InMoved, Under, ToBeRead, WillShow, ToBeWalked,
                    Converted, Resumed
<1> QED BY <1>3, <1>4, <1>5 DEF Courses

LEMMA CoursesStep == Basics /\ Courses /\ [Next]_vars => Courses'
<1> SUFFICES ASSUME Basics, Courses, [Next]_vars PROVE Courses'
  OBVIOUS
<1>1. Basics'
  BY BasicsStep
<1>2. CASE Next
  BY <1>1, <1>2, CacheStep, RecordsStep, LogStep, WayStep, RememberedStep, PendingStep DEF Courses
<1> QED BY <1>2, CoursesKept

LEMMA CoursesHold == Spec => [](Basics /\ Courses)
<1>1. Init => Basics /\ Courses
  BY InitBasics, InitCourses
<1>2. Basics /\ Courses /\ [Next]_vars => (Basics /\ Courses)'
  BY BasicsStep, CoursesStep
<1> QED BY <1>1, <1>2, PTL DEF Spec

\* When nothing is to be read, sent or walked any more, a row is as it should be.
LEMMA RestIsRight ==
  ASSUME Basics, Courses, AtRest, NEW p \in Path, ~Excused(p)
  PROVE  index[p] = Stat(p)
<1>1. up /\ ~reading /\ pos = Len(journal) /\ chan = <<>> /\ toWalk = {}
  BY DEF AtRest
<1>2. batch = <<>> /\ pending = <<>> /\ pos \in Nat
  BY <1>1, ReaderNumbers DEF Basics, ReaderFits
<1>3. ~ToBeRead(p)
  BY <1>1, <1>2 DEF ToBeRead, Converted
<1>4. ~Shows(chan \o pending, p, platform, Stat(p))
  BY <1>1, <1>2, NothingIsSilent, ShowsJoined
<1>5. ToBeRead(p) \/ WillShow(p)
  BY <1>1 DEF Courses, OnItsWay
<1> QED BY <1>1, <1>3, <1>4, <1>5 DEF WillShow, ToBeWalked

\* At rest the index has the present version of everything there is, after any
\* number of crashes and restarts, whatever was being read, sent, walked or
\* saved at the time: but for what macOS dropped since the last start and for
\* what is in directories that were renamed.
THEOREM RestIsComplete == Spec => []CompleteAtRest
<1>1. Basics /\ Courses => CompleteAtRest
  <2> SUFFICES ASSUME Basics, Courses, AtRest, NEW p \in Path, Stat(p) # 0, ~InMoved(p), p \notin missed
               PROVE  index[p] = Stat(p)
    BY DEF CompleteAtRest
  <2>1. ~Excused(p)
    BY DEF Excused
  <2> QED BY <2>1, RestIsRight
<1> QED BY <1>1, CoursesHold, PTL

\* At rest the index has nothing that is gone, also when it went while the
\* indexer did not run, but for what lost its removal and in directories that
\* were renamed.
THEOREM RestIsExact == Spec => []ExactAtRest
<1>1. Basics /\ Courses => ExactAtRest
  <2> SUFFICES ASSUME Basics, Courses, AtRest, NEW p \in Path, index[p] # 0, ~InMoved(p), ~Under(p, stale)
               PROVE  Stat(p) # 0
    BY DEF ExactAtRest
  <2>1. Stat(p) = 0 => ~Excused(p)
    BY DEF Excused
  <2> QED BY <2>1, RestIsRight
<1> QED BY <1>1, CoursesHold, PTL

-----------------------------------------------------------------------------
(* Pages: positions in a sorted set of rows.                                 *)

LEMMA PathIsFinite == IsFiniteSet(Path)
<1> DEFINE D == {<<n>> : n \in DirName}
           F == {<<n, 0>> : n \in DirName}
           d == [n \in DirName |-> <<n>>]
           f == [n \in DirName |-> <<n, 0>>]
<1>1. d \in Surjection(DirName, D) /\ f \in Surjection(DirName, F)
  BY DEF Surjection
<1>2. IsFiniteSet(DirName) /\ Path = D \cup F
  BY FeedAssumption DEF Path
<1> HIDE DEF D, F, d, f
<1>3. IsFiniteSet(D) /\ IsFiniteSet(F)
  BY <1>1, <1>2, FS_Surjection
<1> QED BY <1>2, <1>3, FS_Union

LEMMA BeforeIsAnOrder ==
  ASSUME NEW p \in Path, NEW q \in Path
  PROVE  /\ ~Before(p, p) /\ (p # q => Before(p, q) \/ Before(q, p))
         /\ \A r \in Path : Before(p, q) /\ Before(q, r) => Before(p, r)
<1>1. \A x \in Path : /\ x[1] \in Nat /\ (x = <<x[1]>> \/ x = <<x[1], 0>>)
                      /\ <<x[1]>> # <<x[1], 0>>
  <2>1. ASSUME NEW x \in Path PROVE <<x[1]>> # <<x[1], 0>>
    <3>1. Len(<<x[1]>>) = 1 /\ Len(<<x[1], 0>>) = 2
      OBVIOUS
    <3> QED BY <3>1
  <2> QED BY <2>1, PathParts, Bounds
<1>2. \A x, y \in Path : Before(x, y) <=> x # y /\ (x[1] < y[1] \/ x = <<y[1]>>)
  BY PathPrefix DEF Before
<1>3. \A x, y \in Path : x = <<y[1]>> => x[1] = y[1]
  <2>1. \A n \in Nat : <<n>>[1] = n
    OBVIOUS
  <2> QED BY <1>1, <2>1
<1>4. ~Before(p, p)
  BY <1>2
<1>5. ASSUME p # q PROVE Before(p, q) \/ Before(q, p)
  <2>1. CASE p[1] = q[1]
    <3>1. p = <<q[1]>> \/ q = <<p[1]>>
      BY <1>1, <1>5, <2>1
    <3> QED BY <1>2, <1>5, <3>1
  <2>2. CASE p[1] # q[1]
    <3> DEFINE a == p[1]
               b == q[1]
    <3>1. a \in Nat /\ b \in Nat /\ a # b
      BY <1>1, <2>2
    <3> HIDE DEF a, b
    <3>2. a < b \/ b < a
      BY <3>1
    <3> QED BY <1>2, <1>5, <3>2 DEF a, b
  <2> QED BY <2>1, <2>2
<1>6. ASSUME NEW r \in Path, Before(p, q), Before(q, r) PROVE Before(p, r)
  <2>1. p # q /\ q # r /\ (p[1] < q[1] \/ p = <<q[1]>>) /\ (q[1] < r[1] \/ q = <<r[1]>>)
    BY <1>2, <1>6
  <2> DEFINE a == p[1]
             b == q[1]
             c == r[1]
  <2>2. a \in Nat /\ b \in Nat /\ c \in Nat
    BY <1>1
  <2>3. (a < b \/ a = b) /\ (b < c \/ b = c)
    BY <1>3, <2>1
  <2>4. ~(p = <<b>> /\ q = <<c>>)
    <3>1. SUFFICES ASSUME p = <<b>>, q = <<c>> PROVE FALSE
      OBVIOUS
    <3>2. b = c
      BY <1>3, <3>1
    <3> QED BY <2>1, <3>1, <3>2
  <2> HIDE DEF a, b, c
  <2>5. p # q /\ q # r /\ (a < b \/ p = <<b>>) /\ (b < c \/ q = <<c>>)
    BY <2>1 DEF a, b, c
  <2>6. a < b \/ b < c
    BY <2>4, <2>5
  <2>7. a < c
    BY <2>2, <2>3, <2>6
  <2>8. p # r
    <3>1. ~(a < a)
      BY <2>2
    <3> QED BY <2>7, <3>1 DEF a, c
  <2> QED BY <1>2, <2>7, <2>8 DEF a, c
<1> QED BY <1>4, <1>5, <1>6

\* How many of I come before p.
Position(I, p) == Cardinality({q \in I : Before(q, p)})

LEMMA PositionIs ==
  ASSUME NEW I \in SUBSET Path, NEW p \in Path
  PROVE  /\ IsFiniteSet(I) /\ Cardinality(I) \in Nat /\ Position(I, p) \in Nat
         /\ p \in I => Position(I, p) < Cardinality(I)
         /\ \A q \in I : Before(q, p) => Position(I, q) < Position(I, p)
         /\ \A J \in SUBSET Path : I \subseteq J => Position(I, p) <= Position(J, p)
<1> DEFINE A(x) == {q \in I : Before(q, x)}
<1>1. \A S \in SUBSET Path : IsFiniteSet(S) /\ Cardinality(S) \in Nat
  BY PathIsFinite, FS_Subset, FS_CardinalityType
<1>2. \A x : A(x) \in SUBSET I /\ A(x) \in SUBSET Path
  OBVIOUS
<1> HIDE DEF A
<1>3. ASSUME NEW S \in SUBSET Path, NEW T \in SUBSET S, NEW x \in S, x \notin T
      PROVE  Cardinality(T) < Cardinality(S)
  <2> DEFINE a == Cardinality(T)
             b == Cardinality(S)
  <2>1. IsFiniteSet(S) /\ IsFiniteSet(T) /\ a \in Nat /\ b \in Nat
    BY <1>1
  <2>2. a <= b /\ (b = a => S = T)
    BY <2>1, FS_Subset
  <2>3. a # b
    BY <1>3, <2>2
  <2> HIDE DEF a, b
  <2>4. a < b
    BY <2>1, <2>2, <2>3
  <2> QED BY <2>4 DEF a, b
<1>4. \A x : Position(I, x) = Cardinality(A(x))
  BY DEF Position, A
<1>5. ~Before(p, p)
  BY BeforeIsAnOrder
<1>6. ASSUME p \in I PROVE Position(I, p) < Cardinality(I)
  <2>1. p \notin A(p)
    BY <1>5 DEF A
  <2> QED BY <1>2, <1>3, <1>4, <1>6, <2>1
<1>7. ASSUME NEW q \in I, Before(q, p) PROVE Position(I, q) < Position(I, p)
  <2>1. ~Before(q, q) /\ \A r \in I : Before(r, q) => Before(r, p)
    BY <1>7, BeforeIsAnOrder
  <2>2. A(q) \in SUBSET A(p) /\ q \in A(p) /\ q \notin A(q)
    BY <1>7, <2>1 DEF A
  <2> QED BY <1>2, <1>3, <1>4, <2>2
<1>8. ASSUME NEW J \in SUBSET Path, I \subseteq J PROVE Position(I, p) <= Position(J, p)
  <2> DEFINE B == {q \in J : Before(q, p)}
  <2>1. A(p) \in SUBSET B /\ IsFiniteSet(B)
    BY <1>1, <1>8 DEF A
  <2>2. Position(J, p) = Cardinality(B)
    BY DEF Position
  <2> HIDE DEF B
  <2> QED BY <1>4, <2>1, <2>2, FS_Subset
<1> QED BY <1>1, <1>2, <1>4, <1>6, <1>7, <1>8

\* Rows at n positions are at most n.
LEMMA AtMost ==
  ASSUME NEW I \in SUBSET Path, NEW S \in SUBSET I, NEW a \in Nat, NEW n \in Nat,
         \A p \in S : Position(I, p) \in a .. a + n - 1
  PROVE  IsFiniteSet(S) /\ Cardinality(S) \in Nat /\ Cardinality(S) <= n
<1> DEFINE f == [p \in S |-> Position(I, p)]
           T == a .. a + n - 1
<1>1. IsFiniteSet(S) /\ Cardinality(S) \in Nat
  BY PathIsFinite, FS_Subset, FS_CardinalityType
<1>2. IsFiniteSet(T) /\ Cardinality(T) = n
  <2>1. a \in Int /\ a + n - 1 \in Int
    OBVIOUS
  <2>2. IsFiniteSet(T) /\ Cardinality(T) = IF a > a + n - 1 THEN 0 ELSE a + n - 1 - a + 1
    BY <2>1, FS_Interval
  <2> HIDE DEF T
  <2> QED BY <2>2
<1>3. ASSUME NEW p \in S, NEW q \in S, Position(I, p) = Position(I, q) PROVE p = q
  <2> DEFINE x == Position(I, p)
             y == Position(I, q)
  <2>1. p \in Path /\ q \in Path /\ p \in I /\ q \in I
    OBVIOUS
  <2>2. x \in Nat /\ y \in Nat /\ (Before(p, q) => x < y) /\ (Before(q, p) => y < x)
    BY <2>1, PositionIs
  <2>3. p # q => Before(p, q) \/ Before(q, p)
    BY <2>1, BeforeIsAnOrder
  <2> HIDE DEF x, y
  <2>4. x = y
    BY <1>3 DEF x, y
  <2>5. ~(x < y) /\ ~(y < x)
    BY <2>2, <2>4
  <2> QED BY <2>2, <2>3, <2>5
<1>4. f \in Injection(S, T)
  <2>1. f \in [S -> T]
    OBVIOUS
  <2>2. \A p, q \in S : f[p] = f[q] => p = q
    BY <1>3
  <2> HIDE DEF f
  <2> QED BY <2>1, <2>2 DEF Injection, IsInjective
<1> HIDE DEF f, T
<1>5. Cardinality(S) <= Cardinality(T)
  BY <1>2, <1>4, FS_Injection
<1> QED BY <1>1, <1>2, <1>5

\* A page of rows reaches as far as it is long.
LEMMA PageReaches ==
  ASSUME NEW I \in SUBSET Path, NEW a \in Nat, NEW n \in Nat \ {0},
         NEW page, page = {p \in I : Position(I, p) \in a .. a + n - 1}
  PROVE  /\ Cardinality(page) \in Nat /\ Cardinality(page) <= n
         /\ \A p \in page : Position(I, p) < a + Cardinality(page)
<1> DEFINE m == Cardinality(page)
<1>1. page \in SUBSET I /\ \A p \in page : Position(I, p) \in a .. a + n - 1
  OBVIOUS
<1>2. IsFiniteSet(page) /\ m \in Nat /\ m <= n
  BY <1>1, AtMost
<1>3. ASSUME NEW p \in page PROVE Position(I, p) < a + m
  <2> DEFINE k == Position(I, p)
             B == {q \in I : Before(q, p)}
             early == {q \in I : Position(I, q) \in 0 .. 0 + a - 1}
             both == early \cup page
  <2>1. p \in I /\ p \in Path /\ k \in Nat /\ IsFiniteSet(B) /\ k = Cardinality(B)
    <3>1. p \in I /\ p \in Path
      BY <1>1
    <3>2. k \in Nat /\ IsFiniteSet(I)
      BY <3>1, PositionIs
    <3>3. IsFiniteSet(B) /\ k = Cardinality(B)
      BY <3>2, FS_Subset DEF Position
    <3> QED BY <3>1, <3>2, <3>3
  <2>2. k \in a .. a + n - 1
    BY <1>1
  <2>3. ASSUME NEW q \in B PROVE q \in both
    <3> DEFINE x == Position(I, q)
    <3>1. q \in I /\ q \in Path /\ Before(q, p)
      OBVIOUS
    <3>2. x \in Nat /\ x < k
      BY <2>1, <3>1, PositionIs
    <3> HIDE DEF x, k
    <3>3. x \in 0 .. 0 + a - 1 \/ x \in a .. a + n - 1
      BY <2>2, <3>2
    <3> QED BY <3>1, <3>3 DEF x
  <2>4. p \in both
    BY <1>3
  <2>5. p \notin B
    BY <2>1, BeforeIsAnOrder
  <2>6. IsFiniteSet(early) /\ Cardinality(early) \in Nat /\ Cardinality(early) <= a
    <3>1. early \in SUBSET I /\ \A q \in early : Position(I, q) \in 0 .. 0 + a - 1
      OBVIOUS
    <3> HIDE DEF early
    <3> QED BY <3>1, AtMost
  <2> HIDE DEF k, B, early, m
  <2>7. IsFiniteSet(both) /\ Cardinality(both) = Cardinality(early) + m - Cardinality(early \cap page)
    BY <1>2, <2>6, FS_Union DEF m
  <2>8. Cardinality(early \cap page) \in Nat /\ Cardinality(both) \in Nat
    BY <2>6, <2>7, FS_Intersection, FS_CardinalityType
  <2> HIDE DEF both
  <2>9. Cardinality(B \cup {p}) = k + 1 /\ B \cup {p} \in SUBSET both
    BY <2>1, <2>3, <2>4, <2>5, FS_AddElement
  <2>10. Cardinality(B \cup {p}) <= Cardinality(both)
    BY <2>7, <2>9, FS_Subset
  <2> DEFINE e == Cardinality(early)
             c == Cardinality(early \cap page)
             b == Cardinality(both)
  <2>11. e \in Nat /\ e <= a /\ c \in Nat /\ b = e + m - c /\ k + 1 <= b /\ k \in Nat /\ m \in Nat
    BY <1>2, <2>1, <2>6, <2>7, <2>8, <2>9, <2>10 DEF m
  <2> HIDE DEF e, c, b
  <2>12. k < a + m
    BY <2>11
  <2> QED BY <2>12 DEF k, m
<1> QED BY <1>2, <1>3

-----------------------------------------------------------------------------
(* A search that pages, and the rows I there are.                            *)

Search ==
  [pc : {"idle", "rows", "next", "done"}, offset : Nat, total : Nat, seen : SUBSET Path,
   twice : BOOLEAN, kept : SUBSET Path, grew : BOOLEAN, shrank : BOOLEAN, split : BOOLEAN]

\* Of the rows that were there all the time those before the offset have been
\* seen, and of the rows there are only those.
SearchFits(s, I) ==
  /\ s \in Search
  /\ s.pc = "idle" => s.seen = {} /\ s.offset = 0
  /\ ~s.grew => ~s.twice
  /\ s.pc \in {"rows", "next"} =>
       /\ s.kept \subseteq I
       /\ ~s.shrank /\ ~s.split => \A p \in s.kept : Position(I, p) < s.offset => p \in s.seen
       /\ ~s.grew => \A p \in s.seen \cap I : Position(I, p) < s.offset
  /\ s.pc = "rows" /\ ~s.split => s.total = Cardinality(I)
  /\ s.pc = "done" /\ ~s.shrank /\ ~s.split => s.kept \subseteq s.seen

PagerFits == SearchFits(pager, Rows(index))

LEMMA NewSearch ==
  ASSUME NEW I \in SUBSET Path
  PROVE  SearchFits(NoSearch, I)
<1>1. NoSearch \in Search
  BY DEF NoSearch, Search
<1>2. /\ NoSearch.pc = "idle" /\ NoSearch.seen = {} /\ NoSearch.offset = 0 /\ ~NoSearch.twice
  BY DEF NoSearch
<1> HIDE DEF NoSearch
<1> QED BY <1>1, <1>2 DEF SearchFits

\* The rows change from I to J under a search in progress.
Retold(s, I, J) == [s EXCEPT !.kept = @ \cap J,
                             !.grew = @ \/ ~(J \subseteq I),
                             !.shrank = @ \/ ~(I \subseteq J),
                             !.split = @ \/ (s.pc = "rows" /\ J # I)]

LEMMA ChangedFits ==
  ASSUME NEW I \in SUBSET Path, NEW J \in SUBSET Path, NEW s, SearchFits(s, I),
         s.pc \in {"rows", "next"},
         NEW t, t = Retold(s, I, J)
  PROVE  SearchFits(t, J)
<1>1. s \in Search
  BY DEF SearchFits
<1>2. /\ t \in Search /\ t.pc = s.pc /\ t.offset = s.offset /\ t.total = s.total /\ t.seen = s.seen
      /\ t.twice = s.twice /\ t.kept = s.kept \cap J
      /\ t.grew = (s.grew \/ ~(J \subseteq I)) /\ t.shrank = (s.shrank \/ ~(I \subseteq J))
      /\ t.split = (s.split \/ (s.pc = "rows" /\ J # I))
  BY <1>1 DEF Search, Retold
<1>3. s.offset \in Nat /\ s.seen \subseteq Path /\ s.kept \subseteq Path
  BY <1>1 DEF Search
<1> DEFINE o == s.offset
<1>4. ASSUME ~t.shrank, ~t.split, NEW p \in t.kept, Position(J, p) < t.offset PROVE p \in t.seen
  <2> DEFINE x == Position(I, p)
             y == Position(J, p)
  <2>1. p \in s.kept /\ p \in Path /\ I \subseteq J /\ ~s.shrank /\ ~s.split /\ y < o
    BY <1>2, <1>3, <1>4
  <2>2. x \in Nat /\ y \in Nat /\ x <= y
    BY <2>1, PositionIs
  <2>3. x < o
    <3> HIDE DEF x, y, o
    <3> QED BY <1>3, <2>1, <2>2 DEF o
  <2> QED BY <1>2, <2>1, <2>3 DEF SearchFits
<1>5. ASSUME ~t.grew, NEW p \in t.seen \cap J PROVE Position(J, p) < t.offset
  <2> DEFINE x == Position(I, p)
             y == Position(J, p)
  <2>1. p \in s.seen \cap I /\ p \in Path /\ J \subseteq I /\ ~s.grew
    BY <1>2, <1>5
  <2>2. x \in Nat /\ y \in Nat /\ y <= x
    BY <2>1, PositionIs
  <2>3. x < o
    BY <2>1 DEF SearchFits
  <2>4. y < o
    <3> HIDE DEF x, y, o
    <3> QED BY <1>3, <2>2, <2>3 DEF o
  <2> QED BY <1>2, <2>4
<1>6. t.pc = "rows" /\ ~t.split => t.total = Cardinality(J)
  BY <1>2 DEF SearchFits
<1>7. /\ t.pc # "idle" /\ t.pc # "done" /\ (~t.grew => ~t.twice) /\ t.kept \subseteq J
  BY <1>2 DEF SearchFits
<1> QED BY <1>2, <1>4, <1>5, <1>6, <1>7 DEF SearchFits

LEMMA WatchedFits ==
  ASSUME NEW J, J = Rows(index'), PagerFits, pager' = Watched(index')
  PROVE  PagerFits'
<1> DEFINE I == Rows(index)
<1>1. I \in SUBSET Path /\ J \in SUBSET Path /\ SearchFits(pager, I)
  BY DEF Rows, PagerFits
<1>2. pager.pc \in {"idle", "rows", "next", "done"}
  <2>1. pager \in Search
    BY <1>1 DEF SearchFits
  <2> QED BY <2>1 DEF Search
<1>3. SUFFICES SearchFits(pager', J)
  BY DEF PagerFits, Rows
<1>4. CASE pager.pc = "idle" \/ pager.pc = "done"
  <2>1. pager' = pager
    BY <1>4 DEF Watched
  <2> QED BY <1>1, <1>4, <2>1 DEF SearchFits
<1>5. CASE pager.pc \in {"rows", "next"}
  <2>1. pager' = Retold(pager, I, J)
    BY <1>5 DEF Watched, Retold
  <2>2. \A t : t = Retold(pager, I, J) => SearchFits(t, J)
    BY <1>1, <1>5, ChangedFits
  <2> QED BY <2>1, <2>2
<1> QED BY <1>2, <1>4, <1>5

LEMMA CountFits ==
  ASSUME PagerFits, Count
  PROVE  PagerFits'
<1> DEFINE I == Rows(index)
           n == Cardinality(I)
           K == IF pager.pc = "idle" THEN I ELSE pager.kept
<1>1. I \in SUBSET Path /\ SearchFits(pager, I)
  BY DEF Rows, PagerFits
<1>2. /\ pager.pc \in {"idle", "next"} /\ index' = index
      /\ pager' = [pager EXCEPT !.pc = "rows", !.total = n, !.kept = K]
  BY DEF Count, store
<1>3. pager \in Search /\ n \in Nat /\ Rows(index') = I
  BY <1>1, <1>2, PathIsFinite, FS_Subset, FS_CardinalityType DEF SearchFits
<1>4. K \subseteq I /\ K \in SUBSET Path
  BY <1>1, <1>2 DEF SearchFits
<1> HIDE DEF I, n, K
<1> DEFINE s == pager
           t == pager'
<1>5. /\ t \in Search /\ t.pc = "rows" /\ t.offset = s.offset /\ t.total = n /\ t.seen = s.seen
      /\ t.twice = s.twice /\ t.kept = K /\ t.grew = s.grew /\ t.shrank = s.shrank
      /\ t.split = s.split
  BY <1>2, <1>3, <1>4 DEF Search
<1>6. ASSUME ~s.shrank, ~s.split, NEW p \in K, Position(I, p) < s.offset PROVE p \in s.seen
  <2>1. CASE s.pc = "next"
    BY <1>1, <1>6, <2>1 DEF SearchFits, K
  <2>2. CASE s.pc = "idle"
    <3>1. s.offset = 0 /\ p \in Path
      BY <1>1, <1>4, <2>2 DEF SearchFits
    <3> DEFINE x == Position(I, p)
    <3>2. x \in Nat /\ x < 0
      BY <1>1, <1>6, <3>1, PositionIs
    <3> HIDE DEF x
    <3> QED BY <3>2
  <2> QED BY <1>2, <2>1, <2>2
<1>7. ASSUME ~s.grew, NEW p \in s.seen \cap I PROVE Position(I, p) < s.offset
  BY <1>1, <1>2, <1>7 DEF SearchFits
<1>8. ~s.grew => ~s.twice
  BY <1>1 DEF SearchFits
<1>9. SearchFits(t, I)
  <2> HIDE DEF s, t
  <2>1. ~t.shrank /\ ~t.split => \A p \in t.kept : Position(I, p) < t.offset => p \in t.seen
    BY <1>5, <1>6
  <2>2. ~t.grew => \A p \in t.seen \cap I : Position(I, p) < t.offset
    BY <1>5, <1>7
  <2> QED BY <1>4, <1>5, <1>8, <2>1, <2>2, n = Cardinality(I) DEF SearchFits, n
<1> QED BY <1>3, <1>9 DEF PagerFits

LEMMA ReadFits ==
  ASSUME PagerFits, ReadRows
  PROVE  PagerFits'
<1> DEFINE I == Rows(index)
           s == pager
           t == pager'
           o == s.offset
           page == {p \in I : Position(I, p) \in o .. o + PageSize - 1}
           n == Cardinality(page)
           m == Cardinality(I)
           next == IF o + n < s.total THEN o + n ELSE -1
<1>1. I \in SUBSET Path /\ SearchFits(s, I) /\ s \in Search /\ o \in Nat /\ PageSize \in Nat \ {0}
  BY FeedAssumption DEF Rows, PagerFits, SearchFits, Search
<1>2. /\ s.pc = "rows" /\ Rows(index') = I
      /\ t = [s EXCEPT !.pc = IF next = -1 THEN "done" ELSE "next",
                       !.offset = IF next = -1 THEN 0 ELSE next, !.total = 0,
                       !.seen = @ \cup page,
                       !.twice = @ \/ page \cap s.seen # {}]
  <2>1. page = {p \in Rows(index) : Rank(p) \in pager.offset .. pager.offset + PageSize - 1}
    BY DEF Rank, Position
  <2> HIDE DEF page
  <2> QED BY <2>1 DEF ReadRows, NextOffset, store, Rows
<1>3. page \subseteq I /\ \A p \in page : Position(I, p) \in o .. o + PageSize - 1
  OBVIOUS
<1>4. n \in Nat /\ n <= PageSize /\ \A p \in page : Position(I, p) < o + n
  BY <1>1, PageReaches
<1>5. m \in Nat /\ \A p \in I : Position(I, p) \in Nat /\ Position(I, p) < m
  <2>1. m \in Nat
    BY <1>1, PathIsFinite, FS_Subset, FS_CardinalityType
  <2>2. \A p \in I : p \in Path
    BY <1>1
  <2> QED BY <1>1, <2>1, <2>2, PositionIs
<1>6. s.total \in Nat /\ next \in Nat \cup {-1} /\ s.seen \subseteq Path /\ s.kept \subseteq Path
      /\ s.twice \in BOOLEAN
  <2>1. s.total \in Nat /\ s.seen \subseteq Path /\ s.kept \subseteq Path /\ s.twice \in BOOLEAN
    BY <1>1 DEF Search
  <2>2. o + n \in Nat
    <3> HIDE DEF o, n
    <3> QED BY <1>1, <1>4
  <2> QED BY <2>1, <2>2
<1>7. /\ t \in Search /\ t.pc = (IF next = -1 THEN "done" ELSE "next")
      /\ t.offset = (IF next = -1 THEN 0 ELSE next)
      /\ t.seen = s.seen \cup page /\ t.twice = (s.twice \/ page \cap s.seen # {})
      /\ t.kept = s.kept /\ t.grew = s.grew /\ t.shrank = s.shrank /\ t.split = s.split
  <2> HIDE DEF next, page
  <2>1. page \subseteq Path /\ (next # -1 => next \in Nat)
    BY <1>1, <1>3, <1>6
  <2> QED BY <1>1, <1>2, <1>6, <2>1 DEF Search
<1>8. /\ s.kept \subseteq I /\ (~s.grew => ~s.twice)
      /\ ~s.shrank /\ ~s.split => \A p \in s.kept : Position(I, p) < o => p \in s.seen
      /\ ~s.grew => \A p \in s.seen \cap I : Position(I, p) < o
      /\ ~s.split => s.total = m
  BY <1>1, <1>2 DEF SearchFits
\* Up to the end of the page every row that stayed has been seen.
<1>9. ASSUME ~s.shrank, ~s.split, NEW p \in s.kept, Position(I, p) < o + n
      PROVE  p \in s.seen \cup page
  <2> DEFINE x == Position(I, p)
  <2>1. p \in I /\ x \in Nat /\ x < o + n
    BY <1>5, <1>8, <1>9
  <2>2. x < o \/ x \in o .. o + PageSize - 1
    <3> HIDE DEF x, o, n
    <3> QED BY <1>1, <1>4, <2>1 DEF o
  <2> QED BY <1>8, <1>9, <2>1, <2>2
<1>10. ~s.grew => page \cap s.seen = {}
  <2>1. SUFFICES ASSUME ~s.grew, NEW p \in page, p \in s.seen PROVE FALSE
    OBVIOUS
  <2> DEFINE x == Position(I, p)
  <2>2. x \in o .. o + PageSize - 1 /\ x < o
    BY <1>3, <1>8, <2>1
  <2> HIDE DEF x, o
  <2> QED BY <1>1, <2>2 DEF o
<1>11. ASSUME ~s.grew, NEW p \in (s.seen \cup page) \cap I PROVE Position(I, p) < o + n
  <2> DEFINE x == Position(I, p)
  <2>1. x < o \/ x < o + n
    BY <1>4, <1>8, <1>11
  <2>2. x \in Nat
    BY <1>5
  <2>3. x < o + n
    <3> HIDE DEF x, o, n
    <3> QED BY <1>1, <1>4, <2>1, <2>2 DEF o
  <2> QED BY <2>3
<1>12. ASSUME next = -1, ~s.split, NEW p \in I PROVE Position(I, p) < o + n
  <2> DEFINE x == Position(I, p)
  <2>1. x \in Nat /\ x < m /\ s.total = m
    BY <1>5, <1>8, <1>12
  <2>2. ~(o + n < s.total)
    <3>1. o + n \in Nat
      <4> HIDE DEF o, n
      <4> QED BY <1>1, <1>4 DEF o
    <3>2. o + n # -1
      <4> HIDE DEF o, n
      <4> QED BY <3>1
    <3> QED BY <1>12, <3>2
  <2>3. x < o + n
    <3> HIDE DEF x, o, n, m
    <3> QED BY <1>1, <1>4, <1>5, <1>6, <2>1, <2>2 DEF o
  <2> QED BY <2>3
<1>13. next # -1 => next = o + n
  OBVIOUS
<1> HIDE DEF next, n, m, page
<1>14. SearchFits(t, I)
  <2> HIDE DEF t
  <2>1. ~t.grew => ~t.twice
    BY <1>7, <1>8, <1>10
  <2>2. CASE next = -1
    <3>1. ~t.shrank /\ ~t.split => t.kept \subseteq t.seen
      BY <1>7, <1>8, <1>9, <1>12, <2>2
    <3> QED BY <1>7, <2>1, <2>2, <3>1 DEF SearchFits
  <2>3. CASE next # -1
    <3>1. t.offset = o + n /\ t.pc = "next"
      BY <1>7, <1>13, <2>3
    <3>2. ~t.shrank /\ ~t.split => \A p \in t.kept : Position(I, p) < t.offset => p \in t.seen
      BY <1>7, <1>9, <3>1
    <3>3. ~t.grew => \A p \in t.seen \cap I : Position(I, p) < t.offset
      BY <1>7, <1>11, <3>1
    <3> QED BY <1>7, <1>8, <2>1, <3>1, <3>2, <3>3 DEF SearchFits
  <2> QED BY <2>2, <2>3
<1> QED BY <1>2, <1>14 DEF PagerFits

LEMMA PagerStep ==
  ASSUME PagerFits, [Next]_vars
  PROVE  PagerFits'
<1>1. CASE UNCHANGED <<index, pager>>
  BY <1>1 DEF PagerFits, Rows
<1>2. CASE pager' = Watched(index')
  BY <1>2, WatchedFits
<1>3. CASE Crash
  <2>1. pager' = NoSearch
    BY <1>3 DEF Crash
  <2>2. Rows(index') \in SUBSET Path
    BY DEF Rows
  <2>3. SearchFits(NoSearch, Rows(index'))
    BY <2>2, NewSearch
  <2> QED BY <2>1, <2>3 DEF PagerFits
<1>4. CASE Operate \/ StartUp
  <2>1. UNCHANGED <<index, pager>>
    BY <1>4 DEF Operate, StartUp, MakeDir, RemoveDir, RenameDir, WriteFile, DeleteFile, Log,
                store, clients
  <2> QED BY <1>1, <2>1
<1>5. CASE \/ ReadBatch \/ Convert \/ Send \/ DropChange \/ SaveCursor \/ SaveIdleCursor
           \/ HistoryDropped \/ Fanout
  <2>1. UNCHANGED <<index, pager>>
    BY <1>5 DEF ReadBatch, Convert, Send, DropChange, SaveCursor, SaveIdleCursor,
                HistoryDropped, Fanout, store, clients
  <2> QED BY <1>1, <2>1
<1>6. CASE Consume \/ \E p \in Path : WalkRow(p)
  BY <1>2, <1>6 DEF Consume, WalkRow
<1>7. CASE Subscribe \/ Unsubscribe \/ Deliver
  <2>1. UNCHANGED <<index, pager>>
    BY <1>7 DEF Subscribe, Unsubscribe, Deliver, store
  <2> QED BY <1>1, <2>1
<1>8. CASE UNCHANGED vars
  BY <1>1, <1>8 DEF vars, store, clients
<1> QED BY <1>3, <1>4, <1>5, <1>6, <1>7, <1>8, CountFits, ReadFits DEF Next, Serve

\* A client that asks for page after page, by the offset each answer names (Search,
\* nextOffset), has seen every row that was there from its first page to its last, if
\* no row was removed meanwhile and none came between a count and its page; and it has
\* seen no row twice if none was added.  Whatever rows there are, and however many a
\* page holds.
THEOREM PagesShowEveryRow == Spec => []PagingSeesAll
<1>1. Init => PagerFits
  <2> SUFFICES ASSUME Init PROVE PagerFits
    OBVIOUS
  <2>1. pager = NoSearch /\ Rows(index) \in SUBSET Path
    BY DEF Init, Rows
  <2> QED BY <2>1, NewSearch DEF PagerFits
<1>2. PagerFits /\ [Next]_vars => PagerFits'
  BY PagerStep
<1>3. PagerFits => PagingSeesAll
  BY DEF PagerFits, SearchFits, PagingSeesAll
<1> QED BY <1>1, <1>2, <1>3, PTL DEF Spec
=============================================================================
