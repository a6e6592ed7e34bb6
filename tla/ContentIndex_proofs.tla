------------------------ MODULE ContentIndex_proofs -------------------------
(***************************************************************************)
(* Proofs about ContentIndex, for every set of paths, every bound, every   *)
(* budget and every text length.  Types, the agreement of the two content  *)
(* tables and the budget hold with renames; the freshness theorems need    *)
(* that a version is never on disk at two names, which renames (and ids    *)
(* that come back) break.                                                  *)
(***************************************************************************)
EXTENDS ContentIndex, TLAPS, SequenceTheorems, WellFoundedInduction

LEMMA NotifyType ==
  ASSUME TypeOK, NEW s \in Seq(Event), Notify(s)
  PROVE  /\ ops' \in 0 .. MaxOps /\ ops' = ops + 1
         /\ events' \in Seq(Event)
         /\ UNCHANGED <<chan, files, content, scanner>>
BY ConstantsAssumption DEF TypeOK, Notify

LEMMA UpsertType ==
  ASSUME TypeOK, NEW p \in Path, NEW m \in Version, Upsert(p, m)
  PROVE  /\ files' \in [Path -> Row \cup {NoRow}]
         /\ UNCHANGED content
         /\ \A q \in Path : q # p => files'[q] = files[q]
         /\ files'[p] # NoRow /\ files'[p].mtime = m
<1>1. PICK i \in Id : files' = [files EXCEPT ![p] = [id |-> i, mtime |-> m]]
  BY DEF Upsert
<1>2. [id |-> i, mtime |-> m] \in Row
  BY DEF Row
<1>3. UNCHANGED content
  BY DEF Upsert
<1>. QED
  BY <1>1, <1>2, <1>3, SentinelAssumption DEF TypeOK

LEMMA DeleteRowType ==
  ASSUME TypeOK, NEW p \in Path, DeleteRow(p)
  PROVE  /\ files' \in [Path -> Row \cup {NoRow}]
         /\ fts' \in [Id -> Text \cup {NoText}]
         /\ meta' \in [Id -> Meta \cup {NoMeta}]
         /\ files'[p] = NoRow
         /\ \A q \in Path : q # p => files'[q] = files[q]
         /\ \A i \in Id : \/ fts'[i] = fts[i] /\ meta'[i] = meta[i]
                          \/ fts'[i] = NoText /\ meta'[i] = NoMeta
<1>1. /\ files' \in [Path -> Row \cup {NoRow}]
      /\ files'[p] = NoRow
      /\ \A q \in Path : q # p => files'[q] = files[q]
  BY DEF DeleteRow, TypeOK
<1>2. CASE files[p] = NoRow
  BY <1>1, <1>2 DEF DeleteRow, TypeOK, content
<1>3. CASE files[p] # NoRow
  <2>1. files[p].id \in Id
    BY <1>3 DEF TypeOK, Row
  <2>. QED
    BY <1>1, <1>3, <2>1 DEF DeleteRow, TypeOK
<1>. QED
  BY <1>2, <1>3

\* What one examined candidate does to the content tables.
LEMMA StoreResultEffect ==
  ASSUME TypeOK, NEW c \in batch, pc = "store",
         SkipUnreadable(c) \/ SkipOverBudget(c) \/ StoreText(c), Finish(c)
  PROVE  /\ c \in Candidate
         /\ fts' \in [Id -> Text \cup {NoText}]
         /\ meta' \in [Id -> Meta \cup {NoMeta}]
         /\ replaced' \in BOOLEAN
         /\ \A i \in Id : i # c.id => fts'[i] = fts[i] /\ meta'[i] = meta[i]
         /\ \/ /\ text = Unreadable /\ fts'[c.id] = NoText
               /\ meta'[c.id] =
                    [mtime |-> c.mtime, why |-> "unreadable", bytes |-> 0]
            \/ /\ text # Unreadable /\ Budget > 0 /\ fts'[c.id] = NoText
               /\ meta'[c.id] =
                    [mtime |-> c.mtime, why |-> "budget", bytes |-> 0]
            \/ /\ text # Unreadable
               /\ fts'[c.id] = [path |-> c.path, version |-> text]
               /\ fts'[c.id] # NoText
               /\ meta'[c.id] = [mtime |-> c.mtime, why |-> "text",
                                 bytes |-> TextLen[text]]
         /\ meta'[c.id] # NoMeta
<1>1. c \in Candidate /\ c.id \in Id /\ c.path \in Path
        /\ c.mtime \in Version /\ c.wasIndexed \in BOOLEAN
  BY DEF TypeOK, Candidate
<1>2. CASE SkipUnreadable(c)
  <2>1. [mtime |-> c.mtime, why |-> "unreadable", bytes |-> 0] \in Meta
    BY <1>1 DEF Meta, Reason
  <2>. QED
    BY <1>1, <1>2, <2>1, SentinelAssumption DEF SkipUnreadable, MarkContentSkipped, TypeOK
<1>3. CASE SkipOverBudget(c)
  <2>1. [mtime |-> c.mtime, why |-> "budget", bytes |-> 0] \in Meta
    BY <1>1 DEF Meta, Reason
  <2>. QED
    BY <1>1, <1>3, <2>1, SentinelAssumption DEF SkipOverBudget, OverBudget, MarkContentSkipped, TypeOK
<1>4. CASE StoreText(c)
  <2>1. text \in Version /\ TextLen[text] \in Nat
    BY <1>4, ConstantsAssumption DEF StoreText, TypeOK
  <2>2. /\ [mtime |-> c.mtime, why |-> "text", bytes |-> TextLen[text]] \in Meta
        /\ [path |-> c.path, version |-> text] \in Text
    BY <1>1, <2>1 DEF Meta, Reason, Text
  <2>3. replaced' \in BOOLEAN
    BY <1>1, <1>4 DEF StoreText, TypeOK
  <2>. QED
    BY <1>1, <1>4, <2>2, <2>3, SentinelAssumption DEF StoreText, IndexContent, TypeOK
<1>. QED
  BY <1>2, <1>3, <1>4

-----------------------------------------------------------------------------

THEOREM InitTypeOK == Init => TypeOK
<1>. SUFFICES ASSUME Init PROVE TypeOK
  OBVIOUS
<1>1. /\ writer \in Seq(Path) /\ Len(writer) = 0
      /\ events \in Seq(Event) /\ chan \in Seq(Change)
  BY DEF Init
<1>2. ops \in 0 .. MaxOps /\ Len(writer) <= ops
  BY <1>1, ConstantsAssumption DEF Init
<1>. QED
  BY <1>1, <1>2 DEF Init, TypeOK

LEMMA WriteTypeOK ==
  ASSUME TypeOK, NEW p \in Path, Write(p)
  PROVE  TypeOK'
<1>1. <<[path |-> p, gone |-> FALSE]>> \in Seq(Event)
  BY DEF Event
<1>2. /\ ops' \in 0 .. MaxOps /\ ops' = ops + 1 /\ events' \in Seq(Event)
      /\ UNCHANGED <<chan, files, content, scanner>>
  BY <1>1, NotifyType DEF Write
<1>3. Len(writer) + 1 \in Version
  BY <1>2, ConstantsAssumption DEF TypeOK, Version
<1>4. /\ disk' \in [Path -> Version \cup {NoFile}]
      /\ writer' \in Seq(Path) /\ Len(writer') <= ops'
  BY <1>2, <1>3 DEF Write, TypeOK
<1>. QED
  BY <1>2, <1>4 DEF TypeOK, content, scanner

LEMMA RemoveTypeOK ==
  ASSUME TypeOK, NEW p \in Path, Remove(p)
  PROVE  TypeOK'
<1>1. <<[path |-> p, gone |-> TRUE]>> \in Seq(Event)
  BY DEF Event
<1>2. /\ ops' \in 0 .. MaxOps /\ ops' = ops + 1 /\ events' \in Seq(Event)
      /\ UNCHANGED <<chan, files, content, scanner>>
  BY <1>1, NotifyType DEF Remove
<1>3. disk' \in [Path -> Version \cup {NoFile}] /\ UNCHANGED writer
  BY DEF Remove, TypeOK
<1>. QED
  BY <1>2, <1>3 DEF TypeOK, content, scanner

LEMMA RenameTypeOK ==
  ASSUME TypeOK, NEW p \in Path, NEW q \in Path, Rename(p, q)
  PROVE  TypeOK'
<1>1. <<[path |-> p, gone |-> TRUE], [path |-> q, gone |-> FALSE]>> \in Seq(Event)
  BY DEF Event
<1>2. /\ ops' \in 0 .. MaxOps /\ ops' = ops + 1 /\ events' \in Seq(Event)
      /\ UNCHANGED <<chan, files, content, scanner>>
  BY <1>1, NotifyType DEF Rename
<1>3. disk' \in [Path -> Version \cup {NoFile}] /\ UNCHANGED writer
  BY DEF Rename, TypeOK
<1>. QED
  BY <1>2, <1>3 DEF TypeOK, content, scanner

LEMMA HandleEventTypeOK ==
  ASSUME TypeOK, HandleEvent
  PROVE  TypeOK'
<1>1. events' \in Seq(Event)
  BY DEF HandleEvent, TypeOK
<1>2. Head(events) \in Event /\ Head(events).path \in Path
  <2>1. Head(events) \in Event
    BY HeadTailProperties DEF HandleEvent, TypeOK
  <2>. QED
    BY <2>1 DEF Event
<1>3. chan' \in Seq(Change)
  <2>. DEFINE e == Head(events)
  <2>1. CASE UNCHANGED chan
    BY <2>1 DEF TypeOK
  <2>2. CASE Send([path |-> e.path, mtime |-> NoFile])
    <3>1. [path |-> e.path, mtime |-> NoFile] \in Change
      BY <1>2 DEF Change
    <3>. QED
      BY <2>2, <3>1 DEF Send, TypeOK
  <2>3. CASE disk[e.path] # NoFile
             /\ Send([path |-> e.path, mtime |-> disk[e.path]])
    <3>1. [path |-> e.path, mtime |-> disk[e.path]] \in Change
      BY <1>2 DEF Change, TypeOK
    <3>. QED
      BY <2>3, <3>1 DEF Send, TypeOK
  <2>. QED
    BY <2>1, <2>2, <2>3 DEF HandleEvent
<1>. QED
  BY <1>1, <1>3 DEF HandleEvent, TypeOK, user, content, scanner

LEMMA HeadChange ==
  ASSUME TypeOK, chan # <<>>
  PROVE  /\ Head(chan).path \in Path
         /\ Head(chan).mtime # NoFile => Head(chan).mtime \in Version
<1>1. Head(chan) \in Change
  BY HeadTailProperties DEF TypeOK
<1>. QED
  BY <1>1 DEF Change

LEMMA ApplyChangeTypeOK ==
  ASSUME TypeOK, ApplyChange
  PROVE  TypeOK'
<1>1. chan # <<>> /\ chan' \in Seq(Change)
  BY DEF ApplyChange, TypeOK
<1>2. /\ files' \in [Path -> Row \cup {NoRow}]
      /\ fts' \in [Id -> Text \cup {NoText}]
      /\ meta' \in [Id -> Meta \cup {NoMeta}]
  <2>. DEFINE c == Head(chan)
  <2>1. CASE c.mtime = NoFile
    BY <1>1, <2>1, HeadChange, DeleteRowType DEF ApplyChange
  <2>2. CASE c.mtime # NoFile
    BY <1>1, <2>2, HeadChange, UpsertType DEF ApplyChange, TypeOK, content
  <2>. QED
    BY <2>1, <2>2
<1>. QED
  BY <1>1, <1>2 DEF ApplyChange, TypeOK, user, scanner

LEMMA CandidatesType ==
  ASSUME TypeOK
  PROVE  FilesNeedingContent \subseteq Candidate
<1>1. ASSUME NEW p \in Path, Pending(p)
      PROVE  [id |-> files[p].id, path |-> p, mtime |-> files[p].mtime,
              wasIndexed |-> Indexed(files[p].id)] \in Candidate
  <2>1. files[p] \in Row
    BY <1>1 DEF Pending, TypeOK
  <2>2. Indexed(files[p].id) \in BOOLEAN
    BY DEF Indexed
  <2>. QED
    BY <2>1, <2>2 DEF Row, Candidate
<1>. QED
  BY <1>1 DEF FilesNeedingContent

LEMMA ScanTypeOK ==
  ASSUME TypeOK, Scan
  PROVE  TypeOK'
<1>1. CASE QueryBatch
  <2>1. batch' \subseteq Candidate
    BY <1>1, CandidatesType DEF QueryBatch
  <2>. QED
    BY <1>1, <2>1 DEF QueryBatch, TypeOK, user, feed, content
<1>2. CASE SumBytes
  BY <1>2 DEF SumBytes, TypeOK, user, feed, content
<1>3. CASE Extract
  <2>1. text' \in Version \cup {Unreadable}
    BY <1>3 DEF Extract, Readable, TypeOK, Candidate
  <2>. QED
    BY <1>3, <2>1 DEF Extract, TypeOK, user, feed, content
<1>4. CASE StoreResult
  <2>1. PICK c \in batch : /\ pc = "store" /\ IsCurrent(c)
                           /\ SkipUnreadable(c) \/ SkipOverBudget(c) \/ StoreText(c)
                           /\ Finish(c)
    BY <1>4 DEF StoreResult
  <2>2. /\ fts' \in [Id -> Text \cup {NoText}]
        /\ meta' \in [Id -> Meta \cup {NoMeta}]
        /\ replaced' \in BOOLEAN
    BY <2>1, StoreResultEffect
  <2>. QED
    BY <2>1, <2>2 DEF Finish, TypeOK, user, feed
<1>. QED
  BY <1>1, <1>2, <1>3, <1>4 DEF Scan

LEMMA NextTypeOK == TypeOK /\ [Next]_vars => TypeOK'
<1>. SUFFICES ASSUME TypeOK, [Next]_vars PROVE TypeOK'
  OBVIOUS
<1>1. ASSUME NEW p \in Path, Write(p) PROVE TypeOK'
  BY <1>1, WriteTypeOK
<1>2. ASSUME NEW p \in Path, Remove(p) PROVE TypeOK'
  BY <1>2, RemoveTypeOK
<1>3. ASSUME NEW p \in Path, NEW q \in Path, Rename(p, q) PROVE TypeOK'
  BY <1>3, RenameTypeOK
<1>4. CASE UNCHANGED vars
  BY <1>4 DEF vars, user, feed, content, scanner, TypeOK
<1>. QED
  BY <1>1, <1>2, <1>3, <1>4, HandleEventTypeOK, ApplyChangeTypeOK, ScanTypeOK
  DEF Next

\* Every variable keeps its type: in particular no row ever needs an id above
\* the number of operations, and a record never loses the shape of its table.
THEOREM TypeCorrect == Spec => []TypeOK
BY InitTypeOK, NextTypeOK, PTL DEF Spec

-----------------------------------------------------------------------------

LEMMA InitTextMatchesMeta == Init => TextMatchesMeta
BY DEF Init, TextMatchesMeta

LEMMA NextTextMatchesMeta ==
  TypeOK /\ TextMatchesMeta /\ [Next]_vars => TextMatchesMeta'
<1>. SUFFICES ASSUME TypeOK, TextMatchesMeta, [Next]_vars PROVE TextMatchesMeta'
  OBVIOUS
<1>1. CASE UNCHANGED content
  BY <1>1 DEF content, TextMatchesMeta, Indexed
<1>2. ASSUME NEW p \in Path, DeleteRow(p) PROVE TextMatchesMeta'
  BY <1>2, DeleteRowType DEF TextMatchesMeta, Indexed
<1>3. CASE ApplyChange
  BY <1>1, <1>2, <1>3, HeadChange, UpsertType DEF ApplyChange
<1>4. CASE StoreResult
  <2>1. PICK c \in batch : /\ pc = "store" /\ IsCurrent(c)
                           /\ SkipUnreadable(c) \/ SkipOverBudget(c) \/ StoreText(c)
                           /\ Finish(c)
    BY <1>4 DEF StoreResult
  <2>2. SUFFICES ASSUME NEW i \in Id
                 PROVE IF fts'[i] = NoText
                       THEN \/ meta'[i] = NoMeta
                            \/ meta'[i].why # "text" /\ meta'[i].bytes = 0
                       ELSE /\ meta'[i] # NoMeta /\ meta'[i].why = "text"
                            /\ meta'[i].bytes = TextLen[fts'[i].version]
    BY DEF TextMatchesMeta, Indexed
  <2>3. CASE i # c.id
    <3>1. fts'[i] = fts[i] /\ meta'[i] = meta[i]
      BY <2>1, <2>3, StoreResultEffect
    <3>. QED
      BY <3>1 DEF TextMatchesMeta, Indexed
  <2>4. CASE i = c.id
    <3>1. /\ meta'[i] # NoMeta
          /\ \/ /\ fts'[i] = NoText
                /\ meta'[i] = [mtime |-> c.mtime, why |-> "unreadable", bytes |-> 0]
             \/ /\ fts'[i] = NoText
                /\ meta'[i] = [mtime |-> c.mtime, why |-> "budget", bytes |-> 0]
             \/ /\ fts'[i] # NoText
                /\ fts'[i] = [path |-> c.path, version |-> text]
                /\ meta'[i] = [mtime |-> c.mtime, why |-> "text",
                               bytes |-> TextLen[text]]
      BY <2>1, <2>4, StoreResultEffect
    <3>. QED
      BY <3>1
  <2>. QED
    BY <2>3, <2>4
<1>5. CASE QueryBatch \/ SumBytes \/ Extract \/ HandleEvent \/ UNCHANGED vars
  BY <1>1, <1>5 DEF QueryBatch, SumBytes, Extract, HandleEvent, vars
<1>6. ASSUME NEW p \in Path, NEW q \in Path, Write(p) \/ Remove(p) \/ Rename(p, q)
      PROVE TextMatchesMeta'
  BY <1>1, <1>6 DEF Write, Remove, Rename, Notify
<1>. QED
  BY <1>3, <1>4, <1>5, <1>6 DEF Next, Scan

\* content_fts and content_meta never disagree about a rowid, whatever ids are
\* reused and whichever rows are deleted while the scanner works.
THEOREM TextAlwaysMatchesMeta == Spec => []TextMatchesMeta
BY InitTextMatchesMeta, NextTextMatchesMeta, TypeCorrect, PTL DEF Spec

-----------------------------------------------------------------------------

\* The rows of files have distinct ids, and so have the scanner's candidates.
UniqueIds ==
  /\ \A p, q \in Path :
       files[p] # NoRow /\ files[q] # NoRow /\ files[p].id = files[q].id => p = q
  /\ \A c, d \in batch : c.id = d.id => c = d

LEMMA NextUniqueIds ==
  TypeOK /\ UniqueIds /\ [Next]_vars => UniqueIds'
<1>. SUFFICES ASSUME TypeOK, UniqueIds, [Next]_vars PROVE UniqueIds'
  OBVIOUS
<1>1. CASE UNCHANGED <<files, batch>>
  BY <1>1 DEF UniqueIds
<1>2. CASE ApplyChange
  <2>1. UNCHANGED batch /\ chan # <<>>
    BY <1>2 DEF ApplyChange, scanner
  <2>2. ASSUME NEW p \in Path, DeleteRow(p) PROVE UniqueIds'
    BY <2>1, <2>2, DeleteRowType DEF UniqueIds
  <2>3. ASSUME NEW p \in Path, NEW m \in Version, Upsert(p, m) PROVE UniqueIds'
    <3>1. PICK i \in Id :
            /\ IF files[p] = NoRow THEN IsNextId(i) ELSE i = files[p].id
            /\ files' = [files EXCEPT ![p] = [id |-> i, mtime |-> m]]
      BY <2>3 DEF Upsert
    <3>2. ASSUME NEW q \in Path, q # p, files[q] # NoRow PROVE files[q].id # i
      <4>1. CASE files[p] = NoRow
        <5>1. files[q].id \in LiveIds
          BY <3>2 DEF LiveIds
        <5>. QED
          BY <3>1, <4>1, <5>1 DEF IsNextId, Id
      <4>2. CASE files[p] # NoRow
        BY <3>1, <3>2, <4>2 DEF UniqueIds
      <4>. QED
        BY <4>1, <4>2
    <3>3. files'[p].id = i /\ \A q \in Path : q # p => files'[q] = files[q]
      BY <3>1 DEF TypeOK
    <3>. QED
      BY <2>1, <3>2, <3>3 DEF UniqueIds
  <2>. QED
    BY <1>2, <2>1, <2>2, <2>3, HeadChange DEF ApplyChange
<1>3. CASE QueryBatch
  <2>1. UNCHANGED files /\ batch' \subseteq FilesNeedingContent
    BY <1>3 DEF QueryBatch
  <2>2. \A c, d \in FilesNeedingContent : c.id = d.id => c = d
    BY DEF FilesNeedingContent, Pending, UniqueIds
  <2>. QED
    BY <2>1, <2>2 DEF UniqueIds
<1>4. CASE StoreResult
  <2>1. UNCHANGED files /\ batch' \subseteq batch
    BY <1>4 DEF StoreResult, Finish
  <2>. QED
    BY <2>1 DEF UniqueIds
<1>5. CASE SumBytes \/ Extract \/ HandleEvent \/ UNCHANGED vars
  BY <1>1, <1>5 DEF SumBytes, Extract, HandleEvent, vars, scanner
<1>6. ASSUME NEW p \in Path, NEW q \in Path, Write(p) \/ Remove(p) \/ Rename(p, q)
      PROVE UniqueIds'
  BY <1>1, <1>6 DEF Write, Remove, Rename, Notify, scanner
<1>. QED
  BY <1>2, <1>3, <1>4, <1>5, <1>6 DEF Next, Scan

THEOREM IdsAreUnique == Spec => []UniqueIds
<1>1. Init => UniqueIds
  BY DEF Init, UniqueIds
<1>. QED
  BY <1>1, NextUniqueIds, TypeCorrect, PTL DEF Spec

-----------------------------------------------------------------------------
(* Freshness.  Without renames a version belongs to the path it was written *)
(* at, and every copy of it that the watcher, the store and the scanner     *)
(* hold stays with that path.                                               *)

Wrote(v, p) == v \in 1 .. Len(writer) /\ writer[v] = p

VersionsKeepTheirPath ==
  /\ \A p \in Path : disk[p] # NoFile => Wrote(disk[p], p)
  /\ \A k \in 1 .. Len(chan) :
       chan[k].mtime # NoFile => Wrote(chan[k].mtime, chan[k].path)
  /\ \A p \in Path : files[p] # NoRow => Wrote(files[p].mtime, p)
  /\ \A c \in batch : Wrote(c.mtime, c.path)
  /\ \A i \in Id : fts[i] # NoText => Wrote(fts[i].version, fts[i].path)

DiskHoldsTheLatest ==
  \A p \in Path, v \in Version :
    Wrote(v, p) /\ disk[p] # NoFile => v <= disk[p]

\* What a content_meta row with mtime m and reason why vouches for, m having
\* been the mtime of path p.
Vouches(i, m, why, p) ==
  \/ why = "text" /\ fts[i] # NoText /\ fts[i].path = p /\ m <= fts[i].version
  \/ why = "unreadable" /\ (m \in Binary \/ disk[p] # m)
  \/ why = "budget" /\ Budget > 0

MetaVouches ==
  \A i \in Id : meta[i] # NoMeta =>
    /\ meta[i].mtime \in 1 .. Len(writer)
    /\ Vouches(i, meta[i].mtime, meta[i].why, writer[meta[i].mtime])

ExtractVouches ==
  \A c \in batch : pc = "store" /\ IsCurrent(c) =>
    \/ text = Unreadable /\ (c.mtime \in Binary \/ disk[c.path] # c.mtime)
    \/ text # Unreadable /\ Wrote(text, c.path) /\ c.mtime <= text

FreshInv ==
  /\ TypeOK /\ UniqueIds /\ VersionsKeepTheirPath /\ DiskHoldsTheLatest
  /\ MetaVouches /\ ExtractVouches

LEMMA InitFresh == Init => FreshInv
<1>. SUFFICES ASSUME Init PROVE FreshInv
  OBVIOUS
<1>1. VersionsKeepTheirPath
  BY DEF Init, VersionsKeepTheirPath
<1>2. DiskHoldsTheLatest /\ MetaVouches /\ ExtractVouches
  BY DEF Init, DiskHoldsTheLatest, MetaVouches, ExtractVouches
<1>3. UniqueIds
  BY DEF Init, UniqueIds
<1>. QED
  BY <1>1, <1>2, <1>3, InitTypeOK DEF FreshInv

LEMMA WriteFresh ==
  ASSUME FreshInv, NEW p \in Path, Write(p)
  PROVE  FreshInv'
<1>. DEFINE n == Len(writer) + 1
<1>1. TypeOK /\ TypeOK'
  BY WriteTypeOK DEF FreshInv
<1>2. /\ disk' = [disk EXCEPT ![p] = n] /\ writer' = Append(writer, p)
      /\ UNCHANGED <<chan, files, fts, meta, pc, batch, text>>
  BY DEF Write, Notify, content, scanner
<1>3. /\ writer \in Seq(Path) /\ Len(writer) \in Nat /\ Len(writer') = n
      /\ n \in Version /\ writer'[n] = p
      /\ \A v \in 1 .. Len(writer) : writer'[v] = writer[v]
  <2>1. writer \in Seq(Path) /\ Len(writer') <= ops' /\ ops' \in 0 .. MaxOps
    BY <1>1 DEF TypeOK
  <2>. QED
    BY <2>1, <1>2, ConstantsAssumption DEF Version
<1>5. \A v, q : Wrote(v, q)' => Wrote(v, q) \/ (v = n /\ q = p)
  BY <1>3 DEF Wrote
<1>6. /\ disk'[p] = n
      /\ \A q \in Path : q # p => disk'[q] = disk[q]
  BY <1>1, <1>2, <1>3 DEF TypeOK
<1>7. VersionsKeepTheirPath'
  BY <1>2, <1>3, <1>6 DEF FreshInv, VersionsKeepTheirPath, Wrote
<1>8. DiskHoldsTheLatest'
  <2>. SUFFICES ASSUME NEW q \in Path, NEW v \in Version,
                       Wrote(v, q)', disk'[q] # NoFile
                PROVE  v <= disk'[q]
    BY DEF DiskHoldsTheLatest
  <2>1. CASE q = p
    BY <2>1, <1>3, <1>6 DEF Wrote
  <2>2. CASE q # p
    BY <2>2, <1>5, <1>6 DEF FreshInv, DiskHoldsTheLatest
  <2>. QED
    BY <2>1, <2>2
<1>9. \A m \in 1 .. Len(writer), q \in Path :
         disk[q] # m => disk'[q] # m
  BY <1>3, <1>6
<1>10. MetaVouches'
  <2>. SUFFICES ASSUME NEW i \in Id, meta[i] # NoMeta
                PROVE  (/\ meta[i].mtime \in 1 .. Len(writer)
                        /\ Vouches(i, meta[i].mtime, meta[i].why,
                                   writer[meta[i].mtime]))'
    BY <1>2 DEF MetaVouches
  <2>. DEFINE m == meta[i].mtime
  <2>1. m \in 1 .. Len(writer) /\ Vouches(i, m, meta[i].why, writer[m])
    BY DEF FreshInv, MetaVouches
  <2>2. m \in 1 .. Len(writer') /\ writer'[m] = writer[m] /\ writer[m] \in Path
    BY <2>1, <1>3, ElementOfSeq
  <2>3. disk[writer[m]] # m => disk'[writer[m]] # m
    BY <2>1, <2>2, <1>9
  <2>. QED
    BY <2>1, <2>2, <2>3, <1>2 DEF Vouches
<1>11. ExtractVouches'
  <2>. SUFFICES ASSUME NEW c \in batch, pc = "store", IsCurrent(c)
                PROVE  \/ /\ text = Unreadable
                          /\ c.mtime \in Binary \/ disk'[c.path] # c.mtime
                       \/ /\ text # Unreadable /\ c.mtime <= text
                          /\ text \in 1 .. Len(writer') /\ writer'[text] = c.path
    BY <1>2 DEF ExtractVouches, IsCurrent, Wrote
  <2>1. c.path \in Path /\ c.mtime \in 1 .. Len(writer)
    BY <1>1 DEF TypeOK, Candidate, FreshInv, VersionsKeepTheirPath, Wrote
  <2>2. disk[c.path] # c.mtime => disk'[c.path] # c.mtime
    BY <2>1, <1>9
  <2>. QED
    BY <2>2, <1>3 DEF FreshInv, ExtractVouches, Wrote
<1>u. UniqueIds'
  BY NextUniqueIds DEF FreshInv, Next, Scan
<1>. QED
  BY <1>u, <1>1, <1>7, <1>8, <1>10, <1>11 DEF FreshInv

LEMMA RemoveFresh ==
  ASSUME FreshInv, NEW p \in Path, Remove(p)
  PROVE  FreshInv'
<1>1. TypeOK /\ TypeOK'
  BY RemoveTypeOK DEF FreshInv
<1>2. /\ disk' = [disk EXCEPT ![p] = NoFile]
      /\ UNCHANGED <<writer, chan, files, fts, meta, pc, batch, text>>
  BY DEF Remove, Notify, content, scanner
<1>3. \A q \in Path : disk'[q] = NoFile \/ disk'[q] = disk[q]
  BY <1>1, <1>2 DEF TypeOK
<1>4. VersionsKeepTheirPath' /\ DiskHoldsTheLatest'
  BY <1>2, <1>3 DEF FreshInv, VersionsKeepTheirPath, DiskHoldsTheLatest, Wrote
<1>5. \A m \in Version, q \in Path : disk[q] # m => disk'[q] # m
  BY <1>3, ConstantsAssumption
<1>6. MetaVouches'
  <2>. SUFFICES ASSUME NEW i \in Id, meta[i] # NoMeta
                PROVE  /\ meta[i].mtime \in 1 .. Len(writer)
                       /\ Vouches(i, meta[i].mtime, meta[i].why,
                                  writer[meta[i].mtime])'
    BY <1>2 DEF MetaVouches, Vouches
  <2>. DEFINE m == meta[i].mtime
  <2>1. m \in 1 .. Len(writer) /\ Vouches(i, m, meta[i].why, writer[m])
    BY DEF FreshInv, MetaVouches
  <2>2. m \in Version /\ writer[m] \in Path
    BY <1>1, <2>1, ElementOfSeq DEF TypeOK, Meta
  <2>3. disk[writer[m]] # m => disk'[writer[m]] # m
    BY <2>2, <1>5
  <2>. QED
    BY <2>1, <2>3, <1>2 DEF Vouches
<1>7. ExtractVouches'
  <2>1. ASSUME NEW c \in batch
        PROVE  disk[c.path] # c.mtime => disk'[c.path] # c.mtime
    BY <1>1, <1>5 DEF TypeOK, Candidate
  <2>. QED
    BY <2>1, <1>2 DEF FreshInv, ExtractVouches, IsCurrent, Wrote
<1>u. UniqueIds'
  BY NextUniqueIds DEF FreshInv, Next, Scan
<1>. QED
  BY <1>u, <1>1, <1>4, <1>6, <1>7 DEF FreshInv

LEMMA HandleEventFresh ==
  ASSUME FreshInv, HandleEvent
  PROVE  FreshInv'
<1>1. TypeOK /\ TypeOK' /\ chan \in Seq(Change)
  BY HandleEventTypeOK DEF FreshInv, TypeOK
<1>2. UNCHANGED <<disk, writer, files, fts, meta, pc, batch, text>>
  BY DEF HandleEvent, user, content, scanner
<1>3. Head(events).path \in Path
  <2>1. Head(events) \in Event
    BY <1>1, HeadTailProperties DEF HandleEvent, TypeOK
  <2>. QED
    BY <2>1 DEF Event
<1>4. \A k \in 1 .. Len(chan') :
        chan'[k].mtime # NoFile => Wrote(chan'[k].mtime, chan'[k].path)
  <2>. DEFINE e == Head(events)
  <2>1. CASE UNCHANGED chan
    BY <2>1 DEF FreshInv, VersionsKeepTheirPath
  <2>2. CASE chan' = Append(chan, [path |-> e.path, mtime |-> NoFile])
    BY <1>1, <2>2 DEF FreshInv, VersionsKeepTheirPath
  <2>3. CASE disk[e.path] # NoFile
             /\ chan' = Append(chan, [path |-> e.path, mtime |-> disk[e.path]])
    BY <1>1, <1>3, <2>3 DEF FreshInv, VersionsKeepTheirPath
  <2>. QED
    BY <2>1, <2>2, <2>3 DEF HandleEvent, Send
<1>5. VersionsKeepTheirPath'
  BY <1>2, <1>4 DEF FreshInv, VersionsKeepTheirPath, Wrote
<1>6. DiskHoldsTheLatest' /\ MetaVouches' /\ ExtractVouches'
  BY <1>2 DEF FreshInv, DiskHoldsTheLatest, MetaVouches, ExtractVouches,
              Wrote, Vouches, IsCurrent
<1>u. UniqueIds'
  BY NextUniqueIds DEF FreshInv, Next, Scan
<1>. QED
  BY <1>u, <1>1, <1>5, <1>6 DEF FreshInv

LEMMA ApplyChangeFresh ==
  ASSUME FreshInv, ApplyChange
  PROVE  FreshInv'
<1>. DEFINE c == Head(chan)
<1>1. TypeOK /\ TypeOK' /\ chan \in Seq(Change) /\ chan # <<>>
  BY ApplyChangeTypeOK DEF FreshInv, TypeOK, ApplyChange
<1>2. /\ UNCHANGED <<disk, writer, pc, batch, text>>
      /\ chan' = Tail(chan)
      /\ c = chan[1]
  BY <1>1 DEF ApplyChange, user, scanner
<1>3. /\ \A p \in Path : files'[p] # NoRow => Wrote(files'[p].mtime, p)
      /\ \A i \in Id : \/ fts'[i] = fts[i] /\ meta'[i] = meta[i]
                       \/ fts'[i] = NoText /\ meta'[i] = NoMeta
  <2>1. CASE c.mtime = NoFile
    <3>1. PICK p \in Path : DeleteRow(p)
      BY <1>1, <2>1, HeadChange DEF ApplyChange
    <3>2. /\ files'[p] = NoRow
          /\ \A q \in Path : q # p => files'[q] = files[q]
          /\ \A i \in Id : \/ fts'[i] = fts[i] /\ meta'[i] = meta[i]
                           \/ fts'[i] = NoText /\ meta'[i] = NoMeta
      BY <1>1, <3>1, DeleteRowType
    <3>. QED
      BY <3>1, <3>2 DEF FreshInv, VersionsKeepTheirPath
  <2>2. CASE c.mtime # NoFile
    <3>1. PICK p \in Path, m \in Version :
            p = c.path /\ m = c.mtime /\ Upsert(p, m)
      BY <1>1, <2>2, HeadChange DEF ApplyChange
    <3>2. /\ \A q \in Path : q # p => files'[q] = files[q]
          /\ files'[p] # NoRow /\ files'[p].mtime = m
          /\ UNCHANGED <<fts, meta>>
      BY <1>1, <3>1, UpsertType DEF content
    <3>3. Wrote(m, p)
      BY <1>1, <1>2, <2>2, <3>1 DEF FreshInv, VersionsKeepTheirPath
    <3>. QED
      BY <3>2, <3>3 DEF FreshInv, VersionsKeepTheirPath
  <2>. QED
    BY <2>1, <2>2
<1>4. \A k \in 1 .. Len(chan') :
        chan'[k].mtime # NoFile => Wrote(chan'[k].mtime, chan'[k].path)
  <2>1. \A k \in 1 .. Len(chan') : k + 1 \in 1 .. Len(chan) /\ chan'[k] = chan[k + 1]
    BY <1>1, <1>2, HeadTailProperties
  <2>. QED
    BY <2>1 DEF FreshInv, VersionsKeepTheirPath
<1>5. VersionsKeepTheirPath'
  BY <1>2, <1>3, <1>4 DEF FreshInv, VersionsKeepTheirPath, Wrote
<1>6. DiskHoldsTheLatest'
  BY <1>2 DEF FreshInv, DiskHoldsTheLatest, Wrote
<1>7. MetaVouches'
  BY <1>2, <1>3 DEF FreshInv, MetaVouches, Vouches
<1>8. ExtractVouches'
  BY <1>2, <1>3 DEF FreshInv, ExtractVouches, IsCurrent, Wrote
<1>u. UniqueIds'
  BY NextUniqueIds DEF FreshInv, Next, Scan
<1>. QED
  BY <1>u, <1>1, <1>5, <1>6, <1>7, <1>8 DEF FreshInv

LEMMA QueryBatchFresh ==
  ASSUME FreshInv, QueryBatch
  PROVE  FreshInv'
<1>1. TypeOK /\ TypeOK'
  BY ScanTypeOK DEF FreshInv, Scan
<1>2. /\ UNCHANGED <<disk, writer, chan, files, fts, meta, text>>
      /\ batch' \subseteq FilesNeedingContent /\ pc' = "sum"
  BY DEF QueryBatch, user, feed, content
<1>3. \A c \in FilesNeedingContent : Wrote(c.mtime, c.path)
  BY DEF FilesNeedingContent, Pending, FreshInv, VersionsKeepTheirPath
<1>4. VersionsKeepTheirPath'
  BY <1>2, <1>3 DEF FreshInv, VersionsKeepTheirPath, Wrote
<1>5. DiskHoldsTheLatest' /\ MetaVouches' /\ ExtractVouches'
  BY <1>2 DEF FreshInv, DiskHoldsTheLatest, MetaVouches, ExtractVouches,
              Wrote, Vouches
<1>u. UniqueIds'
  BY NextUniqueIds DEF FreshInv, Next, Scan
<1>. QED
  BY <1>u, <1>1, <1>4, <1>5 DEF FreshInv

LEMMA SumBytesFresh ==
  ASSUME FreshInv, SumBytes
  PROVE  FreshInv'
<1>1. TypeOK'
  BY ScanTypeOK DEF FreshInv, Scan
<1>2. /\ UNCHANGED <<disk, writer, chan, files, fts, meta, batch, text>>
      /\ pc' = "extract"
  BY DEF SumBytes, user, feed, content
<1>3. VersionsKeepTheirPath' /\ DiskHoldsTheLatest' /\ MetaVouches' /\ ExtractVouches'
  BY <1>2 DEF FreshInv, VersionsKeepTheirPath, DiskHoldsTheLatest, MetaVouches,
              ExtractVouches, Wrote, Vouches
<1>u. UniqueIds'
  BY NextUniqueIds DEF FreshInv, Next, Scan
<1>. QED
  BY <1>u, <1>1, <1>3 DEF FreshInv

\* The scanner reads the file after the row: what it reads is at least as new
\* as the mtime it will record.
LEMMA ExtractFresh ==
  ASSUME FreshInv, Extract
  PROVE  FreshInv'
<1>1. TypeOK /\ TypeOK'
  BY ScanTypeOK DEF FreshInv, Scan
<1>2. UNCHANGED <<disk, writer, chan, files, fts, meta, batch>>
  BY DEF Extract, user, feed, content
<1>3. VersionsKeepTheirPath' /\ DiskHoldsTheLatest' /\ MetaVouches'
  BY <1>2 DEF FreshInv, VersionsKeepTheirPath, DiskHoldsTheLatest, MetaVouches,
              Wrote, Vouches
<1>4. PICK c \in batch :
        /\ IsCurrent(c)
        /\ text' = IF Readable(c.path) THEN disk[c.path] ELSE Unreadable
  BY DEF Extract
<1>5. c.id \in Id /\ c.path \in Path /\ c.mtime \in Version /\ Wrote(c.mtime, c.path)
  BY <1>1 DEF TypeOK, Candidate, FreshInv, VersionsKeepTheirPath
<1>6. \/ text' = Unreadable /\ (c.mtime \in Binary \/ disk[c.path] # c.mtime)
      \/ text' # Unreadable /\ Wrote(text', c.path) /\ c.mtime <= text'
  <2>1. CASE ~Readable(c.path)
    BY <1>4, <1>5, <2>1, ConstantsAssumption DEF Readable
  <2>2. CASE Readable(c.path)
    <3>1. text' = disk[c.path] /\ disk[c.path] # NoFile /\ text' # Unreadable
      BY <1>1, <1>4, <1>5, <2>2, ConstantsAssumption DEF Readable, TypeOK
    <3>2. Wrote(text', c.path) /\ c.mtime <= text'
      BY <1>5, <3>1 DEF FreshInv, VersionsKeepTheirPath, DiskHoldsTheLatest
    <3>. QED
      BY <3>1, <3>2
  <2>. QED
    BY <2>1, <2>2
<1>7. \A d \in batch : IsCurrent(d) => d = c
  BY <1>1, <1>4 DEF IsCurrent, TypeOK, Candidate, Id, FreshInv, UniqueIds
<1>8. ExtractVouches'
  BY <1>2, <1>6, <1>7 DEF ExtractVouches, IsCurrent, Wrote
<1>u. UniqueIds'
  BY NextUniqueIds DEF FreshInv, Next, Scan
<1>. QED
  BY <1>1, <1>3, <1>8, <1>u DEF FreshInv

\* The transaction of the scanner commits what it vouched for.
LEMMA StoreResultFresh ==
  ASSUME FreshInv, StoreResult
  PROVE  FreshInv'
<1>1. TypeOK /\ TypeOK'
  BY ScanTypeOK DEF FreshInv, Scan
<1>2. PICK c \in batch : /\ pc = "store" /\ IsCurrent(c)
                         /\ SkipUnreadable(c) \/ SkipOverBudget(c) \/ StoreText(c)
                         /\ Finish(c)
  BY DEF StoreResult
<1>3. /\ UNCHANGED <<disk, writer, chan, files>>
      /\ batch' \subseteq batch /\ pc' # "store"
  BY <1>2 DEF Finish, user, feed
<1>4. c.id \in Id /\ c.path \in Path /\ c.mtime \in Version /\ Wrote(c.mtime, c.path)
  BY <1>1 DEF TypeOK, Candidate, FreshInv, VersionsKeepTheirPath
<1>5. \/ text = Unreadable /\ (c.mtime \in Binary \/ disk[c.path] # c.mtime)
      \/ text # Unreadable /\ Wrote(text, c.path) /\ c.mtime <= text
  BY <1>2 DEF FreshInv, ExtractVouches
<1>6. /\ \A i \in Id : i # c.id => fts'[i] = fts[i] /\ meta'[i] = meta[i]
      /\ \/ /\ text = Unreadable /\ fts'[c.id] = NoText
            /\ meta'[c.id] =
                 [mtime |-> c.mtime, why |-> "unreadable", bytes |-> 0]
         \/ /\ text # Unreadable /\ Budget > 0 /\ fts'[c.id] = NoText
            /\ meta'[c.id] =
                 [mtime |-> c.mtime, why |-> "budget", bytes |-> 0]
         \/ /\ text # Unreadable
            /\ fts'[c.id] = [path |-> c.path, version |-> text]
            /\ fts'[c.id] # NoText
            /\ meta'[c.id] = [mtime |-> c.mtime, why |-> "text",
                              bytes |-> TextLen[text]]
  BY <1>1, <1>2, StoreResultEffect
<1>7. VersionsKeepTheirPath'
  <2>1. \A i \in Id : fts'[i] # NoText => Wrote(fts'[i].version, fts'[i].path)
    BY <1>4, <1>5, <1>6 DEF FreshInv, VersionsKeepTheirPath
  <2>. QED
    BY <2>1, <1>3 DEF FreshInv, VersionsKeepTheirPath, Wrote
<1>8. DiskHoldsTheLatest' /\ ExtractVouches'
  BY <1>3 DEF FreshInv, DiskHoldsTheLatest, ExtractVouches, Wrote
<1>9. MetaVouches'
  <2>. SUFFICES ASSUME NEW i \in Id, meta'[i] # NoMeta
                PROVE  (/\ meta[i].mtime \in 1 .. Len(writer)
                        /\ Vouches(i, meta[i].mtime, meta[i].why,
                                   writer[meta[i].mtime]))'
    BY DEF MetaVouches
  <2>1. CASE i # c.id
    BY <2>1, <1>3, <1>6 DEF FreshInv, MetaVouches, Vouches
  <2>2. CASE i = c.id
    BY <2>2, <1>3, <1>4, <1>5, <1>6 DEF Vouches, Wrote
  <2>. QED
    BY <2>1, <2>2
<1>u. UniqueIds'
  BY NextUniqueIds DEF FreshInv, Next, Scan
<1>. QED
  BY <1>1, <1>7, <1>8, <1>9, <1>u DEF FreshInv

LEMMA NextFresh ==
  ASSUME ~Renames, FreshInv, [Next]_vars
  PROVE  FreshInv'
<1>1. ASSUME NEW p \in Path, NEW q \in Path, Rename(p, q) PROVE FALSE
  BY <1>1 DEF Rename
<1>2. CASE UNCHANGED vars
  <2>1. TypeOK' /\ UniqueIds'
    BY NextTypeOK, NextUniqueIds DEF FreshInv
  <2>. QED
    BY <1>2, <2>1 DEF vars, user, feed, content, scanner, FreshInv, Wrote,
      VersionsKeepTheirPath, DiskHoldsTheLatest, MetaVouches, Vouches,
      ExtractVouches, IsCurrent
<1>. QED
  BY <1>1, <1>2, WriteFresh, RemoveFresh, HandleEventFresh, ApplyChangeFresh,
     QueryBatchFresh, SumBytesFresh, ExtractFresh, StoreResultFresh
  DEF Next, Scan

LEMMA FreshAlways == ASSUME ~Renames PROVE Spec => []FreshInv
BY NextFresh, InitFresh, PTL DEF Spec

LEMMA FreshImpliesCurrent == FreshInv => ExaminedIsCurrent
<1>. SUFFICES ASSUME FreshInv, NEW p \in Path, Settled(p)
              PROVE  LET i == files[p].id IN
                \/ /\ meta[i].why = "text"
                   /\ fts[i] = [path |-> p, version |-> disk[p]]
                \/ meta[i].why = "unreadable" /\ disk[p] \in Binary
                \/ meta[i].why = "budget" /\ Budget > 0
  BY DEF ExaminedIsCurrent
<1>. DEFINE i == files[p].id
            m == disk[p]
<1>1. /\ files[p] # NoRow /\ meta[i] # NoMeta
      /\ meta[i].mtime = m /\ files[p].mtime = m
  BY DEF Settled, Pending
<1>2. i \in Id /\ m \in Version /\ m # NoFile
  BY <1>1, ConstantsAssumption DEF FreshInv, TypeOK, Row
<1>3. Wrote(m, p)
  BY <1>1 DEF FreshInv, VersionsKeepTheirPath
<1>4. Vouches(i, m, meta[i].why, p)
  BY <1>1, <1>2, <1>3 DEF FreshInv, MetaVouches, Wrote
<1>5. ASSUME fts[i] # NoText, fts[i].path = p, m <= fts[i].version
      PROVE  fts[i] = [path |-> p, version |-> m]
  <2>1. fts[i] \in Text /\ Wrote(fts[i].version, p)
    BY <1>2, <1>5 DEF FreshInv, TypeOK, VersionsKeepTheirPath
  <2>2. fts[i].version \in Version /\ fts[i].version <= m
    BY <1>2, <2>1 DEF FreshInv, DiskHoldsTheLatest, Text
  <2>3. fts[i].version = m
    BY <1>2, <1>5, <2>2 DEF Version
  <2>. QED
    BY <1>5, <2>1, <2>3 DEF Text
<1>. QED
  BY <1>4, <1>5 DEF Vouches

\* As long as files are not renamed, a file examined at its current mtime is
\* indexed as it is on disk: neither the gap between the scanner's query, its
\* read and its commit nor an id that came back can put older text, or another
\* file's text, under its row for good (indexOneContent, scanner.go:75-103).
THEOREM ExaminedStaysCurrent ==
  ASSUME ~Renames PROVE Spec => []ExaminedIsCurrent
BY FreshAlways, FreshImpliesCurrent, PTL

-----------------------------------------------------------------------------
(* Delivery.  What happened to a path last is still queued, or applied.     *)

LastIn(s, k, p) ==
  /\ k \in 1 .. Len(s) /\ s[k].path = p
  /\ \A j \in k + 1 .. Len(s) : s[j].path # p

Absent(s, p) == \A j \in 1 .. Len(s) : s[j].path # p

Notified(p) == \E k \in 1 .. Len(events) : LastIn(events, k, p) /\ ~events[k].gone

Announced(p) ==
  \E k \in 1 .. Len(chan) : LastIn(chan, k, p) /\ chan[k].mtime = disk[p]

Delivered(p) ==
  \/ Notified(p)
  \/ Absent(events, p) /\ Announced(p)
  \/ /\ Absent(events, p) /\ Absent(chan, p)
     /\ files[p] # NoRow /\ files[p].mtime = disk[p]

EveryFileIsDelivered == \A p \in Path : disk[p] # NoFile => Delivered(p)

\* Appending an element of another path, and dropping the head, keep the last
\* element of a path in place.
LEMMA AppendKeepsLast ==
  ASSUME NEW S, NEW s \in Seq(S), NEW e \in S, NEW p, e.path # p
  PROVE  /\ Absent(s, p) => Absent(Append(s, e), p)
         /\ \A k : LastIn(s, k, p) => /\ LastIn(Append(s, e), k, p)
                                      /\ Append(s, e)[k] = s[k]
BY DEF Absent, LastIn

LEMMA AppendIsLast ==
  ASSUME NEW S, NEW s \in Seq(S), NEW e \in S
  PROVE  /\ LastIn(Append(s, e), Len(s) + 1, e.path)
         /\ Append(s, e)[Len(s) + 1] = e
         /\ Len(s) + 1 \in 1 .. Len(Append(s, e))
BY DEF LastIn

LEMMA TailKeepsLast ==
  ASSUME NEW S, NEW s \in Seq(S), s # <<>>, NEW p
  PROVE  /\ Absent(s, p) => Absent(Tail(s), p)
         /\ \A k : LastIn(s, k, p) =>
              \/ k = 1 /\ s[k] = Head(s) /\ Absent(Tail(s), p)
              \/ /\ k - 1 \in 1 .. Len(Tail(s))
                 /\ LastIn(Tail(s), k - 1, p) /\ Tail(s)[k - 1] = s[k]
<1>1. /\ Len(s) \in Nat \ {0} /\ Len(Tail(s)) = Len(s) - 1
      /\ \A j \in 1 .. Len(Tail(s)) : Tail(s)[j] = s[j + 1]
      /\ Head(s) = s[1]
  BY HeadTailProperties
<1>2. Absent(s, p) => Absent(Tail(s), p)
  BY <1>1 DEF Absent
<1>3. ASSUME NEW k, LastIn(s, k, p), k = 1
      PROVE  s[k] = Head(s) /\ Absent(Tail(s), p)
  BY <1>1, <1>3 DEF Absent, LastIn
<1>4. ASSUME NEW k, LastIn(s, k, p), k # 1
      PROVE  /\ k - 1 \in 1 .. Len(Tail(s))
             /\ LastIn(Tail(s), k - 1, p) /\ Tail(s)[k - 1] = s[k]
  <2>1. k \in 2 .. Len(s) /\ k - 1 \in 1 .. Len(Tail(s))
    BY <1>1, <1>4 DEF LastIn
  <2>2. Tail(s)[k - 1] = s[k]
    BY <1>1, <2>1
  <2>3. \A j \in k .. Len(Tail(s)) : Tail(s)[j].path # p
    BY <1>1, <1>4, <2>1 DEF LastIn
  <2>. QED
    BY <1>4, <2>1, <2>2, <2>3 DEF LastIn
<1>. QED
  BY <1>2, <1>3, <1>4

\* A path the step says nothing about stays delivered.
LEMMA OthersStayDelivered ==
  ASSUME TypeOK, NEW p \in Path, Delivered(p), disk'[p] = disk[p],
         NEW e \in Event, e.path # p, events' = Append(events, e),
         UNCHANGED <<chan, files>>
  PROVE  Delivered(p)'
<1>1. events \in Seq(Event) /\ Len(events') = Len(events) + 1 /\ Len(events) \in Nat
  BY DEF TypeOK
<1>2. /\ Absent(events, p) => Absent(events', p)
      /\ \A k : LastIn(events, k, p) => /\ LastIn(events', k, p)
                                        /\ events'[k] = events[k]
  <2>1. /\ Absent(events, p) => Absent(Append(events, e), p)
        /\ \A k : LastIn(events, k, p) => /\ LastIn(Append(events, e), k, p)
                                          /\ Append(events, e)[k] = events[k]
    BY <1>1, AppendKeepsLast
  <2>. QED
    BY <2>1
<1>3. Notified(p) => Notified(p)'
  BY <1>1, <1>2 DEF Notified
<1>4. Announced(p) => Announced(p)'
  BY DEF Announced
<1>. QED
  BY <1>2, <1>3, <1>4 DEF Delivered

LEMMA WriteDelivers ==
  ASSUME TypeOK, EveryFileIsDelivered, NEW p \in Path, Write(p)
  PROVE  EveryFileIsDelivered'
<1>. DEFINE e == [path |-> p, gone |-> FALSE]
<1>1. /\ e \in Event /\ e.path = p /\ ~e.gone
      /\ events \in Seq(Event) /\ events' = Append(events, e)
      /\ UNCHANGED <<chan, files>>
  BY DEF Write, Notify, TypeOK, Event
<1>2. \A q \in Path : q # p => disk'[q] = disk[q]
  BY DEF Write, TypeOK
<1>. HIDE DEF e
<1>3. Notified(p)'
  BY <1>1, AppendIsLast DEF Notified
<1>4. ASSUME NEW q \in Path, q # p, disk'[q] # NoFile PROVE Delivered(q)'
  <2>1. disk'[q] = disk[q] /\ Delivered(q)
    BY <1>2, <1>4 DEF EveryFileIsDelivered
  <2>. QED
    BY <1>1, <1>4, <2>1, OthersStayDelivered
<1>. QED
  BY <1>3, <1>4 DEF EveryFileIsDelivered, Delivered

LEMMA RemoveDelivers ==
  ASSUME TypeOK, EveryFileIsDelivered, NEW p \in Path, Remove(p)
  PROVE  EveryFileIsDelivered'
<1>. DEFINE e == [path |-> p, gone |-> TRUE]
<1>1. /\ e \in Event /\ e.path = p
      /\ events' = Append(events, e) /\ UNCHANGED <<chan, files>>
  BY DEF Remove, Notify, TypeOK, Event
<1>2. disk'[p] = NoFile /\ \A q \in Path : q # p => disk'[q] = disk[q]
  BY DEF Remove, TypeOK
<1>. HIDE DEF e
<1>3. ASSUME NEW q \in Path, disk'[q] # NoFile PROVE Delivered(q)'
  <2>1. q # p /\ disk'[q] = disk[q] /\ Delivered(q)
    BY <1>2, <1>3 DEF EveryFileIsDelivered
  <2>. QED
    BY <1>1, <2>1, OthersStayDelivered
<1>. QED
  BY <1>3 DEF EveryFileIsDelivered

\* The watcher stats a file that is there: the change it sends carries what the
\* file is now, so the last change of the path cannot be an outdated one.
LEMMA HandleEventDelivers ==
  ASSUME TypeOK, EveryFileIsDelivered, HandleEvent
  PROVE  EveryFileIsDelivered'
<1>. DEFINE e == Head(events)
<1>1. /\ events # <<>> /\ events \in Seq(Event) /\ chan \in Seq(Change)
      /\ events' = Tail(events) /\ UNCHANGED <<disk, files>>
      /\ e \in Event /\ e.path \in Path /\ e.gone \in BOOLEAN
  <2>1. /\ events # <<>> /\ events \in Seq(Event) /\ chan \in Seq(Change)
        /\ events' = Tail(events) /\ UNCHANGED <<disk, files>>
    BY DEF HandleEvent, TypeOK, user
  <2>2. Head(events) \in Event
    BY <2>1, HeadTailProperties
  <2>. QED
    BY <2>1, <2>2 DEF Event
<1>2. \/ UNCHANGED chan /\ (e.gone \/ disk[e.path] = NoFile)
      \/ \E c \in Change : /\ chan' = Append(chan, c) /\ c.path = e.path
                           /\ e.gone \/ c.mtime = disk[e.path]
  <2>1. ASSUME e.gone, Send([path |-> e.path, mtime |-> NoFile])
        PROVE  \E c \in Change : /\ chan' = Append(chan, c) /\ c.path = e.path
                                 /\ e.gone \/ c.mtime = disk[e.path]
    <3>1. [path |-> e.path, mtime |-> NoFile] \in Change
      BY <1>1 DEF Change
    <3>. QED
      BY <2>1, <3>1 DEF Send
  <2>2. ASSUME disk[e.path] # NoFile, Send([path |-> e.path, mtime |-> disk[e.path]])
        PROVE  \E c \in Change : /\ chan' = Append(chan, c) /\ c.path = e.path
                                 /\ e.gone \/ c.mtime = disk[e.path]
    <3>1. [path |-> e.path, mtime |-> disk[e.path]] \in Change
      BY <1>1 DEF Change, TypeOK
    <3>. QED
      BY <2>2, <3>1 DEF Send
  <2>. QED
    BY <2>1, <2>2 DEF HandleEvent
<1>. HIDE DEF e
<1>3. ASSUME NEW p \in Path, disk[p] # NoFile PROVE Delivered(p)'
  <2>1. Delivered(p)
    BY <1>3 DEF EveryFileIsDelivered
  <2>2. ASSUME Absent(events, p) PROVE Absent(events', p) /\ e.path # p
    BY <1>1, <2>2, TailKeepsLast, HeadTailProperties DEF Absent, e
  <2>3. CASE Notified(p)
    <3>1. PICK k \in 1 .. Len(events) : LastIn(events, k, p) /\ ~events[k].gone
      BY <2>3 DEF Notified
    <3>2. \/ k = 1 /\ events[k] = e /\ Absent(events', p)
          \/ /\ k - 1 \in 1 .. Len(events')
             /\ LastIn(events', k - 1, p) /\ events'[k - 1] = events[k]
      BY <1>1, <3>1, TailKeepsLast DEF e
    <3>3. CASE LastIn(events', k - 1, p) /\ events'[k - 1] = events[k]
                 /\ k - 1 \in 1 .. Len(events')
      BY <3>1, <3>3 DEF Delivered, Notified
    <3>4. CASE events[k] = e /\ Absent(events', p)
      <4>1. e.path = p /\ ~e.gone
        BY <3>1, <3>4 DEF LastIn
      <4>2. PICK c \in Change : /\ chan' = Append(chan, c) /\ c.path = p
                                /\ c.mtime = disk[p]
        BY <1>2, <1>3, <4>1
      <4>3. Announced(p)'
        BY <1>1, <4>2, AppendIsLast DEF Announced
      <4>. QED
        BY <3>4, <4>3 DEF Delivered
    <3>. QED
      BY <3>2, <3>3, <3>4
  <2>4. CASE Absent(events, p) /\ Announced(p)
    <3>1. Announced(p)'
      <4>1. CASE UNCHANGED chan
        BY <1>1, <2>4, <4>1 DEF Announced
      <4>2. CASE \E c \in Change : chan' = Append(chan, c) /\ c.path = e.path
        <5>1. PICK c \in Change : chan' = Append(chan, c) /\ c.path # p
          BY <2>2, <2>4, <4>2
        <5>2. \A k : LastIn(chan, k, p) => LastIn(chan', k, p) /\ chan'[k] = chan[k]
          BY <1>1, <5>1, AppendKeepsLast
        <5>3. Len(chan') = Len(chan) + 1 /\ Len(chan) \in Nat
          BY <1>1, <5>1
        <5>. QED
          BY <1>1, <2>4, <5>2, <5>3 DEF Announced
      <4>. QED
        BY <1>2, <4>1, <4>2
    <3>. QED
      BY <2>2, <2>4, <3>1 DEF Delivered
  <2>5. CASE /\ Absent(events, p) /\ Absent(chan, p)
             /\ files[p] # NoRow /\ files[p].mtime = disk[p]
    <3>1. Absent(chan', p)
      <4>1. CASE \E c \in Change : chan' = Append(chan, c) /\ c.path = e.path
        <5>1. PICK c \in Change : chan' = Append(chan, c) /\ c.path # p
          BY <2>2, <2>5, <4>1
        <5>. QED
          BY <1>1, <2>5, <5>1, AppendKeepsLast
      <4>. QED
        BY <1>2, <2>5, <4>1
    <3>. QED
      BY <1>1, <2>2, <2>5, <3>1 DEF Delivered
  <2>. QED
    BY <2>1, <2>3, <2>4, <2>5 DEF Delivered
<1>. QED
  BY <1>1, <1>3 DEF EveryFileIsDelivered

LEMMA ApplyChangeDelivers ==
  ASSUME TypeOK, EveryFileIsDelivered, ApplyChange
  PROVE  EveryFileIsDelivered'
<1>. DEFINE c == Head(chan)
<1>1. /\ chan # <<>> /\ chan \in Seq(Change)
      /\ chan' = Tail(chan) /\ UNCHANGED <<disk, events>>
      /\ c.path \in Path /\ c = chan[1] /\ 1 \in 1 .. Len(chan)
  BY HeadChange DEF ApplyChange, TypeOK, user
<1>2. /\ \A p \in Path : p # c.path => files'[p] = files[p]
      /\ c.mtime # NoFile => files'[c.path] # NoRow /\ files'[c.path].mtime = c.mtime
  <2>1. CASE c.mtime = NoFile
    BY <1>1, <2>1, DeleteRowType DEF ApplyChange
  <2>2. CASE c.mtime # NoFile
    BY <1>1, <2>2, HeadChange, UpsertType DEF ApplyChange
  <2>. QED
    BY <2>1, <2>2
<1>. HIDE DEF c
<1>3. ASSUME NEW p \in Path, disk[p] # NoFile PROVE Delivered(p)'
  <2>1. Delivered(p)
    BY <1>3 DEF EveryFileIsDelivered
  <2>2. CASE Notified(p)
    BY <1>1, <2>2 DEF Delivered, Notified
  <2>3. CASE Absent(events, p) /\ Announced(p)
    <3>1. PICK k \in 1 .. Len(chan) : LastIn(chan, k, p) /\ chan[k].mtime = disk[p]
      BY <2>3 DEF Announced
    <3>2. \/ k = 1 /\ chan[k] = c /\ Absent(chan', p)
          \/ /\ k - 1 \in 1 .. Len(chan')
             /\ LastIn(chan', k - 1, p) /\ chan'[k - 1] = chan[k]
      BY <1>1, <3>1, TailKeepsLast DEF c
    <3>3. CASE LastIn(chan', k - 1, p) /\ chan'[k - 1] = chan[k]
                 /\ k - 1 \in 1 .. Len(chan')
      <4>1. Announced(p)'
        BY <1>1, <3>1, <3>3 DEF Announced
      <4>. QED
        BY <1>1, <2>3, <4>1 DEF Delivered
    <3>4. CASE chan[k] = c /\ Absent(chan', p)
      <4>1. c.path = p /\ c.mtime = disk[p]
        BY <3>1, <3>4 DEF LastIn
      <4>. QED
        BY <1>1, <1>2, <1>3, <2>3, <3>4, <4>1 DEF Delivered
    <3>. QED
      BY <3>2, <3>3, <3>4
  <2>4. CASE /\ Absent(events, p) /\ Absent(chan, p)
             /\ files[p] # NoRow /\ files[p].mtime = disk[p]
    <3>1. c.path # p /\ Absent(chan', p)
      BY <1>1, <2>4, TailKeepsLast DEF Absent
    <3>. QED
      BY <1>1, <1>2, <2>4, <3>1 DEF Delivered
  <2>. QED
    BY <2>1, <2>2, <2>3, <2>4 DEF Delivered
<1>. QED
  BY <1>1, <1>3 DEF EveryFileIsDelivered

LEMMA NextDelivers ==
  ASSUME ~Renames, TypeOK, EveryFileIsDelivered, [Next]_vars
  PROVE  EveryFileIsDelivered'
<1>1. ASSUME NEW p \in Path, NEW q \in Path, Rename(p, q) PROVE FALSE
  BY <1>1 DEF Rename
<1>2. CASE UNCHANGED <<disk, events, chan, files>>
  BY <1>2 DEF EveryFileIsDelivered, Delivered, Notified, Announced
<1>3. CASE Scan \/ UNCHANGED vars
  BY <1>2, <1>3 DEF Scan, QueryBatch, SumBytes, Extract, StoreResult, Finish,
     vars, user, feed
<1>. QED
  BY <1>1, <1>3, WriteDelivers, RemoveDelivers, HandleEventDelivers,
     ApplyChangeDelivers DEF Next

LEMMA QuietMeansSearchable ==
  FreshInv /\ EveryFileIsDelivered => ReadableFilesAreSearchable
<1>. SUFFICES ASSUME FreshInv, EveryFileIsDelivered, NothingToDo, Budget = 0,
                     NEW p \in Path, Readable(p)
              PROVE  /\ files[p] # NoRow
                     /\ fts[files[p].id] = [path |-> p, version |-> disk[p]]
  BY DEF ReadableFilesAreSearchable
<1>1. events = <<>> /\ chan = <<>> /\ disk[p] # NoFile /\ disk[p] \notin Binary
  BY DEF NothingToDo, Readable
<1>2. ~Notified(p) /\ ~Announced(p)
  BY <1>1 DEF Notified, Announced
<1>3. files[p] # NoRow /\ files[p].mtime = disk[p]
  BY <1>1, <1>2 DEF EveryFileIsDelivered, Delivered
<1>4. ~Pending(p)
  BY DEF NothingToDo, FilesNeedingContent
<1>5. Settled(p)
  BY <1>3, <1>4 DEF Settled
<1>. QED
  BY <1>1, <1>3, <1>5, FreshImpliesCurrent DEF ExaminedIsCurrent

\* As long as files are not renamed and there is no budget, an index that has
\* nothing left to do holds the text of every readable file: the last event of
\* a path makes the watcher look at the file as it is, the last change of a
\* path carries what is on disk, and a row whose mtime moved on is a candidate
\* again (portable_source.go:142-177, scanner.go:16).
THEOREM QuietIndexIsSearchable ==
  ASSUME ~Renames PROVE Spec => []ReadableFilesAreSearchable
<1>1. Init => EveryFileIsDelivered
  BY DEF Init, EveryFileIsDelivered
<1>. QED
  BY <1>1, NextDelivers, FreshAlways, TypeCorrect, QuietMeansSearchable, PTL DEF Spec

-----------------------------------------------------------------------------
(* The budget.  Induction on natural numbers is by least counterexample:    *)
(* a nonempty set of natural numbers has a least element.                   *)

LEMMA LeastNat ==
  ASSUME NEW T, T \subseteq Nat, T # {}
  PROVE  \E x \in T : \A y \in T : x <= y
<1>. DEFINE R == {ss \in Nat \X Nat : ss[1] < ss[2]}
<1>1. IsWellFoundedOn(R, Nat)
  BY NatLessThanWellFounded DEF OpToRel
<1>. HIDE DEF R
<1>2. PICK x \in T : \A y \in T : ~(<<y, x>> \in R)
  BY <1>1, WFMin
<1>3. \A y \in T : ~(y < x)
  BY <1>2 DEF R
<1>. QED
  BY <1>3

\* g is the running sum of the first n values of f.
RunsUpTo(g, f, n) ==
  /\ g \in [0 .. n -> Nat] /\ g[0] = 0
  /\ \A i \in 1 .. n : g[i] = g[i - 1] + f[i]

LEMMA RunningSumExists ==
  ASSUME NEW f \in [Id -> Nat]
  PROVE  \E g : RunsUpTo(g, f, MaxOps)
<1>. DEFINE T == {n \in 0 .. MaxOps : ~\E g : RunsUpTo(g, f, n)}
<1>0. MaxOps \in Nat
  BY ConstantsAssumption
<1>1. SUFFICES ASSUME T # {} PROVE FALSE
  BY <1>0
<1>t. T \subseteq Nat
  OBVIOUS
<1>. HIDE DEF T
<1>2. PICK n \in T : \A m \in T : n <= m
  BY <1>1, <1>t, LeastNat
<1>3. n \in 0 .. MaxOps /\ ~\E g : RunsUpTo(g, f, n)
  BY <1>2 DEF T
<1>4. CASE n = 0
  <2>. DEFINE g == [i \in 0 .. 0 |-> 0]
  <2>1. RunsUpTo(g, f, 0)
    BY DEF RunsUpTo
  <2>. QED
    BY <1>3, <1>4, <2>1
<1>5. CASE n # 0
  <2>1. n \in Nat /\ n - 1 \in 0 .. MaxOps /\ n \in Id /\ f[n] \in Nat
    BY <1>0, <1>3, <1>5 DEF Id
  <2>2. n - 1 \notin T
    BY <1>2, <1>t, <2>1
  <2>3. PICK h : RunsUpTo(h, f, n - 1)
    BY <2>1, <2>2 DEF T
  <2>. DEFINE g == [i \in 0 .. n |-> IF i = n THEN h[n - 1] + f[n] ELSE h[i]]
  <2>4. h \in [0 .. n - 1 -> Nat] /\ h[0] = 0
        /\ \A i \in 1 .. n - 1 : h[i] = h[i - 1] + f[i]
    BY <2>3 DEF RunsUpTo
  <2>5. g \in [0 .. n -> Nat] /\ g[0] = 0
    BY <1>5, <2>1, <2>4
  <2>6. ASSUME NEW i \in 1 .. n PROVE g[i] = g[i - 1] + f[i]
    <3>1. i \in 0 .. n /\ i - 1 \in 0 .. n /\ i - 1 # n
      BY <2>1
    <3>2. CASE i = n
      BY <3>1, <3>2
    <3>3. CASE i # n
      <4>1. i \in 1 .. n - 1
        BY <2>1, <3>3
      <4>. QED
        BY <2>4, <3>1, <3>3, <4>1
    <3>. QED
      BY <3>2, <3>3
  <2>7. RunsUpTo(g, f, n)
    BY <2>5, <2>6 DEF RunsUpTo
  <2>. QED
    BY <1>3, <2>7
<1>. QED
  BY <1>4, <1>5

LEMMA SumIsRunning ==
  ASSUME NEW f \in [Id -> Nat]
  PROVE  \E g : RunsUpTo(g, f, MaxOps) /\ SumOf(f) = g[MaxOps]
<1>. DEFINE Step(u) == [i \in 0 .. MaxOps |-> IF i = 0 THEN 0 ELSE u[i - 1] + f[i]]
            u == CHOOSE v : v = Step(v)
<1>0. MaxOps \in Nat
  BY ConstantsAssumption
<1>1. PICK g : RunsUpTo(g, f, MaxOps)
  BY RunningSumExists
<1>2. g = Step(g)
  <2>1. /\ g \in [0 .. MaxOps -> Nat] /\ g[0] = 0
        /\ \A i \in 1 .. MaxOps : g[i] = g[i - 1] + f[i]
    BY <1>1 DEF RunsUpTo
  <2>2. \A i \in 0 .. MaxOps : g[i] = Step(g)[i]
    BY <1>0, <2>1
  <2>. QED
    BY <2>1, <2>2
<1>3. u = Step(u)
  BY <1>2
<1>4. SumOf(f) = u[MaxOps]
  BY DEF SumOf
<1>. HIDE DEF u
<1>5. /\ DOMAIN u = 0 .. MaxOps
      /\ \A i \in 0 .. MaxOps : u[i] = IF i = 0 THEN 0 ELSE u[i - 1] + f[i]
  BY <1>3
<1>6. \A i \in 0 .. MaxOps : u[i] \in Nat
  <2>. DEFINE T == {i \in 0 .. MaxOps : u[i] \notin Nat}
  <2>1. SUFFICES ASSUME T # {} PROVE FALSE
    OBVIOUS
  <2>t. T \subseteq Nat
    OBVIOUS
  <2>. HIDE DEF T
  <2>2. PICK n \in T : \A m \in T : n <= m
    BY <2>1, <2>t, LeastNat
  <2>3. n \in 0 .. MaxOps /\ u[n] \notin Nat
    BY <2>2 DEF T
  <2>4. n # 0
    BY <1>5, <2>3
  <2>5. n - 1 \in 0 .. MaxOps /\ n \in Id /\ n - 1 \notin T
    BY <1>0, <2>t, <2>2, <2>3, <2>4 DEF Id
  <2>6. u[n - 1] \in Nat /\ f[n] \in Nat
    BY <2>5 DEF T
  <2>. QED
    BY <1>5, <2>3, <2>4, <2>6
<1>7. RunsUpTo(u, f, MaxOps)
  <2>1. u \in [0 .. MaxOps -> Nat]
    BY <1>3, <1>6
  <2>. QED
    BY <1>0, <1>5, <2>1 DEF RunsUpTo
<1>. QED
  BY <1>4, <1>7

\* Where one value grows by at most d and none of the others grows, the sum
\* grows by at most d.
LEMMA SumGrowsBy ==
  ASSUME NEW f \in [Id -> Nat], NEW h \in [Id -> Nat], NEW k \in Id, NEW d \in Nat,
         \A i \in Id : i # k => h[i] <= f[i], h[k] <= f[k] + d
  PROVE  /\ SumOf(f) \in Nat /\ SumOf(h) \in Nat
         /\ SumOf(h) <= SumOf(f) + d
<1>0. MaxOps \in Nat
  BY ConstantsAssumption
<1>1. PICK a : RunsUpTo(a, f, MaxOps) /\ SumOf(f) = a[MaxOps]
  BY SumIsRunning
<1>2. PICK b : RunsUpTo(b, h, MaxOps) /\ SumOf(h) = b[MaxOps]
  BY SumIsRunning
<1>. DEFINE Allowed(n) == IF k <= n THEN d ELSE 0
<1>3. /\ a \in [0 .. MaxOps -> Nat] /\ a[0] = 0
      /\ \A i \in 1 .. MaxOps : a[i] = a[i - 1] + f[i]
      /\ b \in [0 .. MaxOps -> Nat] /\ b[0] = 0
      /\ \A i \in 1 .. MaxOps : b[i] = b[i - 1] + h[i]
  BY <1>1, <1>2 DEF RunsUpTo
<1>4. \A n \in 0 .. MaxOps : b[n] <= a[n] + Allowed(n)
  <2>. DEFINE T == {n \in 0 .. MaxOps : ~(b[n] <= a[n] + Allowed(n))}
  <2>1. SUFFICES ASSUME T # {} PROVE FALSE
    OBVIOUS
  <2>t. T \subseteq Nat
    OBVIOUS
  <2>. HIDE DEF T
  <2>2. PICK n \in T : \A m \in T : n <= m
    BY <2>1, <2>t, LeastNat
  <2>3. n \in 0 .. MaxOps /\ ~(b[n] <= a[n] + Allowed(n))
    BY <2>2 DEF T
  <2>4. n # 0
    BY <1>3, <2>3
  <2>5. n - 1 \in 0 .. MaxOps /\ n \in 1 .. MaxOps /\ n - 1 \notin T
    BY <1>0, <2>t, <2>2, <2>3, <2>4
  <2>6. b[n - 1] <= a[n - 1] + Allowed(n - 1)
    BY <2>5 DEF T
  <2>7. /\ a[n] = a[n - 1] + f[n] /\ b[n] = b[n - 1] + h[n]
        /\ a[n - 1] \in Nat /\ b[n - 1] \in Nat /\ f[n] \in Nat /\ h[n] \in Nat
    BY <1>3, <2>5 DEF Id
  <2>8. CASE n = k
    BY <2>3, <2>6, <2>7, <2>8
  <2>9. CASE n # k
    <3>1. h[n] <= f[n] /\ Allowed(n - 1) = Allowed(n) /\ Allowed(n) \in Nat
      BY <2>5, <2>9 DEF Id
    <3>. HIDE DEF Allowed
    <3>. QED
      BY <2>3, <2>6, <2>7, <3>1
  <2>. QED
    BY <2>8, <2>9
<1>5. k <= MaxOps /\ MaxOps \in 0 .. MaxOps
  BY <1>0 DEF Id
<1>6. b[MaxOps] <= a[MaxOps] + d /\ a[MaxOps] \in Nat /\ b[MaxOps] \in Nat
  BY <1>3, <1>4, <1>5
<1>. QED
  BY <1>1, <1>2, <1>6

Sizes == [i \in Id |-> IF Indexed(i) THEN meta[i].bytes ELSE 0]

\* Until the batch replaces a text, the running total is at least what is stored.
TotalCovers ==
  /\ total \in Nat
  /\ pc \in {"extract", "store"} /\ ~replaced => ContentBytes <= total

LEMMA SizesType ==
  ASSUME TypeOK
  PROVE  Sizes \in [Id -> Nat] /\ ContentBytes = SumOf(Sizes)
<1>1. ASSUME NEW i \in Id, Indexed(i) PROVE meta[i].bytes \in Nat
  <2>1. meta[i] \in Meta
    BY <1>1 DEF Indexed, TypeOK
  <2>. QED
    BY <2>1 DEF Meta
<1>2. Sizes \in [Id -> Nat]
  BY <1>1 DEF Sizes
<1>3. ContentBytes = SumOf(Sizes)
  BY DEF ContentBytes, Sizes
<1>. QED
  BY <1>2, <1>3

\* A step that makes at most one entry of content_meta larger, by at most d.
LEMMA StoreGrowsBy ==
  ASSUME TypeOK, TypeOK', NEW k \in Id, NEW d \in Nat,
         \A i \in Id : i # k => Sizes'[i] <= Sizes[i], Sizes'[k] <= Sizes[k] + d
  PROVE  /\ ContentBytes \in Nat /\ ContentBytes' \in Nat
         /\ ContentBytes' <= ContentBytes + d
<1>1. Sizes \in [Id -> Nat] /\ ContentBytes = SumOf(Sizes)
  BY SizesType
<1>2. Sizes' \in [Id -> Nat] /\ ContentBytes' = SumOf(Sizes')
  <2>1. \A i \in Id : Indexed(i)' => meta'[i].bytes \in Nat
    BY DEF Indexed, TypeOK, Meta
  <2>2. Sizes' \in [Id -> Nat]
    BY <2>1 DEF Sizes
  <2>3. ContentBytes' = SumOf(Sizes')
    BY DEF ContentBytes, Sizes
  <2>. QED
    BY <2>2, <2>3
<1>. DEFINE f == Sizes
            h == Sizes'
<1>3. f \in [Id -> Nat] /\ h \in [Id -> Nat]
  BY <1>1, <1>2
<1>4. \A i \in Id : i # k => h[i] <= f[i]
  OBVIOUS
<1>5. h[k] <= f[k] + d
  OBVIOUS
<1>6. /\ SumOf(f) \in Nat /\ SumOf(h) \in Nat /\ SumOf(h) <= SumOf(f) + d
  <2>. HIDE DEF f, h
  <2>. QED
    BY <1>3, <1>4, <1>5, SumGrowsBy
<1>. QED
  BY <1>1, <1>2, <1>6

LEMMA ContentBytesType == ASSUME TypeOK PROVE ContentBytes \in Nat
<1>1. Sizes \in [Id -> Nat] /\ ContentBytes = SumOf(Sizes)
  BY SizesType
<1>2. PICK g : RunsUpTo(g, Sizes, MaxOps) /\ SumOf(Sizes) = g[MaxOps]
  BY <1>1, SumIsRunning
<1>3. MaxOps \in 0 .. MaxOps
  BY ConstantsAssumption
<1>. QED
  BY <1>1, <1>2, <1>3 DEF RunsUpTo

\* Storing a text adds at most its length to what is stored.
LEMMA StoreTextGrows ==
  ASSUME TypeOK, TypeOK', NEW c \in batch, pc = "store", StoreText(c), Finish(c)
  PROVE  /\ TextLen[text] \in Nat
         /\ ContentBytes \in Nat /\ ContentBytes' \in Nat
         /\ ContentBytes' <= ContentBytes + TextLen[text]
<1>. DEFINE d == TextLen[text]
<1>1. /\ c.id \in Id /\ \A i \in Id : i # c.id => meta'[i] = meta[i]
  BY StoreResultEffect DEF Candidate
<1>2. \A i \in Id : Sizes[i] \in Nat /\ (i # c.id => Sizes'[i] <= Sizes[i])
  <2>1. \A i \in Id : Sizes[i] \in Nat
    BY SizesType
  <2>2. \A i \in Id : i # c.id => Sizes'[i] = Sizes[i]
    BY <1>1 DEF Sizes, Indexed
  <2>. QED
    BY <2>1, <2>2
<1>3. d \in Nat
  BY ConstantsAssumption DEF StoreText, TypeOK
<1>4. meta'[c.id].bytes = d
  BY <1>1 DEF StoreText, IndexContent, TypeOK
<1>5. Sizes'[c.id] <= Sizes[c.id] + d
  BY <1>1, <1>2, <1>3, <1>4 DEF Sizes
<1>. QED
  BY <1>1, <1>2, <1>3, <1>5, StoreGrowsBy

LEMMA NextTotalCovers ==
  TypeOK /\ TotalCovers /\ [Next]_vars => TotalCovers'
<1>. SUFFICES ASSUME TypeOK, TotalCovers, [Next]_vars PROVE TotalCovers'
  OBVIOUS
<1>t. TypeOK'
  BY NextTypeOK
<1>1. CASE UNCHANGED <<meta, pc, total, replaced>>
  BY <1>1 DEF TotalCovers, ContentBytes, Indexed
<1>2. CASE ApplyChange
  <2>1. UNCHANGED <<pc, total, replaced>> /\ chan # <<>>
    BY <1>2 DEF ApplyChange, scanner
  <2>2. \A i \in Id : meta'[i] = meta[i] \/ meta'[i] = NoMeta
    <3>1. ASSUME NEW p \in Path, DeleteRow(p)
          PROVE  \A i \in Id : meta'[i] = meta[i] \/ meta'[i] = NoMeta
      BY <3>1, DeleteRowType
    <3>2. ASSUME NEW p \in Path, NEW m \in Version, Upsert(p, m)
          PROVE  \A i \in Id : meta'[i] = meta[i] \/ meta'[i] = NoMeta
      BY <3>2, UpsertType DEF content
    <3>. QED
      BY <1>2, <2>1, <3>1, <3>2, HeadChange DEF ApplyChange
  <2>3. CASE \E i \in Id : TRUE
    <3>1. PICK k \in Id : TRUE
      BY <2>3
    <3>2. \A i \in Id : Sizes[i] \in Nat /\ Sizes'[i] <= Sizes[i]
      <4>1. \A i \in Id : Sizes[i] \in Nat
        BY SizesType
      <4>2. \A i \in Id : Sizes'[i] = Sizes[i] \/ Sizes'[i] = 0
        BY <2>2 DEF Sizes, Indexed
      <4>. QED
        BY <4>1, <4>2
    <3>3. ContentBytes \in Nat /\ ContentBytes' \in Nat /\ ContentBytes' <= ContentBytes + 0
      BY <1>t, <3>1, <3>2, StoreGrowsBy
    <3>. QED
      BY <2>1, <3>3 DEF TotalCovers
  <2>4. CASE Id = {}
    <3>1. Sizes' = Sizes
      BY <2>4 DEF Sizes
    <3>2. ContentBytes' = ContentBytes
      BY <3>1 DEF ContentBytes, Sizes
    <3>. QED
      BY <2>1, <3>2 DEF TotalCovers
  <2>. QED
    BY <2>3, <2>4
<1>3. CASE QueryBatch
  BY <1>3 DEF QueryBatch, TotalCovers
<1>4. CASE SumBytes
  <2>1. total' = ContentBytes /\ UNCHANGED meta
    BY <1>4 DEF SumBytes, content
  <2>2. ContentBytes' = ContentBytes /\ ContentBytes \in Nat
    BY <2>1, ContentBytesType DEF ContentBytes, Indexed
  <2>. QED
    BY <2>1, <2>2 DEF TotalCovers
<1>5. CASE Extract
  <2>1. UNCHANGED <<meta, total, replaced>> /\ pc = "extract"
    BY <1>5 DEF Extract, content
  <2>2. ContentBytes' = ContentBytes
    BY <2>1 DEF ContentBytes, Indexed
  <2>. QED
    BY <2>1, <2>2 DEF TotalCovers
<1>6. CASE StoreResult
  <2>1. PICK c \in batch : /\ pc = "store" /\ IsCurrent(c)
                           /\ SkipUnreadable(c) \/ SkipOverBudget(c) \/ StoreText(c)
                           /\ Finish(c)
    BY <1>6 DEF StoreResult
  <2>2. /\ c.id \in Id /\ c.wasIndexed \in BOOLEAN
        /\ \A i \in Id : i # c.id => meta'[i] = meta[i]
    BY <2>1, StoreResultEffect DEF Candidate
  <2>3. \A i \in Id : Sizes[i] \in Nat /\ (i # c.id => Sizes'[i] <= Sizes[i])
    <3>1. \A i \in Id : Sizes[i] \in Nat
      BY SizesType
    <3>2. \A i \in Id : i # c.id => Sizes'[i] = Sizes[i]
      BY <2>2 DEF Sizes, Indexed
    <3>. QED
      BY <3>1, <3>2
  <2>4. CASE SkipUnreadable(c) \/ SkipOverBudget(c)
    <3>1. /\ UNCHANGED <<total, replaced>>
          /\ meta'[c.id].why # "text"
      BY <2>2, <2>4 DEF SkipUnreadable, SkipOverBudget, MarkContentSkipped, TypeOK
    <3>2. Sizes'[c.id] <= Sizes[c.id] + 0
      BY <2>2, <2>3, <3>1 DEF Sizes, Indexed
    <3>3. ContentBytes \in Nat /\ ContentBytes' \in Nat /\ ContentBytes' <= ContentBytes + 0
      BY <1>t, <2>2, <2>3, <3>2, StoreGrowsBy
    <3>. QED
      BY <2>1, <3>1, <3>3 DEF TotalCovers
  <2>5. CASE StoreText(c)
    <3>. DEFINE d == TextLen[text]
    <3>1. d \in Nat
      BY <2>5, ConstantsAssumption DEF StoreText, TypeOK
    <3>2. /\ total' = IF c.wasIndexed THEN total ELSE total + d
          /\ replaced' = (replaced \/ c.wasIndexed)
      BY <2>5 DEF StoreText
    <3>4. ContentBytes \in Nat /\ ContentBytes' \in Nat /\ ContentBytes' <= ContentBytes + d
      BY <1>t, <2>1, <2>5, StoreTextGrows
    <3>5. total' \in Nat
      BY <3>1, <3>2 DEF TotalCovers
    <3>6. ASSUME ~replaced' PROVE ContentBytes' <= total'
      <4>1. ~replaced /\ ~c.wasIndexed
        BY <3>2, <3>6
      <4>2. ContentBytes <= total /\ total \in Nat /\ total' = total + d
        BY <2>1, <3>2, <4>1 DEF TotalCovers
      <4>. QED
        BY <3>1, <3>4, <4>2
    <3>. QED
      BY <3>5, <3>6 DEF TotalCovers
  <2>. QED
    BY <2>1, <2>4, <2>5
<1>7. CASE HandleEvent \/ UNCHANGED vars
  BY <1>1, <1>7 DEF HandleEvent, vars, content, scanner
<1>8. ASSUME NEW p \in Path, NEW q \in Path, Write(p) \/ Remove(p) \/ Rename(p, q)
      PROVE TotalCovers'
  BY <1>1, <1>8 DEF Write, Remove, Rename, Notify, content, scanner
<1>. QED
  BY <1>2, <1>3, <1>4, <1>5, <1>6, <1>7, <1>8 DEF Next, Scan

LEMMA StoreRespectsBudget ==
  TypeOK /\ UniqueIds /\ TotalCovers /\ [Next]_vars =>
    \A i \in Id : (StoresNewFile(i) /\ Budget > 0 /\ ~replaced)
                    => ContentBytes' <= Budget
<1>. SUFFICES ASSUME TypeOK, UniqueIds, TotalCovers, [Next]_vars, NEW i \in Id,
                     StoresNewFile(i), Budget > 0, ~replaced
              PROVE  ContentBytes' <= Budget
  OBVIOUS
<1>1. TypeOK' /\ TotalCovers'
  BY NextTypeOK, NextTotalCovers
<1>2. StoreResult
  <2>1. pc = "store" /\ pc' # "store"
    BY DEF StoresNewFile
  <2>. QED
    BY <2>1 DEF Next, Scan, QueryBatch, SumBytes, Extract, HandleEvent, ApplyChange,
       Write, Remove, Rename, Notify, vars, scanner
<1>3. PICK c \in batch : /\ pc = "store" /\ IsCurrent(c)
                         /\ SkipUnreadable(c) \/ SkipOverBudget(c) \/ StoreText(c)
                         /\ Finish(c)
  BY <1>2 DEF StoreResult
<1>4. c \in Candidate /\ c.id \in Id
  BY <1>3, StoreResultEffect DEF Candidate
<1>5. PICK e \in batch : IsCurrent(e) /\ e.id = i /\ ~e.wasIndexed /\ fts'[i] # NoText
  BY DEF StoresNewFile
<1>6. e.id = c.id /\ c.id = i
  <2>1. e.id \in Id /\ c.id <= e.id /\ e.id <= c.id
    BY <1>3, <1>5 DEF IsCurrent
  <2>. QED
    BY <1>4, <1>5, <2>1 DEF Id
<1>7. ~c.wasIndexed /\ fts'[c.id] # NoText
  BY <1>5, <1>6 DEF UniqueIds
<1>8. StoreText(c)
  BY <1>3, <1>4, <1>7 DEF SkipUnreadable, SkipOverBudget, MarkContentSkipped, TypeOK
<1>9. /\ TextLen[text] \in Nat /\ ContentBytes \in Nat /\ ContentBytes' \in Nat
      /\ ContentBytes' <= ContentBytes + TextLen[text]
  BY <1>1, <1>3, <1>8, StoreTextGrows
<1>10. Budget \in Nat /\ total \in Nat /\ ContentBytes <= total
  BY <1>3, ConstantsAssumption DEF TotalCovers
<1>11. total + TextLen[text] <= Budget
  BY <1>7, <1>8, <1>9, <1>10 DEF StoreText, OverBudget
<1>. QED
  BY <1>9, <1>10, <1>11

\* A text stored for a file that had none keeps the index within its budget, as
\* long as the batch replaced no other text since the bytes were summed: rows the
\* consumer deletes meanwhile, and ids that come back, only make the sum smaller
\* than the total the scanner goes by (scanner.go:60, 65 and 89).
THEOREM BudgetIsRespected == Spec => NewFilesRespectBudget
<1>1. Init => TotalCovers
  BY DEF Init, TotalCovers
<1>2. TypeOK /\ UniqueIds /\ TotalCovers /\ [Next]_vars =>
        [\A i \in Id : (StoresNewFile(i) /\ Budget > 0 /\ ~replaced)
                         => ContentBytes' <= Budget]_vars
  BY StoreRespectsBudget
<1>. QED
  BY <1>1, <1>2, NextTotalCovers, TypeCorrect, IdsAreUnique, PTL
  DEF Spec, NewFilesRespectBudget
=============================================================================
