---------------------------- MODULE ContentIndex ----------------------------
(***************************************************************************)
(* The content index of fw-indexer: the three SQLite tables the scanner    *)
(* shares with the watcher (files, content_fts, content_meta), the watcher *)
(* that turns file-system notifications into changes, the consumer that    *)
(* applies them, and the background scanner that extracts text.            *)
(*                                                                         *)
(* Four actors interleave.  The user edits, removes and renames files; the *)
(* watcher stats a path some time after it changed; the consumer applies   *)
(* that entry some time after the stat; the scanner works through a batch  *)
(* of candidates it read from the store earlier.  Every statement on the   *)
(* store is one step (one connection, one transaction); between two        *)
(* statements of one actor any other actor may run.                        *)
(*                                                                         *)
(* A version is a number stamped on every write.  It stands for both the   *)
(* bytes of the file and its mtime in nanoseconds: a write changes both,   *)
(* a rename carries both to the new name.                                  *)
(***************************************************************************)
EXTENDS Naturals, Sequences, FiniteSets

CONSTANTS
  Path,       \* the file names the user works with
  MaxOps,     \* BOUND: how many writes, removals and renames the user makes
  MaxEvents,  \* BOUND: notifications not yet handled by the watcher
  ChanCap,    \* capacity of the change channel (256 in the code)
  Binary,     \* versions the extractor rejects (binary, too large, ...)
  TextLen,    \* bytes of searchable text of every other version
  Budget,     \* total bytes of text the index may hold; 0 is unlimited
  BatchSize,  \* candidates the scanner reads per iteration (32 in the code)
  Renames,    \* whether the user renames files
  NoFile, NoRow, NoMeta, NoText, Unreadable

Version == 1 .. MaxOps

\* Every row the consumer inserts answers one operation of the user and takes
\* the id after the largest one in use, so no id exceeds MaxOps.
Id == 1 .. MaxOps

ASSUME ConstantsAssumption ==
  /\ MaxOps \in Nat /\ MaxEvents \in Nat /\ ChanCap \in Nat \ {0}
  /\ Binary \subseteq Version
  /\ TextLen \in [Version -> Nat]
  /\ Budget \in Nat /\ BatchSize \in Nat \ {0}
  /\ Renames \in BOOLEAN
  /\ NoFile \notin Version /\ Unreadable \notin Version

Row       == [id : Id, mtime : Version]
Text      == [path : Path, version : Version]
\* The code records only whether text was indexed; why it was not is history.
Reason    == {"text", "unreadable", "budget"}
Meta      == [mtime : Version, why : Reason, bytes : Nat]
Candidate == [id : Id, path : Path, mtime : Version, wasIndexed : BOOLEAN]
Event     == [path : Path, gone : BOOLEAN]
Change    == [path : Path, mtime : Version \cup {NoFile}]

ASSUME SentinelAssumption ==
  /\ NoRow \notin Row /\ NoMeta \notin Meta /\ NoText \notin Text

VARIABLES
  disk,     \* disk[p]: the version of the file at p, or NoFile
  writer,   \* writer[v]: the path version v was written at (Len is the clock)
  ops,      \* operations the user has made
  events,   \* file-system notifications the watcher has yet to handle
  chan,     \* changes the consumer has yet to apply
  files,    \* table files, by path: the row's id and mtime, or NoRow
  fts,      \* table content_fts, by rowid: whose text it holds, or NoText
  meta,     \* table content_meta, by file_id, or NoMeta
  pc,       \* what the scanner does next
  batch,    \* the candidates it still has to examine
  total,    \* its running estimate of the indexed bytes
  text,     \* what extracting the current candidate gave
  replaced  \* whether it replaced the text of a file since total was read

user    == <<disk, writer, ops>>
feed    == <<events, chan>>
content == <<fts, meta>>
scanner == <<pc, batch, total, text, replaced>>
vars    == <<user, feed, files, content, scanner>>

\* total, a sum over content_meta, is only ever added to and compared.
TypeOK ==
  /\ disk \in [Path -> Version \cup {NoFile}]
  /\ writer \in Seq(Path) /\ Len(writer) <= ops
  /\ ops \in 0 .. MaxOps
  /\ events \in Seq(Event)
  /\ chan \in Seq(Change)
  /\ files \in [Path -> Row \cup {NoRow}]
  /\ fts \in [Id -> Text \cup {NoText}]
  /\ meta \in [Id -> Meta \cup {NoMeta}]
  /\ pc \in {"query", "sum", "extract", "store"}
  /\ batch \subseteq Candidate
  /\ text \in Version \cup {Unreadable}
  /\ replaced \in BOOLEAN

-----------------------------------------------------------------------------
(* The store.                                                              *)

LiveIds == {files[p].id : p \in {q \in Path : files[q] # NoRow}}

\* SQLite numbers a new row one above the largest rowid in use.  The column is
\* INTEGER PRIMARY KEY without AUTOINCREMENT: ids of deleted rows come back.
IsNextId(i) ==
  /\ \A j \in LiveIds : j < i
  /\ i = 1 \/ i - 1 \in LiveIds

\* INSERT ... ON CONFLICT(path) DO UPDATE: an existing row keeps its id.
Upsert(p, m) ==
  \E i \in Id :
    /\ IF files[p] = NoRow THEN IsNextId(i) ELSE i = files[p].id
    /\ files' = [files EXCEPT ![p] = [id |-> i, mtime |-> m]]
    /\ UNCHANGED content

\* DELETE FROM files, and the trigger that cascades to the content tables.
DeleteRow(p) ==
  /\ files' = [files EXCEPT ![p] = NoRow]
  /\ IF files[p] = NoRow
     THEN UNCHANGED content
     ELSE /\ fts'  = [fts  EXCEPT ![files[p].id] = NoText]
          /\ meta' = [meta EXCEPT ![files[p].id] = NoMeta]

Indexed(i) == meta[i] # NoMeta /\ meta[i].why = "text"

IndexContent(i, p, v, m) ==
  /\ fts'  = [fts  EXCEPT ![i] = [path |-> p, version |-> v]]
  /\ meta' = [meta EXCEPT ![i] =
                 [mtime |-> m, why |-> "text", bytes |-> TextLen[v]]]

\* Mutations: the old text is left behind; the file is not marked as examined.
SkippedKeepsText(i, m, reason) ==
  /\ UNCHANGED fts
  /\ meta' = [meta EXCEPT ![i] = [mtime |-> m, why |-> reason, bytes |-> 0]]
SkippedUnmarked(i, m, reason) ==
  /\ fts' = [fts EXCEPT ![i] = NoText]
  /\ UNCHANGED meta

MarkContentSkipped(i, m, reason) ==
  /\ fts'  = [fts  EXCEPT ![i] = NoText]
  /\ meta' = [meta EXCEPT ![i] = [mtime |-> m, why |-> reason, bytes |-> 0]]

SumOf(f) ==
  LET upTo[i \in 0 .. MaxOps] == IF i = 0 THEN 0 ELSE upTo[i - 1] + f[i]
  IN  upTo[MaxOps]

\* SUM(body_bytes) over the indexed rows of content_meta.
ContentBytes == SumOf([i \in Id |-> IF Indexed(i) THEN meta[i].bytes ELSE 0])

\* Mutation: only files never examined are candidates.
PendingNew(p) == files[p] # NoRow /\ meta[files[p].id] = NoMeta

\* A row whose content has not been examined at its current mtime.
Pending(p) ==
  /\ files[p] # NoRow
  /\ \/ meta[files[p].id] = NoMeta
     \/ meta[files[p].id].mtime # files[p].mtime

FilesNeedingContent ==
  {[id |-> files[p].id, path |-> p, mtime |-> files[p].mtime,
    wasIndexed |-> Indexed(files[p].id)] : p \in {q \in Path : Pending(q)}}

-----------------------------------------------------------------------------
(* The user, and the notifications the kernel queues.  A rename queues the *)
(* old name as gone and the new name as created.                           *)

Init ==
  /\ disk = [p \in Path |-> NoFile]
  /\ writer = <<>> /\ ops = 0
  /\ events = <<>> /\ chan = <<>>
  /\ files = [p \in Path |-> NoRow]
  /\ fts = [i \in Id |-> NoText] /\ meta = [i \in Id |-> NoMeta]
  /\ pc = "query" /\ batch = {} /\ total = 0 /\ text = Unreadable
  /\ replaced = FALSE

Notify(s) ==
  /\ ops < MaxOps /\ ops' = ops + 1
  /\ Len(events) + Len(s) <= MaxEvents
  /\ events' = events \o s
  /\ UNCHANGED <<chan, files, content, scanner>>

Write(p) ==
  /\ disk' = [disk EXCEPT ![p] = Len(writer) + 1]
  /\ writer' = Append(writer, p)
  /\ Notify(<<[path |-> p, gone |-> FALSE]>>)

Remove(p) ==
  /\ disk[p] # NoFile
  /\ disk' = [disk EXCEPT ![p] = NoFile]
  /\ Notify(<<[path |-> p, gone |-> TRUE]>>)
  /\ UNCHANGED writer

Rename(p, q) ==
  /\ Renames /\ p # q /\ disk[p] # NoFile
  /\ disk' = [disk EXCEPT ![p] = NoFile, ![q] = disk[p]]
  /\ Notify(<<[path |-> p, gone |-> TRUE], [path |-> q, gone |-> FALSE]>>)
  /\ UNCHANGED writer

-----------------------------------------------------------------------------
(* The watcher stats the path when it handles the event, not when the      *)
(* event happened; the change it sends carries what it saw.                *)

Send(c) ==
  /\ Len(chan) < ChanCap
  /\ chan' = Append(chan, c)

HandleEvent ==
  /\ events # <<>>
  /\ LET e == Head(events) IN
       \/ e.gone /\ Send([path |-> e.path, mtime |-> NoFile])
       \/ /\ ~e.gone /\ disk[e.path] # NoFile
          /\ Send([path |-> e.path, mtime |-> disk[e.path]])
       \/ ~e.gone /\ disk[e.path] = NoFile /\ UNCHANGED chan
  /\ events' = Tail(events)
  /\ UNCHANGED <<user, files, content, scanner>>

ApplyChange ==
  /\ chan # <<>>
  /\ LET c == Head(chan) IN
       IF c.mtime = NoFile THEN DeleteRow(c.path) ELSE Upsert(c.path, c.mtime)
  /\ chan' = Tail(chan)
  /\ UNCHANGED <<user, events, scanner>>

-----------------------------------------------------------------------------
(* The scanner: query a batch, sum the indexed bytes once, then examine    *)
(* the candidates one by one in id order.                                  *)

QueryBatch ==
  /\ pc = "query"
  /\ FilesNeedingContent # {}
  /\ \E b \in SUBSET FilesNeedingContent :
       /\ b # {} /\ Cardinality(b) <= BatchSize
       /\ Cardinality(b) = BatchSize \/ b = FilesNeedingContent
       /\ \A c \in b, d \in FilesNeedingContent \ b : c.id < d.id
       /\ batch' = b
  /\ pc' = "sum"
  /\ UNCHANGED <<user, feed, files, content, total, text, replaced>>

SumBytes ==
  /\ pc = "sum"
  /\ total' = ContentBytes /\ replaced' = FALSE
  /\ pc' = "extract"
  /\ UNCHANGED <<user, feed, files, content, batch, text>>

IsCurrent(c) == c \in batch /\ \A d \in batch : c.id <= d.id

Readable(p) == disk[p] # NoFile /\ disk[p] \notin Binary

\* Mutation: a file that is gone is read all the same.
ExtractAnything ==
  /\ pc = "extract"
  /\ \E c \in batch : IsCurrent(c) /\ text' = disk[c.path]
  /\ pc' = "store"
  /\ UNCHANGED <<user, feed, files, content, batch, total, replaced>>

Extract ==
  /\ pc = "extract"
  /\ \E c \in batch :
       /\ IsCurrent(c)
       /\ text' = IF Readable(c.path) THEN disk[c.path] ELSE Unreadable
  /\ pc' = "store"
  /\ UNCHANGED <<user, feed, files, content, batch, total, replaced>>

Finish(c) ==
  /\ batch' = batch \ {c}
  /\ pc' = IF batch = {c} THEN "query" ELSE "extract"
  /\ text' = Unreadable
  /\ UNCHANGED <<user, feed, files>>

OverBudget(c) ==
  Budget > 0 /\ ~c.wasIndexed /\ total + TextLen[text] > Budget

SkipUnreadable(c) ==
  /\ text = Unreadable
  /\ MarkContentSkipped(c.id, c.mtime, "unreadable")
  /\ UNCHANGED <<total, replaced>>

SkipOverBudget(c) ==
  /\ text # Unreadable /\ OverBudget(c)
  /\ MarkContentSkipped(c.id, c.mtime, "budget")
  /\ UNCHANGED <<total, replaced>>

\* Mutations: the text is recorded under the mtime the row has by now; the
\* running total is not kept.
StoreAsCurrent(c) ==
  /\ text # Unreadable /\ ~OverBudget(c)
  /\ \E m \in Version :
       /\ m = IF files[c.path] = NoRow THEN c.mtime ELSE files[c.path].mtime
       /\ IndexContent(c.id, c.path, text, m)
  /\ total' = IF c.wasIndexed THEN total ELSE total + TextLen[text]
  /\ replaced' = (replaced \/ c.wasIndexed)
StoreUncounted(c) ==
  /\ text # Unreadable /\ ~OverBudget(c)
  /\ IndexContent(c.id, c.path, text, c.mtime)
  /\ replaced' = (replaced \/ c.wasIndexed)
  /\ UNCHANGED total

StoreText(c) ==
  /\ text # Unreadable /\ ~OverBudget(c)
  /\ IndexContent(c.id, c.path, text, c.mtime)
  /\ total' = IF c.wasIndexed THEN total ELSE total + TextLen[text]
  /\ replaced' = (replaced \/ c.wasIndexed)

StoreResult ==
  /\ pc = "store"
  /\ \E c \in batch :
       /\ IsCurrent(c)
       /\ SkipUnreadable(c) \/ SkipOverBudget(c) \/ StoreText(c)
       /\ Finish(c)

Scan == QueryBatch \/ SumBytes \/ Extract \/ StoreResult

Next ==
  \/ \E p \in Path : Write(p) \/ Remove(p) \/ \E q \in Path : Rename(p, q)
  \/ HandleEvent
  \/ ApplyChange
  \/ Scan

\* The watcher, the consumer and the scanner are goroutines that loop until
\* shutdown; the user owes nobody another operation.
Fairness == WF_vars(HandleEvent) /\ WF_vars(ApplyChange) /\ WF_vars(Scan)

Spec     == Init /\ [][Next]_vars
FairSpec == Spec /\ Fairness

-----------------------------------------------------------------------------
(* Safety.                                                                 *)

\* The two content tables tell the same story: a rowid has text exactly when
\* content_meta says it was indexed, and its body_bytes is that text's length,
\* whatever deletions cascaded and ids came back between the scanner's steps
\* (the two statements of IndexContent, MarkContentSkipped and of the trigger
\* files_content_ad).  The size budget counts real text only because of this.
TextMatchesMeta ==
  \A i \in Id :
    IF fts[i] = NoText
    THEN meta[i] = NoMeta \/ (meta[i].why # "text" /\ meta[i].bytes = 0)
    ELSE Indexed(i) /\ meta[i].bytes = TextLen[fts[i].version]

Settled(p) ==
  files[p] # NoRow /\ ~Pending(p) /\ files[p].mtime = disk[p]

\* A file recorded as examined at the mtime it has on disk was examined as it
\* is: its row's text is that file's current text, and it has none only if the
\* extractor rejects that version or the budget is limited.  The scanner read
\* the row, then the file, then wrote under the row's id, and the file and the
\* row may both have changed twice in between (indexOneContent).
ExaminedIsCurrent ==
  \A p \in Path : Settled(p) =>
    LET i == files[p].id IN
      \/ meta[i].why = "text" /\ fts[i] = [path |-> p, version |-> disk[p]]
      \/ meta[i].why = "unreadable" /\ disk[p] \in Binary
      \/ meta[i].why = "budget" /\ Budget > 0

StoresNewFile(i) ==
  /\ pc = "store" /\ pc' # "store"
  /\ \E c \in batch : IsCurrent(c) /\ c.id = i /\ ~c.wasIndexed
  /\ fts'[i] # NoText

\* The scanner sums the index once per batch, and the consumer deletes rows
\* under it; still, indexing a new file keeps the index within the budget as
\* long as the batch replaced no other file's text since the sum.
NewFilesRespectBudget ==
  [][\A i \in Id : (StoresNewFile(i) /\ Budget > 0 /\ ~replaced)
                     => ContentBytes' <= Budget]_vars

NothingToDo ==
  /\ events = <<>> /\ chan = <<>> /\ pc = "query"
  /\ FilesNeedingContent = {}

\* "New/changed files are picked up within one idle interval" (scanner.go:16):
\* when watcher, consumer and scanner have nothing left to do, the text of
\* every readable file is in the index (there being no budget).
ReadableFilesAreSearchable ==
  NothingToDo /\ Budget = 0 =>
    \A p \in Path : Readable(p) =>
      /\ files[p] # NoRow
      /\ fts[files[p].id] = [path |-> p, version |-> disk[p]]

-----------------------------------------------------------------------------
(* Liveness.                                                               *)

Mirrored(p) ==
  IF disk[p] = NoFile
  THEN files[p] = NoRow
  ELSE files[p] # NoRow /\ files[p].mtime = disk[p] /\ ~Pending(p)

\* Once the user is done the store ends up with a row for exactly the files on
\* disk, at their mtime, each examined at that mtime, and stays so: the backlog
\* always drains, although a row that is replaced while it is being examined
\* goes back into it.
BacklogDrains == <>[](\A p \in Path : Mirrored(p))

=============================================================================
