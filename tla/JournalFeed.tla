----------------------------- MODULE JournalFeed -----------------------------
(***************************************************************************)
(* The index on Windows and macOS, where the OS keeps a journal of what    *)
(* changed: from the journal through the source's reader, its channel and  *)
(* the service's consumer to the store, to subscribers and to searches     *)
(* that fetch page after page (source_windows.go, source_darwin.go,        *)
(* service.go, search.go).                                                 *)
(*                                                                         *)
(* A cursor saved between two batches lets the reader resume after a       *)
(* restart; rows are only removed because of a record of the journal.      *)
(* Below the root are directories, each with room for one file.  One       *)
(* volume and one root; nothing is excluded.                               *)
(***************************************************************************)
EXTENDS Integers, Sequences, FiniteSets, SequencesExt

CONSTANTS
  Platform,     \* subset of {"windows", "macos"}
  Client,       \* subset of {"none", "subscriber", "pager"}
  Dir,          \* directories, known to the journal by a number of their own
  DirName,      \* their names, numbers
  MaxVersion,   \* BOUND: versions of a file
  MaxOps,       \* BOUND: changes of the tree, by client
  MaxMishaps,   \* BOUND: crashes and dropped histories, by client
  ChanCap,      \* capacity of the source's channel
  SubCap,       \* capacity of a subscriber's channel
  PageSize      \* the limit of a query

ASSUME FeedAssumption ==
  /\ Platform \subseteq {"windows", "macos"} /\ Client \subseteq {"none", "subscriber", "pager"}
  /\ "root" \notin Dir
  /\ DirName \subseteq Nat \ {0} /\ DirName # {} /\ IsFiniteSet(DirName)
  /\ MaxVersion \in Nat \ {0} /\ MaxOps \in [Client -> Nat] /\ MaxMishaps \in [Client -> Nat]
  /\ ChanCap \in Nat \ {0} /\ SubCap \in Nat \ {0} /\ PageSize \in Nat \ {0}

VARIABLES
  platform, client,   \* chosen at the start
  at, holds,          \* the name of a directory, 0 for none; its file's version
  journal,            \* the records of the OS
  up,                 \* the indexer runs
  pos,                \* the reader has read the journal so far
  batch, reading,     \* records of a batch still to do; a batch is being done
  pending,            \* changes made of a record, still to send
  cache,              \* Windows: the path of a directory as first resolved
  cursor,             \* the saved position, or -1
  chan,               \* the source's channel
  hand,               \* the number of the change to be fanned out, or 0
  toWalk,             \* paths the walk of the root has listed
  index,              \* the rows: the version of each path, 0 for none
  applied,            \* changes applied since the start
  sub,                \* the subscriber: its channel and what it heard, see ChangeFeed
  pager,              \* a search in progress and what its client has seen
  ops, mishaps,
  stale,              \* history: paths a removal of which was lost
  missed,             \* history: paths a change of which was dropped since the start
  moved               \* history: names that renames took or gave, see StartUp

world   == <<at, holds, journal, ops>>
reader  == <<pos, batch, reading, pending, cache>>
store   == <<index, applied>>
clients == <<sub, pager>>
history == <<stale, missed, moved>>
fixed   == <<platform, client>>
vars    == <<fixed, world, up, reader, cursor, chan, hand, toWalk, store, clients, mishaps, history>>

\* Paths: <<name>> is a directory, <<name, 0>> the file in it.
Path == {<<n>> : n \in DirName} \cup {<<n, 0>> : n \in DirName}
DirAt(n) == {d \in Dir : at[d] = n}
Stat(p) ==
  IF DirAt(p[1]) = {} THEN 0
  ELSE IF Len(p) = 1 THEN 1 ELSE holds[CHOOSE d \in Dir : at[d] = p[1]]
Under(p, s)    == \E a \in s : IsPrefix(a, p)
Children(p)    == {q \in Path : Len(q) = 2 /\ Len(p) = 1 /\ q[1] = p[1] /\ Stat(q) # 0}
Rows(i)        == {p \in Path : i[p] # 0}

NoSub     == [there |-> FALSE, buffer |-> <<>>, upTo |-> 0, heard |-> 0]
NoSearch  == [pc |-> "idle", offset |-> 0, total |-> 0, seen |-> {}, twice |-> FALSE,
              kept |-> {}, grew |-> FALSE, shrank |-> FALSE, split |-> FALSE]
Change    == [op : {"stated", "removed"}, path : Path, version : 0 .. MaxVersion]
Gone      == -1   \* the name of a directory that was removed

TypeOK ==
  /\ at \in [Dir -> DirName \cup {0, Gone}] /\ holds \in [Dir -> 0 .. MaxVersion]
  /\ \A d, e \in Dir : d # e /\ at[d] \in DirName => at[d] # at[e]
  /\ pos \in 0 .. Len(journal) /\ cursor \in -1 .. Len(journal)
  /\ up => cursor <= pos
  /\ chan \in Seq(Change) /\ Len(chan) <= ChanCap
  /\ index \in [Path -> 0 .. MaxVersion]
  /\ hand \in 0 .. applied
  /\ Len(sub.buffer) <= SubCap /\ sub.upTo <= applied
  /\ mishaps \in 0 .. MaxMishaps[client] /\ ops \in 0 .. MaxOps[client]

Init ==
  /\ platform \in Platform /\ client \in Client
  /\ at = [d \in Dir |-> IF d = CHOOSE e \in Dir : TRUE THEN CHOOSE n \in DirName : TRUE ELSE 0]
  /\ holds = [d \in Dir |-> IF at[d] = 0 THEN 0 ELSE 1]
  /\ journal = <<>> /\ ops = 0 /\ mishaps = 0
  /\ up = FALSE /\ pos = 0 /\ batch = <<>> /\ reading = FALSE /\ pending = <<>>
  /\ cache = [d \in Dir |-> 0]
  /\ cursor = -1 /\ chan = <<>> /\ hand = 0 /\ toWalk = {}
  /\ index = [p \in Path |-> 0] /\ applied = 0
  /\ sub = NoSub /\ pager = NoSearch
  /\ stale = {} /\ missed = {} /\ moved = {}

-----------------------------------------------------------------------------
(* The tree and its journal.  A record has the path as it is now, which is  *)
(* what macOS reports, and the directory and name, which Windows reports.   *)

Record(reason, d, p) == [reason |-> reason, dir |-> d, path |-> p]

Log(rs) ==
  /\ ops < MaxOps[client] /\ ops' = ops + 1
  /\ journal' = journal \o rs
  /\ UNCHANGED <<fixed, up, reader, cursor, chan, hand, toWalk, store, clients, mishaps,
                 stale, missed>>

MakeDir(d, n) ==
  /\ at[d] = 0 /\ DirAt(n) = {}
  /\ at' = [at EXCEPT ![d] = n]
  /\ Log(<<Record("create", "root", <<n>>)>>)
  /\ UNCHANGED <<holds, moved>>

RemoveDir(d) ==
  /\ at[d] \in DirName /\ holds[d] = 0
  /\ at' = [at EXCEPT ![d] = Gone]
  /\ Log(<<Record("delete", "root", <<at[d]>>)>>)
  /\ UNCHANGED <<holds, moved>>

RenameDir(d, n) ==
  /\ at[d] \in DirName /\ DirAt(n) = {}
  /\ at' = [at EXCEPT ![d] = n]
  /\ moved' = moved \cup {at[d], n}
  /\ Log(<<Record("rename old", "root", <<at[d]>>), Record("rename new", "root", <<n>>)>>)
  /\ UNCHANGED holds

WriteFile(d) ==
  /\ at[d] \in DirName /\ holds[d] < MaxVersion
  /\ holds' = [holds EXCEPT ![d] = @ + 1]
  /\ Log(<<Record(IF holds[d] = 0 THEN "create" ELSE "modify", d, <<at[d], 0>>)>>)
  /\ UNCHANGED <<at, moved>>

DeleteFile(d) ==
  /\ at[d] \in DirName /\ holds[d] # 0
  /\ holds' = [holds EXCEPT ![d] = 0]
  /\ Log(<<Record("delete", d, <<at[d], 0>>)>>)
  /\ UNCHANGED <<at, moved>>

Operate ==
  \E d \in Dir : WriteFile(d) \/ DeleteFile(d) \/ RemoveDir(d)
                   \/ \E n \in DirName : MakeDir(d, n) \/ RenameDir(d, n)

-----------------------------------------------------------------------------
(* Starting and ending. *)

Skipped(from) == {journal[i].path : i \in from + 1 .. Len(journal)}

\* The reader is set up before the walk lists the root.  It resumes from the
\* cursor if there is one and the journal still goes back to it; a journal that
\* does not, or has another id, never will again.  The macOS cursor is nothing
\* before the first event.  When there is nothing to catch
\* up with, the walk adds the rows that renames lost, but removes none.
StartUp ==
  /\ ~up /\ up' = TRUE
  /\ \E resumes \in {cursor >= 0 /\ ~(platform = "macos" /\ cursor = 0), FALSE} :
       /\ pos' = IF resumes THEN cursor ELSE Len(journal)
       /\ cursor' = IF resumes THEN cursor ELSE -1
       /\ stale' = stale \cup {<<n, 0>> : n \in moved}
                      \cup (IF resumes THEN {} ELSE Skipped(IF cursor < 0 THEN 0 ELSE cursor))
       /\ moved' = IF pos' = Len(journal) THEN {} ELSE moved
  /\ toWalk' = {<<n>> : n \in {m \in DirName : DirAt(m) # {}}}
  /\ missed' = {}
  /\ UNCHANGED <<fixed, world, batch, reading, pending, cache, chan, hand, store, clients, mishaps>>

\* The indexer ends at any point.  What was sent and not applied is lost; a
\* cursor that was being written may be unreadable.
Crash ==
  /\ up /\ mishaps < MaxMishaps[client] /\ mishaps' = mishaps + 1
  /\ up' = FALSE
  /\ cursor' \in {cursor} \cup (IF reading /\ batch = <<>> /\ pending = <<>> THEN {-1} ELSE {})
  /\ stale' = stale \cup {chan[i].path : i \in DOMAIN chan}
                 \cup (IF cursor' = cursor THEN {} ELSE Skipped(0))
  /\ pos' = 0 /\ batch' = <<>> /\ reading' = FALSE /\ pending' = <<>>
  /\ cache' = [d \in Dir |-> 0] /\ chan' = <<>> /\ hand' = 0 /\ toWalk' = {}
  /\ applied' = 0 /\ sub' = NoSub /\ pager' = NoSearch
  /\ UNCHANGED <<fixed, world, index, missed, moved>>

-----------------------------------------------------------------------------
(* The reader: tailVolume on Windows, onBatch on macOS. *)

\* Mutation: the cursor is saved when a batch is read, before it is sent.
ReadBatchSaves ==
  /\ up /\ ~reading /\ pos < Len(journal)
  /\ \E k \in pos + 1 .. Len(journal) :
       batch' = SubSeq(journal, pos + 1, k) /\ pos' = k /\ cursor' = k
  /\ reading' = TRUE
  /\ UNCHANGED <<fixed, world, up, pending, cache, chan, hand, toWalk, store, clients,
                 mishaps, history>>

ReadBatch ==
  /\ up /\ ~reading /\ pos < Len(journal)
  /\ \E k \in pos + 1 .. Len(journal) : batch' = SubSeq(journal, pos + 1, k) /\ pos' = k
  /\ reading' = TRUE
  /\ UNCHANGED <<fixed, world, up, pending, cache, cursor, chan, hand, toWalk, store, clients,
                 mishaps, history>>

Stated(p)  == [op |-> "stated", path |-> p, version |-> Stat(p)]
Removed(p) == [op |-> "removed", path |-> p, version |-> 0]

\* recordToChange, given the path by the directory's cached path.
WindowsChange(r, p) ==
  IF r.reason \in {"delete", "rename old"} THEN <<Removed(p)>>
  ELSE IF Stat(p) # 0 THEN <<Stated(p)>> ELSE <<>>

\* The path of a directory is looked up once; that of one that is gone is
\* unknown, and the record skipped.
ConvertWindows(r) ==
  IF r.dir = "root"
  THEN pending' = WindowsChange(r, r.path) /\ UNCHANGED cache
  ELSE LET known == IF cache[r.dir] # 0 THEN cache[r.dir] ELSE at[r.dir] IN
       IF known = Gone THEN pending' = <<>> /\ UNCHANGED cache
       ELSE /\ cache' = [cache EXCEPT ![r.dir] = known]
            /\ pending' = WindowsChange(r, <<known, 0>>)

\* handleEvent: the path is stated again.  rescan: everything there is.
ConvertMac(r) ==
  /\ pending' = IF r.reason = "rescan"
                THEN [i \in DOMAIN SetToSeq({p \in Path : Stat(p) # 0}) |->
                        Stated(SetToSeq({p \in Path : Stat(p) # 0})[i])]
                ELSE IF Stat(r.path) # 0 THEN <<Stated(r.path)>> ELSE <<Removed(r.path)>>
  /\ UNCHANGED cache

Convert ==
  /\ up /\ batch # <<>> /\ pending = <<>>
  /\ batch' = Tail(batch)
  /\ IF platform = "windows" THEN ConvertWindows(Head(batch)) ELSE ConvertMac(Head(batch))
  /\ UNCHANGED <<fixed, world, up, pos, reading, cursor, chan, hand, toWalk, store, clients,
                 mishaps, history>>

\* Mutation: nobody waits for room.
SendPastCap ==
  /\ up /\ pending # <<>>
  /\ chan' = Append(chan, Head(pending)) /\ pending' = Tail(pending)
  /\ UNCHANGED <<fixed, world, up, pos, batch, reading, cache, cursor, hand, toWalk, store,
                 clients, mishaps, history>>

Send ==
  /\ up /\ pending # <<>> /\ Len(chan) < ChanCap
  /\ chan' = Append(chan, Head(pending)) /\ pending' = Tail(pending)
  /\ UNCHANGED <<fixed, world, up, pos, batch, reading, cache, cursor, hand, toWalk, store,
                 clients, mishaps, history>>

\* emit does not block: a change the channel has no room for is dropped.
DropChange ==
  /\ platform = "macos" /\ up /\ pending # <<>> /\ Len(chan) = ChanCap
  /\ pending' = Tail(pending)
  /\ missed' = missed \cup {Head(pending).path}
  /\ stale' = stale \cup {Head(pending).path}
  /\ UNCHANGED <<fixed, world, up, pos, batch, reading, cache, cursor, chan, hand, toWalk, store,
                 clients, mishaps, moved>>

SaveCursor ==
  /\ up /\ reading /\ batch = <<>> /\ pending = <<>>
  /\ cursor' = pos /\ reading' = FALSE
  /\ UNCHANGED <<fixed, world, up, pos, batch, pending, cache, chan, hand, toWalk, store, clients,
                 mishaps, history>>

\* Windows saves it after a read that returned nothing, too.
SaveIdleCursor ==
  /\ platform = "windows" /\ up /\ ~reading /\ cursor # pos /\ pos = Len(journal)
  /\ cursor' = pos
  /\ UNCHANGED <<fixed, world, up, reader, chan, hand, toWalk, store, clients, mishaps, history>>

\* macOS gives up on details: a rescan takes the place of what is not read yet.
HistoryDropped ==
  /\ platform = "macos" /\ up /\ mishaps < MaxMishaps[client] /\ mishaps' = mishaps + 1
  /\ pos < Len(journal)
  /\ journal' = Append(SubSeq(journal, 1, pos), Record("rescan", "root", <<>>))
  /\ stale' = stale \cup Skipped(pos)
  /\ UNCHANGED <<fixed, at, holds, ops, up, reader, cursor, chan, hand, toWalk, store, clients,
                 missed, moved>>

-----------------------------------------------------------------------------
(* The walk and the consumer. *)

\* What a change of the rows means to a search in progress.
Watched(i) ==
  IF pager.pc = "idle" \/ pager.pc = "done" THEN pager
  ELSE [pager EXCEPT !.kept = @ \cap Rows(i),
                     !.grew = @ \/ ~(Rows(i) \subseteq Rows(index)),
                     !.shrank = @ \/ ~(Rows(index) \subseteq Rows(i)),
                     !.split = @ \/ (pager.pc = "rows" /\ Rows(i) # Rows(index))]

\* The walk states a path it has listed, puts its row and, of a directory,
\* lists what is in it.  Its transaction has the only connection, so that no
\* change is applied between the two.
WalkRow(p) ==
  /\ up /\ p \in toWalk
  /\ index' = IF Stat(p) = 0 THEN index ELSE [index EXCEPT ![p] = Stat(p)]
  /\ toWalk' = (toWalk \ {p}) \cup Children(p)
  /\ pager' = Watched(index')
  /\ UNCHANGED <<fixed, world, up, reader, cursor, chan, hand, applied, sub, mishaps, history>>

\* Mutation: a row that is there is left as it is.
AfterInsertOrIgnore(c) ==
  [p \in Path |-> IF c.op = "removed" /\ IsPrefix(c.path, p) THEN 0
                  ELSE IF c.op = "stated" /\ p = c.path /\ index[p] = 0 THEN c.version ELSE index[p]]

\* applyChange: Upsert, or DeleteSubtree.
AfterChange(c) ==
  [p \in Path |-> IF c.op = "removed" /\ IsPrefix(c.path, p) THEN 0
                  ELSE IF c.op = "stated" /\ p = c.path THEN c.version ELSE index[p]]

Consume ==
  /\ up /\ chan # <<>> /\ hand = 0
  /\ chan' = Tail(chan)
  /\ index' = AfterChange(Head(chan))
  /\ pager' = Watched(index')
  /\ IF client = "subscriber" THEN applied' = applied + 1 /\ hand' = applied + 1
                              ELSE UNCHANGED <<applied, hand>>
  /\ UNCHANGED <<fixed, world, up, reader, cursor, toWalk, sub, mishaps, history>>

\* fanout: dropped if the subscriber's channel is full.
Fanout ==
  /\ up /\ hand # 0 /\ hand' = 0
  /\ sub' = IF sub.there /\ Len(sub.buffer) < SubCap
            THEN [sub EXCEPT !.buffer = Append(@, hand)] ELSE sub
  /\ UNCHANGED <<fixed, world, up, reader, cursor, chan, toWalk, store, pager, mishaps, history>>

-----------------------------------------------------------------------------
(* Clients. *)

\* Mutation: a new subscriber is sent the latest change to begin with.
SubscribeWithLatest ==
  /\ client = "subscriber" /\ up /\ ~sub.there
  /\ sub' = [there |-> TRUE, buffer |-> IF applied = 0 THEN <<>> ELSE <<applied>>,
           upTo |-> applied, heard |-> 0]
  /\ UNCHANGED <<fixed, world, up, reader, cursor, chan, hand, toWalk, store, pager, mishaps, history>>

\* It hears of the change that is about to be fanned out.
Subscribe ==
  /\ client = "subscriber" /\ up /\ ~sub.there
  /\ sub' = [there |-> TRUE, buffer |-> <<>>, heard |-> 0,
           upTo |-> IF hand = 0 THEN applied ELSE hand - 1]
  /\ UNCHANGED <<fixed, world, up, reader, cursor, chan, hand, toWalk, store, pager, mishaps, history>>

Unsubscribe ==
  /\ up /\ sub.there
  /\ sub' = [sub EXCEPT !.there = FALSE, !.buffer = <<>>]
  /\ UNCHANGED <<fixed, world, up, reader, cursor, chan, hand, toWalk, store, pager, mishaps, history>>

\* handleSubscribe takes a change and writes it to the client.
Deliver ==
  /\ up /\ sub.there /\ sub.buffer # <<>>
  /\ sub' = [sub EXCEPT !.buffer = Tail(@), !.upTo = Head(sub.buffer), !.heard = @ + 1]
  /\ UNCHANGED <<fixed, world, up, reader, cursor, chan, hand, toWalk, store, pager, mishaps, history>>

\* Search counts the matches and then reads a page of them, in two statements;
\* the client asks for the next page until there is none.
Count ==
  /\ client = "pager" /\ up /\ pager.pc \in {"idle", "next"}
  /\ pager' = [pager EXCEPT !.pc = "rows", !.total = Cardinality(Rows(index)),
                            !.kept = IF pager.pc = "idle" THEN Rows(index) ELSE @]
  /\ UNCHANGED <<fixed, world, up, reader, cursor, chan, hand, toWalk, store, sub, mishaps, history>>

\* orderClause, sorted by path: a directory comes before what is in it.  (By size,
\* time or relevance, SQLite decides between equal rows.)
Before(p, q) == p # q /\ (p[1] < q[1] \/ IsPrefix(p, q))
Rank(p)      == Cardinality({q \in Rows(index) : Before(q, p)})

\* Mutation: the next page starts a page further, however long this one was.
NextOffsetByPage(n) ==
  IF pager.offset + PageSize + 1 < pager.total THEN pager.offset + PageSize + 1 ELSE -1

NextOffset(n) == IF pager.offset + n < pager.total THEN pager.offset + n ELSE -1

ReadRows ==
  /\ up /\ pager.pc = "rows"
  /\ LET page == {p \in Rows(index) : Rank(p) \in pager.offset .. pager.offset + PageSize - 1}
         next == NextOffset(Cardinality(page))
     IN  pager' = [pager EXCEPT !.pc = IF next = -1 THEN "done" ELSE "next",
                                !.offset = IF next = -1 THEN 0 ELSE next, !.total = 0,
                                !.seen = @ \cup page,
                                !.twice = @ \/ page \cap pager.seen # {}]
  /\ UNCHANGED <<fixed, world, up, reader, cursor, chan, hand, toWalk, store, sub, mishaps, history>>

Serve == Subscribe \/ Unsubscribe \/ Deliver \/ Count \/ ReadRows

Next ==
  \/ Operate \/ StartUp \/ Crash
  \/ ReadBatch \/ Convert \/ Send \/ DropChange \/ SaveCursor \/ SaveIdleCursor \/ HistoryDropped
  \/ Consume \/ Fanout \/ (\E p \in Path : WalkRow(p))
  \/ Serve

Spec == Init /\ [][Next]_vars

-----------------------------------------------------------------------------
(* Properties. *)

AtRest == up /\ ~reading /\ pos = Len(journal) /\ chan = <<>> /\ toWalk = {}

InMoved(p) == Len(p) = 2 /\ p[1] \in moved

\* At rest the index has the present version of everything there is, after
\* whatever crashes, but where macOS dropped a change since the last start and in
\* directories that were renamed: only the directory itself is indexed under its
\* new name.
CompleteAtRest ==
  AtRest => \A p \in Path : Stat(p) # 0 /\ ~InMoved(p) /\ p \notin missed => index[p] = Stat(p)

\* "cross-restart catch-up" (source_windows.go:119): at rest the index has nothing
\* that is gone, also when it went while the indexer did not run, but for removals
\* that were dropped, that a crash caught between the channel and the store, or
\* that a reader which could not resume has skipped.
ExactAtRest ==
  AtRest => \A p \in Path : index[p] # 0 /\ ~InMoved(p) /\ ~Under(p, stale) => Stat(p) # 0

\* What the subscriber hears is what ChangeFeed says it may hear.
Feed == INSTANCE ChangeFeed WITH applied <- applied, upTo <- sub.upTo, heard <- sub.heard
HearsInOrder == Feed!Spec

\* A client that fetches every page has seen each row that was there from the
\* first page to the last, unless rows were removed meanwhile or came between a
\* count and its page, and no row twice, unless rows were added.
PagingSeesAll ==
  pager.pc = "done" =>
    /\ ~pager.shrank /\ ~pager.split => pager.kept \subseteq pager.seen
    /\ ~pager.grew => ~pager.twice
=============================================================================
