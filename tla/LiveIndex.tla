----------------------------- MODULE LiveIndex ------------------------------
(***************************************************************************)
(* How the name index follows the file system: the portable watcher        *)
(* (fsnotify), the initial walk of a root, the change channel between the  *)
(* watcher and the consumer, and the single database connection the walk   *)
(* and the consumer share.                                                 *)
(*                                                                         *)
(* The tree is a function from paths (sequences of names below the root)   *)
(* to what is there.  The user changes it at any time.  Notifications are  *)
(* per directory: one reaches the watcher only if the parent directory is  *)
(* watched at that moment, under the name the directory was watched by.    *)
(* Everything the watcher and the walk learn by lstat or readdir they      *)
(* learn in a step of its own, before the step that uses it.               *)
(***************************************************************************)
EXTENDS Naturals, Sequences, FiniteSets, SequencesExt

CONSTANTS
  Path,       \* names below the root: nonempty sequences, closed under prefix
  DirPath,    \* BOUND: the paths at which a directory may be
  MaxOps,     \* BOUND: changes the user makes
  MaxEvents,  \* notifications the kernel queues (inotify max_queued_events)
  Overflow,   \* TRUE: a full queue drops; FALSE: BOUND, the user waits
  ChanCap,    \* capacity of the change channel (256 in the code)
  RowsPerTx,  \* rows per transaction of a walk (batchSize, 5000 in the code)
  Fold,       \* Fold[p]: p with ASCII case folded, as LIKE compares it
  OldRows,    \* whether the index may start with rows of an earlier run
  NoRow, Unwatched

Root == <<>>
Node == Path \cup {Root}
Kind == {"file", "dir"}

ASSUME PathAssumption ==
  /\ IsFiniteSet(Path)
  /\ \A p \in Path : /\ p \in Seq({p[i] : i \in DOMAIN p}) /\ p # Root
                     /\ \A n \in 1 .. Len(p) : SubSeq(p, 1, n) \in Path
  /\ DirPath \subseteq Path /\ Fold \in [Path -> Path]
ASSUME NothingAssumption ==
  NoRow \notin [kind : Kind, volume : Node] /\ Unwatched \notin Node
ASSUME BoundAssumption ==
  /\ MaxOps \in Nat /\ MaxEvents \in Nat /\ Overflow \in BOOLEAN
  /\ ChanCap \in Nat \ {0} /\ RowsPerTx \in Nat \ {0} /\ OldRows \in BOOLEAN

Below(p) == {q \in Path : IsStrictPrefix(p, q)}

\* files.is_dir and files.volume_id of a row; a volume is named by its root.
Row    == [kind : Kind, volume : Node]
Event  == [op : {"create", "write", "gone"}, path : Path]
Change == [path : Path, row : Row \cup {NoRow}]

\* A walk in progress is a stack of what it still has to do: stat a path, use
\* what the stat said, watch a directory, list a directory.
Step == [do : {"watch", "list"}, path : Node]
          \cup [do : {"stat"}, path : Path, dir : BOOLEAN]
          \cup [do : {"use"}, path : Path, kind : Kind \cup {"none"}]

VARIABLES
  tree,     \* tree[p]: "file", "dir" or "none"
  kwatch,   \* kwatch[d]: the name directory d is watched by, or Unwatched
  ops,      \* changes the user has made
  suspect,  \* HISTORY: what was put under watch while it was still to be told gone
  events,   \* the notification queue
  watched,  \* portableWatch.watched
  mode,     \* what the watcher does: seed, idle, add (addTree) or walk
  base,     \* the directory it adds or walks
  todo,     \* the rest of that
  chan,     \* changes the consumer has yet to apply
  index,    \* the files table, by path
  phase,    \* the walk of the root: waiting, running or done
  walk,     \* the rest of that walk
  held,     \* whether its transaction holds the connection
  rows      \* rows it has added in that transaction

fs      == <<tree, kwatch, ops, suspect>>
watcher == <<watched, mode, base, todo>>
walker  == <<phase, walk, held, rows>>
vars    == <<fs, events, watcher, chan, index, walker>>

TypeOK ==
  /\ tree \in [Path -> Kind \cup {"none"}]
  /\ kwatch \in [Node -> Node \cup {Unwatched}]
  /\ ops \in 0 .. MaxOps /\ suspect \subseteq Node
  /\ events \in Seq(Event) /\ Len(events) <= MaxEvents
  /\ watched \subseteq Node
  /\ mode \in {"seed", "idle", "add", "walk"}
  /\ base \in Node /\ todo \in Seq(Step)
  /\ chan \in Seq(Change) /\ Len(chan) <= ChanCap
  /\ index \in [Path -> Row \cup {NoRow}]
  /\ phase \in {"waiting", "running", "done"} /\ walk \in Seq(Step)
  /\ held \in BOOLEAN /\ rows \in 0 .. RowsPerTx

There(p) == IF p = Root THEN "dir" ELSE tree[p]
IsDir(p) == There(p) = "dir"
Children(d) == {q \in Path : Front(q) = d /\ tree[q] # "none"}

\* A tree: what is above something that exists is a directory.
IsTree(t) ==
  \A p \in Path :
    /\ t[p] # "none" => \A d \in Path : IsStrictPrefix(d, p) => t[d] = "dir"
    /\ t[p] = "dir" => p \in DirPath

-----------------------------------------------------------------------------
(* The store.                                                              *)

Upsert(p, r) == index' = [index EXCEPT ![p] = r]

\* path = p OR path LIKE 'p/%': LIKE ignores the case of ASCII letters.
DeleteSubtree(p) ==
  index' = [q \in Path |->
              IF q = p THEN NoRow
              ELSE IF Len(q) > Len(p) /\ Fold[SubSeq(q, 1, Len(p))] = Fold[p]
              THEN NoRow ELSE index[q]]

-----------------------------------------------------------------------------
(* The user and the kernel.                                                *)

\* What the watch on directory d reports of its entry p.
Report(op, p) ==
  IF kwatch[Front(p)] = Unwatched \/ Append(kwatch[Front(p)], Last(p)) \notin Path
  THEN <<>>
  ELSE <<[op |-> op, path |-> Append(kwatch[Front(p)], Last(p))]>>

Notify(s) ==
  /\ ops < MaxOps /\ ops' = ops + 1
  /\ IF Len(events) + Len(s) <= MaxEvents
     THEN events' = events \o s
     ELSE Overflow /\ UNCHANGED events
  /\ UNCHANGED <<suspect, watcher, chan, index, walker>>

Create(p, k) ==
  /\ tree[p] = "none" /\ IsDir(Front(p)) /\ (k = "dir" => p \in DirPath)
  /\ tree' = [tree EXCEPT ![p] = k]
  /\ UNCHANGED kwatch
  /\ Notify(Report("create", p))

Modify(p) ==
  /\ tree[p] = "file"
  /\ UNCHANGED <<tree, kwatch>>
  /\ Notify(Report("write", p))

\* A file or an empty directory; a removed directory loses its watch.
Delete(p) ==
  /\ tree[p] # "none" /\ Children(p) = {}
  /\ tree' = [tree EXCEPT ![p] = "none"]
  /\ kwatch' = [kwatch EXCEPT ![p] = Unwatched]
  /\ Notify(Report("gone", p))

Moved(p, q, x) == q \o SubSeq(x, Len(p) + 1, Len(x))

\* The old name is reported gone and the new one created, nothing is reported
\* of what lies below.  fsnotify drops the watch of the moved directory itself;
\* the directories below keep theirs, under their old names.
Rename(p, q) ==
  LET moving == {x \in Below(p) : tree[x] # "none"}
      under(x) == Moved(q, p, x) IN
  /\ tree[p] # "none" /\ tree[q] = "none" /\ IsDir(Front(q))
  /\ ~IsPrefix(p, q)
  /\ \A x \in moving : Moved(p, q, x) \in Path
  /\ tree' = [x \in Path |->
                IF x = q \/ (x \in Below(q) /\ under(x) \in moving)
                THEN tree[under(x)]
                ELSE IF x = p \/ x \in Below(p) THEN "none" ELSE tree[x]]
  /\ \A x \in Path : tree'[x] = "dir" => x \in DirPath
  /\ kwatch' = [x \in Node |->
                  IF x \in Below(q) /\ under(x) \in moving THEN kwatch[under(x)]
                  ELSE IF x \in {p, q} \cup Below(p) THEN Unwatched ELSE kwatch[x]]
  /\ Notify(Report("gone", p) \o Report("create", q))

User ==
  \E p \in Path :
    \/ \E k \in Kind : Create(p, k)
    \/ Modify(p)
    \/ Delete(p)
    \/ \E q \in Path : Rename(p, q)

-----------------------------------------------------------------------------
(* What a walk does next.                                                  *)

Stat(p, d) == [do |-> "stat", path |-> p, dir |-> d]
Watch(p)   == [do |-> "watch", path |-> p]
List(p)    == [do |-> "list", path |-> p]
Use(p, k)  == [do |-> "use", path |-> p, kind |-> k]

\* filepath.WalkDir lists a directory and visits its entries in a fixed order.
\* The listing says which of them are directories to descend into; an entry is
\* lstat'ed only when it is visited, and may be gone or different by then.
Visited(d) ==
  IF IsDir(d) THEN SetToSeq({Stat(p, tree[p] = "dir") : p \in Children(d)}) ELSE <<>>

\* The visits addTree makes: it looks at the listing only.
Descend(d) ==
  IF IsDir(d) THEN SetToSeq({Watch(p) : p \in {q \in Children(d) : tree[q] = "dir"}}) ELSE <<>>

\* What follows when Walk(top) makes visit s: the top is lstat'ed only once, and
\* that says whether it is listed.
Found(top, s) ==
  LET p == s.path IN
  (IF tree[p] = "none" THEN <<>> ELSE <<Use(p, tree[p])>>)
    \o IF s.dir \/ (p = top /\ tree[p] = "dir") THEN <<List(p)>> ELSE <<>>

-----------------------------------------------------------------------------
(* The watcher: portableWatch.                                             *)

At(m, do) == mode \in m /\ todo # <<>> /\ Head(todo).do = do
\* Mutation: the channel is not bounded.
SendUnbounded(c) == chan' = Append(chan, c)

Send(c) == Len(chan) < ChanCap /\ chan' = Append(chan, c)

\* A notification that d, or a directory above it, is gone is still in the queue.
ToldGone(d) ==
  \E i \in DOMAIN events : events[i].op = "gone" /\ IsPrefix(events[i].path, d)

\* addWatch: nothing is done for a name that is already in watched.  A watch
\* may be put on what has become a file: it reports nothing new.
AddWatch ==
  LET d == Head(todo).path IN
  /\ At({"seed", "add"}, "watch")
  /\ IF d \notin watched /\ There(d) # "none"
     THEN /\ watched' = watched \cup {d}
          /\ kwatch' = IF IsDir(d) THEN [kwatch EXCEPT ![d] = d] ELSE kwatch
          /\ suspect' = IF ToldGone(d) THEN suspect \cup {d} ELSE suspect
     ELSE UNCHANGED <<watched, kwatch, suspect>>
  /\ todo' = <<List(d)>> \o Tail(todo)
  /\ UNCHANGED <<tree, ops, events, mode, base, chan, index, walker>>

AddList ==
  /\ At({"seed", "add"}, "list")
  /\ todo' = Descend(Head(todo).path) \o Tail(todo)
  /\ UNCHANGED <<fs, events, watched, mode, base, chan, index, walker>>

\* Mutation: a new directory is watched but not walked.
AddDoneWithoutWalk ==
  /\ mode \in {"seed", "add"} /\ todo = <<>>
  /\ mode' = "idle"
  /\ UNCHANGED <<fs, events, watched, base, todo, chan, index, walker>>

\* Seeding is over, and Watch returns: the watcher starts to read its queue.
\* Inside handle, addTree is over and Walk begins.
AddDone ==
  /\ mode \in {"seed", "add"} /\ todo = <<>>
  /\ IF mode = "seed" THEN mode' = "idle" /\ UNCHANGED todo
                      ELSE mode' = "walk" /\ todo' = <<Stat(base, FALSE)>>
  /\ UNCHANGED <<fs, events, watched, base, chan, index, walker>>

\* Mutation: the watch of a vanished directory stays registered.
DropNoWatch(p) == UNCHANGED <<watched, kwatch>>

\* dropWatch removes by name: whatever directory is watched by that name.
DropWatch(p) ==
  /\ watched' = watched \ {p}
  /\ kwatch' = IF p \in watched
               THEN [d \in Node |-> IF kwatch[d] = p THEN Unwatched
                                    ELSE kwatch[d]]
               ELSE kwatch

\* handle, up to its send.  A file is attributed to the volume of its root.
Handle ==
  LET e == Head(events) IN
  /\ mode = "idle" /\ events # <<>>
  /\ events' = Tail(events)
  /\ \/ /\ e.op = "create" /\ tree[e.path] = "dir"
        /\ mode' = "add" /\ base' = e.path /\ todo' = <<Watch(e.path)>>
        /\ UNCHANGED <<watched, kwatch>>
     \/ /\ e.op \in {"create", "write"} /\ tree[e.path] = "file"
        /\ mode' = "walk" /\ base' = Root /\ todo' = <<Use(e.path, "file")>>
        /\ UNCHANGED <<watched, kwatch>>
     \/ /\ \/ e.op = "create" /\ tree[e.path] = "none"
           \/ e.op = "write" /\ tree[e.path] # "file"
        /\ UNCHANGED <<mode, base, todo, watched, kwatch>>
     \/ /\ e.op = "gone"
        /\ mode' = "walk" /\ base' = Root /\ todo' = <<Use(e.path, "none")>>
        /\ DropWatch(e.path)
  /\ UNCHANGED <<tree, ops, suspect, chan, index, walker>>

WalkStat ==
  /\ At({"walk"}, "stat")
  /\ todo' = Found(base, Head(todo)) \o Tail(todo)
  /\ UNCHANGED <<fs, events, watched, mode, base, chan, index, walker>>

WalkList ==
  /\ At({"walk"}, "list")
  /\ todo' = Visited(Head(todo).path) \o Tail(todo)
  /\ UNCHANGED <<fs, events, watched, mode, base, chan, index, walker>>

\* send: blocks while the channel is full.
WalkSend ==
  LET s == Head(todo) IN
  /\ At({"walk"}, "use")
  /\ Send([path |-> s.path,
           row  |-> IF s.kind = "none" THEN NoRow
                    ELSE [kind |-> s.kind, volume |-> base]])
  /\ todo' = Tail(todo)
  /\ UNCHANGED <<fs, events, watched, mode, base, index, walker>>

WalkDone ==
  /\ mode = "walk" /\ todo = <<>>
  /\ mode' = "idle"
  /\ UNCHANGED <<fs, events, watched, base, todo, chan, index, walker>>

Watcher ==
  \/ AddWatch \/ AddList \/ AddDone \/ Handle
  \/ WalkStat \/ WalkList \/ WalkSend \/ WalkDone

-----------------------------------------------------------------------------
(* The walk of the root, in transactions, and the consumer.                *)

walkerRest == <<fs, events, watcher, chan>>

\* Start runs after Watch has returned.
StartWalk ==
  /\ phase = "waiting" /\ mode # "seed"
  /\ phase' = "running" /\ walk' = <<List(Root)>>
  /\ UNCHANGED <<held, rows, index, walkerRest>>

\* Batch.begin takes the only connection.
BeginTx ==
  /\ phase = "running" /\ ~held
  /\ held' = TRUE /\ rows' = 0
  /\ UNCHANGED <<phase, walk, index, walkerRest>>

IndexStat ==
  /\ held /\ walk # <<>> /\ Head(walk).do = "stat"
  /\ walk' = Found(Root, Head(walk)) \o Tail(walk)
  /\ UNCHANGED <<phase, held, rows, index, walkerRest>>

IndexList ==
  /\ held /\ walk # <<>> /\ Head(walk).do = "list"
  /\ walk' = Visited(Head(walk).path) \o Tail(walk)
  /\ UNCHANGED <<phase, held, rows, index, walkerRest>>

\* Mutation: ON CONFLICT(path) DO NOTHING.
AddRowIfNew ==
  LET s == Head(walk) IN
  /\ held /\ walk # <<>> /\ s.do = "use"
  /\ IF index[s.path] # NoRow THEN UNCHANGED index
     ELSE Upsert(s.path, [kind |-> s.kind, volume |-> Root])
  /\ rows' = rows + 1 /\ held' = (rows' < RowsPerTx)
  /\ walk' = Tail(walk)
  /\ UNCHANGED <<phase, walkerRest>>

\* Batch.Add: every RowsPerTx rows the transaction is committed and another one
\* begun, and in between the connection is free.
AddRow ==
  LET s == Head(walk) IN
  /\ held /\ walk # <<>> /\ s.do = "use"
  /\ Upsert(s.path, [kind |-> s.kind, volume |-> Root])
  /\ rows' = rows + 1 /\ held' = (rows' < RowsPerTx)
  /\ walk' = Tail(walk)
  /\ UNCHANGED <<phase, walkerRest>>

\* Batch.Commit.
EndWalk ==
  /\ held /\ walk = <<>>
  /\ held' = FALSE /\ phase' = "done"
  /\ UNCHANGED <<walk, rows, index, walkerRest>>

IndexRoot ==
  StartWalk \/ BeginTx \/ IndexStat \/ IndexList \/ AddRow \/ EndWalk

\* Mutation: a second connection lets the consumer write beside the walk.
ApplyChangeUnheld ==
  LET c == Head(chan) IN
  /\ mode # "seed" /\ chan # <<>>
  /\ IF c.row = NoRow THEN DeleteSubtree(c.path) ELSE Upsert(c.path, c.row)
  /\ chan' = Tail(chan)
  /\ UNCHANGED <<fs, events, watcher, walker>>

\* consume and applyChange: waits for the connection.
ApplyChange ==
  LET c == Head(chan) IN
  /\ mode # "seed" /\ chan # <<>> /\ ~held
  /\ IF c.row = NoRow THEN DeleteSubtree(c.path) ELSE Upsert(c.path, c.row)
  /\ chan' = Tail(chan)
  /\ UNCHANGED <<fs, events, watcher, walker>>

-----------------------------------------------------------------------------
\* The program starts on any tree; rows of an earlier run may say anything.
Init ==
  /\ tree \in {t \in [Path -> Kind \cup {"none"}] : IsTree(t)}
  /\ kwatch = [d \in Node |-> Unwatched]
  /\ ops = 0 /\ events = <<>> /\ suspect = {}
  /\ watched = {} /\ mode = "seed" /\ base = Root /\ todo = <<Watch(Root)>>
  /\ chan = <<>>
  /\ index \in [Path -> {NoRow} \cup IF OldRows THEN [kind : Kind, volume : {Root}]
                                               ELSE {}]
  /\ phase = "waiting" /\ walk = <<>> /\ held = FALSE /\ rows = 0

Next == User \/ Watcher \/ IndexRoot \/ ApplyChange

Spec == Init /\ [][Next]_vars

\* Each goroutine runs on; the user may stop.  Once the connection is released
\* the consumer gets it unless the walk takes it again, and the walk ends.
Fairness == WF_vars(Watcher) /\ WF_vars(IndexRoot) /\ WF_vars(ApplyChange)

FairSpec == Spec /\ Fairness

-----------------------------------------------------------------------------
(* Properties.                                                             *)

\* Nothing is under way: every notification handled, every change applied.
Quiet ==
  mode = "idle" /\ events = <<>> /\ chan = <<>> /\ phase = "done"

HasRow(p) == index[p] # NoRow /\ index[p].kind = tree[p]

\* A directory is put under watch by its name while a notification that this name,
\* or one above it, is gone is still queued: it was removed and made again in the
\* meantime.  The notification will drop the new watch, and by the time the
\* directory is added again, what changed below it has been missed.
Doubtful(p) == \E d \in suspect : IsPrefix(d, p)

\* Whatever the interleaving of the user's changes, the notifications, the walk
\* and the consumer, nothing that exists is missing from the index when nothing
\* is under way (service.go:58: "a change during indexing isn't missed"), except
\* below a directory that was made again under a name still to be told gone.
QuietIndexIsComplete ==
  Quiet => \A p \in Path : tree[p] # "none" /\ ~Doubtful(p) => HasRow(p)

\* And the index then has no row of an entry of the root that is gone.  (A walk
\* only adds rows: those of an earlier run are not its concern.  Further down, an
\* entry that goes before its directory is watched can leave its row behind.)
QuietRootIsExact ==
  Quiet => \A p \in Path : Len(p) = 1 /\ index[p] # NoRow => tree[p] # "none"

\* No directory of the tree is left without a watch that reports it under its
\* present name: a later change in it would go unseen (addTree, dropWatch).  The
\* exception is the same.
NoBlindDirectory ==
  mode = "idle" /\ events = <<>> =>
    \A d \in Node : IsDir(d) /\ ~Doubtful(d) => kwatch[d] = d

\* When the user stops, the index catches up and stays right: the walk gives the
\* connection back, and a full channel stops neither watcher nor consumer.
\* (Its instance has one level of directories, where no exception is needed.)
EventuallyComplete ==
  <>[](Quiet /\ \A p \in Path : tree[p] # "none" => HasRow(p))

-----------------------------------------------------------------------------
\* Assumed by the proof that no directory is left blind: no directory that holds a
\* directory is renamed.  (The names below it would stay in watched, and a directory
\* made under one of them later would not be watched.)
FlatMove  == \A p, q \in Path : Rename(p, q) => \A d \in Below(p) : tree[d] # "dir"
FlatMoves == [][FlatMove]_vars

=============================================================================
