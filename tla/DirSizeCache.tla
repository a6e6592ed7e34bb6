---------------------------- MODULE DirSizeCache ----------------------------
(***************************************************************************)
(* The directory-size cache of the control server.  Callers ask for the    *)
(* size of a directory and share one background walk per directory; the    *)
(* handlers that change files drop the entries they make stale; entries    *)
(* expire; a walk nobody polls gives up.                                   *)
(*                                                                         *)
(* Every operation on the sync.Map is one step, and so is every file that  *)
(* a walk visits or a handler changes.  The size of a directory is         *)
(* represented by the set of files that were counted: a file rewritten     *)
(* with another size is one that appears.                                  *)
(***************************************************************************)
EXTENDS Naturals, FiniteSets

CONSTANTS
  File, Dir,
  Parent,    \* Parent[n]: the directory that file or directory n is in
  Under,     \* Under[d]: the files anywhere below directory d
  NoDir,     \* the parent of a directory nobody asks about
  Job,       \* BOUND: the dirSizeJob values in memory
  Caller,    \* concurrent calls of getDirSizeProgress
  Handler,   \* concurrent requests that change files
  Target,    \* the paths that requests name
  MaxOps,    \* BOUND: requests that change files
  Unusual,   \* what else happens, of the three below
  NoJob

\* "blocking": getDirSize, the blocking variant, is called;
\* "write":    handleFsWriteFile, handleFsCompress or handleFsDecompress is;
\* "failure":  a request fails half-way.
ASSUME CacheAssumption ==
  /\ MaxOps \in Nat
  /\ Parent \in [File \cup Dir -> Dir \cup {NoDir}] /\ NoDir \notin Dir
  /\ Under \in [Dir -> SUBSET File]
  /\ \A f \in File : Parent[f] \in Dir => f \in Under[Parent[f]]
  /\ Target \subseteq File \cup Dir /\ Unusual \subseteq {"blocking", "write", "failure"}
  /\ NoJob \notin Job /\ File \cap Dir = {}

VARIABLES
  disk,     \* the files that exist
  ops,      \* requests made that change files
  todo,     \* todo[h]: the paths request h has yet to take away
  making,   \* making[h]: the paths it has yet to make
  due,      \* due[h]: the entries it has yet to drop for what it changed
  cache,    \* dirSizeCache: cache[d] is a job or NoJob
  dir,      \* dir[j]: the directory job j walks
  state,    \* state[j]: new (nothing listed yet), walking or done
  left,     \* left[j]: the files it listed and has yet to visit
  seen,     \* seen[j]: the files it counted
  private,  \* the jobs of getDirSize, entries of the cache only once they are done
  expired,  \* the jobs done longer than dirSizeTTL ago
  step,     \* step[c]: where call c is in getDirSizeProgress
  asked,    \* asked[c]: the directory it asks about
  missed    \* history: entries a change made stale and no request will drop

world   == <<disk, ops, todo, making, due>>
walks   == <<dir, state, left, seen, private, expired>>
callers == <<step, asked>>
vars    == <<world, cache, walks, callers, missed>>

TypeOK ==
  /\ disk \subseteq File /\ ops \in 0 .. MaxOps
  /\ todo \in [Handler -> SUBSET (File \cup Dir)]
  /\ making \in [Handler -> SUBSET (File \cup Dir)]
  /\ due \in [Handler -> SUBSET Dir]
  /\ cache \in [Dir -> Job \cup {NoJob}]
  /\ dir \in [Job -> Dir \cup {NoDir}]
  /\ state \in [Job -> {"new", "walking", "done"}]
  /\ left \in [Job -> SUBSET File] /\ seen \in [Job -> SUBSET File]
  /\ private \subseteq Job /\ expired \subseteq Job
  /\ step \in [Caller -> {"idle", "delete", "store"}]
  /\ asked \in [Caller -> Dir \cup {NoDir}]
  /\ missed \subseteq Dir

Init ==
  /\ disk \in SUBSET File /\ ops = 0
  /\ todo = [h \in Handler |-> {}] /\ making = [h \in Handler |-> {}]
  /\ due = [h \in Handler |-> {}]
  /\ cache = [d \in Dir |-> NoJob]
  /\ dir = [j \in Job |-> NoDir] /\ state = [j \in Job |-> "done"]
  /\ left = [j \in Job |-> {}] /\ seen = [j \in Job |-> {}]
  /\ private = {} /\ expired = {}
  /\ step = [c \in Caller |-> "idle"] /\ asked = [c \in Caller |-> NoDir]
  /\ missed = {}

-----------------------------------------------------------------------------
(* Requests that change files.                                             *)

\* The entries invalidateDirSize drops for a path: its own and its parent's.
Keys(n) == {n, Parent[n]} \cap Dir

FilesOf(n) == IF n \in Dir THEN Under[n] ELSE {n}

\* Of the entries that files F count in, those not in D stay.
Misses(F, D) ==
  {d \in Dir : Under[d] \cap F # {} /\ cache[d] # NoJob /\ d \notin D}

\* A change of request h to the files F of path n.
Changes(h, n, F) ==
  /\ due' = [due EXCEPT ![h] = @ \cup Keys(n)]
  /\ missed' = missed \cup Misses(F, due'[h])
  /\ UNCHANGED <<ops, cache, walks, callers>>

\* A request takes the paths N away and makes the paths M: handleFsCreateFile,
\* handleFsMkdir, handleFsCopy (no N), handleFsDelete, handleFsTrash (no M),
\* handleFsRename, handleFsMove (both).
Begin(h, N, M) ==
  /\ todo[h] = {} /\ making[h] = {} /\ due[h] = {}
  /\ ops < MaxOps /\ ops' = ops + 1
  /\ N \cup M # {} /\ N \cap M = {}
  /\ todo' = [todo EXCEPT ![h] = N]
  /\ making' = [making EXCEPT ![h] = M]
  /\ UNCHANGED <<disk, due, cache, walks, callers, missed>>

\* copyPath, or the one file of a new path.
MakeFile(h, m, f) ==
  /\ m \in making[h] /\ f \in FilesOf(m) \ disk
  /\ disk' = disk \cup {f}
  /\ Changes(h, m, {f})
  /\ UNCHANGED <<todo, making>>

Made(h, m) ==
  /\ m \in making[h]
  /\ making' = [making EXCEPT ![h] = @ \ {m}]
  /\ Changes(h, m, {})
  /\ UNCHANGED <<disk, todo>>

\* os.RemoveAll.
RemoveFile(h, n, f) ==
  /\ n \in todo[h] /\ f \in FilesOf(n) \cap disk
  /\ disk' = disk \ {f}
  /\ Changes(h, n, {f})
  /\ UNCHANGED <<todo, making>>

Removed(h, n) ==
  /\ n \in todo[h] /\ FilesOf(n) \cap disk = {}
  /\ todo' = [todo EXCEPT ![h] = @ \ {n}]
  /\ Changes(h, n, {})
  /\ UNCHANGED <<disk, making>>

\* os.Rename away from what anybody asks about: to the trash, another volume.
RenameAway(h, n) ==
  /\ n \in todo[h]
  /\ disk' = disk \ FilesOf(n)
  /\ todo' = [todo EXCEPT ![h] = @ \ {n}]
  /\ Changes(h, n, FilesOf(n))
  /\ UNCHANGED making

\* os.Rename of n to m, with files G below it.
Rename(h, n, m, G) ==
  /\ n \in todo[h] /\ m \in making[h] /\ G \subseteq FilesOf(m)
  /\ disk' = (disk \ FilesOf(n)) \cup G
  /\ todo' = [todo EXCEPT ![h] = @ \ {n}]
  /\ making' = [making EXCEPT ![h] = @ \ {m}]
  /\ due' = [due EXCEPT ![h] = @ \cup Keys(n) \cup Keys(m)]
  /\ missed' = missed \cup Misses(FilesOf(n) \cup G, due'[h])
  /\ UNCHANGED <<ops, cache, walks, callers>>

\* The first path that fails ends the request with an error: what it changed so
\* far is not invalidated.
Fails(h) ==
  /\ "failure" \in Unusual /\ todo[h] \cup making[h] # {}
  /\ todo' = [todo EXCEPT ![h] = {}] /\ making' = [making EXCEPT ![h] = {}]
  /\ due' = [due EXCEPT ![h] = {}]
  /\ missed' = missed \cup {d \in due[h] : cache[d] # NoJob}
  /\ UNCHANGED <<disk, ops, cache, walks, callers>>

\* Writing a file, an archive or a file out of an archive invalidates nothing.
WriteFile(f) ==
  /\ "write" \in Unusual /\ f \notin disk
  /\ ops < MaxOps /\ ops' = ops + 1
  /\ disk' = disk \cup {f}
  /\ missed' = missed \cup Misses({f}, {})
  /\ UNCHANGED <<todo, making, due, cache, walks, callers>>

\* Mutation: the entry of a walk in progress is left alone.
DropFinished(d) ==
  /\ cache' = IF cache[d] # NoJob /\ state[cache[d]] = "done"
             THEN [cache EXCEPT ![d] = NoJob]
             ELSE cache
  /\ missed' = missed \ {d}

\* sync.Map's Delete.
Drop(d) ==
  /\ cache' = [cache EXCEPT ![d] = NoJob]
  /\ missed' = missed \ {d}

Invalidate(h, d) ==
  /\ todo[h] = {} /\ making[h] = {} /\ d \in due[h]
  /\ Drop(d)
  /\ due' = [due EXCEPT ![h] = @ \ {d}]
  /\ UNCHANGED <<disk, ops, todo, making, walks, callers>>

Request(h) ==
  \/ \E N, M \in SUBSET Target : Begin(h, N, M)
  \/ \E n \in File \cup Dir :
       \/ \E f \in File : MakeFile(h, n, f) \/ RemoveFile(h, n, f)
       \/ Made(h, n) \/ Removed(h, n) \/ RenameAway(h, n)
       \/ \E m \in File \cup Dir : \E G \in SUBSET File : Rename(h, n, m, G)
  \/ Fails(h)
  \/ \E d \in Dir : Invalidate(h, d)

Change ==
  \/ \E h \in Handler : Request(h)
  \/ \E f \in File : WriteFile(f)

-----------------------------------------------------------------------------
(* Requests for a size, and the walks they start.                          *)

IsFresh(j) == state[j] = "done" /\ j \notin expired

\* A job nobody refers to any more is memory for a new one.
NewJob(j, d) ==
  /\ state[j] = "done" /\ \A e \in Dir : cache[e] # j
  /\ dir' = [dir EXCEPT ![j] = d]
  /\ state' = [state EXCEPT ![j] = "new"]
  /\ left' = [left EXCEPT ![j] = {}] /\ seen' = [seen EXCEPT ![j] = {}]
  /\ expired' = expired \ {j}
  /\ UNCHANGED missed

\* getDirSizeProgress, its Load.  A walk in progress or a fresh result is the
\* answer, and the call is over.
Load(c, d) ==
  /\ step[c] = "idle"
  /\ cache[d] # NoJob => cache[d] \in expired
  /\ step' = [step EXCEPT ![c] = IF cache[d] = NoJob THEN "store" ELSE "delete"]
  /\ asked' = [asked EXCEPT ![c] = d]
  /\ UNCHANGED <<world, cache, walks, missed>>

DeleteExpired(c) ==
  /\ step[c] = "delete"
  /\ Drop(asked[c])
  /\ step' = [step EXCEPT ![c] = "store"]
  /\ UNCHANGED <<world, walks, asked>>

\* LoadOrStore: the call that stores its job starts the walk.
LoadOrStore(c) ==
  /\ step[c] = "store"
  /\ step' = [step EXCEPT ![c] = "idle"]
  /\ asked' = [asked EXCEPT ![c] = NoDir]
  /\ IF cache[asked[c]] # NoJob THEN UNCHANGED <<cache, walks, missed>>
     ELSE \E j \in Job :
            /\ NewJob(j, asked[c])
            /\ private' = private \ {j}
            /\ cache' = [cache EXCEPT ![asked[c]] = j]
  /\ UNCHANGED world

\* getDirSize walks on its own unless there is a fresh result.
GetDirSize(d) ==
  /\ "blocking" \in Unusual
  /\ cache[d] # NoJob => ~IsFresh(cache[d])
  /\ \E j \in Job : NewJob(j, d) /\ private' = private \cup {j}
  /\ UNCHANGED <<world, cache, callers>>

\* Mutation: the names read are those of the whole tree, directories included.
ListNodes(j) ==
  /\ state[j] = "new"
  /\ state' = [state EXCEPT ![j] = "walking"]
  /\ left' = [left EXCEPT ![j] = (Under[dir[j]] \cap disk) \cup {dir[j]}]
  /\ UNCHANGED <<world, cache, dir, seen, private, expired, callers, missed>>

\* A directory's names are read before its files are lstat'ed.
ListNames(j) ==
  /\ state[j] = "new"
  /\ state' = [state EXCEPT ![j] = "walking"]
  /\ left' = [left EXCEPT ![j] = Under[dir[j]] \cap disk]
  /\ UNCHANGED <<world, cache, dir, seen, private, expired, callers, missed>>

Visit(j, f) ==
  /\ state[j] = "walking" /\ f \in left[j]
  /\ seen' = [seen EXCEPT ![j] = @ \cup ({f} \cap disk)]
  /\ left' = [left EXCEPT ![j] = @ \ {f}]
  /\ UNCHANGED <<world, cache, dir, state, private, expired, callers, missed>>

\* A background walk marks its job done; getDirSize stores its own.
Finish(j) ==
  /\ state[j] = "walking" /\ left[j] = {}
  /\ state' = [state EXCEPT ![j] = "done"]
  /\ cache' = IF j \in private THEN [cache EXCEPT ![dir[j]] = j] ELSE cache
  /\ UNCHANGED <<world, dir, left, seen, private, expired, callers, missed>>

\* Nobody polled for dirSizeIdleAbort (the clock is not modelled).
Abort(j) ==
  /\ state[j] = "walking" /\ j \notin private
  /\ Drop(dir[j])
  /\ state' = [state EXCEPT ![j] = "done"]
  /\ UNCHANGED <<world, dir, left, seen, private, expired, callers>>

Expire(j) ==
  /\ IsFresh(j) /\ \E d \in Dir : cache[d] = j
  /\ expired' = expired \cup {j}
  /\ UNCHANGED <<world, cache, dir, state, left, seen, private, callers, missed>>

Size ==
  \/ \E c \in Caller : \/ \E d \in Dir : Load(c, d)
                       \/ DeleteExpired(c)
                       \/ LoadOrStore(c)
  \/ \E d \in Dir : GetDirSize(d)
  \/ \E j \in Job : \/ ListNames(j) \/ Finish(j) \/ Abort(j) \/ Expire(j)
                    \/ \E f \in File : Visit(j, f)

Next == Change \/ Size

Spec == Init /\ [][Next]_vars

-----------------------------------------------------------------------------
(* Properties.                                                             *)

\* No request is between a change and the invalidation of d that answers it.
Settled(d) == \A h \in Handler : d \notin due[h]

SizeIsRight(d) ==
  cache[d] # NoJob /\ state[cache[d]] = "done" =>
    seen[cache[d]] = disk \cap Under[d]

\* However walks, calls, expiry and changes interleave, what a background walk
\* leaves in the cache is the directory's size, once the requests that changed
\* the directory have dropped the entries they know of (fs.go:28, 128-133).  Not
\* so where no request drops the entry, nor for what getDirSize stores.
SharedSizeIsRight ==
  \A d \in Dir :
    Settled(d) /\ d \notin missed /\ cache[d] \notin private => SizeIsRight(d)

\* "Handlers for mutations call invalidateDirSize so the next request re-walks"
\* (fs.go:28): no finished entry is out of date, the proviso on pending requests
\* being the only one.
SettledSizeIsRight == \A d \in Dir : Settled(d) => SizeIsRight(d)

=============================================================================
