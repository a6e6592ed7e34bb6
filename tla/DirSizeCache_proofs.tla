------------------------ MODULE DirSizeCache_proofs -------------------------
(***************************************************************************)
(* Proofs about DirSizeCache, for any tree, any number of calls, requests  *)
(* and jobs, and whatever of the unusual happens.  The invariant behind    *)
(* SharedSizeIsRight follows a walk from its start: an entry of the cache  *)
(* that no request is about to drop has counted exactly what exists of the *)
(* files it is past.                                                       *)
(***************************************************************************)
EXTENDS DirSizeCache, TLAPS

\* A job is in the cache only under the directory it walks, and it lists and
\* counts files of that directory only, each at most once.
Shape ==
  /\ \A d \in Dir : cache[d] # NoJob =>
       /\ dir[cache[d]] = d
       /\ state[cache[d]] = "done" => left[cache[d]] = {}
  /\ \A j \in Job : state[j] # "done" => dir[j] \in Dir
  /\ \A j \in Job : dir[j] \in Dir => seen[j] \cup left[j] \subseteq Under[dir[j]]
  /\ \A j \in Job : /\ seen[j] \cap left[j] = {}
                    /\ state[j] = "new" => seen[j] = {}
  /\ \A c \in Caller : step[c] # "idle" => asked[c] \in Dir

\* Job j is past the files it has no longer to visit, and counted them rightly.
Counted(j, d) ==
  state[j] # "new" =>
    \A f \in Under[d] : f \notin left[j] => (f \in seen[j] <=> f \in disk)

Tracks ==
  \A d \in Dir :
    Settled(d) /\ d \notin missed /\ cache[d] # NoJob /\ cache[d] \notin private
      => Counted(cache[d], d)

LEMMA KeysType ==
  ASSUME NEW n \in File \cup Dir
  PROVE  Keys(n) \subseteq Dir
BY DEF Keys

LEMMA MissesType == ASSUME NEW F, NEW D PROVE Misses(F, D) \subseteq Dir
BY DEF Misses

LEMMA FilesOfType ==
  ASSUME NEW n \in File \cup Dir
  PROVE  FilesOf(n) \subseteq File
BY CacheAssumption DEF FilesOf

\* The invariant holds of the empty cache the server starts with.
LEMMA InitInv == Init => TypeOK /\ Shape /\ Tracks
<1>. SUFFICES ASSUME Init PROVE TypeOK /\ Shape /\ Tracks
  OBVIOUS
<1>1. TypeOK
  BY CacheAssumption DEF Init, TypeOK
<1>2. Shape
  BY CacheAssumption DEF Init, Shape
<1>3. Tracks
  BY DEF Init, Tracks
<1>. QED
  BY <1>1, <1>2, <1>3

LEMMA NewJobType ==
  ASSUME TypeOK, NEW j \in Job, NEW d \in Dir, NewJob(j, d)
  PROVE  /\ dir' \in [Job -> Dir \cup {NoDir}]
         /\ state' \in [Job -> {"new", "walking", "done"}]
         /\ left' \in [Job -> SUBSET File] /\ seen' \in [Job -> SUBSET File]
         /\ expired' \subseteq Job /\ missed' \subseteq Dir
BY DEF NewJob, TypeOK

\* What the changes of a request assign keeps its type.
LEMMA ChangesType ==
  ASSUME TypeOK, NEW h \in Handler, NEW n \in File \cup Dir, NEW F, Changes(h, n, F)
  PROVE  /\ due' \in [Handler -> SUBSET Dir] /\ missed' \subseteq Dir
         /\ UNCHANGED <<ops, cache, walks, callers>>
BY KeysType, MissesType DEF Changes, TypeOK

\* The requests keep the types: they assign disk, ops, todo, making, due, cache
\* and missed.
LEMMA RequestType ==
  ASSUME TypeOK, NEW h \in Handler, Request(h) PROVE TypeOK'
<1>. USE DEF walks, callers
<1>1. ASSUME NEW N \in SUBSET Target, NEW M \in SUBSET Target, Begin(h, N, M)
      PROVE  TypeOK'
  <2>1. ops' \in 0 .. MaxOps
    BY <1>1, CacheAssumption DEF Begin, TypeOK
  <2>. QED
    BY <1>1, <2>1, CacheAssumption DEF Begin, TypeOK
<1>2. ASSUME NEW n \in File \cup Dir, NEW f \in File, MakeFile(h, n, f)
      PROVE  TypeOK'
  BY <1>2, ChangesType DEF MakeFile, TypeOK
<1>3. ASSUME NEW n \in File \cup Dir, NEW f \in File, RemoveFile(h, n, f)
      PROVE  TypeOK'
  BY <1>3, ChangesType DEF RemoveFile, TypeOK
<1>4. ASSUME NEW n \in File \cup Dir, Made(h, n) PROVE TypeOK'
  BY <1>4, ChangesType DEF Made, TypeOK
<1>5. ASSUME NEW n \in File \cup Dir, Removed(h, n) PROVE TypeOK'
  BY <1>5, ChangesType DEF Removed, TypeOK
<1>6. ASSUME NEW n \in File \cup Dir, RenameAway(h, n) PROVE TypeOK'
  BY <1>6, ChangesType DEF RenameAway, TypeOK
<1>7. ASSUME NEW n \in File \cup Dir, NEW m \in File \cup Dir, NEW G \in SUBSET File,
             Rename(h, n, m, G)
      PROVE  TypeOK'
  <2>1. Keys(n) \cup Keys(m) \subseteq Dir
    BY KeysType
  <2>2. due' \in [Handler -> SUBSET Dir]
    BY <1>7, <2>1 DEF Rename, TypeOK
  <2>. QED
    BY <1>7, <2>2, MissesType DEF Rename, TypeOK
<1>8. CASE Fails(h)
  BY <1>8 DEF Fails, TypeOK
<1>9. ASSUME NEW d \in Dir, Invalidate(h, d) PROVE TypeOK'
  BY <1>9 DEF Invalidate, Drop, TypeOK
<1>. QED
  BY <1>1, <1>2, <1>3, <1>4, <1>5, <1>6, <1>7, <1>8, <1>9 DEF Request

LEMMA ChangeType == TypeOK /\ Change => TypeOK'
<1>. SUFFICES ASSUME TypeOK, Change PROVE TypeOK'
  OBVIOUS
<1>1. ASSUME NEW f \in File, WriteFile(f) PROVE TypeOK'
  <2>1. ops' \in 0 .. MaxOps
    BY <1>1, CacheAssumption DEF WriteFile, TypeOK
  <2>. QED
    BY <1>1, <2>1, MissesType DEF WriteFile, TypeOK, walks, callers
<1>. QED
  BY <1>1, RequestType DEF Change

LEMMA SizeType == TypeOK /\ Shape /\ Size => TypeOK'
<1>. SUFFICES ASSUME TypeOK, Shape, Size PROVE TypeOK'
  OBVIOUS
<1>. USE DEF world, walks, callers
<1>1. ASSUME NEW c \in Caller, NEW d \in Dir, Load(c, d) PROVE TypeOK'
  BY <1>1 DEF Load, TypeOK
<1>2. ASSUME NEW c \in Caller, DeleteExpired(c) PROVE TypeOK'
  BY <1>2 DEF DeleteExpired, Drop, TypeOK
<1>3. ASSUME NEW c \in Caller, LoadOrStore(c) PROVE TypeOK'
  <2>1. CASE cache[asked[c]] # NoJob
    BY <1>3, <2>1 DEF LoadOrStore, TypeOK
  <2>2. CASE cache[asked[c]] = NoJob
    <3>1. asked[c] \in Dir
      BY <1>3 DEF LoadOrStore, Shape
    <3>2. PICK j \in Job : /\ NewJob(j, asked[c])
                           /\ private' = private \ {j}
                           /\ cache' = [cache EXCEPT ![asked[c]] = j]
      BY <1>3, <2>2 DEF LoadOrStore
    <3>. QED
      BY <1>3, <3>1, <3>2, NewJobType DEF LoadOrStore, TypeOK
  <2>. QED
    BY <2>1, <2>2
<1>4. ASSUME NEW d \in Dir, GetDirSize(d) PROVE TypeOK'
  <2>1. PICK j \in Job : NewJob(j, d) /\ private' = private \cup {j}
    BY <1>4 DEF GetDirSize
  <2>. QED
    BY <1>4, <2>1, NewJobType DEF GetDirSize, TypeOK
<1>5. ASSUME NEW j \in Job, ListNames(j) PROVE TypeOK'
  <2>1. dir[j] \in Dir /\ Under[dir[j]] \subseteq File
    BY <1>5, CacheAssumption DEF ListNames, Shape
  <2>. QED
    BY <1>5, <2>1 DEF ListNames, TypeOK
<1>6. ASSUME NEW j \in Job, NEW f \in File, Visit(j, f) PROVE TypeOK'
  BY <1>6 DEF Visit, TypeOK
<1>7. ASSUME NEW j \in Job, Finish(j) PROVE TypeOK'
  BY <1>7 DEF Finish, TypeOK
<1>8. ASSUME NEW j \in Job, Abort(j) PROVE TypeOK'
  BY <1>8 DEF Abort, Drop, TypeOK
<1>9. ASSUME NEW j \in Job, Expire(j) PROVE TypeOK'
  BY <1>9 DEF Expire, TypeOK
<1>. QED
  BY <1>1, <1>2, <1>3, <1>4, <1>5, <1>6, <1>7, <1>8, <1>9 DEF Size

\* A request touches neither walks nor calls, and of the cache one entry at most.
LEMMA ChangeLeaves ==
  ASSUME Change
  PROVE  /\ UNCHANGED <<walks, callers>>
         /\ \/ UNCHANGED cache
            \/ \E d \in Dir : cache' = [cache EXCEPT ![d] = NoJob]
<1>. DEFINE Leaves == /\ UNCHANGED <<walks, callers>>
                      /\ \/ UNCHANGED cache
                         \/ \E d \in Dir : cache' = [cache EXCEPT ![d] = NoJob]
<1>1. ASSUME NEW f \in File, WriteFile(f) PROVE Leaves
  BY <1>1 DEF WriteFile
<1>2. ASSUME NEW h \in Handler, Request(h) PROVE Leaves
  <2>1. ASSUME NEW N \in SUBSET Target, NEW M \in SUBSET Target, Begin(h, N, M)
        PROVE  Leaves
    BY <2>1 DEF Begin
  <2>2. ASSUME NEW n \in File \cup Dir, NEW F, Changes(h, n, F) PROVE Leaves
    BY <2>2 DEF Changes
  <2>3. ASSUME NEW n \in File \cup Dir, NEW f \in File,
               MakeFile(h, n, f) \/ RemoveFile(h, n, f)
        PROVE  Leaves
    BY <2>2, <2>3 DEF MakeFile, RemoveFile
  <2>4. ASSUME NEW n \in File \cup Dir, Made(h, n) \/ Removed(h, n) \/ RenameAway(h, n)
        PROVE  Leaves
    BY <2>2, <2>4 DEF Made, Removed, RenameAway
  <2>5. ASSUME NEW n \in File \cup Dir, NEW m \in File \cup Dir, NEW G \in SUBSET File,
               Rename(h, n, m, G)
        PROVE  Leaves
    BY <2>5 DEF Rename
  <2>6. CASE Fails(h)
    BY <2>6 DEF Fails
  <2>7. ASSUME NEW d \in Dir, Invalidate(h, d) PROVE Leaves
    BY <2>7 DEF Invalidate, Drop
  <2>. HIDE DEF Leaves
  <2>. QED
    BY <1>2, <2>1, <2>3, <2>4, <2>5, <2>6, <2>7 DEF Request
<1>. QED
  BY <1>1, <1>2 DEF Change

LEMMA ChangeShape == TypeOK /\ Shape /\ Change => Shape'
<1>. SUFFICES ASSUME TypeOK, Shape, Change PROVE Shape'
  OBVIOUS
<1>1. UNCHANGED <<walks, callers>>
  BY ChangeLeaves
<1>2. \/ UNCHANGED cache
      \/ \E d \in Dir : cache' = [cache EXCEPT ![d] = NoJob]
  BY ChangeLeaves
<1>3. \A d \in Dir : cache'[d] # NoJob => cache'[d] = cache[d]
  BY <1>2 DEF TypeOK
<1>. QED
  BY <1>1, <1>3 DEF Shape, walks, callers

LEMMA SizeShape == TypeOK /\ Shape /\ Size => Shape'
<1>. SUFFICES ASSUME TypeOK, Shape, Size PROVE Shape'
  OBVIOUS
<1>. USE DEF world, walks, callers
<1>1. ASSUME NEW c \in Caller, NEW d \in Dir, Load(c, d) PROVE Shape'
  BY <1>1 DEF Load, TypeOK, Shape
<1>2. ASSUME NEW c \in Caller, DeleteExpired(c) PROVE Shape'
  BY <1>2 DEF DeleteExpired, Drop, TypeOK, Shape
<1>3. ASSUME NEW c \in Caller, LoadOrStore(c) PROVE Shape'
  <2>1. CASE cache[asked[c]] # NoJob
    BY <1>3, <2>1 DEF LoadOrStore, TypeOK, Shape
  <2>2. CASE cache[asked[c]] = NoJob
    <3>1. asked[c] \in Dir
      BY <1>3 DEF LoadOrStore, Shape
    <3>2. PICK j \in Job : /\ NewJob(j, asked[c])
                           /\ private' = private \ {j}
                           /\ cache' = [cache EXCEPT ![asked[c]] = j]
      BY <1>3, <2>2 DEF LoadOrStore
    <3>. DEFINE e == asked[c]
    <3>3. /\ \A k \in Job : k # j => /\ dir'[k] = dir[k] /\ state'[k] = state[k]
                                    /\ left'[k] = left[k] /\ seen'[k] = seen[k]
          /\ dir'[j] = e /\ state'[j] = "new" /\ left'[j] = {} /\ seen'[j] = {}
      BY <3>2 DEF NewJob, TypeOK
    <3>4. \A d \in Dir : /\ cache[d] # j
                         /\ d # e => cache'[d] = cache[d]
                         /\ d = e => cache'[d] = j
      BY <3>1, <3>2 DEF NewJob, TypeOK
    <3>5. \A d \in Dir : cache[d] # NoJob => cache[d] \in Job
      BY DEF TypeOK
    <3>6. \A d \in Dir : cache'[d] # NoJob =>
            /\ dir'[cache'[d]] = d
            /\ state'[cache'[d]] = "done" => left'[cache'[d]] = {}
      BY <3>1, <3>3, <3>4, <3>5 DEF Shape
    <3>7. \A k \in Job : /\ state'[k] # "done" => dir'[k] \in Dir
                         /\ dir'[k] \in Dir =>
                              seen'[k] \cup left'[k] \subseteq Under[dir'[k]]
                         /\ seen'[k] \cap left'[k] = {}
                         /\ state'[k] = "new" => seen'[k] = {}
      BY <3>1, <3>3 DEF Shape
    <3>8. \A b \in Caller : step'[b] # "idle" => asked'[b] \in Dir
      BY <1>3 DEF LoadOrStore, Shape, TypeOK
    <3>. QED
      BY <3>6, <3>7, <3>8 DEF Shape
  <2>. QED
    BY <2>1, <2>2
<1>4. ASSUME NEW d \in Dir, GetDirSize(d) PROVE Shape'
  <2>1. PICK j \in Job : NewJob(j, d) /\ private' = private \cup {j}
    BY <1>4 DEF GetDirSize
  <2>. QED
    BY <1>4, <2>1 DEF GetDirSize, NewJob, TypeOK, Shape
<1>5. ASSUME NEW j \in Job, ListNames(j) PROVE Shape'
  BY <1>5 DEF ListNames, TypeOK, Shape
<1>6. ASSUME NEW j \in Job, NEW f \in File, Visit(j, f) PROVE Shape'
  BY <1>6 DEF Visit, TypeOK, Shape
<1>7. ASSUME NEW j \in Job, Finish(j) PROVE Shape'
  BY <1>7, CacheAssumption DEF Finish, TypeOK, Shape
<1>8. ASSUME NEW j \in Job, Abort(j) PROVE Shape'
  BY <1>8 DEF Abort, Drop, TypeOK, Shape
<1>9. ASSUME NEW j \in Job, Expire(j) PROVE Shape'
  BY <1>9 DEF Expire, TypeOK, Shape
<1>. QED
  BY <1>1, <1>2, <1>3, <1>4, <1>5, <1>6, <1>7, <1>8, <1>9 DEF Size

\* A change of files F that leaves the cache alone disturbs no entry but those
\* that are due, or missed, afterwards.
LEMMA ChangeOfFiles ==
  ASSUME TypeOK, Tracks, NEW F \in SUBSET File, NEW D,
         UNCHANGED <<cache, walks>>, due' \in [Handler -> SUBSET Dir],
         \A f \in File \ F : f \in disk' <=> f \in disk,
         \A k \in Handler : due[k] \subseteq due'[k],
         \A d \in D : \E k \in Handler : d \in due'[k],
         missed' = missed \cup Misses(F, D)
  PROVE  Tracks'
<1>. SUFFICES ASSUME NEW d \in Dir, Settled(d)', d \notin missed',
                     cache'[d] # NoJob, cache'[d] \notin private'
              PROVE  Counted(cache[d], d)'
  BY DEF Tracks, Counted, walks
<1>1. Settled(d) /\ d \notin missed /\ cache[d] # NoJob /\ cache[d] \notin private
  BY DEF Settled, walks
<1>2. Counted(cache[d], d)
  BY <1>1 DEF Tracks
<1>3. d \notin D
  BY DEF Settled
<1>4. Under[d] \cap F = {}
  BY <1>1, <1>3 DEF Misses
<1>5. \A f \in Under[d] : f \in disk' <=> f \in disk
  BY <1>4, CacheAssumption
<1>. QED
  BY <1>2, <1>5 DEF Counted, walks

\* A request that changes files F of a path owes the entries of the path.
LEMMA ChangesTrack ==
  ASSUME TypeOK, Tracks, NEW h \in Handler, NEW n \in File \cup Dir,
         NEW F \in SUBSET File, Changes(h, n, F),
         \A f \in File \ F : f \in disk' <=> f \in disk
  PROVE  Tracks'
<1>1. due' = [due EXCEPT ![h] = due[h] \cup Keys(n)] /\ Keys(n) \subseteq Dir
  BY KeysType DEF Changes
<1>2. /\ due' \in [Handler -> SUBSET Dir]
      /\ \A k \in Handler : due[k] \subseteq due'[k]
  BY <1>1 DEF TypeOK
<1>3. UNCHANGED <<cache, walks>> /\ missed' = missed \cup Misses(F, due'[h])
  BY DEF Changes
<1>. QED
  BY <1>2, <1>3, ChangeOfFiles

LEMMA RequestTracks ==
  ASSUME TypeOK, Tracks, NEW h \in Handler, Request(h) PROVE Tracks'
<1>1. ASSUME NEW N \in SUBSET Target, NEW M \in SUBSET Target, Begin(h, N, M)
      PROVE  Tracks'
  BY <1>1 DEF Begin, walks, Tracks, Settled, Counted
<1>2. ASSUME NEW n \in File \cup Dir, NEW f \in File, MakeFile(h, n, f)
      PROVE  Tracks'
  <2>1. /\ {f} \in SUBSET File /\ Changes(h, n, {f})
        /\ \A g \in File \ {f} : g \in disk' <=> g \in disk
    BY <1>2 DEF MakeFile
  <2>. QED
    BY <2>1, ChangesTrack
<1>3. ASSUME NEW n \in File \cup Dir, NEW f \in File, RemoveFile(h, n, f)
      PROVE  Tracks'
  <2>1. /\ {f} \in SUBSET File /\ Changes(h, n, {f})
        /\ \A g \in File \ {f} : g \in disk' <=> g \in disk
    BY <1>3 DEF RemoveFile
  <2>. QED
    BY <2>1, ChangesTrack
<1>4. ASSUME NEW n \in File \cup Dir, Made(h, n) \/ Removed(h, n) PROVE Tracks'
  <2>1. {} \in SUBSET File /\ Changes(h, n, {}) /\ disk' = disk
    BY <1>4 DEF Made, Removed
  <2>. QED
    BY <2>1, ChangesTrack
<1>5. ASSUME NEW n \in File \cup Dir, RenameAway(h, n) PROVE Tracks'
  <2>1. /\ FilesOf(n) \in SUBSET File /\ Changes(h, n, FilesOf(n))
        /\ \A g \in File \ FilesOf(n) : g \in disk' <=> g \in disk
    BY <1>5, FilesOfType DEF RenameAway
  <2>. QED
    BY <2>1, ChangesTrack
<1>6. ASSUME NEW n \in File \cup Dir, NEW m \in File \cup Dir, NEW G \in SUBSET File,
             Rename(h, n, m, G)
      PROVE  Tracks'
  <2>1. /\ due' = [due EXCEPT ![h] = due[h] \cup Keys(n) \cup Keys(m)]
        /\ Keys(n) \cup Keys(m) \subseteq Dir
    BY <1>6, KeysType DEF Rename
  <2>2. /\ due' \in [Handler -> SUBSET Dir]
        /\ \A k \in Handler : due[k] \subseteq due'[k]
    BY <2>1 DEF TypeOK
  <2>3. /\ FilesOf(n) \cup G \in SUBSET File
        /\ \A g \in File \ (FilesOf(n) \cup G) : g \in disk' <=> g \in disk
    BY <1>6, FilesOfType DEF Rename
  <2>4. /\ UNCHANGED <<cache, walks>>
        /\ missed' = missed \cup Misses(FilesOf(n) \cup G, due'[h])
    BY <1>6 DEF Rename
  <2>. QED
    BY <2>2, <2>3, <2>4, ChangeOfFiles
<1>7. CASE Fails(h)
  <2>. SUFFICES ASSUME NEW d \in Dir, Settled(d)', d \notin missed',
                       cache'[d] # NoJob, cache'[d] \notin private'
                PROVE  Counted(cache[d], d)'
    BY <1>7 DEF Tracks, Counted, Fails, walks
  <2>1. d \notin due[h]
    BY <1>7 DEF Fails
  <2>2. Settled(d)
    BY <1>7, <2>1 DEF Fails, Settled, TypeOK
  <2>3. Counted(cache[d], d)
    BY <1>7, <2>2 DEF Fails, Tracks, walks
  <2>. QED
    BY <1>7, <2>3 DEF Fails, Counted, walks
<1>8. ASSUME NEW e \in Dir, Invalidate(h, e) PROVE Tracks'
  <2>. SUFFICES ASSUME NEW d \in Dir, Settled(d)', d \notin missed',
                       cache'[d] # NoJob, cache'[d] \notin private'
                PROVE  Counted(cache[d], d)'
    BY <1>8 DEF Tracks, Counted, Invalidate, Drop, walks, TypeOK
  <2>1. d # e /\ cache'[d] = cache[d] /\ d \notin missed
    BY <1>8 DEF Invalidate, Drop, TypeOK
  <2>2. Settled(d)
    BY <1>8, <2>1 DEF Invalidate, Settled, TypeOK
  <2>3. Counted(cache[d], d)
    BY <1>8, <2>1, <2>2 DEF Invalidate, Tracks, walks
  <2>. QED
    BY <1>8, <2>1, <2>3 DEF Invalidate, Counted, walks
<1>. QED
  BY <1>1, <1>2, <1>3, <1>4, <1>5, <1>6, <1>7, <1>8 DEF Request

LEMMA ChangeTracks == TypeOK /\ Tracks /\ Change => Tracks'
<1>. SUFFICES ASSUME TypeOK, Tracks, Change PROVE Tracks'
  OBVIOUS
<1>1. ASSUME NEW f \in File, WriteFile(f) PROVE Tracks'
  <2>1. /\ {f} \in SUBSET File /\ \A g \in File \ {f} : g \in disk' <=> g \in disk
        /\ UNCHANGED <<cache, walks>> /\ missed' = missed \cup Misses({f}, {})
    BY <1>1 DEF WriteFile
  <2>2. /\ due' \in [Handler -> SUBSET Dir]
        /\ \A k \in Handler : due[k] \subseteq due'[k]
    BY <1>1 DEF WriteFile, TypeOK
  <2>. QED
    BY <2>1, <2>2, ChangeOfFiles
<1>. QED
  BY <1>1, RequestTracks DEF Change

\* The calls and walks change no file: an entry that stays keeps its counts, a
\* visit adds a file as it is now, and a new entry has counted nothing yet.
LEMMA SizeTracks == TypeOK /\ Shape /\ Tracks /\ Size => Tracks'
<1>. SUFFICES ASSUME TypeOK, Shape, Tracks, Size,
                     NEW d \in Dir, Settled(d)', d \notin missed',
                     cache'[d] # NoJob, cache'[d] \notin private'
              PROVE  Counted(cache[d], d)'
  BY DEF Tracks
<1>. USE DEF world, walks, callers
<1>0. Settled(d) /\ UNCHANGED <<disk, due>>
  BY DEF Size, Load, DeleteExpired, LoadOrStore, GetDirSize, ListNames, Visit,
         Finish, Abort, Expire, Settled
<1>a. ASSUME UNCHANGED <<cache, missed, private, state, left, seen>>
      PROVE  Counted(cache[d], d)'
  BY <1>0, <1>a DEF Tracks, Counted
<1>1. ASSUME NEW c \in Caller, NEW e \in Dir, Load(c, e)
      PROVE  Counted(cache[d], d)'
  BY <1>1, <1>a DEF Load
<1>b. ASSUME NEW e, Drop(e), UNCHANGED private
      PROVE  /\ cache'[d] = cache[d] /\ Counted(cache[d], d)
             /\ cache[d] # NoJob /\ cache[d] \in Job
             /\ e \in Dir => d # e
  <2>1. e \in Dir => d # e
    BY <1>b DEF Drop, TypeOK
  <2>2. cache'[d] = cache[d] /\ d \notin missed
    BY <1>b, <2>1 DEF Drop, TypeOK
  <2>. QED
    BY <1>0, <1>b, <2>1, <2>2 DEF Tracks, TypeOK
<1>2. ASSUME NEW c \in Caller, DeleteExpired(c) PROVE Counted(cache[d], d)'
  <2>1. cache'[d] = cache[d] /\ Counted(cache[d], d)
    BY <1>2, <1>b DEF DeleteExpired
  <2>. QED
    BY <1>0, <1>2, <2>1 DEF DeleteExpired, Counted
<1>c. ASSUME NEW j \in Job, NEW e \in Dir, NewJob(j, e)
      PROVE  /\ \A k \in Job \ {j} : /\ state'[k] = state[k]
                                     /\ left'[k] = left[k] /\ seen'[k] = seen[k]
             /\ state'[j] = "new" /\ cache[d] # j /\ missed' = missed
  BY <1>c DEF NewJob, TypeOK
<1>3. ASSUME NEW c \in Caller, LoadOrStore(c) PROVE Counted(cache[d], d)'
  <2>1. CASE cache[asked[c]] # NoJob
    BY <1>3, <1>a, <2>1 DEF LoadOrStore
  <2>2. CASE cache[asked[c]] = NoJob
    <3>1. asked[c] \in Dir
      BY <1>3 DEF LoadOrStore, Shape
    <3>2. PICK j \in Job : /\ NewJob(j, asked[c])
                           /\ private' = private \ {j}
                           /\ cache' = [cache EXCEPT ![asked[c]] = j]
      BY <1>3, <2>2 DEF LoadOrStore
    <3>3. CASE d = asked[c]
      <4>1. cache'[d] = j /\ state'[j] = "new"
        BY <1>c, <3>1, <3>2, <3>3 DEF TypeOK
      <4>. QED
        BY <4>1 DEF Counted
    <3>4. CASE d # asked[c]
      <4>1. cache'[d] = cache[d] /\ cache[d] # j /\ missed' = missed
        BY <1>c, <3>1, <3>2, <3>4 DEF TypeOK
      <4>2. Counted(cache[d], d) /\ cache[d] \in Job
        BY <1>0, <3>2, <4>1 DEF Tracks, TypeOK
      <4>. QED
        BY <1>0, <1>c, <3>1, <3>2, <4>1, <4>2 DEF Counted
    <3>. QED
      BY <3>3, <3>4
  <2>. QED
    BY <2>1, <2>2
<1>4. ASSUME NEW e \in Dir, GetDirSize(e) PROVE Counted(cache[d], d)'
  <2>1. PICK j \in Job : NewJob(j, e) /\ private' = private \cup {j}
    BY <1>4 DEF GetDirSize
  <2>2. cache'[d] = cache[d] /\ cache[d] # j /\ missed' = missed
    BY <1>4, <1>c, <2>1 DEF GetDirSize
  <2>3. Counted(cache[d], d) /\ cache[d] \in Job
    BY <1>0, <2>1, <2>2 DEF Tracks, TypeOK
  <2>. QED
    BY <1>0, <1>c, <2>1, <2>2, <2>3 DEF Counted
<1>d. ASSUME UNCHANGED <<cache, missed, private>>
      PROVE  /\ cache'[d] = cache[d] /\ cache[d] \in Job
             /\ Counted(cache[d], d) /\ dir[cache[d]] = d
  BY <1>0, <1>d DEF Tracks, Shape, TypeOK
<1>5. ASSUME NEW j \in Job, ListNames(j) PROVE Counted(cache[d], d)'
  <2>1. cache'[d] = cache[d] /\ cache[d] \in Job /\ Counted(cache[d], d)
          /\ dir[cache[d]] = d
    BY <1>5, <1>d DEF ListNames
  <2>2. CASE cache[d] = j
    <3>1. left'[j] = Under[d] \cap disk /\ seen'[j] = seen[j]
      BY <1>5, <2>1, <2>2 DEF ListNames, TypeOK
    <3>2. seen[j] = {}
      BY <1>5, <2>2 DEF ListNames, Shape
    <3>. QED
      BY <1>0, <2>1, <2>2, <3>1, <3>2 DEF Counted
  <2>3. CASE cache[d] # j
    BY <1>0, <1>5, <2>1, <2>3 DEF ListNames, Counted, TypeOK
  <2>. QED
    BY <2>2, <2>3
<1>6. ASSUME NEW j \in Job, NEW f \in File, Visit(j, f) PROVE Counted(cache[d], d)'
  <2>1. cache'[d] = cache[d] /\ cache[d] \in Job /\ Counted(cache[d], d)
    BY <1>6, <1>d DEF Visit
  <2>2. CASE cache[d] = j
    <3>1. /\ left'[j] = left[j] \ {f} /\ seen'[j] = seen[j] \cup ({f} \cap disk)
          /\ state[j] # "new"
      BY <1>6 DEF Visit, TypeOK
    <3>2. f \notin seen[j]
      BY <1>6 DEF Visit, Shape
    <3>. QED
      BY <1>0, <2>1, <2>2, <3>1, <3>2 DEF Counted
  <2>3. CASE cache[d] # j
    BY <1>0, <1>6, <2>1, <2>3 DEF Visit, Counted, TypeOK
  <2>. QED
    BY <2>2, <2>3
<1>7. ASSUME NEW j \in Job, Finish(j) PROVE Counted(cache[d], d)'
  <2>1. cache'[d] = cache[d]
    BY <1>7, CacheAssumption DEF Finish, TypeOK, Shape
  <2>2. Counted(cache[d], d) /\ cache[d] \in Job
    BY <1>0, <1>7, <2>1 DEF Finish, Tracks, TypeOK
  <2>3. state'[cache[d]] # "new" => state[cache[d]] # "new"
    BY <1>7, <2>2 DEF Finish, TypeOK
  <2>. QED
    BY <1>0, <1>7, <2>1, <2>2, <2>3 DEF Finish, Counted
<1>8. ASSUME NEW j \in Job, Abort(j) PROVE Counted(cache[d], d)'
  <2>1. cache'[d] = cache[d] /\ Counted(cache[d], d) /\ cache[d] \in Job
    BY <1>8, <1>b DEF Abort
  <2>2. state'[cache[d]] # "new" => state[cache[d]] # "new"
    BY <1>8, <2>1 DEF Abort, TypeOK
  <2>. QED
    BY <1>0, <1>8, <2>1, <2>2 DEF Abort, Counted
<1>9. ASSUME NEW j \in Job, Expire(j) PROVE Counted(cache[d], d)'
  BY <1>9, <1>a DEF Expire
<1>. QED
  BY <1>1, <1>2, <1>3, <1>4, <1>5, <1>6, <1>7, <1>8, <1>9 DEF Size

-----------------------------------------------------------------------------
Inv == TypeOK /\ Shape /\ Tracks

LEMMA Inductive == Inv /\ [Next]_vars => Inv'
<1>. SUFFICES ASSUME Inv, [Next]_vars PROVE Inv'
  OBVIOUS
<1>1. CASE Change
  BY <1>1, ChangeType, ChangeShape, ChangeTracks DEF Inv
<1>2. CASE Size
  BY <1>2, SizeType, SizeShape, SizeTracks DEF Inv
<1>3. CASE UNCHANGED vars
  BY <1>3 DEF Inv, TypeOK, Shape, Tracks, Counted, Settled,
              vars, world, walks, callers
<1>. QED
  BY <1>1, <1>2, <1>3 DEF Next

\* A finished entry that is tracked has counted what exists.
LEMMA TrackedSize ==
  ASSUME Inv, NEW d \in Dir, Settled(d), d \notin missed,
         cache[d] # NoJob, cache[d] \notin private, state[cache[d]] = "done"
  PROVE  seen[cache[d]] = disk \cap Under[d]
<1>1. Counted(cache[d], d) /\ left[cache[d]] = {} /\ dir[cache[d]] = d
  BY DEF Inv, Tracks, Shape
<1>2. cache[d] \in Job
  BY DEF Inv, TypeOK
<1>3. seen[cache[d]] \subseteq Under[d]
  BY <1>1, <1>2 DEF Inv, Shape
<1>. QED
  BY <1>1, <1>3 DEF Counted

\* Every variable of the cache keeps its type, for any number of calls.
THEOREM TypeCorrect == Spec => []TypeOK
<1>1. Init => Inv
  BY InitInv DEF Inv
<1>2. Inv => TypeOK
  BY DEF Inv
<1>. QED
  BY <1>1, <1>2, Inductive, PTL DEF Spec

\* A finished entry left by a background walk (walkDirSize) is the size the
\* directory has, for any number of concurrent calls and requests: of all files
\* under the directory, those it counted are those that exist.
THEOREM SharedSizeAlwaysRight == Spec => []SharedSizeIsRight
<1>1. Init => Inv
  BY InitInv DEF Inv
<1>2. Inv => SharedSizeIsRight
  BY TrackedSize DEF SharedSizeIsRight, SizeIsRight
<1>. QED
  BY <1>1, <1>2, Inductive, PTL DEF Spec

-----------------------------------------------------------------------------
(* Where every directory is flat and nothing unusual happens, the requests *)
(* drop every entry they make stale.                                       *)

IsFlat == Unusual = {} /\ \A d \in Dir : \A f \in Under[d] : Parent[f] = d

NoneMissed == private = {} /\ missed = {}

LEMMA FlatMisses ==
  ASSUME IsFlat, NEW n \in File \cup Dir, NEW F, F \subseteq FilesOf(n),
         NEW D, Keys(n) \subseteq D
  PROVE  Misses(F, D) = {}
<1>. SUFFICES ASSUME NEW d \in Misses(F, D) PROVE FALSE
  OBVIOUS
<1>1. PICK f \in FilesOf(n) : d \in Dir /\ f \in Under[d] /\ d \notin D
  BY DEF Misses
<1>2. Parent[f] = d
  BY <1>1 DEF IsFlat
<1>3. d \in Keys(n)
  BY <1>1, <1>2 DEF FilesOf, IsFlat, Keys
<1>. QED
  BY <1>1, <1>3

LEMMA FlatChanges ==
  ASSUME IsFlat, TypeOK, NoneMissed, NEW h \in Handler, NEW n \in File \cup Dir,
         NEW F, F \subseteq FilesOf(n), Changes(h, n, F)
  PROVE  NoneMissed'
<1>1. Keys(n) \subseteq due'[h]
  BY DEF Changes, TypeOK
<1>2. Misses(F, due'[h]) = {}
  BY <1>1, FlatMisses
<1>. QED
  BY <1>2 DEF Changes, NoneMissed, walks

LEMMA FlatRequest ==
  ASSUME IsFlat, TypeOK, NoneMissed, NEW h \in Handler, Request(h)
  PROVE  NoneMissed'
<1>1. ASSUME NEW N \in SUBSET Target, NEW M \in SUBSET Target, Begin(h, N, M)
      PROVE  NoneMissed'
  BY <1>1 DEF Begin, walks, NoneMissed
<1>2. ASSUME NEW n \in File \cup Dir, NEW f \in File,
             MakeFile(h, n, f) \/ RemoveFile(h, n, f)
      PROVE  NoneMissed'
  BY <1>2, FlatChanges DEF MakeFile, RemoveFile
<1>3. ASSUME NEW n \in File \cup Dir, Made(h, n) \/ Removed(h, n) \/ RenameAway(h, n)
      PROVE  NoneMissed'
  BY <1>3, FlatChanges DEF Made, Removed, RenameAway
<1>4. ASSUME NEW n \in File \cup Dir, NEW m \in File \cup Dir, NEW G \in SUBSET File,
             Rename(h, n, m, G)
      PROVE  NoneMissed'
  <2>1. Keys(n) \subseteq due'[h] /\ Keys(m) \subseteq due'[h]
    BY <1>4 DEF Rename, TypeOK
  <2>2. Misses(FilesOf(n), due'[h]) = {} /\ Misses(G, due'[h]) = {}
    BY <1>4, <2>1, FlatMisses DEF Rename
  <2>3. Misses(FilesOf(n) \cup G, due'[h]) = {}
    BY <2>2 DEF Misses
  <2>. QED
    BY <1>4, <2>3 DEF Rename, NoneMissed, walks
<1>5. ~Fails(h)
  BY DEF Fails, IsFlat
<1>6. ASSUME NEW d \in Dir, Invalidate(h, d) PROVE NoneMissed'
  BY <1>6 DEF Invalidate, Drop, NoneMissed, walks
<1>. QED
  BY <1>1, <1>2, <1>3, <1>4, <1>5, <1>6 DEF Request

LEMMA FlatChange == IsFlat /\ TypeOK /\ NoneMissed /\ Change => NoneMissed'
<1>. SUFFICES ASSUME IsFlat, TypeOK, NoneMissed, Change PROVE NoneMissed'
  OBVIOUS
<1>1. \A f \in File : ~WriteFile(f)
  BY DEF WriteFile, IsFlat
<1>. QED
  BY <1>1, FlatRequest DEF Change

LEMMA FlatSize == IsFlat /\ NoneMissed /\ Size => NoneMissed'
<1>. SUFFICES ASSUME IsFlat, NoneMissed, Size PROVE NoneMissed'
  OBVIOUS
<1>1. ~ \E d \in Dir : GetDirSize(d)
  BY DEF IsFlat, GetDirSize
<1>. QED
  BY <1>1 DEF Size, Load, DeleteExpired, Drop, LoadOrStore, NewJob, ListNames,
              Visit, Finish, Abort, Expire, walks, NoneMissed

\* In a flat tree whose files only handlers that invalidate change, and without
\* getDirSize, no finished entry is out of date (fs.go:28), for any number of
\* files, calls and requests.
THEOREM FlatSizesAreRight ==
  ASSUME IsFlat PROVE Spec => []SettledSizeIsRight
<1>1. Init => Inv /\ NoneMissed
  BY InitInv DEF Inv, Init, NoneMissed
<1>2. Inv /\ NoneMissed /\ [Next]_vars => (Inv /\ NoneMissed)'
  <2>1. NoneMissed /\ UNCHANGED vars => NoneMissed'
    BY DEF NoneMissed, vars, walks
  <2>. QED
    BY <2>1, Inductive, FlatChange, FlatSize DEF Next, Inv
<1>3. Inv /\ NoneMissed => SettledSizeIsRight
  BY TrackedSize DEF NoneMissed, SettledSizeIsRight, SizeIsRight
<1>. QED
  BY <1>1, <1>2, <1>3, PTL DEF Spec
=============================================================================
