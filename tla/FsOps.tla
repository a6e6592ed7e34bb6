-------------------------------- MODULE FsOps --------------------------------
(***************************************************************************)
(* The requests of the control server that change files: create, write,    *)
(* rename, move, copy, delete, trash, their elevated variants, compress    *)
(* and decompress (fs.go, permissions.go, archive.go).                     *)
(*                                                                         *)
(* Every request runs in a goroutine of its own and nothing orders them.   *)
(* A step is one call to the operating system, or the reads of a check     *)
(* that are made together; a directory is copied, archived and removed one *)
(* entry at a time, and each of these may fail.                            *)
(*                                                                         *)
(* Paths are sequences of names.  The data of a file is a set of pairs of  *)
(* a relative path and a value: one pair with an empty path for a plain    *)
(* file, a pair per entry for an archive.                                  *)
(***************************************************************************)
EXTENDS Naturals, Sequences, SequencesExt, FiniteSets, TLC

CONSTANTS
  Slot,         \* requests in memory
  Request,      \* the requests clients send
  InitialDisk,
  TrashFiles,   \* ~/.local/share/Trash/files
  DeviceOf(_),  \* the device a path is on
  Excluded,     \* paths on the blacklist (isExcluded)
  Protected,    \* paths that are never deleted (isProtectedPath)
  Locked,       \* directories the server cannot write to
  Faults,       \* what may fail: copy, remove, extract, close, info
  MaxDepth,     \* the longest path the file system takes
  MaxRequests   \* BOUND: requests

Kinds == {"create_file", "create_dir", "write", "rename", "move", "copy", "delete", "trash",
          "delete_elevated", "trash_elevated", "compress", "decompress"}

Dir     == [dir |-> TRUE, data |-> {}]
File(v) == [dir |-> FALSE, data |-> {<<(<<>>), v>>}]
Emptied == [dir |-> FALSE, data |-> {}]   \* O_TRUNC

Pathless == {"create_file", "create_dir", "write"}

\* A request comes with a list of paths, which is empty only where it has none;
\* a rename and a decompression come with one path.
ASSUME FsAssumption ==
  /\ \A q \in Request :
       /\ q.kind \in Kinds /\ q.dest \in Seq(STRING) /\ q.paths \in Seq(Seq(STRING))
       /\ q.paths = <<>> => q.kind \in Pathless
       /\ q.kind \in {"rename", "decompress"} => Len(q.paths) = 1
  /\ Faults \subseteq {"copy", "remove", "extract", "close", "info"}
  /\ TrashFiles \in Seq(STRING) /\ MaxDepth \in Nat /\ MaxRequests \in Nat

VARIABLES
  disk,     \* the tree: a function on the paths that exist
  info,     \* the .trashinfo files: the path each name in the trash came from
  req,      \* req[r]: the request in slot r
  pc,       \* pc[r]: what it does next; ok and failed are answers
  at,       \* at[r]: which of its paths it is at
  to,       \* to[r]: where that path goes
  work,     \* work[r]: entries still to copy, archive or extract
  requests, \* requests started
  alone,    \* history: no other request was in progress since r started
  before,   \* history: the values on disk when r started, while it is alone
  given,    \* history: those below its paths, unless it is an archive that holds itself
  from,     \* history: the path the name in the trash really came from
  contested,\* history: names in the trash that two requests chose at a time
  orphaned, \* history: names whose .trashinfo a write that failed left behind
  undone,   \* history: requests that removed their copy from the trash again
  unclosed  \* history: requests whose archive could not be finished

request == <<req, pc, at, to, work, requests>>
history == <<alone, before, given, from, contested, orphaned, undone, unclosed>>
vars    == <<disk, info, request, history>>

-----------------------------------------------------------------------------
(* The file system. *)

Exists(d, p)  == p \in DOMAIN d
IsDir(d, p)   == p = <<>> \/ (p \in DOMAIN d /\ d[p].dir)
IsFile(d, p)  == p \in DOMAIN d /\ ~d[p].dir
Base(p)       == Last(p)
Below(d, p)   == {q \in DOMAIN d : IsPrefix(p, q)}
Children(d, p) == {q \in Below(d, p) : Len(q) = Len(p) + 1}
ValuesBelow(d, p) == UNION {{e[2] : e \in d[q].data} : q \in Below(d, p)}
Values(d)     == ValuesBelow(d, <<>>)
Restricted(d, P) == [p \in P |-> d[p]]
With(d, p, node) == [q \in DOMAIN d \cup {p} |-> IF q = p THEN node ELSE d[q]]
Ancestors(p)  == {SubSeq(p, 1, n) : n \in 1 .. Len(p)}
Writable(p)   == Front(p) \notin Locked

\* A tree: what exists is in directories, and a directory has no data.
IsTree(d) ==
  \A p \in DOMAIN d :
    /\ p # <<>> /\ d[p].dir \in BOOLEAN /\ (d[p].dir => d[p].data = {})
    /\ \A q \in Ancestors(p) \ {p} : IsDir(d, q)

ASSUME DiskAssumption ==
  /\ IsTree(InitialDisk) /\ IsFiniteSet(DOMAIN InitialDisk)
  /\ \A p \in DOMAIN InitialDisk :
       /\ p \in Seq(STRING) /\ IsFiniteSet(InitialDisk[p].data)
       /\ \A e \in InitialDisk[p].data : e[1] \in Seq(STRING)

\* os.MkdirAll.
CanMakeDirs(d, p) ==
  Len(p) =< MaxDepth /\ \A q \in Ancestors(p) : IF Exists(d, q) THEN d[q].dir ELSE Writable(q)
MakeDirs(d, p) == [q \in DOMAIN d \cup Ancestors(p) |-> IF q \in DOMAIN d THEN d[q] ELSE Dir]

\* os.Create, and os.OpenFile with O_CREATE and O_TRUNC.
CanCreate(d, p) ==
  Len(p) =< MaxDepth /\ IsDir(d, Front(p)) /\ ~IsDir(d, p) /\ (IsFile(d, p) \/ Writable(p))

\* os.Rename.  A directory that exists is not replaced, not even by itself.
CanRename(d, p, q) ==
  /\ Exists(d, p) /\ DeviceOf(p) = DeviceOf(q) /\ IsDir(d, Front(q))
  /\ Exists(d, q) => ~d[p].dir /\ ~d[q].dir
  /\ p # q => Writable(p) /\ Writable(q) /\ ~IsPrefix(p, q) /\ ~IsPrefix(q, p)

\* Mutation: the entries of a directory stay behind.
RenamedAlone(d, p, q) == With(Restricted(d, DOMAIN d \ {p}), q, d[p])

Renamed(d, p, q) ==
  LET stay == DOMAIN d \ (Below(d, p) \cup {q})
      Target(s) == q \o SubSeq(s, Len(p) + 1, Len(s)) IN
  IF p = q THEN d ELSE
  [s \in stay \cup {Target(x) : x \in Below(d, p)} |->
     IF s \in stay THEN d[s] ELSE d[p \o SubSeq(s, Len(q) + 1, Len(s))]]

-----------------------------------------------------------------------------

PathsOf(q) == {q.paths[i] : i \in DOMAIN q.paths}
Paths(r) == PathsOf(req[r])
Src(r)   == req[r].paths[at[r]]
NoRequest == [kind |-> "none", paths |-> <<>>, dest |-> <<>>, value |-> "none"]
Answers  == {"ok", "failed", "requires_elevation"}
Active(r) == pc[r] \notin {"idle"} \cup Answers

TypeOK ==
  /\ IsTree(disk)
  /\ req \in [Slot -> Request \cup {NoRequest}]
  /\ at \in [Slot -> Nat]
  /\ \A r \in Slot : (Active(r) /\ req[r].paths # <<>>) => at[r] \in DOMAIN req[r].paths
  /\ requests \in 0 .. MaxRequests /\ alone \in [Slot -> BOOLEAN]

Init ==
  /\ disk = InitialDisk /\ info = <<>>
  /\ req = [r \in Slot |-> NoRequest] /\ pc = [r \in Slot |-> "idle"]
  /\ at = [r \in Slot |-> 1] /\ to = [r \in Slot |-> <<>>] /\ work = [r \in Slot |-> <<>>]
  /\ requests = 0 /\ alone = [r \in Slot |-> FALSE]
  /\ before = [r \in Slot |-> {}] /\ given = [r \in Slot |-> {}]
  /\ from = <<>> /\ contested = {} /\ orphaned = {} /\ undone = {} /\ unclosed = {}

\* Entries that would land outside the destination are skipped.
Outside(rel) == rel # <<>> /\ rel[1] = ".."

\* An archive to extract has an entry that lands on the archive.
HoldsItself(d, q) ==
  /\ q.kind = "decompress" /\ Exists(d, q.paths[1])
  /\ \E e \in d[q.paths[1]].data : ~Outside(e[1]) /\ q.dest \o e[1] = q.paths[1]

\* A request arrives.
Begin(r, q) ==
  /\ ~Active(r) /\ requests < MaxRequests
  /\ requests' = requests + 1
  /\ req' = [req EXCEPT ![r] = q]
  /\ pc' = [pc EXCEPT ![r] = "check"]
  /\ at' = [at EXCEPT ![r] = 1]
  /\ to' = [to EXCEPT ![r] = q.dest] /\ work' = [work EXCEPT ![r] = <<>>]
  /\ alone' = [s \in Slot |-> s = r /\ \A o \in Slot : ~Active(o)]
  /\ before' = [s \in Slot |-> IF alone'[s] THEN Values(disk) ELSE {}]
  /\ given' = [s \in Slot |-> IF alone'[s] /\ ~HoldsItself(disk, q)
       THEN UNION {ValuesBelow(disk, q.paths[i]) : i \in DOMAIN q.paths} ELSE {}]
  /\ undone' = undone \ {r} /\ unclosed' = unclosed \ {r}
  /\ UNCHANGED <<disk, info, from, contested, orphaned>>

Goto(r, where) == pc' = [pc EXCEPT ![r] = where]

\* The loop over the paths of a request.
NextPath(r) ==
  IF at[r] < Len(req[r].paths)
  THEN at' = [at EXCEPT ![r] = @ + 1] /\ Goto(r, "path")
  ELSE Goto(r, "ok") /\ UNCHANGED at

-----------------------------------------------------------------------------
(* Checks. *)

\* checkDeletePermissions.
Checked(q) ==
  LET P == PathsOf(q) IN
  IF P \cap Protected # {} THEN "failed"
  ELSE IF \E p \in P : Front(p) \in Locked THEN "requires_elevation" ELSE "path"

\* What a request looks at before it changes anything, up to its first
\* change: the blacklist, os.Stat of what must and must not exist, permissions.
Verdict(q) ==
  LET P == PathsOf(q)
      Present == \A p \in P : Exists(disk, p) IN
  CASE q.kind \in {"create_file", "create_dir"} ->
         IF q.dest \in Excluded \/ Exists(disk, q.dest) THEN "failed" ELSE "path"
    [] q.kind \in {"write", "move", "copy"} ->
         IF q.dest \in Excluded THEN "failed" ELSE "path"
    [] q.kind = "rename" ->
         IF P \cap Excluded # {} \/ ~Present \/ Exists(disk, q.dest) THEN "failed" ELSE "path"
    [] q.kind = "compress" ->
         IF (P \cup {q.dest}) \cap Excluded # {} \/ ~Present THEN "failed" ELSE "path"
    [] q.kind = "decompress" ->
         IF P \cap Excluded # {} \/ ~Present THEN "failed" ELSE "path"
    [] q.kind = "delete" ->
         IF P \cap Excluded # {} THEN "failed" ELSE Checked(q)
    [] q.kind = "trash" ->
         IF P \cap Excluded # {} \/ ~Present THEN "failed" ELSE Checked(q)
    [] q.kind \in {"delete_elevated", "trash_elevated"} ->
         IF P \cap (Excluded \cup Protected) # {} THEN "failed" ELSE "path"

Check(r) ==
  /\ pc[r] = "check"
  /\ Goto(r, Verdict(req[r]))
  /\ UNCHANGED <<disk, info, req, at, to, work, requests, history>>

-----------------------------------------------------------------------------
(* Requests without a loop. *)

\* handleFsCreateFile, handleFsCreateDir, handleFsWriteFile: MkdirAll, and
\* os.Create, which truncates a file that has appeared since the check.
Create(r) ==
  LET q == req[r]
      dirs == IF q.kind = "create_dir" THEN q.dest ELSE Front(q.dest) IN
  /\ pc[r] = "path" /\ q.kind \in Pathless
  /\ IF ~CanMakeDirs(disk, dirs)
     THEN Goto(r, "failed") /\ UNCHANGED disk
     ELSE IF q.kind = "create_dir"
     THEN Goto(r, "ok") /\ disk' = MakeDirs(disk, dirs)
     ELSE IF ~CanCreate(MakeDirs(disk, dirs), q.dest)
     THEN Goto(r, "failed") /\ disk' = MakeDirs(disk, dirs)
     ELSE Goto(r, "ok") /\ disk' = With(MakeDirs(disk, dirs), q.dest, File(q.value))
  /\ UNCHANGED <<info, req, at, to, work, requests, history>>

\* handleFsRename, after its check.
Rename(r) ==
  /\ pc[r] = "path" /\ req[r].kind = "rename"
  /\ IF CanRename(disk, Src(r), req[r].dest)
     THEN Goto(r, "ok") /\ disk' = Renamed(disk, Src(r), req[r].dest)
     ELSE Goto(r, "failed") /\ UNCHANGED disk
  /\ UNCHANGED <<info, req, at, to, work, requests, history>>

-----------------------------------------------------------------------------
(* Move and copy. *)

\* One round of the loops: the blacklist, os.Stat, the destination.  The
\* directory of the destination was made before the first round.  A copy whose
\* name is taken gets the name with " (copy)", whether or not that is taken.
Prepare(r) ==
  LET q   == req[r]
      d   == IF at[r] = 1 /\ CanMakeDirs(disk, q.dest) THEN MakeDirs(disk, q.dest) ELSE disk
      dst == Append(q.dest, Base(Src(r))) IN
  /\ pc[r] = "path" /\ q.kind \in {"move", "copy"}
  /\ disk' = d
  /\ IF (at[r] = 1 /\ ~CanMakeDirs(disk, q.dest)) \/ Src(r) \in Excluded \/ ~Exists(d, Src(r))
     THEN Goto(r, "failed") /\ UNCHANGED <<to, work>>
     ELSE IF q.kind = "move"
     THEN Goto(r, "rename") /\ to' = [to EXCEPT ![r] = dst] /\ UNCHANGED work
     ELSE LET free == IF Exists(d, dst) THEN Append(q.dest, Base(dst) \o " (copy)") ELSE dst IN
          /\ to' = [to EXCEPT ![r] = free]
          /\ work' = [work EXCEPT ![r] = <<[src |-> Src(r), dst |-> free, val |-> Dir]>>]
          /\ Goto(r, "copy")
  /\ UNCHANGED <<info, req, at, requests, history>>

\* os.Rename of a move or of a trashed path; any error leads to a copy.
TryRename(r) ==
  /\ pc[r] = "rename"
  /\ IF CanRename(disk, Src(r), to[r])
     THEN /\ disk' = Renamed(disk, Src(r), to[r])
          /\ from' = IF req[r].kind = "trash" THEN With(from, Base(to[r]), Src(r)) ELSE from
          /\ NextPath(r) /\ UNCHANGED work
     ELSE /\ work' = [work EXCEPT ![r] = <<[src |-> Src(r), dst |-> to[r], val |-> Dir]>>]
          /\ Goto(r, "copy") /\ UNCHANGED <<disk, from, at>>
  /\ UNCHANGED <<info, req, to, requests, alone, before, given,
                 contested, orphaned, undone, unclosed>>

\* os.ReadDir: what is in the directory of entry t, to be done like t.
Listing(d, t) ==
  SetToSeq({[src |-> c, dst |-> Append(t.dst, Base(c)), val |-> Dir] : c \in Children(d, t.src)})

\* Mutation: a move goes on to remove the source although the copy failed.
CopyFailureIgnored(r) ==
  /\ Goto(r, IF req[r].kind = "move" THEN "remove" ELSE "failed")
  /\ UNCHANGED info

\* Mutation: the .trashinfo of a path that could not be copied stays.
CopyFailsKeepsInfo(r) == Goto(r, "failed") /\ UNCHANGED info

\* A copy fails: trashFreedesktop removes the .trashinfo, and what was copied stays.
CopyFails(r) ==
  /\ Goto(r, "failed")
  /\ info' = IF req[r].kind = "trash" THEN Restricted(info, DOMAIN info \ {Base(to[r])}) ELSE info

\* copyPath, copyDir and copyFile: one directory or file.  The directory is
\* made before it is listed, so a copy into itself finds itself; a file is
\* truncated before it is read, so a copy onto itself leaves nothing.
CopyEntry(r) ==
  /\ pc[r] = "copy" /\ work[r] # <<>>
  /\ LET t == Head(work[r]) IN
     \/ /\ IsDir(disk, t.src) /\ CanMakeDirs(disk, t.dst)
        /\ disk' = MakeDirs(disk, t.dst)
        /\ work' = [work EXCEPT ![r] = Listing(disk', t) \o Tail(@)]
        /\ UNCHANGED <<pc, info>>
     \/ /\ IsFile(disk, t.src) /\ CanCreate(disk, t.dst)
        /\ disk' = With(disk, t.dst, IF t.src = t.dst THEN Emptied ELSE disk[t.src])
        /\ work' = [work EXCEPT ![r] = Tail(@)]
        /\ UNCHANGED <<pc, info>>
     \/ /\ IF IsDir(disk, t.src) THEN ~CanMakeDirs(disk, t.dst)
           ELSE IsFile(disk, t.src) => ~CanCreate(disk, t.dst)
        /\ CopyFails(r)
        /\ UNCHANGED <<disk, work>>
     \/ \* io.Copy fails; the destination has been truncated.
        /\ "copy" \in Faults /\ IsFile(disk, t.src) /\ CanCreate(disk, t.dst)
        /\ disk' = With(disk, t.dst, Emptied)
        /\ CopyFails(r)
        /\ UNCHANGED work
  /\ UNCHANGED <<req, at, to, requests, history>>

Copied(r) ==
  /\ pc[r] = "copy" /\ work[r] = <<>>
  /\ IF req[r].kind = "copy" THEN NextPath(r) ELSE Goto(r, "remove") /\ UNCHANGED at
  /\ from' = IF req[r].kind = "trash" THEN With(from, Base(to[r]), Src(r)) ELSE from
  /\ UNCHANGED <<disk, info, req, to, work, requests, alone, before, given,
                 contested, orphaned, undone, unclosed>>

-----------------------------------------------------------------------------
(* Delete and trash. *)

\* The loop of handleFsDelete, and sudo rm, which may refuse the password.
Delete(r) ==
  /\ pc[r] = "path" /\ req[r].kind \in {"delete", "delete_elevated", "trash_elevated"}
  /\ \/ Goto(r, "remove")
     \/ req[r].kind # "delete" /\ at[r] = 1 /\ Goto(r, "failed")
  /\ UNCHANGED <<disk, info, req, at, to, work, requests, history>>

\* RemoveAll removes what has nothing below it, one after the other.
RemoveEntry(r) ==
  /\ pc[r] \in {"remove", "undo"}
  /\ LET root == IF pc[r] = "undo" THEN to[r] ELSE Src(r) IN
     \E p \in Below(disk, root) :
       /\ Children(disk, p) = {}
       /\ Writable(p) \/ req[r].kind \in {"delete_elevated", "trash_elevated"}
       /\ disk' = Restricted(disk, DOMAIN disk \ {p})
  /\ UNCHANGED <<info, req, pc, at, to, work, requests, history>>

Removed(r) ==
  /\ pc[r] = "remove" /\ Below(disk, Src(r)) = {}
  /\ NextPath(r)
  /\ UNCHANGED <<disk, info, req, to, work, requests, history>>

\* A removal that fails half-way.  trashFreedesktop then removes its copy.
RemoveFails(r) ==
  /\ pc[r] = "remove"
  /\ Below(disk, Src(r)) # {}
  /\ "remove" \in Faults \/ \E p \in Below(disk, Src(r)) : ~Writable(p)
  /\ IF req[r].kind = "trash"
     THEN /\ info' = Restricted(info, DOMAIN info \ {Base(to[r])})
          /\ Goto(r, "undo") /\ undone' = undone \cup {r}
     ELSE Goto(r, "failed") /\ UNCHANGED <<info, undone>>
  /\ UNCHANGED <<disk, req, at, to, work, requests, alone, before, given, from,
                 contested, orphaned, unclosed>>

Undone(r) ==
  /\ pc[r] = "undo" /\ Below(disk, to[r]) = {}
  /\ Goto(r, "failed")
  /\ UNCHANGED <<disk, info, req, at, to, work, requests, history>>

\* The name in the trash: the base name, or the first "_2", "_3", ... that is
\* free; the code tries without end.  BOUND: MaxRequests + 3.
TrashNames(d, n) ==
  LET Counted(i) == n \o "_" \o ToString(i)
      taken(m) == Exists(d, Append(TrashFiles, m)) IN
  IF ~taken(n) THEN {n}
  ELSE {Counted(k) : k \in {i \in 2 .. MaxRequests + 3 :
                              ~taken(Counted(i)) /\ \A m \in 2 .. i - 1 : taken(Counted(m))}}

\* Another request has chosen name n and has not finished with it.
InUse(r, n) ==
  \E o \in Slot \ {r} : /\ req[o].kind = "trash"
                        /\ pc[o] \in {"info", "rename", "copy", "remove", "undo"}
                        /\ Base(to[o]) = n

\* trashFreedesktop: MkdirAll and the choice of the name.
ChooseTrashName(r) ==
  /\ pc[r] = "path" /\ req[r].kind = "trash"
  /\ IF CanMakeDirs(disk, TrashFiles)
     THEN /\ disk' = MakeDirs(disk, TrashFiles)
          /\ \E n \in TrashNames(disk', Base(Src(r))) :
               /\ to' = [to EXCEPT ![r] = Append(TrashFiles, n)]
               /\ contested' = IF InUse(r, n) THEN contested \cup {n} ELSE contested
          /\ Goto(r, "info")
     ELSE Goto(r, "failed") /\ UNCHANGED <<disk, to, contested>>
  /\ UNCHANGED <<info, req, at, work, requests, alone, before, given, from,
                 orphaned, undone, unclosed>>

\* os.WriteFile of the .trashinfo.  One that fails may have created the file,
\* and the request returns without removing it.
WriteTrashInfo(r) ==
  /\ pc[r] = "info"
  /\ LET n == Base(to[r]) IN
     \/ /\ info' = With(info, n, Src(r)) /\ orphaned' = orphaned \ {n}
        /\ Goto(r, "rename")
     \/ /\ "info" \in Faults
        /\ \/ UNCHANGED <<info, orphaned>>
           \/ info' = With(info, n, Src(r)) /\ orphaned' = orphaned \cup {n}
        /\ Goto(r, "failed")
  /\ UNCHANGED <<disk, req, at, to, work, requests, alone, before, given, from,
                 contested, undone, unclosed>>

-----------------------------------------------------------------------------
(* Archives. *)

\* Mutation: the archive is made of the first path only.
CompressFirst(r) ==
  /\ pc[r] = "path" /\ req[r].kind = "compress"
  /\ IF CanCreate(disk, req[r].dest)
     THEN /\ disk' = With(disk, req[r].dest, Emptied)
          /\ work' = [work EXCEPT ![r] = <<[src |-> Src(r), dst |-> <<Base(Src(r))>>, val |-> Dir]>>]
          /\ Goto(r, "add")
     ELSE Goto(r, "failed") /\ UNCHANGED <<disk, work>>
  /\ UNCHANGED <<info, req, at, to, requests, history>>

\* compressZip, compressTar: os.Create, then every path.  It truncates a
\* file at the destination, also one that is to be archived.
Compress(r) ==
  /\ pc[r] = "path" /\ req[r].kind = "compress"
  /\ IF CanCreate(disk, req[r].dest)
     THEN /\ disk' = With(disk, req[r].dest, Emptied)
          /\ work' = [work EXCEPT ![r] = [i \in DOMAIN req[r].paths |->
               [src |-> req[r].paths[i], dst |-> <<Base(req[r].paths[i])>>, val |-> Dir]]]
          /\ Goto(r, "add")
     ELSE Goto(r, "failed") /\ UNCHANGED <<disk, work>>
  /\ UNCHANGED <<info, req, at, to, requests, history>>

\* The archive with one more file in it, under a name.
Added(archive, name, file) ==
  [dir |-> FALSE, data |-> archive.data \cup {<<name \o e[1], e[2]>> : e \in file.data}]

\* The deferred Close of the zip, tar and gzip writers writes what they hold
\* back and the directory of a zip.  One that fails leaves an archive nobody can
\* read, and its error is dropped.
Closed(r) ==
  \/ UNCHANGED <<disk, unclosed>>
  \/ /\ "close" \in Faults /\ IsFile(disk, req[r].dest)
     /\ disk' = With(disk, req[r].dest, Emptied)
     /\ unclosed' = unclosed \cup {r}

\* addToZip, addToTar.  After an error the archive is closed as it is.
AddEntry(r) ==
  /\ pc[r] = "add" /\ work[r] # <<>>
  /\ LET t == Head(work[r]) IN
     \/ /\ IsDir(disk, t.src)
        /\ work' = [work EXCEPT ![r] = Listing(disk, t) \o Tail(@)]
        /\ UNCHANGED <<disk, pc, unclosed>>
     \/ /\ IsFile(disk, t.src) /\ IsFile(disk, req[r].dest)
        /\ disk' = With(disk, req[r].dest, Added(disk[req[r].dest], t.dst, disk[t.src]))
        /\ work' = [work EXCEPT ![r] = Tail(@)] /\ UNCHANGED <<pc, unclosed>>
     \/ \* The name of the archive was taken away: its data goes with it.
        /\ IsFile(disk, t.src) /\ ~IsFile(disk, req[r].dest)
        /\ work' = [work EXCEPT ![r] = Tail(@)] /\ UNCHANGED <<disk, pc, unclosed>>
     \/ /\ ~Exists(disk, t.src) \/ "copy" \in Faults
        /\ Closed(r) /\ Goto(r, "failed") /\ UNCHANGED work
  /\ UNCHANGED <<info, req, at, to, requests, alone, before, given, from,
                 contested, orphaned, undone>>

\* handleFsDecompress: MkdirAll, then the entries of the archive.
Decompress(r) ==
  /\ pc[r] = "path" /\ req[r].kind = "decompress"
  /\ IF CanMakeDirs(disk, req[r].dest)
     THEN /\ disk' = MakeDirs(disk, req[r].dest)
          /\ IF IsFile(disk, Src(r))
             THEN /\ work' = [work EXCEPT ![r] =
                       SetToSeq({[src |-> Src(r), dst |-> req[r].dest \o e[1], val |-> File(e[2])] :
                                  e \in {x \in disk[Src(r)].data : ~Outside(x[1])}})]
                  /\ Goto(r, "extract")
             ELSE Goto(r, "cleanup") /\ UNCHANGED work
     ELSE Goto(r, "failed") /\ UNCHANGED <<disk, work>>
  /\ UNCHANGED <<info, req, at, to, requests, history>>

\* extractZip, extractTar: MkdirAll of the entry's directory, then the file.
ExtractEntry(r) ==
  /\ pc[r] = "extract" /\ work[r] # <<>>
  /\ LET t == Head(work[r])
         d == IF CanMakeDirs(disk, Front(t.dst)) THEN MakeDirs(disk, Front(t.dst)) ELSE disk IN
     \/ /\ CanCreate(d, t.dst)
        /\ disk' = With(d, t.dst, t.val)
        /\ work' = [work EXCEPT ![r] = Tail(@)] /\ UNCHANGED pc
     \/ /\ ~CanCreate(d, t.dst) \/ "extract" \in Faults
        /\ disk' = d /\ Goto(r, "cleanup") /\ UNCHANGED work
     \/ \* io.Copy fails; the file has been created or truncated.
        /\ "extract" \in Faults /\ CanCreate(d, t.dst)
        /\ disk' = With(d, t.dst, Emptied) /\ Goto(r, "cleanup") /\ UNCHANGED work
  /\ UNCHANGED <<info, req, at, to, requests, history>>

\* After an error os.Remove(DestDir), which an empty directory allows.
Cleanup(r) ==
  /\ pc[r] = "cleanup"
  /\ disk' = IF Children(disk, req[r].dest) = {}
             THEN Restricted(disk, DOMAIN disk \ {req[r].dest}) ELSE disk
  /\ Goto(r, "failed")
  /\ UNCHANGED <<info, req, at, to, work, requests, history>>

ArchiveDone(r) ==
  /\ pc[r] \in {"add", "extract"} /\ work[r] = <<>>
  /\ IF pc[r] = "add" THEN Closed(r) ELSE UNCHANGED <<disk, unclosed>>
  /\ Goto(r, "ok")
  /\ UNCHANGED <<info, req, at, to, work, requests, alone, before, given, from,
                 contested, orphaned, undone>>

-----------------------------------------------------------------------------
Step(r) ==
  \/ Check(r) \/ Create(r) \/ Rename(r) \/ Prepare(r) \/ TryRename(r)
  \/ CopyEntry(r) \/ Copied(r)
  \/ Delete(r) \/ RemoveEntry(r) \/ Removed(r) \/ RemoveFails(r) \/ Undone(r)
  \/ ChooseTrashName(r) \/ WriteTrashInfo(r)
  \/ Compress(r) \/ AddEntry(r) \/ Decompress(r) \/ ExtractEntry(r) \/ Cleanup(r)
  \/ ArchiveDone(r)

Next == \E r \in Slot : Step(r) \/ \E q \in Request : Begin(r, q)

Spec == Init /\ [][Next]_vars

-----------------------------------------------------------------------------
(* Properties. *)

\* Two of the paths have one name: in one directory they meet.
SameBase(q) ==
  \E i, j \in DOMAIN q.paths : i # j /\ Base(q.paths[i]) = Base(q.paths[j])

\* A path is to go where it is already.
InPlace(q) == \E i \in DOMAIN q.paths : q.paths[i] = Append(q.dest, Base(q.paths[i]))

\* Where a move puts its paths, and a copy those whose name is taken.
Targets(q) ==
  CASE q.kind = "move" -> {Append(q.dest, Base(p)) : p \in PathsOf(q)}
    [] q.kind = "copy" -> {Append(q.dest, Base(p) \o " (copy)") : p \in PathsOf(q)}
    [] OTHER -> {}

\* A path is to go to where it is, or below or above what is to be kept.
Overlaps(q) ==
  \E p \in PathsOf(q) :
    \/ q.kind = "compress" /\ IsPrefix(p, q.dest)
    \/ \E t \in Targets(q) : IsPrefix(p, t) \/ IsPrefix(t, p)

\* What request r has no business to lose.  Rename, create and trash look
\* whether their destination is free; the others may overwrite what is there,
\* but keep what they were given.
Keeps(r) ==
  CASE req[r].kind \in {"rename", "create_file", "create_dir"} -> before[r]
    [] req[r].kind = "trash" -> IF r \in undone THEN {} ELSE before[r]
    [] req[r].kind \in {"move", "copy", "compress", "decompress"} ->
         IF Overlaps(req[r]) \/ (req[r].kind = "move" /\ SameBase(req[r])) THEN {} ELSE given[r]
    [] OTHER -> {}

\* A request that nothing disturbs loses no content, wherever it fails and
\* whatever it is part of the way through: a cross-device move, a copy to the
\* trash, an archive half written.  The provisos are faults of the code: a move
\* of two paths with one name, a destination that overlaps with what is moved,
\* copied or archived, an archive with an entry that lands on the archive, and a
\* removal that fails after a copy to the trash.
AloneLosesNothing == \A r \in Slot : alone[r] => Keeps(r) \subseteq Values(disk)

\* An answer without an error, given while nothing disturbs the request, is
\* true: what was to go is gone and what was given is where it was to go.  The
\* provisos are faults of the code: an archive that could not be closed is
\* answered as if it were whole, paths with one name overwrite each other, and
\* so does a path that is its own destination.
OkMeansDone ==
  \A r \in Slot : alone[r] /\ pc[r] = "ok" =>
    LET q == req[r] IN
    /\ q.kind \in {"delete", "delete_elevated", "trash", "trash_elevated", "rename", "move"} =>
         \A p \in Paths(r) : Exists(disk, p) => q.kind = "move" /\ p = Append(q.dest, Base(p))
    /\ /\ q.kind \in {"rename", "move", "copy", "compress"}
       /\ ~SameBase(q) /\ ~(q.kind = "move" /\ InPlace(q)) /\ q.dest \notin Paths(r)
       /\ r \notin unclosed
       => given[r] \subseteq ValuesBelow(disk, q.dest)
    /\ q.kind = "decompress" =>
         {e[2] : e \in {x \in disk[q.paths[1]].data : ~Outside(x[1])}}
           \subseteq ValuesBelow(disk, q.dest)

\* A move is a rename, or a "cross-device move: copy then delete" (fs.go:683):
\* after one on a single device that nothing disturbed, what was given is there.
MovedIsThere ==
  \A r \in Slot :
    /\ alone[r] /\ pc[r] = "ok" /\ req[r].kind = "move"
    /\ \A p \in Paths(r) : DeviceOf(p) = DeviceOf(req[r].dest)
    => given[r] \subseteq ValuesBelow(disk, req[r].dest)

\* At rest every .trashinfo has its file and says where that file came from,
\* whatever else failed, unless two requests chose the name at the same time or
\* the write of the .trashinfo itself failed, which leaves one without a file.
TrashTellsOrigin ==
  (\A r \in Slot : ~Active(r)) =>
    \A n \in DOMAIN info \ (contested \cup orphaned) :
      /\ Exists(disk, Append(TrashFiles, n))
      /\ n \in DOMAIN from /\ from[n] = info[n]

\* checkDeletePermissions turns these down.
Refused(q) ==
  /\ q.kind \in {"delete", "trash", "delete_elevated", "trash_elevated"}
  /\ PathsOf(q) \cap Protected # {}

InTrash(p) == p # <<>> /\ Front(p) = TrashFiles

\* Clients leave the trash alone: no request that is not turned down removes or
\* moves the trash or what stands directly in it, or extracts to a name in it.
\* The server does not look, and the .trashinfo would stay behind.
TrashLeftAlone ==
  \A q \in Request : ~Refused(q) =>
    /\ \A p \in PathsOf(q) : ~IsPrefix(p, TrashFiles) /\ ~InTrash(p)
    /\ q.kind = "decompress" => ~InTrash(q.dest)
=============================================================================
