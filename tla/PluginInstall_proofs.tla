------------------------- MODULE PluginInstall_proofs -------------------------
(***************************************************************************)
(* Proofs about PluginInstall: every property its run checks holds for any *)
(* ids, packages, requests and bounds.                                     *)
(*                                                                         *)
(* The argument is about who may be at work in the staging directory of a  *)
(* plugin.  Unless a crash or a failed removal left it there, it exists    *)
(* only while some install of that plugin is between making it and         *)
(* renaming it; and of a request that has the plugin to itself             *)
(* (Undisturbed), it has the entry and the manifest that the stage of the  *)
(* request calls for, whatever else an earlier one left in it.  state.json *)
(* is what was written as long as at most one request is between reading   *)
(* and writing it.                                                         *)
(***************************************************************************)
EXTENDS PluginInstall, TLAPS

\* The manifest an install writes, and a directory with it and the entry, which
\* the manifest replaces when it has that name.
ManifestOf(p) == [hash |-> p.code, entry |-> p.entry]

IsComplete(d, p) ==
  d.there /\ d.manifest = ManifestOf(p) /\ (p.entry # "plugin.json" => d.files[p.entry] = p.code)

\* What is listed for a directory is what it serves, if it serves it.
Agrees(d) ==
  d.manifest # NoManifest /\ d.manifest.entry \in AllowedArtifacts \ {"plugin.json"} =>
    d.files[d.manifest.entry] = d.manifest.hash

\* The staging directory is the request's: it has made it and not yet renamed it.
Staged(r) == pc[r] \in {"copy", "manifest", "swap"} \/ (pc[r] = "remove" /\ Installs(r))

\* Nothing else works, or has left something, in the directories of its plugin.
Undisturbed(r) == pc[r] # "idle" /\ (alone[r] \/ req[r].id \notin mixed \cup broken)

HistoryType ==
  /\ alone \in [Slot -> BOOLEAN]
  /\ before \in [Slot -> Directory]
  /\ mixed \subseteq Id /\ broken \subseteq Id /\ wanted \subseteq Id /\ misread \in BOOLEAN

\* What a request is where it is; only those of third-party plugins get to
\* the directories.
RequestFits(r) ==
  /\ pc[r] = "idle" \/ req[r] \in Request
  /\ pc[r] \in {"clear", "mkdir", "copy", "manifest", "swap"} => Installs(r)
  /\ pc[r] = "remove" => Installs(r) \/ req[r].kind = "uninstall"
  /\ pc[r] \in {"clear", "mkdir", "copy", "manifest", "swap", "remove"} =>
       req[r].id \notin FirstParty

RequestsFit == req \in [Slot -> Request \cup {NoRequest}] /\ \A r \in Slot : RequestFits(r)

OneAtATime ==
  /\ \A r, o \in Slot : Active(r) /\ Active(o) /\ req[r].id = req[o].id /\ r # o =>
       req[r].id \in mixed
  /\ \A r, o \in Slot : alone[r] /\ o # r => ~Active(o)
  /\ \A r \in Slot : alone[r] => pc[r] # "idle"

\* A staging directory that no crash or failure left belongs to a request.
NoneLeftBehind ==
  \A i \in Id \ broken : plugins[Staging(i)] = Absent \/ \E r \in Slot : Staged(r) /\ req[r].id = i

StagingFits(r) ==
  Undisturbed(r) =>
    LET there == plugins[Staging(req[r].id)]  p == req[r].package IN
    /\ pc[r] = "manifest" => there.there /\ there.files[p.entry] = p.code
    /\ pc[r] = "swap" \/ (pc[r] = "remove" /\ Installs(r)) => IsComplete(there, p)

HashFits ==
  \A i \in Id \ (mixed \cup broken) :
    Agrees(plugins[Place(i)]) \/ \E r \in Slot : pc[r] = "remove" /\ req[r].id = i

\* The request is past the directories.
AtState == {"read", "truncate", "write", "ok", "unsaved"}

\* What is installed, of a request that is alone.
InstalledFits(r) ==
  alone[r] =>
    LET there == plugins[Place(req[r].id)] IN
    /\ pc[r] \in {"check", "clear", "mkdir", "copy", "manifest", "failed"} => there = before[r]
    /\ Toggles(r) => there = before[r]
    /\ pc[r] \in {"remove", "swap", "lost"} => IsPartOf(there, before[r])
    /\ pc[r] \in AtState /\ Installs(r) =>
         there.manifest = ManifestOf(req[r].package) /\ plugins[Staging(req[r].id)] = Absent
    /\ pc[r] \in AtState /\ req[r].kind = "uninstall" => there = Absent
    /\ pc[r] = "ok" /\ Installs(r) => req[r].id \notin Disabled

\* While one request at a time is between reading and writing state.json, what
\* it read, or the file while nobody has cut it, is what was written.
StateFits ==
  ~misread =>
    /\ \A r, o \in Slot : pc[r] \in {"truncate", "write"} /\ pc[o] \in {"truncate", "write"} => r = o
    /\ \A r \in Slot : pc[r] \in {"truncate", "write"} => seen[r] = wanted
    /\ \A r \in Slot : pc[r] = "write" => ~state.whole
    /\ (\A r \in Slot : pc[r] # "write") => Disabled = wanted

InstallInv ==
  /\ TypeOK /\ HistoryType /\ RequestsFit /\ OneAtATime /\ NoneLeftBehind /\ HashFits
  /\ \A r \in Slot : StagingFits(r) /\ InstalledFits(r)
  /\ StateFits

-----------------------------------------------------------------------------
(* What requests and directories are. *)

LEMMA RequestParts ==
  ASSUME NEW q \in Request
  PROVE  /\ q.id \in Id /\ q.kind \in Kinds
         /\ q.kind \in {"install", "force"} =>
              q.package \in Package /\ q.package.id = q.id
<1>1. CASE q \in {[kind |-> k, id |-> p.id, package |-> p] : k \in {"install", "force"}, p \in Package}
  BY <1>1, InstallAssumption DEF Kinds
<1>2. CASE q \in [kind : {"uninstall", "enable", "disable"}, id : Id]
  BY <1>2 DEF Kinds
<1> QED BY <1>1, <1>2 DEF Request

LEMMA PackageFiles ==
  ASSUME NEW p \in Package
  PROVE  /\ p.code \in Code /\ p.code # NoCode /\ NoCode \in Code
         /\ p.entry \in Names /\ "plugin.json" \in Names
         /\ ManifestOf(p) \in [hash : Code, entry : Names \cup {"none"}]
         /\ ManifestOf(p) # NoManifest /\ ManifestOf(p).hash = p.code /\ ManifestOf(p).entry = p.entry
<1>1. /\ p.code \in Code /\ p.code # NoCode /\ NoCode \in Code
      /\ p.entry \in Names /\ "plugin.json" \in Names
  BY InstallAssumption DEF Code, Names
<1>2. ManifestOf(p).hash = p.code /\ ManifestOf(p).entry = p.entry /\ NoManifest.hash = NoCode
  BY DEF ManifestOf, NoManifest
<1>3. ManifestOf(p) \in [hash : Code, entry : Names \cup {"none"}]
  BY <1>1 DEF ManifestOf
<1> QED BY <1>1, <1>2, <1>3

LEMMA PlacesDiffer ==
  /\ \A i, j : Place(i) # Staging(j)
  /\ \A i, j : Place(i) = Place(j) => i = j
  /\ \A i, j : Staging(i) = Staging(j) => i = j
  /\ \A i \in Id : Place(i) \in Places /\ Staging(i) \in Places
  /\ \A p \in Places : \E i \in Id : p = Place(i) \/ p = Staging(i)
  /\ \A i : Place(i)[1] = i /\ Staging(i)[1] = i
BY DEF Place, Staging, Places

\* The empty directories, and the one that is not there.
LEMMA Empties ==
  /\ Absent \in Directory /\ ~Absent.there /\ Absent.manifest = NoManifest
  /\ Empty \in Directory /\ Empty.there /\ Empty.manifest = NoManifest
  /\ Agrees(Absent)
<1>1. NoManifest \in [hash : Code, entry : Names \cup {"none"}] /\ NoCode \in Code
  BY DEF NoManifest, Code
<1>2. Absent \in Directory /\ ~Absent.there /\ Absent.manifest = NoManifest
  BY <1>1 DEF Absent, Directory
<1>3. Empty \in Directory /\ Empty.there /\ Empty.manifest = NoManifest
  BY <1>2 DEF Empty, Directory
<1> QED BY <1>2, <1>3 DEF Agrees

\* What a removal leaves is a directory, and part of the one it was to remove.
LEMMA RemovalLeaves ==
  ASSUME NEW d \in Directory, ~d.there => d = Absent
  PROVE  /\ \A x \in Parts(d) : x \in Directory /\ x.there /\ (d.there => IsPartOf(x, d))
         /\ \A x \in RemoveAll(d) : x \in Directory /\ (~x.there => x = Absent)
         /\ IsPartOf(d, d) /\ IsPartOf(Absent, d)
<1>1. /\ d.manifest \in [hash : Code, entry : Names \cup {"none"}] /\ d.files \in [Names -> Code]
      /\ NoManifest \in [hash : Code, entry : Names \cup {"none"}] /\ NoCode \in Code
  BY DEF Directory, NoManifest, Code
<1>2. ASSUME NEW x \in Parts(d)
      PROVE  x \in Directory /\ x.there /\ (d.there => IsPartOf(x, d))
  <2>1. PICK kept \in SUBSET Names, m \in {d.manifest, NoManifest} :
          x = [there |-> TRUE, files |-> [n \in Names |-> IF n \in kept THEN d.files[n] ELSE NoCode],
               manifest |-> m]
    BY DEF Parts
  <2> DEFINE g == [n \in Names |-> IF n \in kept THEN d.files[n] ELSE NoCode]
  <2>2. g \in [Names -> Code] /\ \A n \in Names : g[n] \in {d.files[n], NoCode}
    BY <1>1
  <2>3. x = [there |-> TRUE, files |-> g, manifest |-> m] /\ m \in {d.manifest, NoManifest}
    BY <2>1
  <2> HIDE DEF g
  <2>4. x.there /\ x.files = g /\ x.manifest = m /\ x \in Directory
    BY <1>1, <2>2, <2>3 DEF Directory
  <2> QED BY <2>2, <2>3, <2>4 DEF IsPartOf
<1>3. \A x \in RemoveAll(d) : x \in Directory /\ (~x.there => x = Absent)
  BY <1>2, Empties DEF RemoveAll
<1>4. IsPartOf(d, d) /\ IsPartOf(Absent, d)
  BY DEF IsPartOf
<1> QED BY <1>2, <1>3, <1>4

LEMMA PartOfPart ==
  ASSUME NEW x, NEW y, NEW z, IsPartOf(x, y), IsPartOf(y, z)
  PROVE  IsPartOf(x, z)
<1>1. CASE x = Absent
  BY <1>1 DEF IsPartOf
<1>2. CASE x # Absent
  <2>1. x.there /\ y.there /\ y # Absent
    BY <1>2, Empties DEF IsPartOf
  <2> QED BY <1>2, <2>1 DEF IsPartOf
<1> QED BY <1>1, <1>2

-----------------------------------------------------------------------------
(* A step of one request: what is to be shown of the others is shown here. *)

Where == {"idle", "check", "clear", "mkdir", "copy", "manifest",
          "remove", "swap", "read", "truncate", "write"} \cup Answers

\* Nothing changed but the directories of r's plugin, whether they are broken, and
\* where r is.
OnlyOf(r, where) ==
  /\ Active(r) /\ where # "idle" /\ pc' = [pc EXCEPT ![r] = where]
  /\ UNCHANGED <<req, alone, before, mixed>> /\ broken' \in {broken, broken \cup {req[r].id}}
  /\ \A i \in Id : i # req[r].id =>
       plugins'[Place(i)] = plugins[Place(i)] /\ plugins'[Staging(i)] = plugins[Staging(i)]

LEMMA SlotFacts ==
  ASSUME InstallInv, NEW r \in Slot, pc[r] # "idle"
  PROVE  /\ req[r] \in Request /\ req[r].id \in Id /\ req[r].kind \in Kinds
         /\ Installs(r) => /\ req[r].package \in Package /\ req[r].package.id = req[r].id
                           /\ req[r].package.code # NoCode
                           /\ req[r].package.entry \in Names
         /\ Place(req[r].id) \in Places /\ Staging(req[r].id) \in Places
<1>1. req[r] \in Request
  BY DEF InstallInv, RequestsFit, RequestFits
<1> QED BY <1>1, RequestParts, PackageFiles, PlacesDiffer DEF Installs

LEMMA OthersElsewhere ==
  ASSUME InstallInv, NEW r \in Slot, NEW o \in Slot, o # r, Active(r), Active(o), Undisturbed(o)
  PROVE  req[o].id # req[r].id
BY DEF InstallInv, OneAtATime, Undisturbed

LEMMA OthersKeep ==
  ASSUME InstallInv, NEW r \in Slot, NEW where, OnlyOf(r, where)
  PROVE  /\ StagingFits(r)' => \A o \in Slot : StagingFits(o)'
         /\ InstalledFits(r)' => \A o \in Slot : InstalledFits(o)'
         /\ RequestFits(r)' => RequestsFit'
         /\ OneAtATime'
         /\ \/ req[r].id \in broken'
            \/ plugins'[Staging(req[r].id)] = Absent
            \/ Staged(r)'
            \/ /\ ~Staged(r)
               /\ plugins[Staging(req[r].id)] = Absent => plugins'[Staging(req[r].id)] = Absent
            => NoneLeftBehind'
         /\ \/ req[r].id \in mixed \cup broken'
            \/ pc'[r] = "remove" \/ Agrees(plugins'[Place(req[r].id)])
            => HashFits'
<1> USE DEF OnlyOf
<1>0. pc \in [Slot -> Where] /\ alone \in [Slot -> BOOLEAN] /\ pc[r] # "idle" /\ broken \subseteq broken'
  BY DEF InstallInv, TypeOK, HistoryType, Active, Answers, Where
<1>1. req[r].id \in Id
  BY <1>0, SlotFacts
<1>2. \A o \in Slot : o # r => pc'[o] = pc[o]
  BY <1>0
<1>3. pc'[r] = where
  BY <1>0
<1>4. ASSUME NEW o \in Slot, o # r, Undisturbed(o), Active(o)
      PROVE  /\ plugins'[Staging(req[o].id)] = plugins[Staging(req[o].id)]
             /\ plugins'[Place(req[o].id)] = plugins[Place(req[o].id)]
  <2>1. req[o].id # req[r].id
    BY <1>4, OthersElsewhere
  <2>2. req[o].id \in Id
    BY <1>4, SlotFacts DEF Active
  <2> QED BY <2>1, <2>2
<1>5. ASSUME StagingFits(r)', NEW o \in Slot
      PROVE  StagingFits(o)'
  <2>1. CASE o = r
    BY <1>5, <2>1
  <2>2. CASE o # r /\ ~Active(o)
    BY <1>2, <2>2 DEF StagingFits, Active, Answers
  <2>3. CASE o # r /\ Active(o)
    <3>1. StagingFits(o)
      BY DEF InstallInv
    <3>2. Undisturbed(o)' => Undisturbed(o)
      BY <1>0, <1>2, <2>3 DEF Undisturbed
    <3>3. Undisturbed(o) => plugins'[Staging(req[o].id)] = plugins[Staging(req[o].id)]
      BY <1>4, <2>3
    <3> QED BY <1>2, <2>3, <3>1, <3>2, <3>3 DEF StagingFits, Installs
  <2> QED BY <2>1, <2>2, <2>3
<1>6. ASSUME InstalledFits(r)', NEW o \in Slot
      PROVE  InstalledFits(o)'
  <2>1. CASE o = r
    BY <1>6, <2>1
  <2>2. CASE o # r
    BY <2>2 DEF InstallInv, OneAtATime, InstalledFits
  <2> QED BY <2>1, <2>2
<1>7. ASSUME RequestFits(r)'
      PROVE  RequestsFit'
  <2>1. ASSUME NEW o \in Slot
        PROVE  RequestFits(o)'
    <3>1. CASE o = r
      BY <1>7, <3>1
    <3>2. CASE o # r
      BY <1>2, <3>2 DEF InstallInv, RequestsFit, RequestFits, Installs
    <3> QED BY <3>1, <3>2
  <2> QED BY <2>1 DEF InstallInv, RequestsFit
<1>8. OneAtATime'
  <2>1. \A o \in Slot : Active(o)' => Active(o)
    BY <1>2 DEF Active
  <2>2. \A o \in Slot : pc'[o] = "idle" => pc[o] = "idle"
    BY <1>2, <1>3
  <2> QED BY <2>1, <2>2 DEF InstallInv, OneAtATime, Active
<1>9. ASSUME \/ req[r].id \in broken'
             \/ plugins'[Staging(req[r].id)] = Absent
             \/ Staged(r)'
             \/ /\ ~Staged(r)
                /\ plugins[Staging(req[r].id)] = Absent => plugins'[Staging(req[r].id)] = Absent
      PROVE  NoneLeftBehind'
  <2>1. ASSUME NEW i \in Id \ broken', plugins'[Staging(i)] # Absent
        PROVE  \E o \in Slot : Staged(o)' /\ req'[o].id = i
    <3>1. CASE Staged(r)' /\ req[r].id = i
      BY <3>1
    <3>2. CASE ~(Staged(r)' /\ req[r].id = i)
      <4>1. plugins[Staging(i)] # Absent
        BY <1>9, <2>1, <3>2
      <4>2. PICK o \in Slot : Staged(o) /\ req[o].id = i
        BY <1>0, <2>1, <4>1 DEF InstallInv, NoneLeftBehind
      <4>3. o # r
        BY <1>9, <2>1, <3>2, <4>2
      <4> QED BY <1>2, <4>2, <4>3 DEF Staged, Installs
    <3> QED BY <3>1, <3>2
  <2> QED BY <2>1 DEF NoneLeftBehind
<1>10. ASSUME \/ req[r].id \in mixed \cup broken'
              \/ pc'[r] = "remove" \/ Agrees(plugins'[Place(req[r].id)])
       PROVE  HashFits'
  <2>1. ASSUME NEW i \in Id \ (mixed \cup broken')
        PROVE  Agrees(plugins'[Place(i)]) \/ \E o \in Slot : pc'[o] = "remove" /\ req[o].id = i
    <3>1. CASE i = req[r].id
      BY <1>10, <2>1, <3>1
    <3>2. CASE i # req[r].id
      <4>1. plugins'[Place(i)] = plugins[Place(i)]
        BY <2>1, <3>2
      <4>2. Agrees(plugins[Place(i)]) \/ \E o \in Slot : pc[o] = "remove" /\ req[o].id = i
        BY <1>0, <2>1 DEF InstallInv, HashFits
      <4> QED BY <1>2, <3>2, <4>1, <4>2
    <3> QED BY <3>1, <3>2
  <2> QED BY <2>1 DEF HashFits, Agrees
<1> QED BY <1>5, <1>6, <1>7, <1>8, <1>9, <1>10

\* state.json and those who read or write it are left alone.
LEMMA StateKept ==
  ASSUME InstallInv, NEW r \in Slot, NEW where, pc' = [pc EXCEPT ![r] = where], pc[r] \notin {"truncate", "write"},
         where \notin {"truncate", "write"}, UNCHANGED <<state, seen, wanted, misread>>
  PROVE  StateFits'
<1>1. \A o \in Slot : pc'[o] = IF o = r THEN where ELSE pc[o]
  BY DEF InstallInv, TypeOK
<1>2. \A o \in Slot : (pc'[o] \in {"truncate", "write"} <=> pc[o] \in {"truncate", "write"})
  BY <1>1
<1>3. \A o \in Slot : (pc'[o] = "write" <=> pc[o] = "write")
  BY <1>1
<1>4. Disabled' = Disabled
  BY DEF Disabled
<1> QED BY <1>2, <1>3, <1>4 DEF InstallInv, StateFits

LEMMA TypeKept ==
  ASSUME InstallInv, NEW r \in Slot, NEW where \in Where, OnlyOf(r, where),
         plugins' \in [Places -> Directory],
         \A p \in {Place(req[r].id), Staging(req[r].id)} :
           /\ ~plugins'[p].there => plugins'[p] = Absent
           /\ req[r].id \in FirstParty => plugins'[p] = plugins[p],
         UNCHANGED <<state, seen, requests, crashes>>
  PROVE  TypeOK'
<1>1. \A p \in Places : ~plugins'[p].there => plugins'[p] = Absent
  <2> TAKE p \in Places
  <2>1. PICK i \in Id : p = Place(i) \/ p = Staging(i)
    BY PlacesDiffer
  <2>2. CASE i = req[r].id
    BY <2>1, <2>2
  <2>3. CASE i # req[r].id
    BY <2>1, <2>3 DEF OnlyOf, InstallInv, TypeOK
  <2> QED BY <2>2, <2>3
<1>2. \A i \in FirstParty : plugins'[Place(i)] = Absent /\ plugins'[Staging(i)] = Absent
  <2> TAKE i \in FirstParty
  <2>1. plugins[Place(i)] = Absent /\ plugins[Staging(i)] = Absent /\ i \in Id
    BY InstallAssumption DEF InstallInv, TypeOK
  <2> QED BY <2>1 DEF OnlyOf
<1> QED BY <1>1, <1>2 DEF OnlyOf, InstallInv, TypeOK, Where

\* A step that leaves the directories, too.
LEMMA DirectoriesKept ==
  ASSUME InstallInv, NEW r \in Slot, NEW where \in Where, OnlyOf(r, where),
         UNCHANGED <<plugins, broken>>, ~Staged(r), pc[r] # "remove"
  PROVE  /\ NoneLeftBehind' /\ HashFits'
         /\ plugins' \in [Places -> Directory]
         /\ \A p \in Places : ~plugins'[p].there => plugins'[p] = Absent
         /\ \A i \in FirstParty : plugins'[Place(i)] = Absent /\ plugins'[Staging(i)] = Absent
<1>1. NoneLeftBehind'
  BY OthersKeep
<1>2. HashFits'
  <2>1. \A o \in Slot : pc[o] = "remove" => pc'[o] = "remove"
    BY DEF InstallInv, TypeOK, OnlyOf
  <2> QED BY <2>1 DEF InstallInv, HashFits, OnlyOf, Agrees
<1> QED BY <1>1, <1>2 DEF InstallInv, TypeOK

LEMMA CheckKeeps ==
  ASSUME InstallInv, NEW r \in Slot, Check(r)
  PROVE  InstallInv'
<1> DEFINE where == CASE Installs(r) -> IF Accepted(req[r]) THEN "clear" ELSE "failed"
                      [] req[r].kind = "uninstall" ->
                           IF req[r].id \notin FirstParty /\ plugins[Place(req[r].id)].there
                           THEN "remove" ELSE "failed"
                      [] OTHER -> "read"
<1>1. pc[r] = "check" /\ pc' = [pc EXCEPT ![r] = where]
  BY DEF Check, Goto
<1>2. UNCHANGED <<plugins, state, req, seen, requests, crashes, history>>
  BY DEF Check
<1>3. \/ where = "clear" /\ Installs(r) /\ req[r].id \notin FirstParty
      \/ where = "failed" /\ ~Toggles(r)
      \/ where = "remove" /\ req[r].kind = "uninstall" /\ req[r].id \notin FirstParty
      \/ where = "read" /\ ~Installs(r) /\ req[r].kind # "uninstall"
  <2>0. Installs(r) \/ req[r].kind = "uninstall" => ~Toggles(r)
    BY DEF Installs, Toggles
  <2>1. CASE Installs(r)
    <3>1. req[r].kind # "uninstall"
      BY <2>1 DEF Installs
    <3> QED BY <2>0, <2>1, <3>1, Zenon DEF Accepted
  <2>2. CASE ~Installs(r) /\ req[r].kind = "uninstall"
    BY <2>0, <2>2, Zenon
  <2>3. CASE ~Installs(r) /\ req[r].kind # "uninstall"
    BY <2>3, Zenon
  <2> QED BY <2>1, <2>2, <2>3
<1> HIDE DEF where
<1>4. where \in Where /\ where \notin {"idle", "truncate", "write"}
  BY <1>3 DEF Where, Answers
<1>5. pc \in [Slot -> Where] /\ pc' \in [Slot -> Where] /\ pc'[r] = where
  BY <1>1, <1>4 DEF InstallInv, TypeOK, Where
<1>6. OnlyOf(r, where)
  BY <1>1, <1>2, <1>4 DEF OnlyOf, Active, Answers, history
<1>7. ~Staged(r) /\ pc[r] # "remove" /\ UNCHANGED <<plugins, broken>>
  BY <1>1, <1>2 DEF Staged, history
<1>8. NoneLeftBehind' /\ HashFits' /\ OneAtATime'
  BY <1>2, <1>4, <1>6, <1>7, DirectoriesKept, OthersKeep
<1>9. TypeOK' /\ HistoryType'
  BY <1>2, <1>5 DEF InstallInv, TypeOK, HistoryType, Where, history
<1>10. RequestFits(r)'
  BY <1>1, <1>2, <1>3, <1>5 DEF InstallInv, RequestsFit, RequestFits, Installs
<1>11. StagingFits(r)'
  BY <1>2, <1>3, <1>5 DEF StagingFits, Installs
<1>12. InstalledFits(r)'
  <2>1. alone[r] => plugins[Place(req[r].id)] = before[r]
    BY <1>1 DEF InstallInv, InstalledFits
  <2>2. alone[r] => IsPartOf(plugins[Place(req[r].id)], before[r])
    BY <1>1, <2>1, SlotFacts, RemovalLeaves DEF InstallInv, TypeOK
  <2> QED BY <1>2, <1>3, <1>5, <2>1, <2>2
      DEF InstalledFits, Installs, Toggles, AtState, IsPartOf, history
<1>13. StateFits'
  BY <1>1, <1>2, <1>4, <1>5, StateKept DEF InstallInv, Where, history
<1> QED BY <1>6, <1>8, <1>9, <1>10, <1>11, <1>12, <1>13, OthersKeep DEF InstallInv

-----------------------------------------------------------------------------
(* The steps of an install and an uninstall. *)

\* The directories of plugin i now hold s and d, and nothing else changed.
Directories(i, s, d) ==
  /\ plugins' \in [Places -> Directory]
  /\ plugins'[Staging(i)] = s /\ plugins'[Place(i)] = d
  /\ \A j \in Id : j # i =>
       plugins'[Place(j)] = plugins[Place(j)] /\ plugins'[Staging(j)] = plugins[Staging(j)]

LEMMA DirectoriesChange ==
  ASSUME plugins \in [Places -> Directory], NEW i \in Id, NEW s \in Directory, NEW d \in Directory
  PROVE  /\ plugins' = [plugins EXCEPT ![Staging(i)] = s] => Directories(i, s, plugins[Place(i)])
         /\ plugins' = [plugins EXCEPT ![Place(i)] = d] => Directories(i, plugins[Staging(i)], d)
         /\ plugins' = [plugins EXCEPT ![Place(i)] = d, ![Staging(i)] = s] => Directories(i, s, d)
<1>1. ASSUME plugins' = [plugins EXCEPT ![Staging(i)] = s]
      PROVE  Directories(i, s, plugins[Place(i)])
  BY <1>1, PlacesDiffer DEF Directories
<1>2. ASSUME plugins' = [plugins EXCEPT ![Place(i)] = d]
      PROVE  Directories(i, plugins[Staging(i)], d)
  BY <1>2, PlacesDiffer DEF Directories
<1>3. ASSUME plugins' = [plugins EXCEPT ![Place(i)] = d, ![Staging(i)] = s]
      PROVE  Directories(i, s, d)
  BY <1>3, PlacesDiffer DEF Directories
<1> QED BY <1>1, <1>2, <1>3

AtWork == {"clear", "mkdir", "copy", "manifest", "remove", "swap"}

LEMMA DirectoryStep ==
  ASSUME InstallInv, NEW r \in Slot, pc[r] \in AtWork,
         NEW where \in Where \ {"idle", "truncate", "write"}, pc' = [pc EXCEPT ![r] = where],
         UNCHANGED <<state, req, seen, requests, crashes, alone, before, mixed, wanted, misread>>,
         broken' \in {broken, broken \cup {req[r].id}},
         where \in AtWork => Installs(r) \/ (where = "remove" /\ pc[r] = "remove"),
         NEW s \in Directory, NEW d \in Directory, Directories(req[r].id, s, d),
         ~s.there => s = Absent, ~d.there => d = Absent,
         \/ req[r].id \in broken' \/ s = Absent \/ Staged(r)'
         \/ ~Staged(r) /\ (plugins[Staging(req[r].id)] = Absent => s = Absent),
         req[r].id \in mixed \cup broken' \/ where = "remove" \/ Agrees(d),
         StagingFits(r)', InstalledFits(r)'
  PROVE  InstallInv'
<1>1. /\ pc \in [Slot -> Where] /\ pc' \in [Slot -> Where] /\ pc'[r] = where
      /\ pc[r] # "idle" /\ Active(r)
  BY DEF InstallInv, TypeOK, Where, AtWork, Active, Answers
<1>2. OnlyOf(r, where)
  BY <1>1 DEF OnlyOf, Directories
<1>3. req[r].id \notin FirstParty /\ req[r].id \in Id
  BY <1>1, SlotFacts DEF InstallInv, RequestsFit, RequestFits, AtWork
<1>4. TypeOK'
  BY <1>2, <1>3, TypeKept DEF Directories
<1>5. RequestFits(r)'
  BY <1>1, <1>3 DEF InstallInv, RequestsFit, RequestFits, Installs, AtWork
<1>6. /\ \A o \in Slot : StagingFits(o)' /\ InstalledFits(o)'
      /\ RequestsFit' /\ OneAtATime'
  BY <1>2, <1>5, OthersKeep
<1>7. NoneLeftBehind' /\ HashFits'
  BY <1>1, <1>2, OthersKeep DEF Directories
<1>8. StateFits'
  BY <1>1, StateKept DEF AtWork
<1>9. HistoryType'
  BY <1>3 DEF InstallInv, HistoryType
<1> QED BY <1>4, <1>6, <1>7, <1>8, <1>9 DEF InstallInv

\* What is known of a request that works on the directories.
LEMMA AtWorkFacts ==
  ASSUME InstallInv, NEW r \in Slot, pc[r] \in AtWork
  PROVE  /\ plugins \in [Places -> Directory] /\ pc \in [Slot -> Where]
         /\ pc[r] # "idle" /\ Active(r)
         /\ req[r].id \in Id /\ Place(req[r].id) \in Places /\ Staging(req[r].id) \in Places
         /\ plugins[Staging(req[r].id)] \in Directory /\ plugins[Place(req[r].id)] \in Directory
         /\ ~plugins[Staging(req[r].id)].there => plugins[Staging(req[r].id)] = Absent
         /\ ~plugins[Place(req[r].id)].there => plugins[Place(req[r].id)] = Absent
         /\ pc[r] # "remove" => Installs(r)
         /\ pc[r] = "remove" => Installs(r) \/ req[r].kind = "uninstall"
         /\ ~Toggles(r)
         /\ Installs(r) => /\ req[r].kind # "uninstall"
                           /\ req[r].package \in Package /\ req[r].package.id = req[r].id
         /\ alone[r] => Undisturbed(r)
         /\ \/ req[r].id \in mixed \cup broken \/ pc[r] = "remove"
            \/ Agrees(plugins[Place(req[r].id)])
<1>1. plugins \in [Places -> Directory] /\ pc \in [Slot -> Where]
  BY DEF InstallInv, TypeOK, Where
<1>2. pc[r] # "idle" /\ Active(r)
  BY DEF AtWork, Active, Answers
<1>3. /\ req[r].id \in Id /\ Place(req[r].id) \in Places /\ Staging(req[r].id) \in Places
      /\ Installs(r) => req[r].package \in Package /\ req[r].package.id = req[r].id
  BY <1>2, SlotFacts
<1>4. /\ ~plugins[Staging(req[r].id)].there => plugins[Staging(req[r].id)] = Absent
      /\ ~plugins[Place(req[r].id)].there => plugins[Place(req[r].id)] = Absent
  BY <1>3 DEF InstallInv, TypeOK
<1>5. /\ pc[r] # "remove" => Installs(r)
      /\ pc[r] = "remove" => Installs(r) \/ req[r].kind = "uninstall"
  BY DEF InstallInv, RequestsFit, RequestFits, AtWork
<1>6. /\ Installs(r) => req[r].kind # "uninstall"
      /\ alone[r] => Undisturbed(r)
  BY <1>2 DEF Installs, Undisturbed
<1>7. ~Toggles(r)
  BY <1>5 DEF Installs, Toggles
<1>8. \/ req[r].id \in mixed \cup broken \/ pc[r] = "remove"
      \/ Agrees(plugins[Place(req[r].id)])
  <2>1. ASSUME NEW o \in Slot, pc[o] = "remove", req[o].id = req[r].id
        PROVE  o = r \/ req[r].id \in mixed
    BY <1>2, <2>1 DEF Active, Answers, InstallInv, OneAtATime
  <2> QED BY <1>3, <2>1 DEF InstallInv, HashFits
<1> QED BY <1>1, <1>2, <1>3, <1>4, <1>5, <1>6, <1>7, <1>8

\* Before its install has removed anything, a request that is alone finds what
\* was there.
LEMMA NothingRemoved ==
  ASSUME InstallInv, NEW r \in Slot, pc[r] \in {"clear", "mkdir", "copy", "manifest"},
         NEW where \in {"mkdir", "copy", "manifest", "remove", "failed"}, pc'[r] = where,
         NEW s, Directories(req[r].id, s, plugins[Place(req[r].id)]),
         UNCHANGED <<req, alone, before>>
  PROVE  InstalledFits(r)'
<1> DEFINE d == plugins[Place(req[r].id)]
<1>1. pc[r] \in AtWork
  BY DEF AtWork
<1>2. alone[r] => d = before[r]
  BY DEF InstallInv, InstalledFits
<1>3. IsPartOf(d, d) /\ d \in Directory /\ ~Toggles(r)
  BY <1>1, AtWorkFacts, RemovalLeaves
<1>4. alone[r] => IsPartOf(d, before[r])
  BY <1>2, <1>3
<1>5. plugins'[Place(req[r].id)] = d
  BY DEF Directories
<1> HIDE DEF d
<1> QED BY <1>2, <1>3, <1>4, <1>5 DEF InstalledFits, IsPartOf, AtState, Toggles

LEMMA ClearStagingKeeps ==
  ASSUME InstallInv, NEW r \in Slot, ClearStaging(r)
  PROVE  InstallInv'
<1> DEFINE i == req[r].id  d == plugins[Place(i)]
<1>1. /\ pc[r] = "clear" /\ pc' = [pc EXCEPT ![r] = "mkdir"]
      /\ UNCHANGED <<state, req, seen, requests, crashes, history>>
  BY DEF ClearStaging, Goto
<1>2. PICK x \in RemoveAll(plugins[Staging(i)]) : plugins' = [plugins EXCEPT ![Staging(i)] = x]
  BY DEF ClearStaging
<1>3. pc[r] \in AtWork /\ "mkdir" \in Where \ {"idle", "truncate", "write"}
  BY <1>1 DEF AtWork, Where
<1>4. x \in Directory /\ (~x.there => x = Absent)
  BY <1>3, AtWorkFacts, RemovalLeaves
<1>5. Directories(i, x, d)
  BY <1>2, <1>3, <1>4, AtWorkFacts, DirectoriesChange
<1>6. pc'[r] = "mkdir"
  BY <1>1, <1>3, AtWorkFacts
<1>7. StagingFits(r)'
  BY <1>6 DEF StagingFits
<1>8. InstalledFits(r)'
  BY <1>1, <1>5, <1>6, NothingRemoved DEF history
<1>9. Installs(r) /\ ~Staged(r)
  BY <1>1, <1>3, AtWorkFacts DEF Staged
<1>10. plugins[Staging(i)] = Absent => x = Absent
  BY Empties DEF RemoveAll
<1> QED BY <1>1, <1>3, <1>4, <1>5, <1>7, <1>8, <1>9, <1>10, AtWorkFacts, DirectoryStep DEF history

LEMMA MakeStagingKeeps ==
  ASSUME InstallInv, NEW r \in Slot, MakeStaging(r)
  PROVE  InstallInv'
<1> DEFINE i == req[r].id  d == plugins[Place(i)]
<1>1. pc[r] = "mkdir" /\ UNCHANGED <<state, req, seen, requests, crashes, history>>
  BY DEF MakeStaging
<1>2. /\ pc[r] \in AtWork /\ "failed" \notin AtWork
      /\ "copy" \in Where \ {"idle", "truncate", "write"} /\ "failed" \in Where \ {"idle", "truncate", "write"}
  BY <1>1 DEF AtWork, Where, Answers
<1>3. Installs(r)
  BY <1>1, <1>2, AtWorkFacts
<1>4. CASE /\ plugins' = [plugins EXCEPT ![Staging(i)].there = TRUE]
           /\ pc' = [pc EXCEPT ![r] = "copy"]
  <2> DEFINE s == [plugins[Staging(i)] EXCEPT !.there = TRUE]
  <2>1. s \in Directory /\ s.there
    BY <1>2, AtWorkFacts DEF Directory
  <2>2. plugins' = [plugins EXCEPT ![Staging(i)] = s]
    BY <1>4
  <2> HIDE DEF s
  <2>3. Directories(i, s, d)
    BY <1>2, <2>1, <2>2, AtWorkFacts, DirectoriesChange
  <2>4. pc'[r] = "copy" /\ Staged(r)'
    BY <1>2, <1>4, AtWorkFacts DEF Staged
  <2>5. StagingFits(r)'
    BY <2>4 DEF StagingFits
  <2>6. InstalledFits(r)'
    BY <1>1, <2>3, <2>4, NothingRemoved DEF history
  <2> QED BY <1>1, <1>2, <1>3, <1>4, <2>1, <2>3, <2>4, <2>5, <2>6, AtWorkFacts, DirectoryStep
          DEF history
<1>5. CASE pc' = [pc EXCEPT ![r] = "failed"] /\ UNCHANGED plugins
  <2>1. Directories(i, plugins[Staging(i)], d)
    BY <1>2, <1>5, AtWorkFacts DEF Directories
  <2>2. pc'[r] = "failed" /\ ~Staged(r)
    BY <1>1, <1>2, <1>5, AtWorkFacts DEF Staged
  <2>3. StagingFits(r)'
    BY <2>2 DEF StagingFits
  <2>4. InstalledFits(r)'
    BY <1>1, <2>1, <2>2, NothingRemoved DEF history
  <2> QED BY <1>1, <1>2, <1>5, <2>1, <2>2, <2>3, <2>4, AtWorkFacts, DirectoryStep DEF history
<1> QED BY <1>4, <1>5 DEF MakeStaging, Goto

\* An error: an install that is given up leaves what was installed, or what it
\* has left of it.
LEMMA AbandonKeeps ==
  ASSUME InstallInv, NEW r \in Slot, NEW x \in Directory, NEW answer \in {"failed", "lost"},
         ~x.there => x = Absent, Abandon(r, x, answer),
         \/ answer = "failed" /\ pc[r] \in {"copy", "manifest"}
         \/ answer = "lost" /\ pc[r] = "swap",
         UNCHANGED <<state, req, seen, requests, crashes, alone, before, mixed, wanted, misread>>
  PROVE  InstallInv'
<1> DEFINE i == req[r].id  d == plugins[Place(i)]
<1>1. PICK y \in RemoveAll(x) :
        /\ plugins' = [plugins EXCEPT ![Staging(i)] = y]
        /\ broken' = IF y = Absent THEN broken ELSE broken \cup {i}
        /\ pc' = [pc EXCEPT ![r] = answer]
  BY DEF Abandon, Goto
<1>2. pc[r] \in AtWork /\ answer \in Where \ {"idle", "truncate", "write"} /\ answer \notin AtWork
  BY DEF AtWork, Where, Answers
<1>3. y \in Directory /\ (~y.there => y = Absent)
  BY RemovalLeaves
<1>4. Directories(i, y, d)
  BY <1>1, <1>2, <1>3, AtWorkFacts, DirectoriesChange
<1>5. pc'[r] = answer
  BY <1>1, <1>2, AtWorkFacts
<1>6. StagingFits(r)'
  BY <1>5 DEF StagingFits
<1>7. InstalledFits(r)'
  <2>1. CASE answer = "failed"
    BY <1>4, <1>5, <2>1, NothingRemoved
  <2>2. CASE answer = "lost" /\ pc[r] = "swap"
    <3>1. (alone[r] => IsPartOf(d, before[r])) /\ ~Toggles(r)
      BY <1>2, <2>2, AtWorkFacts DEF InstallInv, InstalledFits
    <3>2. plugins'[Place(i)] = d
      BY <1>4 DEF Directories
    <3> HIDE DEF d
    <3> QED BY <1>5, <2>2, <3>1, <3>2 DEF InstalledFits, IsPartOf, AtState, Toggles
  <2> QED BY <2>1, <2>2
<1>8. broken' \in {broken, broken \cup {i}} /\ (i \in broken' \/ y = Absent) /\ pc[r] # "remove"
  BY <1>1
<1>9. i \in mixed \cup broken' \/ Agrees(d)
  BY <1>2, <1>8, AtWorkFacts
<1> QED BY <1>1, <1>2, <1>3, <1>4, <1>6, <1>7, <1>8, <1>9, AtWorkFacts, DirectoryStep

LEMMA CopyArtifactsKeeps ==
  ASSUME InstallInv, NEW r \in Slot, CopyArtifacts(r)
  PROVE  InstallInv'
<1> DEFINE i == req[r].id  p == req[r].package  d == plugins[Place(i)]
           s == [plugins[Staging(i)] EXCEPT !.files[p.entry] = p.code]
<1>1. /\ pc[r] = "copy"
      /\ UNCHANGED <<state, req, seen, requests, crashes, alone, before, mixed, wanted, misread>>
  BY DEF CopyArtifacts
<1>2. /\ pc[r] \in AtWork /\ "manifest" \in Where \ {"idle", "truncate", "write"}
  BY <1>1 DEF AtWork, Where
<1>3. Installs(r) /\ p \in Package
  BY <1>1, <1>2, AtWorkFacts
<1>4. /\ s \in Directory /\ s.there = plugins[Staging(i)].there /\ s.files[p.entry] = p.code
      /\ ~s.there => s.there
         \/ plugins[Staging(i)] = Absent
  BY <1>2, <1>3, PackageFiles, AtWorkFacts DEF Directory
<1>5. CASE /\ plugins[Staging(i)].there /\ pc' = [pc EXCEPT ![r] = "manifest"]
           /\ plugins' = [plugins EXCEPT ![Staging(i)] = s] /\ UNCHANGED broken
  <2> HIDE DEF s
  <2>1. Directories(i, s, d)
    BY <1>2, <1>4, <1>5, AtWorkFacts, DirectoriesChange
  <2>2. pc'[r] = "manifest" /\ Staged(r)'
    BY <1>2, <1>5, AtWorkFacts DEF Staged
  <2>3. StagingFits(r)'
    BY <1>1, <1>4, <1>5, <2>1, <2>2 DEF StagingFits, Directories
  <2>4. InstalledFits(r)'
    BY <1>1, <2>1, <2>2, NothingRemoved
  <2> QED BY <1>1, <1>2, <1>3, <1>4, <1>5, <2>1, <2>2, <2>3, <2>4, AtWorkFacts, DirectoryStep
<1>6. ASSUME NEW x \in {plugins[Staging(i)], s}, Abandon(r, x, "failed")
      PROVE  InstallInv'
  <2>1. PICK y \in RemoveAll(x) :
          /\ plugins' = [plugins EXCEPT ![Staging(i)] = y]
          /\ broken' = IF y = Absent THEN broken ELSE broken \cup {i}
    BY <1>6 DEF Abandon
  <2>2. CASE x.there
    BY <1>1, <1>2, <1>4, <1>6, <2>2, AtWorkFacts, AbandonKeeps
  <2>3. CASE ~x.there
    <3>1. plugins[Staging(i)] = Absent
      BY <1>2, <1>4, <1>6, <2>3, AtWorkFacts
    <3>2. RemoveAll(x) = {Absent} /\ RemoveAll(Absent) = {Absent}
      BY <2>3, Empties DEF RemoveAll
    <3>3. Abandon(r, Absent, "failed")
      BY <1>6, <3>2 DEF Abandon
    <3> QED BY <1>1, <3>3, Empties, AbandonKeeps
  <2> QED BY <2>2, <2>3
<1> QED BY <1>5, <1>6 DEF CopyArtifacts, Goto

LEMMA WriteManifestKeeps ==
  ASSUME InstallInv, NEW r \in Slot, WriteManifest(r)
  PROVE  InstallInv'
<1> DEFINE i == req[r].id  p == req[r].package  d == plugins[Place(i)]
           s == [plugins[Staging(i)] EXCEPT !.files["plugin.json"] = NoCode, !.manifest = ManifestOf(p)]
<1>1. /\ pc[r] = "manifest"
      /\ UNCHANGED <<state, req, seen, requests, crashes, alone, before, mixed, wanted, misread>>
  BY DEF WriteManifest
<1>2. pc[r] \in AtWork /\ "remove" \in Where \ {"idle", "truncate", "write"}
  BY <1>1 DEF AtWork, Where
<1>3. Installs(r) /\ p \in Package
  BY <1>1, <1>2, AtWorkFacts
<1>4. \/ /\ plugins[Staging(i)].there /\ pc' = [pc EXCEPT ![r] = "remove"]
         /\ plugins' = [plugins EXCEPT ![Staging(i)] = s] /\ UNCHANGED broken
      \/ Abandon(r, plugins[Staging(i)], "failed")
  BY DEF WriteManifest, Goto, ManifestHash, ManifestOf
<1>5. CASE Abandon(r, plugins[Staging(i)], "failed")
  BY <1>1, <1>2, <1>5, AtWorkFacts, AbandonKeeps
<1>6. CASE /\ plugins[Staging(i)].there /\ pc' = [pc EXCEPT ![r] = "remove"]
           /\ plugins' = [plugins EXCEPT ![Staging(i)] = s] /\ UNCHANGED broken
  <2>1. /\ s \in Directory /\ s.there /\ s.manifest = ManifestOf(p)
        /\ p.entry # "plugin.json" => s.files[p.entry] = plugins[Staging(i)].files[p.entry]
    <3> DEFINE m == ManifestOf(p)
    <3>1. m \in [hash : Code, entry : Names \cup {"none"}]
      BY <1>3, PackageFiles
    <3> HIDE DEF m
    <3> QED BY <1>2, <1>3, <1>6, <3>1, PackageFiles, AtWorkFacts DEF Directory, m
  <2> HIDE DEF s
  <2>2. Undisturbed(r) => IsComplete(s, p)
    BY <1>1, <2>1 DEF InstallInv, StagingFits, IsComplete
  <2>3. Directories(i, s, d)
    BY <1>2, <1>6, <2>1, AtWorkFacts, DirectoriesChange
  <2>4. pc'[r] = "remove" /\ Staged(r)'
    BY <1>1, <1>2, <1>3, <1>6, AtWorkFacts DEF Staged, Installs
  <2>5. StagingFits(r)'
    <3>1. Undisturbed(r)' => Undisturbed(r)
      BY <1>1, <1>6 DEF Undisturbed
    <3> QED BY <1>1, <2>2, <2>3, <2>4, <3>1 DEF StagingFits, Directories, IsComplete
  <2>6. InstalledFits(r)'
    BY <1>1, <2>3, <2>4, NothingRemoved
  <2> QED BY <1>1, <1>2, <1>3, <1>6, <2>1, <2>3, <2>4, <2>5, <2>6, AtWorkFacts, DirectoryStep
<1> QED BY <1>4, <1>5, <1>6

LEMMA RemoveInstalledKeeps ==
  ASSUME InstallInv, NEW r \in Slot, RemoveInstalled(r)
  PROVE  InstallInv'
<1> DEFINE i == req[r].id  s == plugins[Staging(i)]  d == plugins[Place(i)]
           after == IF Installs(r) THEN "swap" ELSE "read"
           error == IF Installs(r) THEN "swap" ELSE "lost"
<1>1. /\ pc[r] = "remove"
      /\ UNCHANGED <<state, req, seen, requests, crashes, alone, before, mixed, wanted, misread>>
  BY DEF RemoveInstalled
<1>2. pc[r] \in AtWork
  BY <1>1 DEF AtWork
<1>3. /\ s \in Directory /\ d \in Directory /\ (~s.there => s = Absent) /\ (~d.there => d = Absent)
      /\ ~Toggles(r)
  BY <1>2, AtWorkFacts
<1>4. alone[r] => IsPartOf(d, before[r])
  BY <1>1 DEF InstallInv, InstalledFits
\* The three ways to go on: with x in the place of the plugin, at where.
<1>5. \E x \in Directory, where \in Where \ {"idle", "truncate", "write"} :
        /\ Directories(i, s, x) /\ pc' = [pc EXCEPT ![r] = where]
        /\ ~x.there => x = Absent
        /\ alone[r] => IsPartOf(x, before[r])
        /\ broken' \in {broken, broken \cup {i}}
        /\ where \in {"remove", "swap", "read", "lost"}
        /\ Installs(r) => where \in {"remove", "swap"}
        /\ ~Installs(r) => where # "swap"
        /\ where = "read" => x = Absent
        /\ i \in broken' \/ where = "remove" \/ x = Absent
  <2>1. CASE /\ plugins' = [plugins EXCEPT ![Place(i)] = Absent] /\ pc' = [pc EXCEPT ![r] = after]
             /\ UNCHANGED broken
    <3>1. /\ after \in Where \ {"idle", "truncate", "write"} /\ after \in {"swap", "read"}
          /\ after = "swap" <=> Installs(r)
      BY DEF Where
    <3> HIDE DEF after
    <3>2. Directories(i, s, Absent)
      BY <1>2, <2>1, AtWorkFacts, Empties, DirectoriesChange
    <3>3. \A b : IsPartOf(Absent, b)
      BY DEF IsPartOf
    <3> QED BY <2>1, <3>1, <3>2, <3>3, Empties
  <2>2. CASE /\ d.there /\ UNCHANGED <<pc, broken>>
             /\ \E x \in Parts(d) : plugins' = [plugins EXCEPT ![Place(i)] = x]
    <3>1. PICK x \in Parts(d) : plugins' = [plugins EXCEPT ![Place(i)] = x]
      BY <2>2
    <3>2. x \in Directory /\ x.there /\ IsPartOf(x, d)
      BY <1>3, <2>2, RemovalLeaves
    <3>3. Directories(i, s, x)
      BY <1>2, <3>1, <3>2, AtWorkFacts, DirectoriesChange
    <3>4. alone[r] => IsPartOf(x, before[r])
      BY <1>4, <3>2, PartOfPart
    <3>5. pc' = [pc EXCEPT ![r] = "remove"] /\ "remove" \in Where \ {"idle", "truncate", "write"}
      BY <1>1, <1>2, <2>2, AtWorkFacts DEF Where
    <3> QED BY <2>2, <3>2, <3>3, <3>4, <3>5
  <2>3. CASE /\ d.there /\ broken' = broken \cup {i} /\ pc' = [pc EXCEPT ![r] = error]
             /\ UNCHANGED plugins
    <3>1. /\ error \in Where \ {"idle", "truncate", "write"} /\ error \in {"swap", "lost"}
          /\ error = "swap" <=> Installs(r)
      BY DEF Where, Answers
    <3> HIDE DEF error
    <3>2. Directories(i, s, d)
      BY <1>2, <2>3, AtWorkFacts DEF Directories
    <3> QED BY <1>3, <1>4, <2>3, <3>1, <3>2
  <2> QED BY <2>1, <2>2, <2>3 DEF RemoveInstalled, Goto
<1>6. PICK x \in Directory, where \in Where \ {"idle", "truncate", "write"} :
        /\ Directories(i, s, x) /\ pc' = [pc EXCEPT ![r] = where]
        /\ ~x.there => x = Absent
        /\ alone[r] => IsPartOf(x, before[r])
        /\ broken' \in {broken, broken \cup {i}}
        /\ where \in {"remove", "swap", "read", "lost"}
        /\ Installs(r) => where \in {"remove", "swap"}
        /\ ~Installs(r) => where # "swap"
        /\ where = "read" => x = Absent
        /\ i \in broken' \/ where = "remove" \/ x = Absent
  BY <1>5, Zenon
<1>7. pc'[r] = where
  BY <1>2, <1>6, AtWorkFacts
<1>8. StagingFits(r)'
  <2>1. Undisturbed(r) /\ Installs(r) => IsComplete(s, req[r].package)
    BY <1>1 DEF InstallInv, StagingFits
  <2>2. Undisturbed(r)' => Undisturbed(r)
    BY <1>1, <1>6 DEF Undisturbed
  <2>3. plugins'[Staging(i)] = s /\ (pc'[r] = "swap" => Installs(r)) /\ pc'[r] # "manifest"
    BY <1>6, <1>7 DEF Directories
  <2> HIDE DEF s
  <2> QED BY <1>1, <2>1, <2>2, <2>3 DEF StagingFits, Installs, IsComplete
<1>9. InstalledFits(r)'
  <2>1. plugins'[Place(i)] = x
    BY <1>6 DEF Directories
  <2> QED BY <1>1, <1>3, <1>6, <1>7, <2>1 DEF InstalledFits, Installs, Toggles, AtState, IsPartOf
<1>10. \/ Staged(r)'
       \/ ~Staged(r)
  BY <1>1, <1>6, <1>7 DEF Staged, Installs
<1>11. /\ where \in AtWork => Installs(r) \/ (where = "remove" /\ pc[r] = "remove")
       /\ i \in mixed \cup broken' \/ where = "remove" \/ Agrees(x)
  BY <1>1, <1>6, Empties DEF AtWork
<1> QED BY <1>1, <1>2, <1>3, <1>6, <1>8, <1>9, <1>10, <1>11, DirectoryStep

LEMMA SwapKeeps ==
  ASSUME InstallInv, NEW r \in Slot, Swap(r)
  PROVE  InstallInv'
<1> DEFINE i == req[r].id  s == plugins[Staging(i)]  p == req[r].package
<1>1. /\ pc[r] = "swap"
      /\ UNCHANGED <<state, req, seen, requests, crashes, alone, before, mixed, wanted, misread>>
      /\ \/ /\ s.there /\ pc' = [pc EXCEPT ![r] = "read"] /\ UNCHANGED broken
            /\ plugins' = [plugins EXCEPT ![Place(i)] = s, ![Staging(i)] = Absent]
         \/ Abandon(r, s, "lost")
  BY DEF Swap, Goto
<1>2. /\ pc[r] \in AtWork /\ "read" \in Where \ {"idle", "truncate", "write"} /\ "read" \notin AtWork
  BY <1>1 DEF AtWork, Where
<1>3. Installs(r) /\ p \in Package /\ req[r].kind # "uninstall" /\ ~Toggles(r)
  BY <1>1, <1>2, AtWorkFacts
<1>4. Undisturbed(r) => IsComplete(s, p)
  BY <1>1 DEF InstallInv, StagingFits
<1>5. s \in Directory /\ (~s.there => s = Absent)
  BY <1>2, AtWorkFacts
<1>6. CASE Abandon(r, s, "lost")
  BY <1>1, <1>5, <1>6, AbandonKeeps
<1>7. CASE /\ pc' = [pc EXCEPT ![r] = "read"] /\ UNCHANGED broken
           /\ plugins' = [plugins EXCEPT ![Place(i)] = s, ![Staging(i)] = Absent]
  <2>1. Directories(i, Absent, s)
    BY <1>2, <1>5, <1>7, AtWorkFacts, Empties, DirectoriesChange
  <2>2. pc'[r] = "read"
    BY <1>2, <1>7, AtWorkFacts
  <2>3. i \in mixed \cup broken \/ Agrees(s)
    <3>1. i \in mixed \cup broken \/ Undisturbed(r)
      BY <1>1 DEF Undisturbed
    <3>2. IsComplete(s, p) => Agrees(s)
      BY <1>3, PackageFiles DEF IsComplete, Agrees
    <3> QED BY <1>4, <3>1, <3>2
  <2>4. StagingFits(r)'
    BY <2>2 DEF StagingFits
  <2>5. InstalledFits(r)'
    <3>1. alone[r] => s.manifest = ManifestOf(p)
      BY <1>2, <1>4, AtWorkFacts DEF IsComplete
    <3> HIDE DEF s
    <3> QED BY <1>1, <1>3, <2>1, <2>2, <3>1 DEF InstalledFits, Directories, AtState, Toggles, ManifestOf
  <2> HIDE DEF s
  <2> QED BY <1>1, <1>2, <1>5, <1>7, <2>1, <2>3, <2>4, <2>5, Empties, DirectoryStep
<1> QED BY <1>1, <1>6, <1>7

-----------------------------------------------------------------------------
(* The steps on state.json. *)

\* A step on state.json, to where: what is left to show.
LEMMA StateStep ==
  ASSUME InstallInv, NEW r \in Slot, pc[r] \in {"read", "truncate", "write"},
         NEW where \in {"truncate", "write"} \cup Answers, where # "lost",
         pc' = [pc EXCEPT ![r] = where],
         UNCHANGED <<plugins, req, requests, crashes, alone, before, mixed, broken>>,
         where = "failed" => Toggles(r), where = "unsaved" => ~Toggles(r),
         state' \in [disabled : SUBSET Id, whole : BOOLEAN], seen' \in [Slot -> SUBSET Id],
         wanted' \subseteq Id, misread' \in BOOLEAN,
         where = "ok" /\ Installs(r) => req[r].id \notin Disabled',
         StateFits'
  PROVE  InstallInv'
<1>1. where \in Where \ {"idle"}
  BY DEF Where, Answers
<1>2. pc \in [Slot -> Where] /\ pc' \in [Slot -> Where] /\ pc'[r] = where
  BY <1>1 DEF InstallInv, TypeOK, Where
<1>3. OnlyOf(r, where)
  BY <1>1 DEF OnlyOf, Active, Answers
<1>4. ~Staged(r) /\ pc[r] # "remove"
  BY DEF Staged
<1>5. /\ NoneLeftBehind' /\ HashFits' /\ OneAtATime'
  BY <1>1, <1>3, <1>4, DirectoriesKept, OthersKeep
<1>6. TypeOK' /\ HistoryType'
  BY <1>2 DEF InstallInv, TypeOK, HistoryType, Where
<1>7. RequestFits(r)'
  BY <1>2 DEF InstallInv, RequestsFit, RequestFits, Answers
<1>8. StagingFits(r)'
  BY <1>2 DEF StagingFits, Answers
<1>9. InstalledFits(r)'
  <2>1. InstalledFits(r)
    BY DEF InstallInv
  <2> QED BY <1>2, <2>1 DEF InstalledFits, Installs, Toggles, AtState, Answers
<1> QED BY <1>3, <1>5, <1>6, <1>7, <1>8, <1>9, OthersKeep DEF InstallInv

LEMMA ReadStateKeeps ==
  ASSUME InstallInv, NEW r \in Slot, ReadState(r)
  PROVE  InstallInv'
<1>1. PICK s \in {Disabled, {}} :
        /\ seen' = [seen EXCEPT ![r] = s]
        /\ misread' = (misread \/ s # Disabled \/ \E o \in Slot \ {r} : pc[o] \in {"truncate", "write"})
        /\ \/ /\ Toggles(r) \/ req[r].id \in s
              /\ Goto(r, "truncate") /\ UNCHANGED wanted
           \/ /\ ~Toggles(r) /\ req[r].id \notin Disabled
              /\ Finish(r)
           \/ /\ ~Toggles(r) /\ req[r].id \in Disabled \ s
              /\ Unsaved(r) /\ UNCHANGED wanted
  BY Zenon DEF ReadState
<1>2. /\ pc[r] = "read"
      /\ UNCHANGED <<plugins, state, req, requests, crashes, alone, before, mixed, broken>>
  BY DEF ReadState
<1>3. PICK where \in {"truncate", "ok", "unsaved"} :
        /\ pc' = [pc EXCEPT ![r] = where]
        /\ where = "truncate" => wanted' = wanted
        /\ where = "ok" => /\ ~Toggles(r) /\ req[r].id \notin Disabled
                           /\ wanted' = wanted \ {req[r].id}
        /\ where = "unsaved" => ~Toggles(r) /\ s # Disabled /\ wanted' = wanted
  BY <1>1 DEF Finish, Unsaved, Goto, Toggles
<1>4. state \in [disabled : SUBSET Id, whole : BOOLEAN] /\ Disabled \subseteq Id /\ Disabled' = Disabled
  BY <1>2 DEF InstallInv, TypeOK, Disabled
<1>5. /\ seen' \in [Slot -> SUBSET Id] /\ wanted' \subseteq Id /\ misread' \in BOOLEAN
      /\ state' = state
  BY <1>1, <1>2, <1>3, <1>4 DEF InstallInv, TypeOK, HistoryType
<1>6. StateFits'
  <2> SUFFICES ASSUME ~misread'
               PROVE  /\ \A o, u \in Slot : pc'[o] \in {"truncate", "write"}
                             /\ pc'[u] \in {"truncate", "write"} => o = u
                      /\ \A o \in Slot : pc'[o] \in {"truncate", "write"} => seen'[o] = wanted'
                      /\ \A o \in Slot : pc'[o] # "write"
                      /\ Disabled' = wanted'
    BY DEF StateFits
  <2>1. ~misread /\ s = Disabled /\ \A o \in Slot \ {r} : pc[o] \notin {"truncate", "write"}
    BY <1>1 DEF InstallInv, HistoryType
  <2>2. \A o \in Slot \ {r} : pc'[o] \notin {"truncate", "write"}
    BY <1>3, <2>1 DEF InstallInv, TypeOK
  <2>3. pc'[r] # "write" /\ seen'[r] = Disabled
    BY <1>1, <1>3, <2>1 DEF InstallInv, TypeOK
  <2>4. Disabled = wanted
    BY <1>2, <2>1 DEF InstallInv, StateFits
  <2>5. wanted' = Disabled
    BY <1>3, <2>1, <2>4
  <2> QED BY <1>4, <2>2, <2>3, <2>5
<1>7. where \in {"truncate", "write"} \cup Answers /\ where \notin {"lost", "failed"}
  BY DEF Answers
<1> QED BY <1>2, <1>3, <1>4, <1>5, <1>6, <1>7, StateStep

LEMMA TruncateStateKeeps ==
  ASSUME InstallInv, NEW r \in Slot, TruncateState(r)
  PROVE  InstallInv'
<1>1. /\ pc[r] = "truncate" /\ UNCHANGED <<plugins, req, seen, requests, crashes, history>>
  BY DEF TruncateState
<1>2. PICK where \in {"write", "failed", "unsaved"} :
        /\ pc' = [pc EXCEPT ![r] = where]
        /\ where = "write" => state' = [state EXCEPT !.whole = FALSE]
        /\ where # "write" => state' = state
        /\ where = "failed" => Toggles(r)
        /\ where = "unsaved" => ~Toggles(r)
  BY DEF TruncateState, Unsaved, Goto
<1>3. state' \in [disabled : SUBSET Id, whole : BOOLEAN] /\ (where = "write" => ~state'.whole)
  BY <1>2 DEF InstallInv, TypeOK
<1>4. StateFits'
  <2> SUFFICES ASSUME ~misread
               PROVE  /\ \A o, u \in Slot : pc'[o] \in {"truncate", "write"}
                             /\ pc'[u] \in {"truncate", "write"} => o = u
                      /\ \A o \in Slot : pc'[o] \in {"truncate", "write"} => seen[o] = wanted
                      /\ \A o \in Slot : pc'[o] = "write" => ~state'.whole
                      /\ (\A o \in Slot : pc'[o] # "write") => Disabled' = wanted
    BY <1>1 DEF StateFits, history
  <2>1. \A o \in Slot \ {r} : pc[o] \notin {"truncate", "write"} /\ pc'[o] = pc[o]
    BY <1>1, <1>2 DEF InstallInv, StateFits, TypeOK
  <2>2. seen[r] = wanted /\ Disabled = wanted /\ pc'[r] = where
    BY <1>1, <1>2, <2>1 DEF InstallInv, StateFits, TypeOK
  <2>3. where # "write" => Disabled' = Disabled
    BY <1>2 DEF Disabled
  <2> QED BY <1>3, <2>1, <2>2, <2>3
<1>5. where \in {"truncate", "write"} \cup Answers /\ where \notin {"lost", "ok"}
  BY DEF Answers
<1> QED BY <1>1, <1>2, <1>3, <1>4, <1>5, StateStep DEF history, InstallInv, TypeOK, HistoryType

LEMMA WriteStateKeeps ==
  ASSUME InstallInv, NEW r \in Slot, WriteState(r)
  PROVE  InstallInv'
<1> DEFINE i == req[r].id
<1>1. /\ pc[r] = "write"
      /\ UNCHANGED <<plugins, req, seen, requests, crashes, alone, before, mixed, broken, misread>>
  BY DEF WriteState
<1>2. PICK where \in {"ok", "failed", "unsaved"} :
        /\ pc' = [pc EXCEPT ![r] = where]
        /\ where = "ok" =>
             /\ state' = [disabled |-> NewState(r), whole |-> TRUE]
             /\ wanted' = IF req[r].kind = "disable" THEN wanted \cup {i} ELSE wanted \ {i}
        /\ where # "ok" => state' = state /\ wanted' = {}
        /\ where = "failed" => Toggles(r)
        /\ where = "unsaved" => ~Toggles(r)
  BY DEF WriteState, Finish, Unsaved, Goto
<1>3. i \in Id
  BY <1>1, SlotFacts
<1>4. /\ NewState(r) \in SUBSET Id /\ wanted' \in SUBSET Id
      /\ Installs(r) => i \notin NewState(r)
  BY <1>2, <1>3 DEF InstallInv, TypeOK, HistoryType, NewState, Installs
<1>5. /\ state' \in [disabled : SUBSET Id, whole : BOOLEAN]
      /\ where = "ok" => Disabled' = NewState(r)
  <2>1. CASE where = "ok"
    <3> DEFINE n == NewState(r)
    <3>1. n \in SUBSET Id /\ state' = [disabled |-> n, whole |-> TRUE]
      BY <1>2, <1>4, <2>1
    <3> HIDE DEF n
    <3>2. state'.whole /\ state'.disabled = n
      BY <3>1
    <3> QED BY <3>1, <3>2 DEF Disabled, n
  <2>2. CASE where # "ok"
    BY <1>2, <2>2 DEF InstallInv, TypeOK
  <2> QED BY <2>1, <2>2
<1>6. StateFits'
  <2> SUFFICES ASSUME ~misread
               PROVE  /\ \A o \in Slot : pc'[o] \notin {"truncate", "write"}
                      /\ Disabled' = wanted'
    BY <1>1 DEF StateFits
  <2>1. \A o \in Slot \ {r} : pc[o] \notin {"truncate", "write"}
    BY <1>1 DEF InstallInv, StateFits
  <2>2. \A o \in Slot : pc'[o] \notin {"truncate", "write"}
    BY <1>2, <2>1 DEF InstallInv, TypeOK
  <2>3. seen[r] = wanted /\ ~state.whole
    BY <1>1 DEF InstallInv, StateFits
  <2>4. CASE where = "ok"
    BY <1>2, <1>5, <2>2, <2>3, <2>4 DEF NewState
  <2>5. CASE where # "ok"
    BY <1>2, <2>2, <2>3, <2>5 DEF Disabled
  <2> QED BY <2>4, <2>5
<1>7. where \in {"truncate", "write"} \cup Answers /\ where # "lost"
  BY DEF Answers
<1>8. seen' \in [Slot -> SUBSET Id] /\ misread' \in BOOLEAN
  BY <1>1 DEF InstallInv, TypeOK, HistoryType
<1> QED BY <1>1, <1>2, <1>4, <1>5, <1>6, <1>7, <1>8, StateStep

-----------------------------------------------------------------------------
(* A request arrives; the server ends. *)

LEMMA BeginKeeps ==
  ASSUME InstallInv, NEW r \in Slot, NEW q \in Request, Begin(r, q)
  PROVE  InstallInv'
<1>1. /\ ~Active(r) /\ requests < MaxRequests /\ requests' = requests + 1
      /\ req' = [req EXCEPT ![r] = q] /\ pc' = [pc EXCEPT ![r] = "check"]
      /\ seen' = [seen EXCEPT ![r] = {}]
      /\ alone' = [s \in Slot |-> s = r /\ \A o \in Slot : ~Active(o)]
      /\ before' = [s \in Slot |-> IF alone'[s] THEN plugins[Place(q.id)] ELSE Absent]
      /\ UNCHANGED <<plugins, state, crashes, broken, wanted, misread>>
  BY DEF Begin, Goto
<1>2. mixed' = IF \E o \in Slot \ {r} : Active(o) /\ req[o].id = q.id
               THEN mixed \cup {q.id} ELSE mixed
  BY DEF Begin
<1>3. q.id \in Id /\ q.kind \in Kinds
  BY RequestParts
<1>4. mixed \subseteq mixed' /\ mixed' \subseteq Id
  BY <1>2, <1>3 DEF InstallInv, HistoryType
<1>5. /\ pc \in [Slot -> Where] /\ pc' \in [Slot -> Where] /\ pc'[r] = "check" /\ req'[r] = q
      /\ \A o \in Slot : o # r => pc'[o] = pc[o] /\ req'[o] = req[o] /\ ~alone'[o]
  BY <1>1 DEF InstallInv, TypeOK, Where, RequestsFit
<1>6. TypeOK'
  <2>1. requests' \in 0 .. MaxRequests
    BY <1>1, InstallAssumption DEF InstallInv, TypeOK
  <2>2. seen' \in [Slot -> SUBSET Id]
    BY <1>1 DEF InstallInv, TypeOK
  <2> QED BY <1>1, <1>5, <2>1, <2>2 DEF InstallInv, TypeOK, Where
<1>7. HistoryType'
  <2>1. plugins[Place(q.id)] \in Directory /\ Absent \in Directory
    BY <1>3, PlacesDiffer, Empties DEF InstallInv, TypeOK
  <2>2. alone' \in [Slot -> BOOLEAN]
    BY <1>1
  <2>3. before' \in [Slot -> Directory]
    BY <1>1, <2>1
  <2> QED BY <1>1, <1>4, <2>2, <2>3 DEF InstallInv, HistoryType
<1>8. RequestsFit'
  <2>1. req' \in [Slot -> Request \cup {NoRequest}]
    BY <1>1 DEF InstallInv, RequestsFit
  <2>2. ASSUME NEW o \in Slot
        PROVE  RequestFits(o)'
    <3>1. CASE o = r
      BY <1>5, <3>1 DEF RequestFits
    <3>2. CASE o # r
      BY <1>5, <3>2 DEF InstallInv, RequestsFit, RequestFits, Installs
    <3> QED BY <3>1, <3>2
  <2> QED BY <2>1, <2>2 DEF RequestsFit
<1>9. OneAtATime'
  <2>1. \A o \in Slot : o # r => (Active(o)' <=> Active(o))
    BY <1>5 DEF Active
  <2>2. ASSUME NEW s \in Slot, NEW o \in Slot, Active(s)', Active(o)', req'[s].id = req'[o].id, s # o
        PROVE  req'[s].id \in mixed'
    <3>1. CASE s # r /\ o # r
      BY <1>4, <1>5, <2>1, <2>2, <3>1 DEF InstallInv, OneAtATime
    <3>2. CASE s = r
      BY <1>2, <1>5, <2>1, <2>2, <3>2
    <3>3. CASE o = r
      BY <1>2, <1>5, <2>1, <2>2, <3>3
    <3> QED BY <3>1, <3>2, <3>3
  <2>3. ASSUME NEW s \in Slot, NEW o \in Slot, alone'[s], o # s
        PROVE  ~Active(o)'
    <3>1. s = r /\ \A u \in Slot : ~Active(u)
      BY <1>1, <2>3
    <3> QED BY <2>1, <2>3, <3>1
  <2>4. ASSUME NEW s \in Slot, alone'[s]
        PROVE  pc'[s] # "idle"
    BY <1>5, <2>4
  <2> QED BY <2>2, <2>3, <2>4 DEF OneAtATime
<1>10. NoneLeftBehind'
  <2>1. ASSUME NEW i \in Id \ broken, plugins[Staging(i)] # Absent
        PROVE  \E o \in Slot : Staged(o)' /\ req'[o].id = i
    <3>1. PICK o \in Slot : Staged(o) /\ req[o].id = i
      BY <2>1 DEF InstallInv, NoneLeftBehind
    <3>2. o # r
      BY <1>1, <3>1 DEF Staged, Active, Answers
    <3> QED BY <1>5, <3>1, <3>2 DEF Staged, Installs
  <2> QED BY <1>1, <2>1 DEF NoneLeftBehind
<1>11. HashFits'
  <2>1. \A o \in Slot : pc[o] = "remove" => pc'[o] = "remove" /\ req'[o].id = req[o].id
    BY <1>1, <1>5 DEF Active, Answers
  <2> QED BY <1>1, <1>4, <2>1 DEF InstallInv, HashFits, Agrees
<1>12. ASSUME NEW o \in Slot
       PROVE  StagingFits(o)' /\ InstalledFits(o)'
  <2>1. CASE o = r
    <3>1. StagingFits(o)'
      BY <1>5, <2>1 DEF StagingFits
    <3>2. alone'[o] => before'[o] = plugins[Place(q.id)]
      BY <1>1
    <3>3. InstalledFits(o)'
      BY <1>1, <1>5, <2>1, <3>2 DEF InstalledFits, AtState
    <3> QED BY <3>1, <3>3
  <2>2. CASE o # r
    <3>1. InstalledFits(o)'
      BY <1>5, <2>2 DEF InstalledFits
    <3>2. Undisturbed(o)' => Undisturbed(o)
      BY <1>1, <1>4, <1>5, <2>2 DEF Undisturbed
    <3>3. StagingFits(o)
      BY DEF InstallInv
    <3>4. StagingFits(o)'
      BY <1>1, <1>5, <2>2, <3>2, <3>3 DEF StagingFits, Installs, IsComplete
    <3> QED BY <3>1, <3>4
  <2> QED BY <2>1, <2>2
<1>13. StateFits'
  <2>1. \A o \in Slot : /\ pc'[o] \in {"truncate", "write"} => pc[o] \in {"truncate", "write"} /\ o # r
                        /\ pc'[o] = "write" <=> pc[o] = "write"
    BY <1>1, <1>5 DEF Active, Answers
  <2>2. \A o \in Slot : o # r => seen'[o] = seen[o]
    BY <1>1 DEF InstallInv, TypeOK
  <2>3. Disabled' = Disabled
    BY <1>1 DEF Disabled
  <2> QED BY <1>1, <2>1, <2>2, <2>3 DEF InstallInv, StateFits
<1> QED BY <1>6, <1>7, <1>8, <1>9, <1>10, <1>11, <1>12, <1>13 DEF InstallInv

LEMMA CrashKeeps ==
  ASSUME InstallInv, Crash
  PROVE  InstallInv'
<1>1. /\ crashes < MaxCrashes /\ crashes' = crashes + 1
      /\ broken' = broken \cup {req[r].id : r \in {s \in Slot : Active(s) /\ ~Toggles(s)}}
      /\ wanted' = IF \E r \in Slot : pc[r] = "write" THEN {} ELSE wanted
      /\ req' = [r \in Slot |-> NoRequest] /\ pc' = [r \in Slot |-> "idle"]
      /\ seen' = [r \in Slot |-> {}]
      /\ alone' = [r \in Slot |-> FALSE] /\ before' = [r \in Slot |-> Absent]
      /\ UNCHANGED <<plugins, state, requests, mixed, misread>>
  BY DEF Crash
<1>2. /\ \A r \in Slot : pc'[r] = "idle" /\ ~alone'[r]
      /\ broken \subseteq broken' /\ Disabled' = Disabled
  BY <1>1 DEF Disabled
<1>3. TypeOK'
  <2>1. crashes' \in 0 .. MaxCrashes
    BY <1>1, InstallAssumption DEF InstallInv, TypeOK
  <2>2. seen' \in [Slot -> SUBSET Id] /\ pc' \in [Slot -> Where]
    BY <1>1 DEF Where
  <2> QED BY <1>1, <2>1, <2>2 DEF InstallInv, TypeOK, Where
<1>4. HistoryType'
  <2>1. \A r \in Slot : Active(r) => req[r].id \in Id
    BY SlotFacts DEF Active
  <2>2. broken' \subseteq Id /\ wanted' \subseteq Id
    BY <1>1, <2>1 DEF InstallInv, HistoryType
  <2>3. alone' \in [Slot -> BOOLEAN] /\ before' \in [Slot -> Directory]
    BY <1>1, Empties
  <2> QED BY <1>1, <2>2, <2>3 DEF InstallInv, HistoryType
<1>5. RequestsFit'
  <2>1. req' \in [Slot -> Request \cup {NoRequest}]
    BY <1>1
  <2> QED BY <1>2, <2>1 DEF RequestsFit, RequestFits
<1>6. OneAtATime'
  BY <1>2 DEF OneAtATime, Active
<1>7. NoneLeftBehind'
  <2>1. ASSUME NEW i \in Id \ broken', plugins[Staging(i)] # Absent
        PROVE  FALSE
    <3>1. PICK o \in Slot : Staged(o) /\ req[o].id = i
      BY <1>2, <2>1 DEF InstallInv, NoneLeftBehind
    <3>2. Active(o) /\ Installs(o) /\ ~Toggles(o)
      BY <3>1 DEF Staged, Active, Answers, InstallInv, RequestsFit, RequestFits, Installs, Toggles
    <3> QED BY <1>1, <2>1, <3>1, <3>2
  <2> QED BY <1>1, <2>1 DEF NoneLeftBehind
<1>8. HashFits'
  <2>1. ASSUME NEW i \in Id \ (mixed \cup broken')
        PROVE  Agrees(plugins[Place(i)])
    <3>1. \A o \in Slot : pc[o] = "remove" => Active(o) /\ ~Toggles(o)
      BY DEF Active, Answers, Installs, Toggles, InstallInv, RequestsFit, RequestFits
    <3>2. ~ \E o \in Slot : pc[o] = "remove" /\ req[o].id = i
      BY <1>1, <2>1, <3>1
    <3> QED BY <1>2, <2>1, <3>2 DEF InstallInv, HashFits
  <2> QED BY <1>1, <2>1 DEF HashFits, Agrees
<1>9. ASSUME NEW r \in Slot
      PROVE  StagingFits(r)' /\ InstalledFits(r)'
  BY <1>2 DEF StagingFits, InstalledFits
<1>10. StateFits'
  <2>1. ~misread => Disabled = wanted'
    BY <1>1 DEF InstallInv, StateFits, Disabled
  <2> QED BY <1>1, <1>2, <2>1 DEF StateFits
<1> QED BY <1>3, <1>4, <1>5, <1>6, <1>7, <1>8, <1>9, <1>10 DEF InstallInv

-----------------------------------------------------------------------------
(* The invariant, and what follows from it. *)

LEMMA InitInv == Init => InstallInv
<1> SUFFICES ASSUME Init
             PROVE  InstallInv
  OBVIOUS
<1>1. \A r \in Slot : pc[r] = "idle" /\ ~alone[r] /\ req[r] = NoRequest
  BY DEF Init
<1>2. \A i \in Id : plugins[Place(i)] = Absent /\ plugins[Staging(i)] = Absent
  BY PlacesDiffer DEF Init
<1>3. TypeOK
  <2>1. plugins \in [Places -> Directory] /\ \A p \in Places : plugins[p] = Absent
    BY Empties DEF Init
  <2>2. state \in [disabled : SUBSET Id, whole : BOOLEAN]
    BY DEF Init
  <2>3. \A i \in FirstParty : plugins[Place(i)] = Absent /\ plugins[Staging(i)] = Absent
    BY <1>2, InstallAssumption
  <2> QED BY <2>1, <2>2, <2>3, InstallAssumption DEF Init, TypeOK
<1>4. HistoryType
  BY Empties DEF Init, HistoryType
<1>5. RequestsFit
  BY <1>1 DEF Init, RequestsFit, RequestFits
<1>6. OneAtATime
  BY <1>1 DEF OneAtATime, Active
<1>7. NoneLeftBehind /\ HashFits
  BY <1>2, Empties DEF NoneLeftBehind, HashFits
<1>8. \A r \in Slot : StagingFits(r) /\ InstalledFits(r)
  BY <1>1 DEF StagingFits, InstalledFits
<1>9. StateFits
  BY <1>1 DEF Init, StateFits, Disabled
<1> QED BY <1>3, <1>4, <1>5, <1>6, <1>7, <1>8, <1>9 DEF InstallInv

LEMMA StutterKeeps ==
  ASSUME InstallInv, UNCHANGED vars
  PROVE  InstallInv'
<1> USE DEF vars, requestVars, history
<1>1. TypeOK' /\ HistoryType'
  BY DEF InstallInv, TypeOK, HistoryType
<1>2. RequestsFit'
  BY DEF InstallInv, RequestsFit, RequestFits, Installs
<1>3. OneAtATime'
  BY DEF InstallInv, OneAtATime, Active
<1>4. NoneLeftBehind' /\ HashFits'
  BY DEF InstallInv, NoneLeftBehind, HashFits, Agrees, Staged, Installs
<1>5. \A r \in Slot : StagingFits(r)'
  BY DEF InstallInv, StagingFits, Undisturbed, Installs, IsComplete
<1>6. \A r \in Slot : InstalledFits(r)'
  BY DEF InstallInv, InstalledFits, Disabled, Installs, Toggles, IsPartOf
<1>7. StateFits'
  BY DEF InstallInv, StateFits, Disabled
<1> QED BY <1>1, <1>2, <1>3, <1>4, <1>5, <1>6, <1>7 DEF InstallInv

LEMMA NextInv ==
  ASSUME InstallInv, [Next]_vars
  PROVE  InstallInv'
<1>1. CASE Crash
  BY <1>1, CrashKeeps
<1>2. ASSUME NEW r \in Slot, Step(r)
      PROVE  InstallInv'
  BY <1>2, CheckKeeps, ClearStagingKeeps, MakeStagingKeeps, CopyArtifactsKeeps,
     WriteManifestKeeps, RemoveInstalledKeeps, SwapKeeps, ReadStateKeeps, TruncateStateKeeps,
     WriteStateKeeps DEF Step
<1>3. ASSUME NEW r \in Slot, NEW q \in Request, Begin(r, q)
      PROVE  InstallInv'
  BY <1>3, BeginKeeps
<1>4. CASE UNCHANGED vars
  BY <1>4, StutterKeeps
<1> QED BY <1>1, <1>2, <1>3, <1>4 DEF Next

LEMMA Invariant == Spec => []InstallInv
<1>1. InstallInv /\ [Next]_vars => InstallInv'
  BY NextInv
<1> QED BY InitInv, <1>1, PTL DEF Spec

\* The variables stay in their types, nothing of a bundled plugin is ever in the
\* directory of third-party plugins, and no place has contents without being
\* there, whatever requests interleave and wherever a crash falls.
THEOREM TypeCorrect == Spec => []TypeOK
<1>1. InstallInv => TypeOK
  BY DEF InstallInv
<1> QED BY Invariant, <1>1, PTL

\* At rest the hash listed for a plugin is that of the entry it is served with, if
\* the entry has a name that is served, unless two requests worked on the plugin
\* at the same time, a crash interrupted one or a removal failed half-way.
THEOREM ServedHashHolds == Spec => []ServedHashIsOnDisk
<1>1. ASSUME InstallInv, Quiet, NEW e \in Served, e.id \notin mixed \cup broken,
             e.entry \in AllowedArtifacts \ {"plugin.json"}
      PROVE  e.hash = Artifact(e.id, e.entry)
  <2>1. PICK p \in Places : /\ plugins[p].manifest # NoManifest /\ e.id = p[1]
                            /\ e.entry = plugins[p].manifest.entry
                            /\ e.hash = plugins[p].manifest.hash
    BY DEF Served
  <2>2. PICK i \in Id : p = Place(i) \/ p = Staging(i)
    BY PlacesDiffer
  <2>3. e.id = i
    BY <2>1, <2>2, PlacesDiffer
  <2>4. \A r \in Slot : pc[r] # "remove" /\ ~Staged(r)
    BY <1>1 DEF Quiet, Staged, Active, Answers
  <2>5. CASE p = Place(i)
    BY <1>1, <2>1, <2>3, <2>4, <2>5 DEF InstallInv, HashFits, Agrees, Artifact
  <2>6. CASE p = Staging(i)
    BY <1>1, <2>1, <2>3, <2>4, <2>6, Empties DEF InstallInv, NoneLeftBehind
  <2> QED BY <2>2, <2>5, <2>6
<1>2. InstallInv => ServedHashIsOnDisk
  BY <1>1 DEF ServedHashIsOnDisk
<1> QED BY Invariant, <1>2, PTL

\* A request that nothing disturbs, whatever earlier requests, failures and
\* crashes have left behind, and wherever a step of its own fails: an error before
\* it removes anything leaves what was installed, a later one that or a part of
\* it, and an answer of ok leaves its whole effect.
THEOREM InstallsAreAtomic == Spec => []InstallIsAtomic
<1>1. ASSUME InstallInv, NEW r \in Slot, alone[r]
      PROVE  LET q == req[r]
                 listed == {e \in Served : e.id = q.id}
                 done == pc[r] \in {"ok", "unsaved"}
             IN
             /\ pc[r] = "failed" => plugins[Place(q.id)] = before[r]
             /\ pc[r] = "lost" => IsPartOf(plugins[Place(q.id)], before[r])
             /\ done /\ Installs(r) => \E on \in BOOLEAN :
                  /\ listed = {[id |-> q.id, entry |-> q.package.entry, hash |-> q.package.code,
                                enabled |-> on]}
                  /\ pc[r] = "ok" => on
             /\ done /\ q.kind = "uninstall" /\ q.id \notin broken => listed = {}
  <2> DEFINE i == req[r].id  p == req[r].package  on == i \notin Disabled
             done == pc[r] \in {"ok", "unsaved"}
             served(m) == [id |-> i, entry |-> m.entry, hash |-> m.hash, enabled |-> on]
             listed == {e \in Served : e.id = i}
  <2>1. pc[r] # "idle" /\ InstalledFits(r)
    BY <1>1 DEF InstallInv, OneAtATime
  <2>2. i \in Id /\ Place(i) \in Places
    BY <1>1, <2>1, SlotFacts
  <2>3. \A e \in Served : e.id = i =>
          \E x \in {Place(i), Staging(i)} :
            plugins[x].manifest # NoManifest /\ e = served(plugins[x].manifest)
    <3> TAKE e \in Served
    <3>1. PICK x \in Places :
            /\ plugins[x].manifest # NoManifest
            /\ e = [id |-> x[1], entry |-> plugins[x].manifest.entry,
                    hash |-> plugins[x].manifest.hash, enabled |-> x[1] \notin Disabled]
      BY DEF Served
    <3>2. PICK j \in Id : x = Place(j) \/ x = Staging(j)
      BY PlacesDiffer
    <3>3. x[1] = j
      BY <3>2, PlacesDiffer
    <3> QED BY <3>1, <3>2, <3>3
  <2>4. /\ pc[r] = "failed" => plugins[Place(i)] = before[r]
        /\ pc[r] = "lost" => IsPartOf(plugins[Place(i)], before[r])
    BY <1>1, <2>1 DEF InstalledFits
  <2>5. ASSUME done, Installs(r)
        PROVE  /\ listed = {[id |-> i, entry |-> p.entry, hash |-> p.code, enabled |-> on]}
               /\ pc[r] = "ok" => on
    <3>1. /\ plugins[Place(i)].manifest = ManifestOf(p) /\ plugins[Staging(i)] = Absent
          /\ pc[r] = "ok" => on
      BY <1>1, <2>1, <2>5 DEF InstalledFits, AtState
    <3>2. p \in Package
      BY <1>1, <2>1, <2>5, SlotFacts
    <3>3. /\ plugins[Place(i)].manifest.entry = p.entry /\ plugins[Place(i)].manifest.hash = p.code
          /\ plugins[Place(i)].manifest # NoManifest /\ plugins[Staging(i)].manifest = NoManifest
      BY <3>1, <3>2, PackageFiles, Empties
    <3> DEFINE it == [id |-> i, entry |-> p.entry, hash |-> p.code, enabled |-> on]
    <3>4. it = served(plugins[Place(i)].manifest) /\ it.id = i
      BY <3>3
    <3>5. it \in Served
      <4>1. Place(i) \in {x \in Places : plugins[x].manifest # NoManifest} /\ Place(i)[1] = i
        BY <2>2, <3>3, PlacesDiffer
      <4>2. it = [id |-> Place(i)[1], entry |-> plugins[Place(i)].manifest.entry,
                  hash |-> plugins[Place(i)].manifest.hash, enabled |-> Place(i)[1] \notin Disabled]
        BY <3>3, <4>1
      <4> HIDE DEF it
      <4> QED BY <4>1, <4>2, Zenon DEF Served
    <3>6. \A e \in Served : e.id = i => e = it
      BY <2>3, <3>3, <3>4
    <3> HIDE DEF it
    <3>7. listed = {it}
      BY <3>4, <3>5, <3>6
    <3> QED BY <3>1, <3>7 DEF it
  <2>6. ASSUME done, req[r].kind = "uninstall", i \notin broken
        PROVE  listed = {}
    <3>1. plugins[Place(i)] = Absent
      BY <1>1, <2>1, <2>6 DEF InstalledFits, AtState
    <3>2. \A o \in Slot : ~Active(o)
      BY <1>1, <2>6 DEF InstallInv, OneAtATime, Active, Answers
    <3>3. \A o \in Slot : ~Staged(o)
      BY <3>2 DEF Staged, Active, Answers
    <3>4. plugins[Staging(i)] = Absent
      BY <1>1, <2>2, <2>6, <3>3 DEF InstallInv, NoneLeftBehind
    <3> QED BY <2>3, <3>1, <3>4, Empties
  <2>7. on \in BOOLEAN
    OBVIOUS
  <2> HIDE DEF on, listed, done
  <2>8. done /\ Installs(r) => \E b \in BOOLEAN :
          /\ listed = {[id |-> i, entry |-> p.entry, hash |-> p.code, enabled |-> b]}
          /\ pc[r] = "ok" => b
    BY <2>5, <2>7, Zenon
  <2> QED BY <2>4, <2>6, <2>8, Zenon DEF listed, done
<1>2. InstallInv => InstallIsAtomic
  BY <1>1 DEF InstallIsAtomic
<1> QED BY Invariant, <1>2, PTL

\* At rest exactly the plugins are disabled that the requests left so that got to
\* write state.json, none after a write that ended half-way, unless the file
\* could not be read or was read while another request wrote it.
THEOREM StateHolds == Spec => []StateIsWhatWasAnswered
<1>1. InstallInv => StateIsWhatWasAnswered
  BY DEF InstallInv, StateFits, StateIsWhatWasAnswered, Quiet, Active, Answers
<1> QED BY Invariant, <1>1, PTL
=============================================================================
