---------------------------- MODULE PluginInstall ----------------------------
(***************************************************************************)
(* Installing, removing, enabling and serving third-party plugins          *)
(* (plugins_install.go, plugins_serve.go).  A package is unpacked into a   *)
(* directory of its own, its artifacts are copied to <id>.installing       *)
(* beside the installed plugins, and that directory takes the place of     *)
(* <id>.  What is disabled is kept in state.json, which every change reads *)
(* and writes as a whole.                                                  *)
(*                                                                         *)
(* Every handler runs in a goroutine of its own; a step is one call to the *)
(* file system, or one entry of a RemoveAll, and may fail.  A crash ends   *)
(* all of them.                                                            *)
(***************************************************************************)
EXTENDS Naturals, FiniteSets

CONSTANTS
  Id,           \* plugin ids
  FirstParty,   \* those of bundled plugins (pluginsDistDir)
  Package,      \* packages: [id, entry, code, claim, valid]
  NoCode,       \* what a file is that is not there, or no client entry
  Slot,         \* requests in memory
  MaxRequests,  \* BOUND: requests
  MaxCrashes    \* BOUND: crashes of the server

\* entry is the name of the client entry and code its contents, identified by the
\* hash; claim is the hash the package's own manifest states; valid says whether
\* the package is complete and, when a registry announced its hash, has that hash.
ASSUME InstallAssumption ==
  /\ FirstParty \subseteq Id /\ MaxRequests \in Nat /\ MaxCrashes \in Nat
  /\ \A p \in Package : p.id \in Id /\ p.valid \in BOOLEAN
  /\ \A p \in Package : p.code # NoCode

VARIABLES
  plugins,   \* the directory of third-party plugins: <id> and <id>.installing, each
             \* with its files and what its plugin.json says
  state,     \* state.json: the disabled ids, and whether the file is whole
  req,       \* req[r]: the request in slot r
  pc,        \* pc[r]: what it does next, or its answer: ok; unsaved, an ok although
             \* state.json could not be read or written; failed; lost, an error
             \* after the removal of what was installed had begun
  seen,      \* seen[r]: the disabled ids it read
  requests, crashes,
  alone,     \* history: no other request was in progress since r started
  before,    \* history: what was installed when r started, while it is alone
  mixed,     \* history: ids with two requests on their directories at a time
  broken,    \* history: ids with an install or uninstall cut short by a crash, or
             \* with a RemoveAll that failed
  wanted,    \* history: the ids disabled by the writes of state.json
  misread    \* history: state.json could not be read, or was while another wrote it

requestVars == <<req, pc, seen, requests, crashes>>
history == <<alone, before, mixed, broken, wanted, misread>>
vars    == <<plugins, state, requestVars, history>>

Place(i)   == <<i, "installed">>
Staging(i) == <<i, "installing">>
Places     == Id \X {"installed", "installing"}
Code       == {p.code : p \in Package} \cup {p.claim : p \in Package} \cup {NoCode}
Names      == {p.entry : p \in Package} \cup {"plugin.json"}
NoManifest == [hash |-> NoCode, entry |-> "none"]
Absent     == [there |-> FALSE, files |-> [n \in Names |-> NoCode], manifest |-> NoManifest]
Empty      == [Absent EXCEPT !.there = TRUE]
Directory  == [there : BOOLEAN, files : [Names -> Code],
               manifest : [hash : Code, entry : Names \cup {"none"}]]

Kinds     == {"install", "force", "uninstall", "enable", "disable"}
Request   == {[kind |-> k, id |-> p.id, package |-> p] : k \in {"install", "force"}, p \in Package}
               \cup [kind : {"uninstall", "enable", "disable"}, id : Id]
NoRequest == [kind |-> "none"]
Answers   == {"ok", "unsaved", "failed", "lost"}
Active(r) == pc[r] \notin {"idle"} \cup Answers
Installs(r) == req[r].kind \in {"install", "force"}

TypeOK ==
  /\ plugins \in [Places -> Directory]
  /\ \A p \in Places : ~plugins[p].there => plugins[p] = Absent
  /\ state \in [disabled : SUBSET Id, whole : BOOLEAN]
  /\ pc \in [Slot -> {"idle", "check", "clear", "mkdir", "copy", "manifest",
                      "remove", "swap", "read", "truncate", "write"} \cup Answers]
  /\ seen \in [Slot -> SUBSET Id]
  /\ requests \in 0 .. MaxRequests /\ crashes \in 0 .. MaxCrashes
  /\ \A i \in FirstParty : plugins[Place(i)] = Absent /\ plugins[Staging(i)] = Absent

Init ==
  /\ plugins = [p \in Places |-> Absent]
  /\ state = [disabled |-> {}, whole |-> TRUE]
  /\ req = [r \in Slot |-> NoRequest] /\ pc = [r \in Slot |-> "idle"]
  /\ seen = [r \in Slot |-> {}] /\ requests = 0 /\ crashes = 0
  /\ alone = [r \in Slot |-> FALSE] /\ before = [r \in Slot |-> Absent]
  /\ mixed = {} /\ broken = {} /\ wanted = {} /\ misread = FALSE

Goto(r, where) == pc' = [pc EXCEPT ![r] = where]

\* A request arrives.
Begin(r, q) ==
  /\ ~Active(r) /\ requests < MaxRequests
  /\ requests' = requests + 1
  /\ req' = [req EXCEPT ![r] = q] /\ Goto(r, "check")
  /\ seen' = [seen EXCEPT ![r] = {}]
  /\ alone' = [s \in Slot |-> s = r /\ \A o \in Slot : ~Active(o)]
  /\ before' = [s \in Slot |-> IF alone'[s] THEN plugins[Place(q.id)] ELSE Absent]
  /\ mixed' = IF \E o \in Slot \ {r} : Active(o) /\ req[o].id = q.id
              THEN mixed \cup {q.id} ELSE mixed
  /\ UNCHANGED <<plugins, state, crashes, broken, wanted, misread>>

-----------------------------------------------------------------------------
(* Install. *)

\* Mutation: a first-party plugin can be installed over.
AcceptedAny(q) == q.package.valid

\* What installFromURL, extractPluginZip, locatePluginRoot and the first half
\* of installFromDir ask of a package, in a directory nobody else sees.
Accepted(q) ==
  /\ q.package.valid
  /\ q.id \notin FirstParty
  /\ plugins[Place(q.id)].there => q.kind = "force"

\* Mutation: the hash the package states is taken over.
ManifestHashClaimed(p) == p.claim

\* The client hash is computed from the entry, whatever the package states.
ManifestHash(p) == p.code

Check(r) ==
  /\ pc[r] = "check"
  /\ LET q == req[r] IN
     Goto(r, CASE Installs(r) -> IF Accepted(q) THEN "clear" ELSE "failed"
               [] q.kind = "uninstall" ->
                    IF q.id \notin FirstParty /\ plugins[Place(q.id)].there THEN "remove" ELSE "failed"
               [] OTHER -> "read")
  /\ UNCHANGED <<plugins, state, req, seen, requests, crashes, history>>

\* Mutation: the installed plugin is cleared away too, before anything can fail.
ClearBoth(r) ==
  /\ pc[r] = "clear"
  /\ plugins' = [plugins EXCEPT ![Staging(req[r].id)] = Absent, ![Place(req[r].id)] = Absent]
  /\ Goto(r, "mkdir")
  /\ UNCHANGED <<state, req, seen, requests, crashes, history>>

\* What os.RemoveAll may leave of a directory; anything but Absent is an error.
Parts(d) ==
  {[there |-> TRUE, files |-> [n \in Names |-> IF n \in kept THEN d.files[n] ELSE NoCode],
    manifest |-> m] : kept \in SUBSET Names, m \in {d.manifest, NoManifest}}

RemoveAll(d) == {Absent} \cup (IF d.there THEN Parts(d) ELSE {})

\* The error is ignored.
ClearStaging(r) ==
  /\ pc[r] = "clear"
  /\ \E x \in RemoveAll(plugins[Staging(req[r].id)]) :
       plugins' = [plugins EXCEPT ![Staging(req[r].id)] = x]
  /\ Goto(r, "mkdir")
  /\ UNCHANGED <<state, req, seen, requests, crashes, history>>

MakeStaging(r) ==
  /\ pc[r] = "mkdir"
  /\ \/ /\ plugins' = [plugins EXCEPT ![Staging(req[r].id)].there = TRUE]
        /\ Goto(r, "copy")
     \/ Goto(r, "failed") /\ UNCHANGED plugins
  /\ UNCHANGED <<state, req, seen, requests, crashes, history>>

\* An error, with d in the staging directory, which is removed.
Abandon(r, d, answer) ==
  /\ \E x \in RemoveAll(d) :
       /\ plugins' = [plugins EXCEPT ![Staging(req[r].id)] = x]
       /\ broken' = IF x = Absent THEN broken ELSE broken \cup {req[r].id}
  /\ Goto(r, answer)

\* The client entry and server.wasm are copied; another install of the same
\* plugin may have removed the directory, and a copy may fail.
CopyArtifacts(r) ==
  /\ pc[r] = "copy"
  /\ LET there == plugins[Staging(req[r].id)]
         copied == [there EXCEPT !.files[req[r].package.entry] = req[r].package.code]
     IN  \/ /\ there.there
            /\ plugins' = [plugins EXCEPT ![Staging(req[r].id)] = copied]
            /\ Goto(r, "manifest") /\ UNCHANGED broken
         \/ \E d \in {there, copied} : Abandon(r, d, "failed")
  /\ UNCHANGED <<state, req, seen, requests, crashes, alone, before, mixed, wanted, misread>>

\* plugin.json is written, over a client entry of that name.
WriteManifest(r) ==
  /\ pc[r] = "manifest"
  /\ LET p       == req[r].package
         there   == plugins[Staging(req[r].id)]
         written == [there EXCEPT !.files["plugin.json"] = NoCode,
                                  !.manifest = [hash |-> ManifestHash(p), entry |-> p.entry]]
     IN  \/ /\ there.there
            /\ plugins' = [plugins EXCEPT ![Staging(req[r].id)] = written]
            /\ Goto(r, "remove") /\ UNCHANGED broken
         \/ Abandon(r, there, "failed")
  /\ UNCHANGED <<state, req, seen, requests, crashes, alone, before, mixed, wanted, misread>>

\* RemoveAll of the installed plugin, entry by entry.  An install ignores that it
\* fails, an uninstall answers an error.
RemoveInstalled(r) ==
  /\ pc[r] = "remove"
  /\ LET i == req[r].id  there == plugins[Place(req[r].id)] IN
     \/ /\ plugins' = [plugins EXCEPT ![Place(i)] = Absent]
        /\ Goto(r, IF Installs(r) THEN "swap" ELSE "read") /\ UNCHANGED broken
     \/ /\ there.there
        /\ \E x \in Parts(there) : plugins' = [plugins EXCEPT ![Place(i)] = x]
        /\ UNCHANGED <<pc, broken>>
     \/ /\ there.there /\ broken' = broken \cup {i}
        /\ Goto(r, IF Installs(r) THEN "swap" ELSE "lost") /\ UNCHANGED plugins
  /\ UNCHANGED <<state, req, seen, requests, crashes, alone, before, mixed, wanted, misread>>

\* os.Rename: there must be something to rename, and nothing in its way, and it
\* may fail all the same.
Swap(r) ==
  /\ pc[r] = "swap"
  /\ LET i == req[r].id IN
     \/ /\ plugins[Staging(i)].there /\ plugins[Place(i)] \in {Absent, Empty}
        /\ plugins' = [plugins EXCEPT ![Place(i)] = plugins[Staging(i)], ![Staging(i)] = Absent]
        /\ Goto(r, "read") /\ UNCHANGED broken
     \/ Abandon(r, plugins[Staging(i)], "lost")
  /\ UNCHANGED <<state, req, seen, requests, crashes, alone, before, mixed, wanted, misread>>

-----------------------------------------------------------------------------
(* state.json. *)

\* readPluginState: a file that is not whole reads as one that disables nothing.
Disabled == IF state.whole THEN state.disabled ELSE {}

Toggles(r) == req[r].kind \in {"enable", "disable"}

Finish(r) ==
  /\ Goto(r, "ok")
  /\ wanted' = IF req[r].kind = "disable" THEN wanted \cup {req[r].id} ELSE wanted \ {req[r].id}

\* Install and uninstall take no notice of an error of writePluginState.
Unsaved(r) == Goto(r, IF Toggles(r) THEN "failed" ELSE "unsaved")

\* Install and uninstall have nothing to write for a plugin that is not disabled,
\* or seems not to be since any error of the read reads as nothing disabled.
ReadState(r) ==
  /\ pc[r] = "read"
  /\ \E s \in {Disabled, {}} :
       /\ seen' = [seen EXCEPT ![r] = s]
       /\ misread' = (\/ misread \/ s # Disabled
                      \/ \E o \in Slot \ {r} : pc[o] \in {"truncate", "write"})
       /\ \/ /\ Toggles(r) \/ req[r].id \in s
             /\ Goto(r, "truncate") /\ UNCHANGED wanted
          \/ /\ ~Toggles(r) /\ req[r].id \notin Disabled
             /\ Finish(r)
          \/ /\ ~Toggles(r) /\ req[r].id \in Disabled \ s
             /\ Unsaved(r) /\ UNCHANGED wanted
  /\ UNCHANGED <<plugins, state, req, requests, crashes, alone, before, mixed, broken>>

\* os.WriteFile: the file is cut to nothing, if it can be opened, and written.
TruncateState(r) ==
  /\ pc[r] = "truncate"
  /\ \/ state' = [state EXCEPT !.whole = FALSE] /\ Goto(r, "write")
     \/ Unsaved(r) /\ UNCHANGED state
  /\ UNCHANGED <<plugins, req, seen, requests, crashes, history>>

\* Mutation: an install or uninstall writes the state as it read it.
NewStateUnchanged(r) ==
  CASE req[r].kind = "disable" -> seen[r] \cup {req[r].id}
    [] req[r].kind = "enable"  -> seen[r] \ {req[r].id}
    [] OTHER -> seen[r]

NewState(r) ==
  IF req[r].kind = "disable" THEN seen[r] \cup {req[r].id} ELSE seen[r] \ {req[r].id}

\* A write that ends half-way leaves a file in which nothing is disabled.
WriteState(r) ==
  /\ pc[r] = "write"
  /\ \/ state' = [disabled |-> NewState(r), whole |-> TRUE] /\ Finish(r)
     \/ Unsaved(r) /\ wanted' = {} /\ UNCHANGED state
  /\ UNCHANGED <<plugins, req, seen, requests, crashes, alone, before, mixed, broken, misread>>

-----------------------------------------------------------------------------
\* The server ends; requests get no answer.
Crash ==
  /\ crashes < MaxCrashes /\ crashes' = crashes + 1
  /\ broken' = broken \cup {req[r].id : r \in {s \in Slot : Active(s) /\ ~Toggles(s)}}
  /\ wanted' = IF \E r \in Slot : pc[r] = "write" THEN {} ELSE wanted
  /\ req' = [r \in Slot |-> NoRequest] /\ pc' = [r \in Slot |-> "idle"]
  /\ seen' = [r \in Slot |-> {}]
  /\ alone' = [r \in Slot |-> FALSE] /\ before' = [r \in Slot |-> Absent]
  /\ UNCHANGED <<plugins, state, requests, mixed, misread>>

Step(r) ==
  \/ Check(r) \/ ClearStaging(r) \/ MakeStaging(r) \/ CopyArtifacts(r) \/ WriteManifest(r)
  \/ RemoveInstalled(r) \/ Swap(r) \/ ReadState(r) \/ TruncateState(r) \/ WriteState(r)

Next == Crash \/ \E r \in Slot : Step(r) \/ \E q \in Request : Begin(r, q)

Spec == Init /\ [][Next]_vars

-----------------------------------------------------------------------------
(* What is served, and properties. *)

\* scanServedPlugins: every directory with a manifest, a staging directory
\* too, is listed under the id in its manifest, with the entry and hash in it.
Served ==
  {[id |-> p[1], entry |-> plugins[p].manifest.entry, hash |-> plugins[p].manifest.hash,
    enabled |-> p[1] \notin Disabled] :
     p \in {x \in Places : plugins[x].manifest # NoManifest}}

AllowedArtifacts == {"client.js", "plugin.json", "server.wasm"}

\* handlePluginArtifact: what the listed URL leads to, NoCode for a 404 and for
\* a plugin.json that is no client entry.
Artifact(i, name) == IF name \in AllowedArtifacts THEN plugins[Place(i)].files[name] ELSE NoCode

Quiet == \A r \in Slot : ~Active(r)

\* "The served hash always equals the file on disk" (plugins_install.go:26): at
\* rest, of every plugin that is listed with an entry of a name the endpoint
\* serves (and plugin.json does not take), unless two requests worked on the
\* plugin at the same time, a crash interrupted one or a removal failed half-way.
ServedHashIsOnDisk ==
  Quiet => \A e \in Served :
    e.id \notin mixed \cup broken /\ e.entry \in AllowedArtifacts \ {"plugin.json"} =>
      e.hash = Artifact(e.id, e.entry)

\* x is d, or what is left of it.
IsPartOf(x, d) ==
  x = Absent \/ /\ x.there /\ d.there /\ x.manifest \in {d.manifest, NoManifest}
                /\ \A n \in Names : x.files[n] \in {d.files[n], NoCode}

\* A request that nothing disturbs, whatever earlier requests, failures and
\* crashes have left behind: if it fails before it removes anything, what was
\* installed is there; if it fails later, that or a part of it is, and nothing
\* else; an install that is answered ok has the package and nothing else listed
\* under its id, enabled unless state.json could not be read or written.  An
\* uninstall has nothing listed, unless a crash or an error left a staging
\* directory, which it does not remove.
InstallIsAtomic ==
  \A r \in Slot : alone[r] =>
    LET q == req[r]
        listed == {e \in Served : e.id = q.id}
        done == pc[r] \in {"ok", "unsaved"}
    IN
    /\ pc[r] = "failed" => plugins[Place(q.id)] = before[r]
    /\ pc[r] = "lost" => IsPartOf(plugins[Place(q.id)], before[r])
    /\ done /\ Installs(r) => \E on \in BOOLEAN :
         /\ listed = {[id |-> q.id, entry |-> q.package.entry, hash |-> q.package.code,
                       enabled |-> on]}
         /\ pc[r] = "ok" => on
    /\ done /\ q.kind = "uninstall" /\ q.id \notin broken => listed = {}

\* At rest exactly those plugins are disabled that the requests left so that got
\* to write state.json, one after the other; a write that ends half-way, by an
\* error or a crash, leaves none disabled, and it goes on from there.  Left out
\* is what follows when state.json could not be read, or was read while another
\* request wrote it.
StateIsWhatWasAnswered == Quiet /\ ~misread => Disabled = wanted
=============================================================================
