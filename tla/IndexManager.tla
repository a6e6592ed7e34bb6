---------------------------- MODULE IndexManager ----------------------------
(***************************************************************************)
(* How the control server ("core") comes by a search indexer: it adopts    *)
(* the process that already answers on the indexer's address, or spawns    *)
(* one, supervises it and kills it when it is stopped.                     *)
(*                                                                         *)
(* Several cores may run one after the other or side by side, and an       *)
(* indexer that `fw-indexer install` gave to the OS's service manager may  *)
(* hold the address.  The backoff between two starts is a wait of some     *)
(* length; FW_INDEX_ROOTS is set and the binary is there, for else a core  *)
(* does nothing.  The n-th install brings configuration n.                 *)
(***************************************************************************)
EXTENDS Naturals, FiniteSets

CONSTANTS
  Core,
  Service,     \* the indexer the OS manages
  MaxCrashes,  \* BOUND: indexers that crash
  MaxInstalls  \* BOUND: install commands

ASSUME ManagerAssumption ==
  MaxCrashes \in Nat /\ MaxInstalls \in Nat /\ Service \notin Core

Indexer == Core \cup {Service}   \* a core's child goes by the core's name

VARIABLES
  core,      \* core[c]: down, adopting, managing, stopping, exited or fatal
  sup,       \* sup[c]: where supervise is: none, start, wait, sleep, over or
             \* failed, when the binary could not be started
  proc,      \* proc[i]: none, starting, serving or dead
  crashes,
  os,        \* the service manager: systemd, launchd or scm (Windows)
  loaded,    \* the configuration it has a definition for, 0 for none
  runsWith,  \* the configuration Service was started with
  installs,  \* install commands so far
  cmd,       \* what the command that runs has done: none, written (install,
             \* systemd and launchd), reloaded (systemd), torn or created
             \* (install, scm), stopped (uninstall)
  told,      \* Service has been told to stop (scm)
  kept       \* history: the last install failed before the service manager had
             \* its definition, or left a Service alone that it found

manager == <<os, loaded, runsWith, installs, cmd, told, kept>>
vars == <<core, sup, proc, crashes, manager>>

TypeOK ==
  /\ core \in [Core -> {"down", "adopting", "managing", "stopping", "exited", "fatal"}]
  /\ sup \in [Core -> {"none", "start", "wait", "sleep", "over", "failed"}]
  /\ proc \in [Indexer -> {"none", "starting", "serving", "dead"}]
  /\ crashes \in 0 .. MaxCrashes
  /\ os \in {"systemd", "launchd", "scm"}
  /\ installs \in 0 .. MaxInstalls
  /\ loaded \in 0 .. installs /\ runsWith \in 0 .. installs
  /\ cmd \in {"none", "written", "reloaded", "torn", "created", "stopped"}
  /\ told \in BOOLEAN /\ kept \in BOOLEAN
  /\ \A c \in Core : sup[c] = "wait" => proc[c] # "none"

Runs(i) == proc[i] \in {"starting", "serving"}
Served  == \E i \in Indexer : proc[i] = "serving"

Init ==
  /\ core = [c \in Core |-> "down"] /\ sup = [c \in Core |-> "none"]
  /\ proc = [i \in Indexer |-> "none"] /\ crashes = 0
  /\ os \in {"systemd", "launchd", "scm"}
  /\ loaded = 0 /\ runsWith = 0 /\ installs = 0 /\ cmd = "none"
  /\ told = FALSE /\ kept = FALSE

\* startIndexManager: probe the address, adopt or go on to supervise.
Launch(c) ==
  /\ core[c] = "down"
  /\ core' = [core EXCEPT ![c] = IF Served THEN "adopting" ELSE "managing"]
  /\ sup' = [sup EXCEPT ![c] = IF Served THEN "none" ELSE "start"]
  /\ UNCHANGED <<proc, crashes, manager>>

\* Mutations: Wait is called on a command that was not started; shutdown is not
\* looked at under the lock that guards the start.
StartNothing(c) ==
  /\ core[c] \in {"managing", "stopping"} /\ sup[c] = "start"
  /\ sup' = [sup EXCEPT ![c] = "wait"]
  /\ UNCHANGED <<core, proc, crashes, manager>>

StartRegardless(c) ==
  /\ core[c] \in {"managing", "stopping"} /\ sup[c] = "start"
  /\ sup' = [sup EXCEPT ![c] = "wait"]
  /\ proc' = [proc EXCEPT ![c] = "starting"]
  /\ UNCHANGED <<core, crashes, manager>>

\* supervise, under the lock: unless stop was called, start the binary.  An
\* error of Start ends the supervision.
Start(c) ==
  /\ core[c] \in {"managing", "stopping"} /\ sup[c] = "start"
  /\ \/ /\ core[c] = "managing"
        /\ sup' = [sup EXCEPT ![c] = "wait"]
        /\ proc' = [proc EXCEPT ![c] = "starting"]
     \/ /\ sup' = [sup EXCEPT ![c] = IF core[c] = "stopping" THEN "over" ELSE "failed"]
        /\ UNCHANGED proc
  /\ UNCHANGED <<core, crashes, manager>>

\* Mutation: the indexer is started once and not again.
WaitReturnsOnce(c) ==
  /\ core[c] \in {"managing", "stopping"} /\ sup[c] = "wait" /\ ~Runs(c)
  /\ sup' = [sup EXCEPT ![c] = "over"]
  /\ UNCHANGED <<core, proc, crashes, manager>>

\* Wait returns, and shutdown is looked at again.
WaitReturns(c) ==
  /\ core[c] \in {"managing", "stopping"} /\ sup[c] = "wait" /\ ~Runs(c)
  /\ sup' = [sup EXCEPT ![c] = IF core[c] = "stopping" THEN "over" ELSE "sleep"]
  /\ UNCHANGED <<core, proc, crashes, manager>>

\* The backoff is over.
Wake(c) ==
  /\ core[c] \in {"managing", "stopping"} /\ sup[c] = "sleep"
  /\ sup' = [sup EXCEPT ![c] = "start"]
  /\ UNCHANGED <<core, proc, crashes, manager>>

Supervise(c) == Start(c) \/ WaitReturns(c) \/ Wake(c)

\* stop, on a signal: shutdown is set and the child, if there is one, killed
\* under the lock.  The indexer a core adopted is left alone.
Stop(c) ==
  /\ core[c] \in {"adopting", "managing"}
  /\ core' = [core EXCEPT ![c] = "stopping"]
  /\ proc' = IF core[c] = "managing" /\ Runs(c)
             THEN [proc EXCEPT ![c] = "dead"] ELSE proc
  /\ UNCHANGED <<sup, crashes, manager>>

\* The signal handler goes on to os.Exit.
Exit(c) ==
  /\ core[c] = "stopping"
  /\ core' = [core EXCEPT ![c] = "exited"]
  /\ UNCHANGED <<sup, proc, crashes, manager>>

\* log.Fatalf in serve: the process ends without stop.
ListenFails(c) ==
  /\ core[c] \in {"adopting", "managing"}
  /\ core' = [core EXCEPT ![c] = "fatal"]
  /\ UNCHANGED <<sup, proc, crashes, manager>>

\* An indexer listens on the address, or ends because another one does.
Bind(i) ==
  /\ proc[i] = "starting"
  /\ proc' = [proc EXCEPT ![i] = IF Served THEN "dead" ELSE "serving"]
  /\ UNCHANGED <<core, sup, crashes, manager>>

Crash(i) ==
  /\ Runs(i) /\ crashes < MaxCrashes /\ crashes' = crashes + 1
  /\ proc' = [proc EXCEPT ![i] = "dead"]
  /\ UNCHANGED <<core, sup, manager>>

\* Mutation: the definition has no Restart line.
NoRestart == FALSE /\ UNCHANGED vars

\* systemd and launchd restart a service that ended with an error, from the
\* definition they hold; the Windows service has no recovery actions.
Restart ==
  /\ os # "scm" /\ loaded # 0 /\ proc[Service] = "dead"
  /\ proc' = [proc EXCEPT ![Service] = "starting"]
  /\ runsWith' = loaded /\ kept' = (kept /\ loaded # installs)
  /\ UNCHANGED <<core, sup, crashes, os, loaded, installs, cmd, told>>

\* Mutation: install does not tear down the earlier registration.
TearDownNothing ==
  /\ os = "scm" /\ cmd = "none" /\ installs < MaxInstalls
  /\ installs' = installs + 1 /\ cmd' = "torn" /\ kept' = FALSE
  /\ UNCHANGED <<core, sup, proc, crashes, os, loaded, runsWith, told>>

\* Install, Windows: the earlier registration is told to stop and deleted; that
\* either fails is ignored,
TearDown ==
  /\ os = "scm" /\ cmd = "none" /\ installs < MaxInstalls
  /\ installs' = installs + 1 /\ cmd' = "torn"
  /\ \/ UNCHANGED told
     \/ Runs(Service) /\ told' = TRUE
  /\ loaded' \in {0, loaded} /\ kept' = (loaded' # 0)
  /\ UNCHANGED <<core, sup, proc, crashes, os, runsWith>>

\* which its process answers some time later, if at all;
Obey ==
  /\ os = "scm" /\ told /\ Runs(Service)
  /\ proc' = [proc EXCEPT ![Service] = "none"]
  /\ UNCHANGED <<core, sup, crashes, manager>>

\* a new one is created, unless there still is one or its process goes on,
CreateService ==
  /\ cmd = "torn"
  /\ \/ /\ loaded = 0 /\ ~Runs(Service)
        /\ loaded' = installs /\ cmd' = "created"
     \/ cmd' = "none" /\ UNCHANGED loaded
  /\ UNCHANGED <<core, sup, proc, crashes, os, runsWith, installs, told, kept>>

\* and, if its environment can be written, started.
StartService ==
  /\ cmd = "created" /\ cmd' = "none"
  /\ \/ /\ proc' = [proc EXCEPT ![Service] = "starting"]
        /\ runsWith' = loaded /\ told' = FALSE
     \/ UNCHANGED <<proc, runsWith, told>>
  /\ UNCHANGED <<core, sup, crashes, os, loaded, installs, kept>>

\* Install, Linux and macOS: the definition is written, or the install ends with
\* an error.  (What a write that failed leaves is never loaded: the next reload
\* or load comes after a definition written whole, or removed.)
WriteDefinition ==
  /\ os # "scm" /\ cmd = "none" /\ installs < MaxInstalls
  /\ installs' = installs + 1
  /\ \/ cmd' = "written" /\ kept' = FALSE
     \/ cmd' = "none" /\ kept' = TRUE
  /\ UNCHANGED <<core, sup, proc, crashes, os, loaded, runsWith, told>>

\* systemd is told to read it, or the install ends with an error and the manager
\* has the earlier definition still.
Reload ==
  /\ os = "systemd" /\ cmd = "written"
  /\ \/ cmd' = "reloaded" /\ loaded' = installs /\ UNCHANGED kept
     \/ cmd' = "none" /\ kept' = TRUE /\ UNCHANGED loaded
  /\ UNCHANGED <<core, sup, proc, crashes, os, runsWith, installs, told>>

\* `enable --now` starts what does not run, `load -w` what is not loaded; the
\* command may fail.
Activate ==
  LET there == IF os = "systemd" THEN Runs(Service) ELSE loaded # 0
  IN /\ cmd = (IF os = "systemd" THEN "reloaded" ELSE "written")
     /\ cmd' = "none" /\ kept' = there
     /\ \/ /\ ~there /\ loaded' = installs /\ runsWith' = installs
           /\ proc' = [proc EXCEPT ![Service] = "starting"]
        \/ UNCHANGED <<loaded, runsWith, proc>>
     /\ UNCHANGED <<core, sup, crashes, os, installs, told>>

\* Uninstall: stop the service; that it does not stop is ignored, and on Windows
\* not waited for longer than 10 seconds.
UninstallStops ==
  /\ cmd = "none" /\ loaded # 0 /\ cmd' = "stopped"
  /\ \/ /\ proc' = [proc EXCEPT ![Service] = "none"]
        /\ loaded' = IF os = "launchd" THEN 0 ELSE loaded
        /\ UNCHANGED told
     \/ UNCHANGED <<proc, loaded, told>>
     \/ /\ os = "scm" /\ Runs(Service) /\ told' = TRUE
        /\ UNCHANGED <<proc, loaded>>
  /\ UNCHANGED <<core, sup, crashes, os, runsWith, installs, kept>>

\* Then the definition is removed, where removing it, the reload after it (whose
\* error is ignored) or Delete does not fail: launchd keeps what it has loaded.
UninstallForgets ==
  /\ cmd = "stopped" /\ cmd' = "none"
  /\ loaded' \in (IF os = "launchd" THEN {loaded} ELSE {0, loaded})
  /\ UNCHANGED <<core, sup, proc, crashes, os, runsWith, installs, told, kept>>

Next ==
  \/ \E c \in Core : Launch(c) \/ Supervise(c) \/ Stop(c) \/ Exit(c) \/ ListenFails(c)
  \/ \E i \in Indexer : Bind(i) \/ Crash(i)
  \/ Restart \/ Obey
  \/ TearDown \/ CreateService \/ StartService
  \/ WriteDefinition \/ Reload \/ Activate
  \/ UninstallStops \/ UninstallForgets

Spec == Init /\ [][Next]_vars

\* The supervising goroutine and a started process run on; nobody has to launch
\* or stop a core, and nothing has to crash.
Fairness ==
  /\ \A c \in Core : WF_vars(Supervise(c)) /\ WF_vars(Exit(c))
  /\ \A i \in Indexer : WF_vars(Bind(i))
  /\ WF_vars(Restart)

FairSpec == Spec /\ Fairness

-----------------------------------------------------------------------------
(* Properties.                                                             *)

\* "called on core shutdown so it isn't orphaned" (indexer_proxy.go:133): once
\* a core is on its way out no child of it runs, and none is started by the
\* supervisor that wakes up meanwhile.  (A core that ends in log.Fatalf does not
\* come by stop.)
NoOrphan ==
  \A c \in Core : core[c] \in {"stopping", "exited"} => ~Runs(c)

\* "restarts it if it exits unexpectedly (bounded backoff), until stop() is
\* called" (indexer_proxy.go:91): a core that spawned its indexer has search
\* again after every crash, its own child's or that of whoever has the address,
\* unless the binary cannot be started any more.
SearchComesBack ==
  \A c \in Core :
    core[c] = "managing" /\ proc[c] = "dead"
      ~> (core[c] # "managing" \/ Served \/ sup[c] = "failed")

\* "its lifecycle belongs to the OS" (indexer_proxy.go:53): a core that adopted
\* an indexer, be it another core's child that goes away with that core, has
\* search again where systemd or launchd runs one, for that one found the address
\* taken and ended with an error each time (cmd/fw-indexer/main.go:65,
\* Restart=on-failure).
AdopterKeepsSearch ==
  \A c \in Core :
    core[c] = "adopting"
      ~> (core[c] # "adopting" \/ Served
          \/ os = "scm" \/ loaded = 0 \/ proc[Service] = "none")

\* "bakes the exact config the daemon will run with" (service_cmd.go:17): after
\* any series of installs, uninstalls, failures of any of their steps and
\* crashes, the installed service that runs does so with the last install's
\* configuration, unless that install failed before the service manager had its
\* definition, or found the service running (systemd) or loaded (launchd).
ConfigTakesEffect ==
  cmd = "none" /\ loaded # 0 /\ Runs(Service) /\ ~kept => runsWith = installs

=============================================================================
