------------------------ MODULE IndexManager_proofs -------------------------
(***************************************************************************)
(* Proofs about IndexManager, for any number of cores and crashes.         *)
(***************************************************************************)
EXTENDS IndexManager, TLAPS

LEMMA InitType == Init => TypeOK /\ NoOrphan
<1>. SUFFICES ASSUME Init PROVE TypeOK /\ NoOrphan
  OBVIOUS
<1>1. told \in BOOLEAN /\ kept \in BOOLEAN
  BY DEF Init
<1>2. core \in [Core -> {"down"}] /\ sup \in [Core -> {"none"}]
      /\ proc \in [Indexer -> {"none"}]
  BY DEF Init
<1>. QED
  BY <1>1, <1>2, ManagerAssumption DEF Init, TypeOK, NoOrphan, Indexer, Runs

LEMMA NextType == TypeOK /\ [Next]_vars => TypeOK'
<1>. SUFFICES ASSUME TypeOK, [Next]_vars PROVE TypeOK'
  OBVIOUS
<1>. USE ManagerAssumption DEF TypeOK, Indexer
<1>1. ASSUME NEW c \in Core, Launch(c) PROVE TypeOK'
  BY <1>1 DEF Launch, manager
<1>2. ASSUME NEW c \in Core, Start(c) PROVE TypeOK'
  <2>1. CASE core[c] = "managing" /\ sup' = [sup EXCEPT ![c] = "wait"]
                /\ proc' = [proc EXCEPT ![c] = "starting"]
    BY <1>2, <2>1 DEF Start, manager
  <2>2. CASE sup' = [sup EXCEPT ![c] = "over"] /\ UNCHANGED proc
    BY <1>2, <2>2 DEF Start, manager
  <2>. QED
    BY <1>2, <2>1, <2>2 DEF Start, manager
<1>3. ASSUME NEW c \in Core, WaitReturns(c) PROVE TypeOK'
  BY <1>3 DEF WaitReturns, manager
<1>4. ASSUME NEW c \in Core, Wake(c) PROVE TypeOK'
  BY <1>4 DEF Wake, manager
<1>5. ASSUME NEW c \in Core, Stop(c) PROVE TypeOK'
  BY <1>5 DEF Stop, manager
<1>6. ASSUME NEW c \in Core, Exit(c) \/ ListenFails(c) PROVE TypeOK'
  BY <1>6 DEF Exit, ListenFails, manager
<1>7. ASSUME NEW i \in Indexer, Bind(i) PROVE TypeOK'
  BY <1>7 DEF Bind, manager
<1>8. ASSUME NEW i \in Indexer, Crash(i) PROVE TypeOK'
  BY <1>8 DEF Crash, Runs, manager
<1>9. CASE Restart
  <2>1. kept' \in BOOLEAN
    BY <1>9 DEF Restart
  <2>. QED
    BY <1>9, <2>1 DEF Restart
<1>18. CASE Obey
  BY <1>18 DEF Obey, manager
<1>10. CASE TearDown
  <2>1. kept' \in BOOLEAN
    <3>1. kept' = (loaded' # 0)
      BY <1>10, Zenon DEF TearDown
    <3>. QED
      BY <3>1, Zenon
  <2>2. told' \in BOOLEAN
    BY <1>10, Zenon DEF TearDown
  <2>. QED
    BY <1>10, <2>1, <2>2 DEF TearDown
<1>11. CASE CreateService
  BY <1>11 DEF CreateService
<1>12. CASE StartService
  BY <1>12 DEF StartService
<1>13. CASE WriteDefinition
  <2>1. kept' \in BOOLEAN
    BY <1>13 DEF WriteDefinition
  <2>. QED
    BY <1>13, <2>1 DEF WriteDefinition
<1>19. CASE Reload
  <2>1. kept' \in BOOLEAN
    BY <1>19 DEF Reload
  <2>. QED
    BY <1>19, <2>1 DEF Reload
<1>14. CASE Activate
  <2>1. kept' \in BOOLEAN
    <3>1. CASE os = "systemd"
      <4>1. kept' = Runs(Service)
        BY <1>14, <3>1, Zenon DEF Activate
      <4>2. Runs(Service) \in BOOLEAN
        BY SMT DEF Runs
      <4>. QED
        BY <4>1, <4>2, Zenon
    <3>2. CASE os # "systemd"
      <4>1. kept' = (loaded # 0)
        BY <1>14, <3>2, Zenon DEF Activate
      <4>. QED
        BY <4>1, Zenon
    <3>. QED
      BY <3>1, <3>2
  <2>. QED
    BY <1>14, <2>1 DEF Activate
<1>15. CASE UninstallStops
  <2>1. told' \in BOOLEAN
    BY <1>15, Zenon DEF UninstallStops
  <2>. QED
    BY <1>15, <2>1 DEF UninstallStops
<1>16. CASE UninstallForgets
  BY <1>16 DEF UninstallForgets
<1>17. CASE UNCHANGED vars
  BY <1>17 DEF vars, manager
<1>. QED
  BY <1>1, <1>2, <1>3, <1>4, <1>5, <1>6, <1>7, <1>8, <1>9, <1>10, <1>11, <1>12,
     <1>13, <1>14, <1>15, <1>16, <1>17, <1>18, <1>19 DEF Next, Supervise

\* Every core, supervisor and indexer is in one of its states, and Wait is only
\* called on a process that was started.
THEOREM TypeCorrect == Spec => []TypeOK
BY InitType, NextType, PTL DEF Spec

\* A core has a child only after it went to supervise one: this is what makes
\* NoOrphan inductive, since Stop kills nothing for a core that adopted.
NoChildYet == \A c \in Core : core[c] \in {"down", "adopting"} => proc[c] = "none"

OrphanInv == TypeOK /\ NoOrphan /\ NoChildYet

\* What the service manager and its commands do leaves cores and children alone.
LEMMA ServiceStep ==
  ASSUME OrphanInv, UNCHANGED core, \A c \in Core : proc'[c] = proc[c]
  PROVE  NoOrphan' /\ NoChildYet'
BY DEF OrphanInv, NoOrphan, NoChildYet, Runs

\* A child starts only while its core is managing, which a stopping core never
\* is again, and stop kills the one that runs.
LEMMA NextOrphan ==
  ASSUME OrphanInv, [Next]_vars PROVE NoOrphan' /\ NoChildYet'
<1>. USE ManagerAssumption DEF OrphanInv, TypeOK, NoOrphan, NoChildYet, Indexer, Runs
<1>1. ASSUME NEW c \in Core, Launch(c) PROVE NoOrphan' /\ NoChildYet'
  BY <1>1 DEF Launch
<1>2. ASSUME NEW c \in Core, Supervise(c) PROVE NoOrphan' /\ NoChildYet'
  <2>1. UNCHANGED core
    BY <1>2 DEF Supervise, Start, WaitReturns, Wake
  <2>2. proc' = proc \/ (core[c] = "managing" /\ proc' = [proc EXCEPT ![c] = "starting"])
    BY <1>2 DEF Supervise, Start, WaitReturns, Wake
  <2>. QED
    BY <2>1, <2>2
<1>3. ASSUME NEW c \in Core, Stop(c) PROVE NoOrphan' /\ NoChildYet'
  BY <1>3 DEF Stop
<1>4. ASSUME NEW c \in Core, Exit(c) \/ ListenFails(c) PROVE NoOrphan' /\ NoChildYet'
  BY <1>4 DEF Exit, ListenFails
<1>5. ASSUME NEW i \in Indexer, Bind(i) \/ Crash(i) PROVE NoOrphan' /\ NoChildYet'
  BY <1>5 DEF Bind, Crash
<1>6. CASE Restart \/ Obey \/ StartService \/ Activate \/ UninstallStops
  <2>1. UNCHANGED core /\ \A c \in Core : proc'[c] = proc[c]
    BY <1>6 DEF Restart, Obey, StartService, Activate, UninstallStops
  <2>. QED
    BY <2>1, ServiceStep
<1>7. CASE TearDown \/ CreateService \/ WriteDefinition \/ Reload
           \/ UninstallForgets \/ UNCHANGED vars
  <2>1. UNCHANGED <<core, proc>>
    BY <1>7 DEF TearDown, CreateService, WriteDefinition, Reload, UninstallForgets, vars
  <2>. QED
    BY <2>1, ServiceStep
<1>. QED
  BY <1>1, <1>2, <1>3, <1>4, <1>5, <1>6, <1>7 DEF Next

\* No child of a core that is stopping, or gone, runs: the lock makes stop's kill
\* and supervise's start exclude each other (indexer_proxy.go:96-117, 136-146),
\* whatever other cores and the service manager do.
THEOREM NoChildIsOrphaned == Spec => []NoOrphan
<1>1. Init => OrphanInv
  BY InitType, ManagerAssumption DEF OrphanInv, NoChildYet, Init, Indexer
<1>2. OrphanInv /\ [Next]_vars => OrphanInv'
  BY NextType, NextOrphan DEF OrphanInv
<1>3. OrphanInv => NoOrphan
  BY DEF OrphanInv
<1>. QED
  BY <1>1, <1>2, <1>3, PTL DEF Spec

-----------------------------------------------------------------------------
(* The configuration the service runs with.                                *)

\* What makes ConfigTakesEffect inductive: how far loaded and runsWith follow
\* the last install at each step of a command, per service manager.  Unless the
\* install failed or kept what it found, the manager has its definition, or none,
\* as soon as it was told to read it, and what runs was started from it; while
\* Windows' install creates and starts a service nothing of the earlier one runs.
ConfigInv ==
  /\ os = "scm" => cmd \notin {"written", "reloaded"}
  /\ os # "scm" => cmd \notin {"torn", "created"}
  /\ loaded # 0 /\ cmd # "written" /\ ~kept => loaded = installs /\ cmd # "torn"
  /\ cmd = "created" => loaded = installs /\ ~Runs(Service)
  /\ cmd = "reloaded" => loaded = installs
  /\ cmd \notin {"written", "reloaded"} /\ loaded # 0 /\ Runs(Service) /\ ~kept
       => runsWith = installs

\* ConfigInv depends on the service's process and its manager only.
LEMMA ManagerStep ==
  ASSUME ConfigInv, UNCHANGED manager, Runs(Service)' => Runs(Service)
  PROVE  ConfigInv'
BY DEF ConfigInv, manager

LEMMA NextConfig ==
  ASSUME TypeOK, ConfigInv, [Next]_vars PROVE ConfigInv'
<1>. USE ManagerAssumption DEF TypeOK, Indexer, Runs
<1>1. ASSUME NEW c \in Core, Launch(c) \/ Supervise(c) \/ Stop(c) \/ Exit(c) \/ ListenFails(c)
      PROVE  ConfigInv'
  <2>1. UNCHANGED manager /\ proc'[Service] = proc[Service]
    BY <1>1 DEF Launch, Supervise, Start, WaitReturns, Wake, Stop, Exit, ListenFails
  <2>. QED
    BY <2>1, ManagerStep
<1>2. ASSUME NEW i \in Indexer, Bind(i) \/ Crash(i) PROVE ConfigInv'
  <2>1. UNCHANGED manager /\ (Runs(Service)' => Runs(Service))
    BY <1>2 DEF Bind, Crash
  <2>. QED
    BY <2>1, ManagerStep
<1>3. CASE Obey \/ UNCHANGED vars
  <2>1. UNCHANGED manager /\ (Runs(Service)' => Runs(Service))
    BY <1>3 DEF Obey, vars
  <2>. QED
    BY <2>1, ManagerStep
<1>4. CASE Restart
  BY <1>4 DEF Restart, ConfigInv
<1>5. CASE TearDown
  BY <1>5 DEF TearDown, ConfigInv
<1>6. CASE CreateService
  BY <1>6 DEF CreateService, ConfigInv
<1>7. CASE StartService
  BY <1>7 DEF StartService, ConfigInv
<1>8. CASE WriteDefinition
  BY <1>8 DEF WriteDefinition, ConfigInv
<1>12. CASE Reload
  BY <1>12 DEF Reload, ConfigInv
<1>9. CASE Activate
  BY <1>9 DEF Activate, ConfigInv
<1>10. CASE UninstallStops
  BY <1>10 DEF UninstallStops, ConfigInv
<1>11. CASE UninstallForgets
  BY <1>11 DEF UninstallForgets, ConfigInv
<1>. QED
  BY <1>1, <1>2, <1>3, <1>4, <1>5, <1>6, <1>7, <1>8, <1>9, <1>10, <1>11,
     <1>12 DEF Next

\* The installed service runs with the last install's configuration, whichever
\* steps of the commands failed, unless that install failed before the manager
\* had its definition or left alone what it found: install tears down, or the
\* manager reloads, before anything is started (service_linux.go:44-62,
\* service_darwin.go:33-57, service_windows.go:35-85).
THEOREM ConfigIsTheLast == Spec => []ConfigTakesEffect
<1>1. Init => TypeOK /\ ConfigInv
  BY InitType, ManagerAssumption DEF ConfigInv, Init, Indexer, Runs
<1>2. TypeOK /\ ConfigInv /\ [Next]_vars => (TypeOK /\ ConfigInv)'
  BY NextType, NextConfig
<1>3. ConfigInv => ConfigTakesEffect
  BY DEF ConfigInv, ConfigTakesEffect
<1>. QED
  BY <1>1, <1>2, <1>3, PTL DEF Spec
=============================================================================
