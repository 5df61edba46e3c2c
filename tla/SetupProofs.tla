----------------------------- MODULE SetupProofs -----------------------------
(***************************************************************************)
(* Proofs about Setup, for any keys, any number of agents, any set of      *)
(* platforms and faults.                                                   *)
(***************************************************************************)
EXTENDS Setup, TLAPS

-----------------------------------------------------------------------------
(* Config files.                                                           *)

LEMMA MissingIsFile == Missing \in File
BY DEF Missing, File, Pins

\* What setup writes is a config, whole or cut short.
LEMMA SettingsIsFile ==
  ASSUME TypeOK
  PROVE  /\ Settings \in File
         /\ [ Settings EXCEPT !.pins = "none" ] \in File
         /\ [ Settings EXCEPT !.discovers = FALSE, !.pins = "none" ] \in File
BY SetupAssumption DEF Settings, File, Pins, TypeOK

\* What the steps on the config make of it is a config.
LEMMA ConfigStep ==
  ASSUME TypeOK, [Next]_vars
  PROVE  config' \in File
<1> USE MissingIsFile DEF TypeOK
<1>1. CASE MoveAside
  BY <1>1 DEF MoveAside
<1>2. CASE WriteConfig
  BY <1>2, SettingsIsFile DEF WriteConfig
<1>3. CASE WriteFails
  <2>1. ASSUME NEW b \in BOOLEAN
        PROVE  [ Missing EXCEPT !.decodes = b, !.private = config.private ] \in File
    BY DEF Missing, File, Pins
  <2> QED BY <1>3, <2>1, SettingsIsFile DEF WriteFails
<1>4. CASE Chmod
  BY <1>4 DEF Chmod, File
<1>5. CASE EditConfig
  BY <1>5 DEF EditConfig, File, Pins
<1>6. CASE MoveProject
  BY <1>6 DEF MoveProject, File, Pins
<1>7. CASE config' = config
  BY <1>7
<1>8. CASE ~MoveAside /\ ~WriteConfig /\ ~WriteFails /\ ~Chmod /\ ~EditConfig /\ ~MoveProject
  <2>1. config' = config
    BY <1>8 DEF Next, Command, User, Start, BeginSetup, ReadConfig, BeginInstall, BeginUninstall,
         Killed, InstallWakaTime, Logout, RunByHand, StopByHand, Boot, OpenQueue, LockTimeout,
         Respawn, Login, WriteLoginItem, Unload, StartAgent, StartFails, RemoveLoginItem, files, vars
  <2> QED BY <2>1, <1>7
<1> QED BY <1>1, <1>2, <1>3, <1>4, <1>5, <1>6, <1>8

-----------------------------------------------------------------------------
(* Processes.                                                              *)

\* The part of TypeOK that is about agents.
AgentsOK ==
  /\ agent \in [ Slots -> { "none", "booting", "opening", "running" } ]
  /\ key \in [ Slots -> Keys \cup { NoKey } ]
  /\ \A a \in Slots : agent[a] \in { "opening", "running" } <=> key[a] # NoKey
  /\ ~online => agent = [ a \in Slots |-> "none" ]

LEMMA StopOK ==
  ASSUME AgentsOK, NEW S, Stop(S), online' = online
  PROVE  AgentsOK'
BY DEF AgentsOK, Stop

LEMMA LaunchOK ==
  ASSUME AgentsOK, NEW a \in Slots, Launch(a), online'
  PROVE  AgentsOK'
BY DEF AgentsOK, Launch

LEMMA AgentsStep ==
  ASSUME TypeOK, [Next]_vars
  PROVE  AgentsOK'
<1>0. AgentsOK
  BY DEF TypeOK, AgentsOK
<1> USE SetupAssumption
<1>1. CASE UNCHANGED << agent, key, online >>
  BY <1>0, <1>1 DEF AgentsOK
<1>2. CASE \/ BeginSetup \/ ReadConfig \/ MoveAside \/ WriteConfig \/ WriteFails \/ Chmod
           \/ WriteLoginItem \/ StartFails \/ RemoveLoginItem \/ BeginInstall \/ Killed
           \/ EditConfig \/ MoveProject \/ InstallWakaTime \/ UNCHANGED vars
  BY <1>1, <1>2 DEF BeginSetup, ReadConfig, MoveAside, WriteConfig, WriteFails, Chmod,
       WriteLoginItem, StartFails, RemoveLoginItem, BeginInstall, Killed, EditConfig,
       MoveProject, InstallWakaTime, vars, login, agents
<1>3. CASE Unload
  BY <1>0, <1>3, StopOK DEF Unload
<1>4. CASE StartAgent
  <2>1. online
    BY <1>4 DEF StartAgent, TypeOK, Idle
  <2> QED BY <1>0, <1>4, <2>1, LaunchOK DEF StartAgent
<1>5. CASE BeginUninstall
  BY <1>0, <1>1, <1>5, StopOK DEF BeginUninstall, agents
<1>6. CASE Logout
  BY <1>0, <1>6 DEF Logout, Stop, AgentsOK
<1>7. CASE Login
  <2>1. CASE Launch(Service)
    BY <1>0, <1>7, <2>1, LaunchOK DEF Login
  <2>2. CASE UNCHANGED agents
    BY <1>0, <1>7, <2>2 DEF Login, agents, AgentsOK
  <2> QED BY <1>7, <2>1, <2>2 DEF Login
<1>8. CASE Respawn
  BY <1>0, <1>8, LaunchOK DEF Respawn, login
<1>9. ASSUME NEW a \in Slots, Boot(a)
      PROVE  AgentsOK'
  <2>1. online
    BY <1>0, <1>9 DEF Boot, AgentsOK
  <2>2. CASE Ready /\ Boots(a)
    BY <1>0, <1>9, <2>1, <2>2 DEF Boot, Boots, Ready, Usable, AgentsOK, TypeOK, File, login
  <2>3. CASE Stop({ a })
    BY <1>0, <1>9, <2>3, StopOK DEF Boot, login
  <2> QED BY <1>9, <2>2, <2>3 DEF Boot
<1>10. ASSUME NEW a \in Slots, RunByHand(a)
       PROVE  AgentsOK'
  BY <1>0, <1>10 DEF RunByHand, Boots, Ready, Usable, AgentsOK, TypeOK, File, login
<1>11. ASSUME NEW a \in Slots, StopByHand(a) \/ LockTimeout(a)
       PROVE  AgentsOK'
  BY <1>0, <1>11, StopOK DEF StopByHand, LockTimeout, login
<1>12. ASSUME NEW a \in Slots, OpenQueue(a)
       PROVE  AgentsOK'
  BY <1>0, <1>12 DEF OpenQueue, AgentsOK, login
<1> QED BY <1>2, <1>3, <1>4, <1>5, <1>6, <1>7, <1>8, <1>9, <1>10, <1>11, <1>12
  DEF Next, Command, User, Start

-----------------------------------------------------------------------------
(* The inductive invariant.                                                *)

LEMMA TypeInit == Init => TypeOK
BY SetupAssumption, MissingIsFile DEF Init, TypeOK, Pins, Managed, Idle

\* The commands' steps, the agents' and the user's.
LEMMA TypeStep ==
  ASSUME TypeOK, [Next]_vars
  PROVE  TypeOK'
<1>0. config' \in File /\ AgentsOK'
  BY ConfigStep, AgentsStep
<1> USE <1>0, SetupAssumption DEF Idle, Managed, AgentsOK
<1>1. CASE ReadConfig
  <2>1. carried' \in Pins
    BY <1>1 DEF ReadConfig, TypeOK, File, Pins
  <2> QED BY <1>1, <2>1 DEF ReadConfig, TypeOK, files, login
<1>2. CASE MoveAside
  BY <1>2 DEF MoveAside, TypeOK, given, login
<1>3. CASE WriteConfig \/ Chmod
  BY <1>3 DEF WriteConfig, Chmod, TypeOK, given, login, Pins
<1>4. CASE WriteFails
  BY <1>4 DEF WriteFails, End, TypeOK, login, Pins
<1>5. CASE WriteLoginItem
  BY <1>5 DEF WriteLoginItem, TypeOK, given, files
<1>6. CASE Unload
  BY <1>6 DEF Unload, TypeOK, given, files
<1>7. CASE StartAgent
  BY <1>7 DEF StartAgent, End, TypeOK, files, Pins
<1>8. CASE StartFails
  <2>1. enabled' \in BOOLEAN
    BY <1>8 DEF StartFails, TypeOK
  <2> QED BY <1>8, <2>1 DEF StartFails, End, TypeOK, files, Pins
<1>9. CASE RemoveLoginItem \/ Killed
  <2>1. cmd' = "idle" /\ newKey' = NoKey /\ carried' = "none" /\ entry' \in { entry, FALSE }
        /\ applied' \in { applied, NoKey }
        /\ UNCHANGED << files, platform, enabled, loaded, online, unstopped, owed >>
    BY <1>9 DEF RemoveLoginItem, Killed, End, login
  <2> QED BY <2>1 DEF TypeOK, files, Pins
<1>10. CASE BeginSetup \/ BeginInstall
  BY <1>10 DEF BeginSetup, BeginInstall, TypeOK, files, login
<1>11. CASE BeginUninstall
  <2>1. enabled' \in BOOLEAN /\ loaded' \in BOOLEAN /\ unstopped' \in BOOLEAN /\ (loaded' => loaded)
    <3>1. /\ enabled' \in { enabled, platform = "windows", FALSE }
          /\ loaded' \in { loaded, FALSE } /\ unstopped' \in { loaded, FALSE }
      BY <1>11 DEF BeginUninstall
    <3> QED BY <3>1, Zenon DEF TypeOK
  <2>2. online /\ cmd' = "remove" /\ applied' = NoKey
        /\ UNCHANGED << given, files, platform, entry, online, owed >>
    BY <1>11 DEF BeginUninstall
  <2> QED BY <2>1, <2>2 DEF TypeOK, given, files
<1>12. CASE EditConfig \/ MoveProject \/ InstallWakaTime
  <2>1. /\ applied' \in { applied, NoKey } /\ wakatime' \in BOOLEAN /\ owed' \in BOOLEAN
        /\ UNCHANGED << cmd, given, bak, login >>
    BY <1>12 DEF EditConfig, MoveProject, InstallWakaTime, TypeOK
  <2>2. ~online => Idle
    BY DEF TypeOK
  <2> QED BY <2>1, <2>2 DEF TypeOK, given, login
<1>13. CASE Logout
  BY <1>13 DEF Logout, End, TypeOK, files, Pins
<1>14. CASE Login
  <2>1. loaded' \in BOOLEAN /\ (loaded' => platform # "windows")
    BY <1>14 DEF Login
  <2>2. online' = TRUE
        /\ UNCHANGED << cmd, given, files, platform, entry, enabled, unstopped, applied, owed >>
    BY <1>14 DEF Login
  <2> QED BY <2>1, <2>2 DEF TypeOK, given, files
<1>15. CASE UNCHANGED << cmd, given, files, login, owed >> /\ applied' \in { applied, NoKey }
  BY <1>15 DEF TypeOK, given, files, login
<1>16. CASE Respawn \/ UNCHANGED vars
  BY <1>15, <1>16 DEF Respawn, vars
<1>17. ASSUME NEW a \in Slots, RunByHand(a) \/ StopByHand(a) \/ Start(a)
       PROVE  TypeOK'
  BY <1>15, <1>17 DEF RunByHand, StopByHand, Start, Boot, OpenQueue, LockTimeout
<1> QED BY <1>1, <1>2, <1>3, <1>4, <1>5, <1>6, <1>7, <1>8, <1>9, <1>10, <1>11, <1>12,
           <1>13, <1>14, <1>16, <1>17 DEF Next, Command, User

\* What RemovedIsStopped rests on: a service runs only while its manager has it
\* loaded; a login item that is gone, or being removed, is loaded only if the
\* manager did not unload it; and whoever starts the service has written it.
Tended ==
  /\ Managed /\ ~loaded => agent[Service] = "none"
  /\ (~entry \/ cmd = "remove") /\ ~unstopped => ~loaded
  /\ cmd \in { "unload", "start" } => entry

LEMMA TendedStep ==
  ASSUME TypeOK, Tended, [Next]_vars
  PROVE  Tended'
<1> USE SetupAssumption DEF Tended, Managed, TypeOK, Idle
<1>1. CASE StartAgent
  BY <1>1 DEF StartAgent, Launch, End
<1>2. CASE Unload
  BY <1>2 DEF Unload, Stop
<1>3. CASE BeginUninstall
  <2>1. CASE /\ loaded' = FALSE /\ Stop(IF Managed THEN { Service } ELSE {})
    BY <1>3, <2>1 DEF BeginUninstall, Stop
  <2>2. CASE unstopped' = loaded /\ UNCHANGED << loaded, agents >>
    <3>1. /\ UNCHANGED << platform, entry, loaded, agent >> /\ unstopped' = loaded
          /\ cmd' = "remove"
      BY <1>3, <2>2 DEF BeginUninstall, agents
    <3> QED BY <3>1, Zenon DEF Tended, Managed
  <2> QED BY <1>3, <2>1, <2>2 DEF BeginUninstall
<1>4. CASE Logout
  BY <1>4 DEF Logout, Stop, End
<1>5. CASE Login
  BY <1>5 DEF Login, Launch, agents
<1>6. CASE Respawn
  BY <1>6 DEF Respawn, Launch, login
<1>7. CASE RemoveLoginItem
  <2>1. /\ UNCHANGED << platform, loaded, unstopped, agent >>
        /\ cmd = "remove" /\ cmd' = "idle" /\ entry' = FALSE
    BY <1>7 DEF RemoveLoginItem, End, agents
  <2> QED BY <2>1, Zenon DEF Tended, Managed
<1>14. CASE Killed \/ StartFails
  <2>1. UNCHANGED << platform, entry, loaded, unstopped, agent >> /\ cmd' = "idle"
    BY <1>14 DEF Killed, StartFails, End, login, agents
  <2> QED BY <2>1, Zenon DEF Tended, Managed
<1>8. CASE WriteLoginItem
  BY <1>8 DEF WriteLoginItem, agents
<1>9. ASSUME NEW a \in Slots, RunByHand(a) \/ StopByHand(a) \/ Start(a)
      PROVE  Tended'
  <2>1. UNCHANGED << cmd, login >>
    BY <1>9 DEF RunByHand, StopByHand, Start, Boot, OpenQueue, LockTimeout
  <2>2. Managed /\ agent[Service] = "none" => agent'[Service] = "none"
    BY <1>9 DEF RunByHand, StopByHand, Start, Boot, OpenQueue, LockTimeout, Stop, Boots
  <2> QED BY <2>1, <2>2 DEF login
<1>10. CASE UNCHANGED << login, agents >> /\ cmd' \notin { "remove", "unload", "start" }
  BY <1>10 DEF login, agents
<1>11. CASE UNCHANGED << login, agents, cmd >>
  BY <1>11 DEF login, agents
<1>12. CASE \/ BeginSetup \/ ReadConfig \/ MoveAside \/ WriteConfig \/ WriteFails \/ Chmod
            \/ BeginInstall
  BY <1>10, <1>12 DEF BeginSetup, ReadConfig, MoveAside, WriteConfig, WriteFails, Chmod,
       BeginInstall, End
<1>13. CASE EditConfig \/ MoveProject \/ InstallWakaTime \/ UNCHANGED vars
  BY <1>11, <1>13 DEF EditConfig, MoveProject, InstallWakaTime, vars
<1> QED BY <1>1, <1>2, <1>3, <1>4, <1>5, <1>6, <1>7, <1>8, <1>9, <1>12, <1>13, <1>14
  DEF Next, Command, User

\* A command about to write a config without pins leaves none behind that the user
\* is owed: those there were are in the backup.
CarriedOver == owed /\ cmd = "write" /\ carried = "none" => bak

LEMMA PinsStep ==
  ASSUME TypeOK, PinsKept, CarriedOver, [Next]_vars
  PROVE  PinsKept' /\ CarriedOver'
<1> USE DEF PinsKept, CarriedOver, TypeOK
<1>1. CASE ReadConfig
  BY <1>1 DEF ReadConfig, files
<1>2. CASE MoveAside
  BY <1>2 DEF MoveAside
<1>3. CASE WriteConfig
  BY <1>3 DEF WriteConfig, Settings
<1>4. CASE WriteFails
  BY <1>4 DEF WriteFails, End
<1>5. CASE Chmod
  BY <1>5 DEF Chmod, File
<1>6. CASE EditConfig
  BY <1>6 DEF EditConfig, File, given, Pins
<1>7. CASE MoveProject
  BY <1>7 DEF MoveProject, File, Idle, Pins
<1>8. CASE UNCHANGED << owed, config, bak >> /\ (cmd' = "write" => cmd = "write" /\ carried' = carried)
  BY <1>8
<1>9. CASE \/ BeginSetup \/ WriteLoginItem \/ Unload \/ StartAgent \/ StartFails \/ RemoveLoginItem
           \/ BeginInstall \/ BeginUninstall \/ Killed \/ InstallWakaTime \/ Logout \/ Login
           \/ Respawn \/ UNCHANGED vars
  BY <1>8, <1>9 DEF BeginSetup, WriteLoginItem, Unload, StartAgent, StartFails, RemoveLoginItem,
       BeginInstall, BeginUninstall, Killed, InstallWakaTime, Logout, Login, Respawn, End,
       vars, files, given
<1>10. ASSUME NEW a \in Slots, RunByHand(a) \/ StopByHand(a) \/ Start(a)
       PROVE  PinsKept' /\ CarriedOver'
  BY <1>8, <1>10 DEF RunByHand, StopByHand, Start, Boot, OpenQueue, LockTimeout, files, given
<1> QED BY <1>1, <1>2, <1>3, <1>4, <1>5, <1>6, <1>7, <1>9, <1>10 DEF Next, Command, User

SInv == TypeOK /\ Tended /\ PinsKept /\ CarriedOver

LEMMA SInvariance == Spec => []SInv
<1>1. Init => SInv
  <2> SUFFICES ASSUME Init PROVE SInv
    OBVIOUS
  <2>1. TypeOK
    BY TypeInit
  <2>2. Tended
    BY SetupAssumption DEF Init, Tended
  <2>3. PinsKept /\ CarriedOver
    BY DEF Init, PinsKept, CarriedOver
  <2> QED BY <2>1, <2>2, <2>3 DEF SInv
<1>2. SInv /\ [Next]_vars => SInv'
  BY TypeStep, TendedStep, PinsStep DEF SInv
<1> QED BY <1>1, <1>2, PTL DEF Spec

-----------------------------------------------------------------------------
\* The types of config files, commands, services and agents, and that nothing
\* of the user's runs while the user is logged out.
THEOREM SetupTypeCorrect == Spec => []TypeOK
<1>1. SInv => TypeOK
  BY DEF SInv
<1> QED BY <1>1, SInvariance, PTL

\* An agent whose login item uninstall removed neither runs nor comes back, but
\* until the next logout where the manager did not stop it; with any number of
\* agents, installations and logins.
THEOREM UninstallStops == Spec => []RemovedIsStopped
<1>1. SInv => RemovedIsStopped
  BY DEF SInv, Tended, RemovedIsStopped
<1> QED BY <1>1, SInvariance, PTL

\* The pins the user saved last are in the config or in its backup at any moment,
\* with commands killed anywhere and the user writing between their steps, unless
\* a rename or a write failed, a second unreadable config replaced the backup, or
\* they were saved between setup's read and its write.
THEOREM PinsSurvive == Spec => []PinsKept
<1>1. SInv => PinsKept
  BY DEF SInv
<1> QED BY <1>1, SInvariance, PTL
=============================================================================
