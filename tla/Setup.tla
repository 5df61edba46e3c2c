-------------------------------- MODULE Setup --------------------------------
(***************************************************************************)
(* Installing the agent: setup, install and uninstall (setup.go,           *)
(* install.go), the platform's login items and service manager, and the    *)
(* agents they start, which meet at the config file (config.go) and at the *)
(* lock on the queue file.  Commands and agents are processes: each step   *)
(* below may interleave with any other, and a command may be killed        *)
(* between two.                                                            *)
(***************************************************************************)
EXTENDS Integers, FiniteSets

CONSTANTS
  Platforms,  \* what the machine may be: "windows", "darwin", "linux"
  Keys,       \* API keys a config may have
  NewKeys,    \* those setup may be given, which the collector accepts
  NoKey,      \* what a config has that setup never wrote to
  Slots,      \* agent processes that may exist at once
  Service,    \* the slot of the process a service manager looks after
  ByHand,     \* where the user may start agents from a terminal
  Faults      \* which steps may fail: "rename", "write", "manager"

ASSUME SetupAssumption ==
  /\ Platforms \subseteq { "windows", "darwin", "linux" }
  /\ NoKey \notin Keys /\ NewKeys \subseteq Keys
  /\ Service \in Slots
  /\ ByHand \subseteq Platforms
  /\ Faults \subseteq { "rename", "write", "manager" }

\* A config file: whether it decodes; its key, with an endpoint Validate takes,
\* or NoKey; whether only its owner may read it; whether its activity source
\* discovers projects; and if the user pinned any, whether their directories are
\* all there.
Pins == { "none", "there", "gone" }
File == [ decodes: BOOLEAN, key: Keys \cup { NoKey }, private: BOOLEAN,
          discovers: BOOLEAN, pins: Pins ]

\* No file: a new one is made private.
Missing == [ decodes |-> TRUE, key |-> NoKey, private |-> TRUE,
             discovers |-> FALSE, pins |-> "none" ]

VARIABLES
  platform,  \* runtime.GOOS
  cmd,       \* where the command is; "idle" when none runs
  newKey,    \* the key it was given
  carried,   \* the pins of the config it decoded
  config,    \* the config file; Missing when there is none
  bak,       \* its backup has pinned projects
  wakatime,  \* WakaTime's directory is there
  entry,     \* the login item: Startup script, plist or unit
  enabled,   \* the platform starts what the login item says
  loaded,    \* the service manager runs it now
  online,    \* the user is logged in
  agent,     \* each slot: "none", "booting", "opening" the queue, "running"
  key,       \* the key each agent read from the config
  \* history
  applied,   \* key of the last setup that finished, unless undone since
  owed,      \* the pins the user saved last are still to be found; see PinsKept
  unstopped  \* uninstall left the service running: the manager did not stop it

files == << config, bak, wakatime >>
agents == << agent, key >>
login == << platform, entry, enabled, loaded, online, unstopped >>
given == << newKey, carried >>
vars == << cmd, given, files, login, agents, applied, owed >>

Managed == platform # "windows"
Idle == cmd = "idle"

\* checkPerms, decoding and Validate: what Load accepts.
Usable(f) ==
  /\ f.private \/ platform = "windows"
  /\ f.decodes /\ f.key # NoKey
  /\ f.pins = "there" \/ (f.discovers /\ f.pins = "none")

\* What happens to a set of processes that are stopped, and to one started.
Stop(S) == /\ agent' = [ a \in Slots |-> IF a \in S THEN "none" ELSE agent[a] ]
           /\ key' = [ a \in Slots |-> IF a \in S THEN NoKey ELSE key[a] ]
Launch(a) == /\ agent' = [ agent EXCEPT ![a] = "booting" ]
             /\ key' = [ key EXCEPT ![a] = NoKey ]

\* A command is over, and forgets.
End == cmd' = "idle" /\ newKey' = NoKey /\ carried' = "none"

-----------------------------------------------------------------------------
(* The commands.                                                           *)

\* setup checks the key with the collector before it writes anything; one that
\* is refused ends there.
BeginSetup ==
  /\ online /\ Idle
  /\ cmd' = "config"
  /\ newKey' \in NewKeys
  /\ applied' = NoKey
  /\ UNCHANGED << carried, files, login, agents, owed >>

\* DecodeFile: what decodes is carried over, the user's pins with it.
ReadConfig ==
  /\ cmd = "config"
  /\ cmd' = IF config.decodes THEN "write" ELSE "aside"
  /\ carried' = IF config.decodes THEN config.pins ELSE "none"
  /\ UNCHANGED << newKey, files, login, agents, applied, owed >>

\* A config that did not decode is moved aside, over the backup there may be; a
\* failure to do so is not looked at.
MoveAside ==
  /\ cmd = "aside"
  /\ \/ config' = Missing /\ bak' = (config.pins # "none") /\ owed' = (owed /\ bak')
     \/ "rename" \in Faults /\ UNCHANGED << config, bak >> /\ owed' = FALSE
  /\ cmd' = "write"
  /\ UNCHANGED << given, wakatime, login, agents, applied >>

\* Mutant of Settings: nothing of what was there.
SettingsAlone ==
  [ decodes |-> TRUE, key |-> newKey, private |-> config.private,
    discovers |-> TRUE, pins |-> "none" ]

\* The config as decoded, with the connection and activity settings replaced.
\* A file that is there keeps its mode.
Settings ==
  [ decodes |-> TRUE, key |-> newKey, private |-> config.private,
    discovers |-> TRUE, pins |-> carried ]

\* Whatever the file holds by now is written over.
WriteConfig ==
  /\ cmd = "write"
  /\ config' = Settings
  /\ cmd' = "chmod" /\ carried' = "none"
  /\ UNCHANGED << newKey, bak, wakatime, login, agents, applied, owed >>

\* os.WriteFile truncates the file and then fails or is killed: an empty file, one
\* cut inside a line, or one cut between two of them; the encoder writes the key
\* before the activity section, and the pins last.
WriteFails ==
  /\ cmd = "write" /\ "write" \in Faults
  /\ config' \in
       { [ Missing EXCEPT !.decodes = b, !.private = config.private ] : b \in BOOLEAN }
       \cup { [ Settings EXCEPT !.discovers = FALSE, !.pins = "none" ],
              [ Settings EXCEPT !.pins = "none" ], Settings }
  /\ End /\ owed' = FALSE
  /\ UNCHANGED << bak, wakatime, login, agents, applied >>

\* Mutant of Chmod: the mode given to WriteFile has to do.
ChmodNothing ==
  /\ cmd = "chmod"
  /\ cmd' = "login"
  /\ UNCHANGED << given, files, login, agents, applied, owed >>

\* The file is made private; then install's part begins.
Chmod ==
  /\ cmd = "chmod"
  /\ config' = [ config EXCEPT !.private = TRUE ]
  /\ cmd' = "login"
  /\ UNCHANGED << given, bak, wakatime, login, agents, applied, owed >>

\* install starts here; setup --no-start ends here, by Killed.
BeginInstall ==
  /\ online /\ Idle
  /\ cmd' = "login" /\ newKey' = applied
  /\ UNCHANGED << carried, files, login, agents, applied, owed >>

WriteLoginItem ==
  /\ cmd = "login"
  /\ entry' = TRUE /\ unstopped' = FALSE
  /\ cmd' = IF platform = "darwin" THEN "unload" ELSE "start"
  /\ UNCHANGED << given, files, platform, enabled, loaded, online, agents, applied, owed >>

\* launchctl unload, whose failure is ignored: it fails when nothing is loaded.
Unload ==
  /\ cmd = "unload"
  /\ loaded' = FALSE /\ Stop({ Service })
  /\ cmd' = "start"
  /\ UNCHANGED << given, files, platform, entry, enabled, online, unstopped,
                  applied, owed >>

\* Mutant of StartAgent: on linux, start instead of restart; on Windows, only
\* at the next login.
StartIfStopped ==
  /\ cmd = "start"
  /\ loaded' = Managed /\ enabled' = TRUE
  /\ IF Managed /\ agent[Service] = "none" THEN Launch(Service) ELSE UNCHANGED agents
  /\ End /\ applied' = newKey
  /\ UNCHANGED << files, platform, entry, online, unstopped, owed >>

\* wscript runs one more agent; launchctl load and systemctl restart have the
\* manager start its own, now and, by load -w and enable, at login.
StartAgent ==
  /\ cmd = "start"
  /\ loaded' = Managed /\ enabled' = TRUE
  /\ \E a \in Slots :
       /\ IF Managed THEN a = Service ELSE agent[a] = "none"
       /\ Launch(a)
  /\ End /\ applied' = newKey
  /\ UNCHANGED << files, platform, entry, online, unstopped, owed >>

\* No wscript, no systemd user session: setup says so and ends.
StartFails ==
  /\ "manager" \in Faults /\ cmd = "start"
  /\ enabled' \in { enabled, TRUE }
  /\ End /\ applied' = NoKey
  /\ UNCHANGED << files, platform, entry, loaded, online, unstopped, agents, owed >>

\* Mutant of BeginUninstall: disables the service without stopping it.
DisableOnly ==
  /\ online /\ Idle
  /\ enabled' = ~Managed /\ loaded' = FALSE /\ unstopped' = FALSE
  /\ cmd' = "remove" /\ applied' = NoKey
  /\ UNCHANGED << given, files, platform, entry, online, agents, owed >>

\* uninstall: the manager disables the service and stops it, or fails to do
\* either or the second, which is ignored.  On Windows a running agent keeps
\* running.
BeginUninstall ==
  /\ online /\ Idle
  /\ \/ /\ enabled' = ~Managed /\ loaded' = FALSE /\ unstopped' = FALSE
        /\ Stop(IF Managed THEN { Service } ELSE {})
     \/ /\ "manager" \in Faults /\ Managed
        /\ enabled' \in { enabled, FALSE } /\ unstopped' = loaded
        /\ UNCHANGED << loaded, agents >>
  /\ cmd' = "remove" /\ applied' = NoKey
  /\ UNCHANGED << given, files, platform, entry, online, owed >>

\* And its file is removed.
RemoveLoginItem ==
  /\ cmd = "remove"
  /\ entry' = FALSE
  /\ End
  /\ UNCHANGED << files, platform, enabled, loaded, online, unstopped, agents,
                  applied, owed >>

\* The user interrupts a command; between unload and load, say.
Killed ==
  /\ ~Idle
  /\ End /\ applied' = NoKey
  /\ UNCHANGED << files, login, agents, owed >>

-----------------------------------------------------------------------------
(* Agents: the start of cmdRun.                                            *)

\* config.Load, then activity.New: whether an agent that reads the config now goes
\* on to the queue.  It exits if the config is not usable, and if it has no WakaTime
\* to follow.
Ready == Usable(config) /\ (config.discovers => wakatime)
Boots(a) == /\ agent' = [ agent EXCEPT ![a] = "opening" ]
            /\ key' = [ key EXCEPT ![a] = config.key ]

\* Mutant of Boot: the agent goes on with whatever it read.
BootUnchecked(a) ==
  /\ agent[a] = "booting"
  /\ Boots(a)
  /\ UNCHANGED << cmd, given, files, login, applied, owed >>

Boot(a) ==
  /\ agent[a] = "booting"
  /\ IF Ready THEN Boots(a) ELSE Stop({ a })
  /\ UNCHANGED << cmd, given, files, login, applied, owed >>

\* queue.Open takes the lock on the queue file, which one process may hold.
OpenQueue(a) ==
  /\ agent[a] = "opening"
  /\ \A b \in Slots : agent[b] # "running"
  /\ agent' = [ agent EXCEPT ![a] = "running" ]
  /\ UNCHANGED << cmd, given, files, login, key, applied, owed >>

\* Or gives up after five seconds, and the agent exits.
LockTimeout(a) ==
  /\ agent[a] = "opening"
  /\ \E b \in Slots : agent[b] = "running"
  /\ Stop({ a })
  /\ UNCHANGED << cmd, given, files, login, applied, owed >>

\* KeepAlive, or Restart=always after ten seconds.
Respawn ==
  /\ online /\ loaded /\ agent[Service] = "none"
  /\ Launch(Service)
  /\ UNCHANGED << cmd, given, files, login, applied, owed >>

-----------------------------------------------------------------------------
(* The user and the session.                                               *)

\* An agent started from a terminal, beside the service's; one that exits at once
\* is no step.  And its end.
RunByHand(a) ==
  /\ platform \in ByHand /\ online
  /\ agent[a] = "none" /\ (Managed => a # Service)
  /\ Ready /\ Boots(a)
  /\ UNCHANGED << cmd, given, files, login, applied, owed >>

StopByHand(a) ==
  /\ platform \in ByHand
  /\ agent[a] # "none" /\ (Managed => a # Service)
  /\ Stop({ a })
  /\ applied' = IF Managed THEN applied ELSE NoKey
  /\ UNCHANGED << cmd, given, files, login, owed >>

\* What setup achieved lasts, under a manager that tries again, until the user
\* changes the key or the file's mode; elsewhere until the config stops being
\* one that Load accepts, for nothing starts the agent then.
Lasts == /\ config'.key = config.key /\ config'.private = config.private
         /\ Managed \/ (Usable(config) /\ Usable(config'))

\* The user pins projects, leaves a typo behind or corrects it, writes a key by
\* hand, or saves the file with another mode; between two steps of setup's, too.
\* (The other steps of a command do not look at the file, so that an edit between
\* them is one before the command or after it.)  Pins saved after setup has read
\* the file, and before it writes it, are not owed.
EditConfig ==
  /\ cmd \in { "idle", "aside", "write" }
  /\ \/ /\ config' = [ config EXCEPT !.pins = "there" ]
        /\ owed' = (cmd # "write")
     \/ /\ \/ config' \in { [ config EXCEPT !.decodes = ~@ ],
                            [ config EXCEPT !.private = ~@ ] }
           \/ \E k \in Keys : config' = [ config EXCEPT !.key = k ]
        /\ UNCHANGED owed
  /\ applied' = IF Lasts THEN applied ELSE NoKey
  /\ UNCHANGED << cmd, given, bak, wakatime, login, agents >>

\* A pinned directory is removed, or put back.
MoveProject ==
  /\ Idle /\ config.pins # "none"
  /\ config' = [ config EXCEPT !.pins = IF @ = "gone" THEN "there" ELSE "gone" ]
  /\ applied' = IF Lasts THEN applied ELSE NoKey
  /\ UNCHANGED << cmd, given, bak, wakatime, login, agents, owed >>

InstallWakaTime ==
  /\ Idle /\ ~wakatime
  /\ wakatime' = TRUE
  /\ applied' = IF Managed THEN applied ELSE NoKey
  /\ UNCHANGED << cmd, given, config, bak, login, agents, owed >>

Logout ==
  /\ online
  /\ online' = FALSE /\ loaded' = FALSE /\ End /\ unstopped' = FALSE
  /\ Stop(Slots)
  /\ UNCHANGED << files, platform, entry, enabled, applied, owed >>

\* wscript, launchd or the user's systemd starts what is there to start.
Login ==
  /\ ~online
  /\ online' = TRUE /\ loaded' = (Managed /\ entry /\ enabled)
  /\ IF entry /\ enabled THEN Launch(Service) ELSE UNCHANGED agents
  /\ UNCHANGED << cmd, given, files, platform, entry, enabled, unstopped,
                  applied, owed >>

-----------------------------------------------------------------------------
Init ==
  /\ cmd = "idle" /\ newKey = NoKey /\ carried = "none"
  /\ config = Missing /\ bak = FALSE /\ wakatime \in BOOLEAN
  /\ platform \in Platforms
  /\ entry = FALSE /\ enabled = (platform # "linux") /\ loaded = FALSE /\ online = TRUE
  /\ agent = [ a \in Slots |-> "none" ] /\ key = [ a \in Slots |-> NoKey ]
  /\ applied = NoKey /\ owed = FALSE /\ unstopped = FALSE

Command ==
  \/ ReadConfig \/ MoveAside \/ WriteConfig \/ WriteFails \/ Chmod
  \/ WriteLoginItem \/ Unload \/ StartAgent \/ StartFails
  \/ RemoveLoginItem

Start(a) == Boot(a) \/ OpenQueue(a) \/ LockTimeout(a)

User == \/ BeginSetup \/ BeginInstall \/ BeginUninstall \/ Killed
        \/ EditConfig \/ MoveProject \/ InstallWakaTime \/ Logout
        \/ \E a \in Slots : RunByHand(a) \/ StopByHand(a)

Next == Command \/ User \/ Login \/ Respawn \/ \E a \in Slots : Start(a)

Spec == Init /\ [][Next]_vars

\* Processes run, and a manager does what its unit says.
FairSpec ==
  /\ Spec /\ WF_vars(Respawn) /\ WF_vars(Login)
  /\ \A a \in Slots : WF_vars(Start(a))

-----------------------------------------------------------------------------
TypeOK ==
  /\ platform \in Platforms
  /\ cmd \in { "idle", "config", "aside", "write", "chmod", "login", "unload", "start", "remove" }
  /\ newKey \in NewKeys \cup { NoKey } /\ applied \in NewKeys \cup { NoKey }
  /\ config \in File /\ bak \in BOOLEAN /\ wakatime \in BOOLEAN
  /\ carried \in Pins /\ owed \in BOOLEAN /\ unstopped \in BOOLEAN
  /\ entry \in BOOLEAN /\ enabled \in BOOLEAN /\ loaded \in BOOLEAN /\ online \in BOOLEAN
  /\ agent \in [ Slots -> { "none", "booting", "opening", "running" } ]
  /\ key \in [ Slots -> Keys \cup { NoKey } ]
  /\ \A a \in Slots : agent[a] \in { "opening", "running" } <=> key[a] # NoKey
  /\ ~online => Idle /\ ~loaded /\ agent = [ a \in Slots |-> "none" ]
  /\ loaded => Managed
  /\ cmd = "unload" => platform = "darwin"

\* "removed: the agent is stopped and will no longer start at login": once the
\* plist or unit is gone the service is neither running nor respawned; where the
\* manager did not do as asked, which uninstall does not look at, from the next
\* logout on.
RemovedIsStopped ==
  Managed /\ ~entry /\ ~unstopped => ~loaded /\ agent[Service] = "none"

\* "An existing config keeps its hand-pinned projects", and an unreadable one
\* is "kept alongside for reference": at any moment, also when a command was
\* killed half way, the pins the user saved last are in the config or in its
\* backup.  They are lost (owed) in four ways only: an unreadable config could
\* not be moved and is written over; writing failed; a second unreadable config
\* was moved over the backup that held them; or the user saved them after setup
\* had read the file.
PinsKept == owed => config.pins # "none" \/ bak

\* Nothing but an unreadable config, or a missing project or WakaTime, keeps an
\* agent from starting with what setup wrote.
Undisturbed ==
  Idle /\ online /\ config.decodes /\ config.pins # "gone" /\ wakatime
KeyRuns(k) ==
  applied = k ~> \/ \E a \in Slots : agent[a] = "running" /\ key[a] = k
                \/ applied # k \/ ~Undisturbed

\* "It is safe to re-run --- that is how an upgrade or a new key is applied":
\* after a setup that finished an agent comes to run with its key, whatever the
\* config was before.
NewKeyRuns == \A k \in NewKeys : KeyRuns(k)

\* The same where a manager restarts the agent ("restart, not start"), unless one
\* started by hand has the lock: setup stops none but the service's.
LockTaken == \E a \in Slots \ { Service } : agent[a] = "running"
ManagedKeyRuns ==
  Managed => \A k \in NewKeys :
    applied = k ~> \/ agent[Service] = "running" /\ key[Service] = k
                  \/ applied # k \/ ~Undisturbed \/ LockTaken

\* "Starting it twice is harmless: the second copy cannot lock the queue file
\* and exits": however many copies are started, one comes to run.
OneRuns ==
  applied # NoKey ~> \/ \E a \in Slots : agent[a] = "running"
                    \/ applied = NoKey \/ ~Undisturbed
=============================================================================
