------------------------- MODULE ProviderLifecycle --------------------------
(***************************************************************************)
(* Starting, stopping and updating one streaming provider: start_provider, *)
(* stop_provider and provider_update of apmodule/vcamctl, and the runner   *)
(* process of apmodule/provider-runner.sh with its child processes.        *)
(*                                                                         *)
(* Clients are vcamctl processes; vcamd forks one per request.  A step is  *)
(* one file operation, one signal or one process event; neighbouring       *)
(* operations no other process can tell apart are one step.  A "direct"    *)
(* provider (http, rtsp, video, and hls with its short preparation) soon   *)
(* spawns its streamer; a "staged" one (https) first runs a download.      *)
(* A provider's directory exists throughout, so the runner finds its meta. *)
(***************************************************************************)
EXTENDS Naturals

CONSTANTS
  Client,      \* vcamctl processes
  MaxRunners   \* bound, by provider type: runner processes ever started

Types == DOMAIN MaxRunners

ASSUME LifecycleAssumption ==
  Types \subseteq {"direct", "staged"} /\ MaxRunners \in [Types -> Nat]

Runner  == UNION {1..MaxRunners[t] : t \in Types}
Pid     == Runner \cup {0}
Configs == {"old", "new"}

VARIABLES
  type,
  meta, runtime,               \* meta; source.cfg and the view files
  enabled, autostart, pidFile, \* marker files; 0: no stream.pid
  frame,                       \* runner whose streamer wrote frame.rgb, or 0
  spawned,                     \* runners started so far
  rpc, term, config,           \* per runner: position, pending TERM, configuration read
  child, childTerm,            \* its child process, and whether that got a TERM
  pc, ret, caller,             \* per client: next step, where stop and start return
  mine, target, snap,          \* pid of nohup; pid and child seen by stop
  backup, wasEnabled, result

files   == <<meta, runtime, enabled, autostart, pidFile, frame>>
procs   == <<spawned, rpc, term, config, child, childTerm>>
clients == <<pc, ret, caller, mine, target, snap, backup, wasEnabled, result>>
vars == <<type, files, procs, clients>>

StopSteps  == {"readPid", "snapshot", "killChildren", "killRunner", "await", "killNine",
               "removePid", "removeEnabled"}
StartSteps == {"autostart", "findRunner", "touchEnabled", "spawn", "writePid", "poll"}
UpdateSteps == {"writeMeta", "writeRuntime", "restoreMeta", "restoreRuntime"}

(* Types; and the signalling steps of stop_provider have a pid to signal.  *)
TypeOK ==
  /\ type \in Types
  /\ meta \in Configs /\ runtime \in Configs
  /\ enabled \in BOOLEAN /\ autostart \in BOOLEAN
  /\ pidFile \in Pid /\ frame \in Pid /\ spawned \in Pid
  /\ rpc \in [Runner -> {"none", "boot", "armed", "fetch", "fetched", "stream", "exit", "dead"}]
  /\ term \in [Runner -> BOOLEAN] /\ childTerm \in [Runner -> BOOLEAN]
  /\ child \in [Runner -> {"none", "fetcher", "streamer"}]
  /\ config \in [Runner -> Configs]
  /\ pc \in [Client -> {"idle"} \cup StopSteps \cup StartSteps \cup UpdateSteps]
  /\ ret \in [Client -> {"stopped", "launch", "failed", "restart"}]
  /\ caller \in [Client -> {"start", "update", "restore"}]
  /\ mine \in [Client -> Pid] /\ target \in [Client -> Pid]
  /\ snap \in [Client -> {"none", "fetcher", "streamer"}]
  /\ backup \in [Client -> Configs] /\ wasEnabled \in [Client -> BOOLEAN]
  /\ result \in [Client -> {"none", "stopped", "started", "startFailed", "updated", "updateFailed"}]
  /\ \A c \in Client :
       pc[c] \in {"snapshot", "killChildren", "killRunner", "await", "killNine"} => target[c] # 0

Init ==
  /\ type \in Types
  /\ meta = "old" /\ runtime = "old"
  /\ enabled = FALSE /\ autostart = FALSE /\ pidFile = 0 /\ frame = 0
  /\ spawned = 0
  /\ rpc = [r \in Runner |-> "none"] /\ term = [r \in Runner |-> FALSE]
  /\ child = [r \in Runner |-> "none"] /\ childTerm = [r \in Runner |-> FALSE]
  /\ config = [r \in Runner |-> "old"]
  /\ pc = [c \in Client |-> "idle"] /\ ret = [c \in Client |-> "stopped"]
  /\ caller = [c \in Client |-> "start"]
  /\ mine = [c \in Client |-> 0] /\ target = [c \in Client |-> 0]
  /\ snap = [c \in Client |-> "none"]
  /\ backup = [c \in Client |-> "old"] /\ wasEnabled = [c \in Client |-> FALSE]
  /\ result = [c \in Client |-> "none"]

Alive(r) == rpc[r] \notin {"none", "dead"}

-----------------------------------------------------------------------------
(* The runner.  Its TERM trap removes the marker and does not exit; the    *)
(* shell runs it between commands, so not while a child is in foreground.  *)

RunnerAt(r, from, to) == rpc[r] = from /\ rpc' = [rpc EXCEPT ![r] = to]
SetChild(r, k) ==
  child' = [child EXCEPT ![r] = k] /\ childTerm' = [childTerm EXCEPT ![r] = FALSE]

(* Reads meta, then installs the trap.                                     *)
RunnerBoots(r) ==
  /\ RunnerAt(r, "boot", "armed")
  /\ config' = [config EXCEPT ![r] = meta]
  /\ UNCHANGED <<type, files, spawned, term, child, childTerm, clients>>

TrapRuns(r) ==
  /\ rpc[r] \in {"armed", "fetched"} /\ term[r]
  /\ enabled' = FALSE
  /\ term' = [term EXCEPT ![r] = FALSE]
  /\ UNCHANGED <<type, meta, runtime, autostart, pidFile, frame, spawned, rpc, child, childTerm,
                 config, clients>>

(* A missing streamer or downloader ends the script.                       *)
RunnerSpawnsChild(r) ==
  /\ ~term[r]
  /\ \/ type = "staged" /\ RunnerAt(r, "armed", "fetch") /\ SetChild(r, "fetcher")
     \/ type = "direct" /\ RunnerAt(r, "armed", "stream") /\ SetChild(r, "streamer")
     \/ RunnerAt(r, "fetched", "stream") /\ SetChild(r, "streamer")
     \/ RunnerAt(r, "armed", "exit") /\ UNCHANGED <<child, childTerm>>
  /\ UNCHANGED <<type, files, spawned, term, config, clients>>

FetchEnds(r) ==
  /\ child[r] = "fetcher" /\ SetChild(r, "none")
  /\ \/ RunnerAt(r, "fetch", "fetched") /\ ~childTerm[r]
     \/ RunnerAt(r, "fetch", "exit")
     \/ rpc[r] = "dead" /\ UNCHANGED rpc
  /\ UNCHANGED <<type, files, spawned, term, config, clients>>

StreamerWrites(r) ==
  /\ child[r] = "streamer" /\ frame' = r
  /\ UNCHANGED <<type, meta, runtime, enabled, autostart, pidFile, procs, clients>>

StreamEnds(r) ==
  /\ child[r] = "streamer" /\ SetChild(r, "none")
  /\ \/ RunnerAt(r, "stream", "exit")
     \/ rpc[r] = "dead" /\ UNCHANGED rpc
  /\ UNCHANGED <<type, files, spawned, term, config, clients>>

(* The EXIT trap.                                                          *)
RunnerExits(r) ==
  /\ RunnerAt(r, "exit", "dead")
  /\ enabled' = FALSE
  /\ UNCHANGED <<type, meta, runtime, autostart, pidFile, frame, spawned, term, child, childTerm,
                 config, clients>>

RunnerStep(r) ==
  \/ RunnerBoots(r) \/ TrapRuns(r) \/ RunnerSpawnsChild(r) \/ FetchEnds(r)
  \/ StreamerWrites(r) \/ StreamEnds(r) \/ RunnerExits(r)

-----------------------------------------------------------------------------
Go(c, step) == pc' = [pc EXCEPT ![c] = step]
From(c, step, next) == pc[c] = step /\ Go(c, next)
Done(c, outcome) == Go(c, "idle") /\ result' = [result EXCEPT ![c] = outcome]

(* stop_provider: the step after it is ret[c].                             *)
CallStop(c, back) == Go(c, "readPid") /\ ret' = [ret EXCEPT ![c] = back]

ReadPid(c) ==
  /\ pc[c] = "readPid"
  /\ target' = [target EXCEPT ![c] = pidFile]
  /\ Go(c, IF pidFile = 0 THEN "removeEnabled" ELSE "snapshot")
  /\ UNCHANGED <<type, files, procs, ret, caller, mine, snap, backup, wasEnabled, result>>

(* Whether the pid is a runner (its cmdline), and pgrep -P.                *)
Snapshot(c) ==
  /\ pc[c] = "snapshot"
  /\ LET r == target[c] IN
       IF Alive(r)
       THEN Go(c, "killChildren") /\ snap' = [snap EXCEPT ![c] = child[r]]
       ELSE Go(c, "removePid") /\ UNCHANGED snap
  /\ UNCHANGED <<type, files, procs, ret, caller, mine, target, backup, wasEnabled, result>>

ListedChildLives(c) == snap[c] # "none" /\ child[target[c]] = snap[c]

(* TERM to the children that pgrep listed: they end in their own time.     *)
KillChildren(c) ==
  /\ From(c, "killChildren", "killRunner")
  /\ childTerm' = [childTerm EXCEPT ![target[c]] = @ \/ ListedChildLives(c)]
  /\ UNCHANGED <<type, files, spawned, rpc, term, config, child, ret, caller, mine, target,
                 snap, backup, wasEnabled, result>>

(* TERM to the runner: before its trap is installed it dies at once.       *)
KillRunner(c) ==
  /\ From(c, "killRunner", "await")
  /\ LET r == target[c] IN
       IF rpc[r] = "boot"
       THEN rpc' = [rpc EXCEPT ![r] = "dead"] /\ UNCHANGED term
       ELSE term' = [term EXCEPT ![r] = Alive(r)] /\ UNCHANGED rpc
  /\ UNCHANGED <<type, files, spawned, config, child, childTerm, ret, caller, mine, target, snap,
                 backup, wasEnabled, result>>

StillAlive(c) == Alive(target[c]) \/ ListedChildLives(c)

(* Mutant: stop does not wait for the processes that it signalled.         *)
DoNotAwait(c) ==
  /\ From(c, "await", "removePid")
  /\ UNCHANGED <<type, files, procs, ret, caller, mine, target, snap, backup, wasEnabled, result>>

(* Mutant: stop waits for as long as the processes take.                   *)
AwaitForever(c) ==
  /\ From(c, "await", "removePid") /\ ~StillAlive(c)
  /\ UNCHANGED <<type, files, procs, ret, caller, mine, target, snap, backup, wasEnabled, result>>

(* Polls for two seconds.                                                  *)
AwaitExit(c) ==
  /\ pc[c] = "await"
  /\ \/ ~StillAlive(c) /\ Go(c, "removePid")
     \/ StillAlive(c) /\ Go(c, "killNine")
  /\ UNCHANGED <<type, files, procs, ret, caller, mine, target, snap, backup, wasEnabled, result>>

(* Mutant: only the runner is killed.                                      *)
KillNineRunnerOnly(c) ==
  /\ From(c, "killNine", "removePid")
  /\ rpc' = [rpc EXCEPT ![target[c]] = "dead"]
  /\ UNCHANGED <<type, files, spawned, term, config, child, childTerm, ret, caller, mine, target,
                 snap, backup, wasEnabled, result>>

(* KILL to the runner and to the listed children that are left.            *)
KillNine(c) ==
  /\ From(c, "killNine", "removePid")
  /\ rpc' = [rpc EXCEPT ![target[c]] = "dead"]
  /\ IF ListedChildLives(c) THEN SetChild(target[c], "none") ELSE UNCHANGED <<child, childTerm>>
  /\ UNCHANGED <<type, files, spawned, term, config, ret, caller, mine, target, snap, backup,
                 wasEnabled, result>>

RemovePid(c) ==
  /\ From(c, "removePid", "removeEnabled")
  /\ pidFile' = 0
  /\ UNCHANGED <<type, meta, runtime, enabled, autostart, frame, procs, ret, caller, mine,
                 target, snap, backup, wasEnabled, result>>

(* A start that fails returns to its caller, of which provider_update      *)
(* goes on to restore the old configuration.                               *)
StartFails(c) ==
  \/ caller[c] = "start" /\ Done(c, "startFailed")
  \/ caller[c] = "update" /\ Go(c, "restoreMeta") /\ UNCHANGED result
  \/ caller[c] = "restore" /\ Done(c, "updateFailed")

(* The end of stop_provider, and the return to its caller.                 *)
RemoveEnabled(c) ==
  /\ pc[c] = "removeEnabled"
  /\ enabled' = FALSE
  /\ autostart' = (autostart /\ ret[c] \in {"launch", "failed"})
  /\ \/ ret[c] = "stopped" /\ Done(c, "stopped")
     \/ ret[c] = "launch" /\ Go(c, "findRunner") /\ UNCHANGED result
     \/ ret[c] = "restart" /\ Go(c, "autostart") /\ UNCHANGED result
     \/ ret[c] = "failed" /\ StartFails(c)
  /\ UNCHANGED <<type, meta, runtime, pidFile, frame, procs, ret, caller, mine, target, snap,
                 backup, wasEnabled>>

Stop(c) ==
  /\ pc[c] = "idle"
  /\ CallStop(c, "stopped")
  /\ UNCHANGED <<type, files, procs, caller, mine, target, snap, backup, wasEnabled, result>>

-----------------------------------------------------------------------------
(* start_provider for a streaming type.                                    *)

CallStart(c, who) == Go(c, "autostart") /\ caller' = [caller EXCEPT ![c] = who]

Start(c) ==
  /\ pc[c] = "idle" /\ spawned < MaxRunners[type]
  /\ CallStart(c, "start")
  /\ UNCHANGED <<type, files, procs, ret, mine, target, snap, backup, wasEnabled, result>>

TouchAutostart(c) ==
  /\ pc[c] = "autostart" /\ CallStop(c, "launch")
  /\ autostart' = TRUE
  /\ UNCHANGED <<type, meta, runtime, enabled, pidFile, frame, procs, caller, mine, target,
                 snap, backup, wasEnabled, result>>

FindRunner(c) ==
  /\ pc[c] = "findRunner"
  /\ \/ Go(c, "touchEnabled") /\ UNCHANGED result
     \/ StartFails(c)
  /\ UNCHANGED <<type, files, procs, ret, caller, mine, target, snap, backup, wasEnabled>>

(* Mutant: the frame of the last run is left in place.                     *)
TouchEnabledOnly(c) ==
  /\ From(c, "touchEnabled", "spawn")
  /\ enabled' = TRUE
  /\ UNCHANGED <<type, meta, runtime, autostart, pidFile, frame, procs, ret, caller, mine, target,
                 snap, backup, wasEnabled, result>>

TouchEnabled(c) ==
  /\ From(c, "touchEnabled", "spawn")
  /\ frame' = 0 /\ enabled' = TRUE
  /\ UNCHANGED <<type, meta, runtime, autostart, pidFile, procs, ret, caller, mine, target,
                 snap, backup, wasEnabled, result>>

SpawnRunner(c) ==
  /\ From(c, "spawn", "writePid") /\ spawned < MaxRunners[type]
  /\ spawned' = spawned + 1
  /\ rpc' = [rpc EXCEPT ![spawned + 1] = "boot"]
  /\ mine' = [mine EXCEPT ![c] = spawned + 1]
  /\ UNCHANGED <<type, files, term, config, child, childTerm, ret, caller, target, snap, backup,
                 wasEnabled, result>>

WritePid(c) ==
  /\ From(c, "writePid", "poll")
  /\ pidFile' = mine[c]
  /\ UNCHANGED <<type, meta, runtime, enabled, autostart, frame, procs, ret, caller, mine,
                 target, snap, backup, wasEnabled, result>>

(* provider_update reports a failure also when the old configuration runs  *)
(* again.                                                                  *)
StartSucceeds(c) ==
  \/ caller[c] = "start" /\ Done(c, "started")
  \/ caller[c] = "update" /\ Done(c, "updated")
  \/ caller[c] = "restore" /\ Done(c, "updateFailed")

(* Polls for 15 seconds, in which a runner gets as far as its first child. *)
PollFrame(c) ==
  /\ pc[c] = "poll"
  /\ \/ frame # 0 /\ StartSucceeds(c) /\ UNCHANGED ret
     \/ /\ frame = 0 /\ rpc[mine[c]] \notin {"boot", "armed"}
        /\ CallStop(c, "failed") /\ UNCHANGED result
  /\ UNCHANGED <<type, files, procs, caller, mine, target, snap, backup, wasEnabled>>

-----------------------------------------------------------------------------
(* provider_update of a streaming type: the restart it may need uses up to *)
(* two runners.                                                            *)
Update(c) ==
  /\ pc[c] = "idle" /\ spawned + 2 <= MaxRunners[type]
  /\ Go(c, "writeMeta")
  /\ backup' = [backup EXCEPT ![c] = meta]
  /\ wasEnabled' = [wasEnabled EXCEPT ![c] = enabled \/ autostart]
  /\ caller' = [caller EXCEPT ![c] = "update"]
  /\ UNCHANGED <<type, files, procs, ret, mine, target, snap, result>>

WriteMeta(c) ==
  /\ From(c, "writeMeta", "writeRuntime")
  /\ meta' \in Configs
  /\ UNCHANGED <<type, runtime, enabled, autostart, pidFile, frame, procs, ret, caller, mine,
                 target, snap, backup, wasEnabled, result>>

(* write_runtime_config always succeeds: its last command does.            *)
WriteRuntime(c) ==
  /\ pc[c] = "writeRuntime"
  /\ runtime' = meta
  /\ IF wasEnabled[c]
     THEN CallStop(c, "restart") /\ UNCHANGED result
     ELSE Done(c, "updated") /\ UNCHANGED ret
  /\ UNCHANGED <<type, meta, enabled, autostart, pidFile, frame, procs, caller, mine, target,
                 snap, backup, wasEnabled>>

(* Mutant: the backup is put back, but not the runtime configuration.      *)
RestoreMetaOnly(c) ==
  /\ From(c, "restoreMeta", "autostart")
  /\ meta' = backup[c]
  /\ caller' = [caller EXCEPT ![c] = "restore"]
  /\ UNCHANGED <<type, runtime, enabled, autostart, pidFile, frame, procs, ret, mine,
                 target, snap, backup, wasEnabled, result>>

RestoreMeta(c) ==
  /\ From(c, "restoreMeta", "restoreRuntime")
  /\ meta' = backup[c]
  /\ UNCHANGED <<type, runtime, enabled, autostart, pidFile, frame, procs, ret, caller, mine,
                 target, snap, backup, wasEnabled, result>>

RestoreRuntime(c) ==
  /\ pc[c] = "restoreRuntime"
  /\ runtime' = meta
  /\ CallStart(c, "restore")
  /\ UNCHANGED <<type, meta, enabled, autostart, pidFile, frame, procs, ret, mine, target,
                 snap, backup, wasEnabled, result>>

-----------------------------------------------------------------------------
ClientStep(c) ==
  \/ ReadPid(c) \/ Snapshot(c) \/ KillChildren(c) \/ KillRunner(c) \/ AwaitExit(c) \/ KillNine(c)
  \/ RemovePid(c) \/ RemoveEnabled(c)
  \/ TouchAutostart(c) \/ FindRunner(c) \/ TouchEnabled(c) \/ SpawnRunner(c) \/ WritePid(c)
  \/ PollFrame(c)
  \/ WriteMeta(c) \/ WriteRuntime(c) \/ RestoreMeta(c) \/ RestoreRuntime(c)

Next ==
  \/ \E c \in Client : Stop(c) \/ Start(c) \/ Update(c) \/ ClientStep(c)
  \/ \E r \in Runner : RunnerStep(r)

Spec == Init /\ [][Next]_vars

(* A vcamctl process that runs a command keeps running, and so does a      *)
(* runner until it has a child to wait for.                                *)
FairSpec ==
  /\ Spec
  /\ \A c \in Client : WF_vars(ClientStep(c))
  /\ \A r \in Runner : WF_vars(RunnerBoots(r) \/ TrapRuns(r) \/ RunnerSpawnsChild(r))

-----------------------------------------------------------------------------
(* When start_provider creates the marker and launches a runner, every     *)
(* earlier runner and its children have exited.                            *)
ReplacementStartsAlone ==
  \A c \in Client, r \in Runner :
    \/ pc[c] \in {"touchEnabled", "spawn"}
    \/ pc[c] \in {"writePid", "poll"} /\ r # mine[c]
    => ~Alive(r) /\ child[r] = "none"

(* A stop is complete for a direct provider: stop_provider, and a          *)
(* start_provider that fails, leave no runner, no child of one and no      *)
(* `enabled` marker, and a replacement starts alone.                       *)
StopIsComplete ==
  type = "direct" =>
    /\ ReplacementStartsAlone
    /\ \A c \in Client : pc[c] = "idle" /\ result[c] \in {"stopped", "startFailed"} =>
         ~enabled /\ \A r \in Runner : ~Alive(r) /\ child[r] = "none"

(* While no command runs, a provider that streams has its marker: no trap  *)
(* of an earlier runner has removed it.                                    *)
StreamHasMarker ==
  (\A c \in Client : pc[c] = "idle") => \A r \in Runner : rpc[r] = "stream" => enabled

(* While no command runs, metadata, the HAL's runtime files and a running  *)
(* provider hold one configuration, and after provider_update has reported *)
(* a failed restart it is the one the update found.                        *)
UpdateIsConsistent ==
  (\A c \in Client : pc[c] = "idle") =>
    /\ runtime = meta /\ \A r \in Runner : Alive(r) /\ rpc[r] # "boot" => config[r] = meta
    /\ \A c \in Client : result[c] = "updateFailed" => meta = backup[c]

(* start_provider of a direct provider reports success on a frame of the   *)
(* runner it launched, never on the output of an earlier one.              *)
FirstFrameIsNew ==
  [][type = "direct" => \A c \in Client : pc[c] = "poll" /\ pc'[c] = "idle" => frame = mine[c]]_vars

(* Every command returns, whether or not the processes heed a TERM and     *)
(* whether or not the source ever produces a frame.                        *)
CommandsReturn == \A c \in Client : pc[c] # "idle" ~> pc[c] = "idle"
=============================================================================
