----------------------- MODULE ProviderLifecycleProofs ----------------------
(***************************************************************************)
(* Proofs about ProviderLifecycle, for both kinds of providers and any     *)
(* number of runners, of what holds while one vcamctl command runs at a    *)
(* time.  The commands take no lock, and two at once can undo each other.  *)
(***************************************************************************)
EXTENDS ProviderLifecycle, TLAPS

(* One vcamctl process at a time runs commands for the provider.           *)
OneClient == \E c : Client = {c}

-----------------------------------------------------------------------------
(* The inductive invariant.                                                *)

Signalling == {"snapshot", "killChildren", "killRunner", "await", "killNine"}

(* Only the runner started last can be alive, and the child that it waits  *)
(* for exists.                                                             *)
RunnerOK(r) ==
  /\ r > spawned => rpc[r] = "none" /\ child[r] = "none" /\ ~term[r]
  /\ Alive(r) => r = spawned
  /\ rpc[r] \in {"boot", "armed", "fetched", "exit"} => child[r] = "none"
  /\ rpc[r] = "fetch" => child[r] = "fetcher"
  /\ rpc[r] = "stream" => child[r] = "streamer"
RunnerInv ==
  /\ spawned \in 0..MaxRunners[type] /\ pidFile \in 0..spawned
  /\ \A r \in Runner : RunnerOK(r)

(* What stop_provider and start_provider know about stream.pid, which      *)
(* names the live runner from the step after its launch on.                *)
PidInv(c) ==
  /\ \A r \in Runner : Alive(r) => pidFile = r \/ pc[c] = "writePid"
  /\ pc[c] \in Signalling \cup {"removePid"} =>
       target[c] = pidFile /\ target[c] \in Runner
  /\ pc[c] = "removePid" => \A r \in Runner : ~Alive(r)
  /\ pc[c] \in {"removeEnabled", "findRunner", "touchEnabled", "spawn", "writePid",
                "restoreMeta", "restoreRuntime"} => pidFile = 0
  /\ pc[c] \in {"writePid", "poll"} => mine[c] = spawned /\ mine[c] \in Runner
  /\ pc[c] = "poll" => pidFile = spawned

(* A direct provider's runner is past its start when a command signals it, *)
(* so that pgrep lists its streamer, and no streamer outlives its runner.  *)
ChildInv(c) ==
  type = "direct" =>
    \A r \in Runner :
      /\ rpc[r] \notin {"fetch", "fetched"} /\ child[r] # "fetcher"
      /\ child[r] # "none" => Alive(r)
      /\ rpc[r] \in {"boot", "armed"} => pc[c] \in {"writePid", "poll"}

(* The streamer that a stop kills is the one that pgrep listed, and the    *)
(* frame that a start finds is one of its own runner.                      *)
FrameInv(c) ==
  type = "direct" =>
    /\ pc[c] \in {"killChildren", "killRunner", "await", "killNine"} =>
         child[target[c]] \in {"none", snap[c]}
    /\ pc[c] = "spawn" => frame = 0
    /\ pc[c] \in {"writePid", "poll"} /\ frame # 0 =>
         frame = mine[c] /\ rpc[mine[c]] \notin {"boot", "armed"}

(* The marker is missing beside a live runner only between the TERM and    *)
(* the end of a stop, and a TERM is pending only then.                     *)
MarkerInv(c) ==
  /\ \A r \in Runner : Alive(r) /\ (~enabled \/ term[r]) => pc[c] \in {"await", "killNine"}
  /\ pc[c] = "spawn" => enabled
  /\ pc[c] = "findRunner" => ~enabled
  /\ pc[c] = "idle" /\ result[c] \in {"stopped", "startFailed"} => ~enabled /\ pidFile = 0

(* The steps of provider_update at which a runner still has the old        *)
(* configuration.                                                          *)
Reconfiguring(c) == pc[c] = "writeRuntime" \/ (pc[c] \in StopSteps /\ ret[c] = "restart")

ConfigInv(c) ==
  /\ runtime = meta \/ pc[c] \in {"writeRuntime", "restoreRuntime"}
  /\ \A r \in Runner : Alive(r) /\ rpc[r] # "boot" => config[r] = meta \/ Reconfiguring(c)
  /\ pc[c] \in {"writeMeta", "writeRuntime"} /\ ~wasEnabled[c] => \A r \in Runner : ~Alive(r)
  /\ pc[c] \in UpdateSteps => caller[c] = "update"
  /\ caller[c] = "restore" \/ pc[c] = "restoreRuntime" => meta = backup[c]
  /\ pc[c] = "idle" /\ result[c] = "updateFailed" => meta = backup[c]

Safe(c) == RunnerInv /\ PidInv(c) /\ ChildInv(c) /\ FrameInv(c) /\ MarkerInv(c) /\ ConfigInv(c)
Inv == TypeOK /\ \A c \in Client : Safe(c)

-----------------------------------------------------------------------------
(* Process numbers are positive, and the ones within the bound of the      *)
(* provider's type are runners.                                            *)
LEMMA RunnerNumbers ==
  /\ Runner \subseteq Nat \ {0} /\ Pid \subseteq Nat
  /\ \A t \in Types : MaxRunners[t] \in Nat /\ \A n \in 1..MaxRunners[t] : n \in Runner
<1>1. \A t \in Types : MaxRunners[t] \in Nat
  BY LifecycleAssumption
<1>2. \A r \in Runner : \E t \in Types : r \in 1..MaxRunners[t]
  BY DEF Runner
<1>3. Runner \subseteq Nat \ {0} /\ Pid \subseteq Nat
  BY <1>1, <1>2 DEF Pid
<1>4. \A t \in Types : \A n \in 1..MaxRunners[t] : n \in Runner
  BY DEF Runner
<1> QED
  BY <1>1, <1>3, <1>4

(* The truth values that the processes and clients keep, whose type is     *)
(* proved on its own.                                                      *)
FlagTypes ==
  /\ enabled \in BOOLEAN /\ autostart \in BOOLEAN
  /\ term \in [Runner -> BOOLEAN] /\ childTerm \in [Runner -> BOOLEAN]
  /\ wasEnabled \in [Client -> BOOLEAN]

(* Every step of a runner or a command assigns truth values to them.       *)
LEMMA FlagTypesStep == FlagTypes /\ [Next]_vars => FlagTypes'
<1> SUFFICES ASSUME FlagTypes, [Next]_vars PROVE FlagTypes'
  OBVIOUS
<1> USE DEF FlagTypes, files, procs, clients
<1>1. ASSUME NEW r \in Runner, RunnerStep(r) PROVE FlagTypes'
  <2>1. CASE RunnerBoots(r) \/ StreamerWrites(r) \/ RunnerExits(r)
    BY <2>1, Zenon DEF RunnerBoots, StreamerWrites, RunnerExits
  <2>2. CASE TrapRuns(r)
    BY <2>2, Zenon DEF TrapRuns
  <2>3. CASE RunnerSpawnsChild(r)
    BY <2>3, Zenon DEF RunnerSpawnsChild, SetChild
  <2>4. CASE FetchEnds(r) \/ StreamEnds(r)
    BY <2>4, Zenon DEF FetchEnds, StreamEnds, SetChild
  <2> QED
    BY <1>1, <2>1, <2>2, <2>3, <2>4 DEF RunnerStep
<1>2. ASSUME NEW c \in Client, Stop(c) \/ Start(c) \/ Update(c) PROVE FlagTypes'
  <2>1. CASE Stop(c) \/ Start(c)
    BY <2>1, Zenon DEF Stop, Start
  <2>2. CASE Update(c)
    <3>1. (enabled \/ autostart) \in BOOLEAN
      BY Zenon
    <3> QED
      BY <2>2, <3>1, Zenon DEF Update
  <2> QED
    BY <1>2, <2>1, <2>2
<1>3. ASSUME NEW c \in Client, ClientStep(c) PROVE FlagTypes'
  <2>1. CASE ReadPid(c) \/ Snapshot(c) \/ AwaitExit(c) \/ RemovePid(c)
    BY <2>1, Zenon DEF ReadPid, Snapshot, AwaitExit, RemovePid
  <2>2. CASE KillChildren(c)
    <3>1. PICK v \in BOOLEAN : childTerm' = [childTerm EXCEPT ![target[c]] = v]
      <4>1. (childTerm[target[c]] \/ ListedChildLives(c)) \in BOOLEAN
        BY Zenon
      <4> QED
        BY <2>2, <4>1, Zenon DEF KillChildren
    <3> QED
      BY <2>2, <3>1, Zenon DEF KillChildren
  <2>3. CASE KillRunner(c)
    <3>1. PICK v \in BOOLEAN : term' = [term EXCEPT ![target[c]] = v] \/ term' = term
      <4>1. Alive(target[c]) \in BOOLEAN
        BY Zenon DEF Alive
      <4> QED
        BY <2>3, <4>1, Zenon DEF KillRunner
    <3> QED
      BY <2>3, <3>1, Zenon DEF KillRunner
  <2>4. CASE KillNine(c)
    BY <2>4, Zenon DEF KillNine, SetChild
  <2>5. CASE RemoveEnabled(c)
    <3>1. (autostart /\ ret[c] \in {"launch", "failed"}) \in BOOLEAN
      BY Zenon
    <3> QED
      BY <2>5, <3>1, Zenon DEF RemoveEnabled
  <2>6. CASE TouchAutostart(c) \/ FindRunner(c) \/ TouchEnabled(c) \/ SpawnRunner(c)
    BY <2>6, Zenon DEF TouchAutostart, FindRunner, TouchEnabled, SpawnRunner
  <2>7. CASE WritePid(c) \/ PollFrame(c) \/ WriteMeta(c) \/ WriteRuntime(c)
    BY <2>7, Zenon DEF WritePid, PollFrame, WriteMeta, WriteRuntime
  <2>8. CASE RestoreMeta(c) \/ RestoreRuntime(c)
    BY <2>8, Zenon DEF RestoreMeta, RestoreRuntime
  <2> QED
    BY <1>3, <2>1, <2>2, <2>3, <2>4, <2>5, <2>6, <2>7, <2>8 DEF ClientStep
<1>4. CASE UNCHANGED vars
  BY <1>4, Zenon DEF vars
<1> QED
  BY <1>1, <1>2, <1>3, <1>4 DEF Next

(* A runner's step keeps the types.                                        *)
LEMMA RunnerTypes ==
  ASSUME TypeOK, FlagTypes', NEW r \in Runner, RunnerStep(r) PROVE TypeOK'
<1> USE DEF FlagTypes, TypeOK, files, procs, clients, RunnerAt, SetChild, Pid
<1>1. CASE RunnerBoots(r)
  BY <1>1 DEF RunnerBoots
<1>2. CASE TrapRuns(r)
  BY <1>2 DEF TrapRuns
<1>3. CASE RunnerSpawnsChild(r)
  BY <1>3 DEF RunnerSpawnsChild
<1>4. CASE FetchEnds(r)
  BY <1>4 DEF FetchEnds
<1>5. CASE StreamerWrites(r)
  BY <1>5 DEF StreamerWrites
<1>6. CASE StreamEnds(r)
  BY <1>6 DEF StreamEnds
<1>7. CASE RunnerExits(r)
  BY <1>7 DEF RunnerExits
<1> QED
  BY <1>1, <1>2, <1>3, <1>4, <1>5, <1>6, <1>7, SMTT(30) DEF RunnerStep

(* So does a step of stop_provider.                                        *)
LEMMA StopTypes ==
  ASSUME NEW c \in Client, TypeOK, Safe(c), FlagTypes',
         \/ Stop(c) \/ ReadPid(c) \/ Snapshot(c) \/ KillChildren(c) \/ KillRunner(c)
         \/ AwaitExit(c) \/ KillNine(c) \/ RemovePid(c) \/ RemoveEnabled(c)
  PROVE  TypeOK'
<1> USE DEF FlagTypes, TypeOK, files, procs, clients, SetChild, Pid, Go, From, Done,
        CallStop, StopSteps, StartSteps, UpdateSteps
<1>1. CASE Stop(c)
  BY <1>1 DEF Stop
<1>2. CASE ReadPid(c)
  BY <1>2 DEF ReadPid
<1>3. CASE Snapshot(c)
  BY <1>3 DEF Snapshot
<1>4. CASE KillChildren(c)
  BY <1>4 DEF KillChildren
<1>5. CASE KillRunner(c)
  BY <1>5, SMTT(30) DEF KillRunner
<1>6. CASE AwaitExit(c)
  BY <1>6 DEF AwaitExit
<1>7. CASE KillNine(c)
  BY <1>7 DEF KillNine
<1>8. CASE RemovePid(c)
  BY <1>8 DEF RemovePid
<1>9. CASE RemoveEnabled(c)
  BY <1>9, SMTT(30) DEF RemoveEnabled, StartFails
<1> QED
  BY <1>1, <1>2, <1>3, <1>4, <1>5, <1>6, <1>7, <1>8, <1>9, Zenon

(* So does a step of start_provider or provider_update.                    *)
LEMMA StartTypes ==
  ASSUME NEW c \in Client, TypeOK, Safe(c), FlagTypes',
         \/ Start(c) \/ TouchAutostart(c) \/ FindRunner(c) \/ TouchEnabled(c)
         \/ SpawnRunner(c) \/ WritePid(c) \/ PollFrame(c) \/ Update(c) \/ WriteMeta(c)
         \/ WriteRuntime(c) \/ RestoreMeta(c) \/ RestoreRuntime(c)
  PROVE  TypeOK'
<1> USE DEF FlagTypes, TypeOK, files, procs, clients, Pid, Go, From, Done, CallStop,
        CallStart, StopSteps, StartSteps, UpdateSteps
<1>1. CASE Start(c)
  BY <1>1 DEF Start
<1>2. CASE TouchAutostart(c)
  BY <1>2 DEF TouchAutostart
<1>3. CASE FindRunner(c)
  BY <1>3 DEF FindRunner, StartFails
<1>4. CASE TouchEnabled(c)
  BY <1>4 DEF TouchEnabled
<1>5. CASE SpawnRunner(c)
  <2>1. spawned + 1 \in Runner
    BY <1>5, RunnerNumbers DEF SpawnRunner, Safe, RunnerInv
  <2> QED
    BY <1>5, <2>1 DEF SpawnRunner
<1>6. CASE WritePid(c)
  BY <1>6 DEF WritePid
<1>7. CASE PollFrame(c)
  BY <1>7, SMTT(30) DEF PollFrame, StartSucceeds
<1>8. CASE Update(c)
  BY <1>8 DEF Update
<1>9. CASE WriteMeta(c)
  BY <1>9 DEF WriteMeta
<1>10. CASE WriteRuntime(c)
  BY <1>10 DEF WriteRuntime
<1>11. CASE RestoreMeta(c)
  BY <1>11 DEF RestoreMeta
<1>12. CASE RestoreRuntime(c)
  BY <1>12 DEF RestoreRuntime
<1> QED
  BY <1>1, <1>2, <1>3, <1>4, <1>5, <1>6, <1>7, <1>8, <1>9, <1>10, <1>11, <1>12, Zenon

(* No process is alive at the steps at which stream.pid is missing, but    *)
(* for a runner whose number is about to be written.                       *)
LEMMA NoRunner ==
  ASSUME NEW c \in Client, Safe(c),
         pc[c] \in {"removeEnabled", "findRunner", "touchEnabled", "spawn", "restoreMeta",
                   "restoreRuntime"} \/ (pc[c] # "writePid" /\ pidFile = 0)
  PROVE  \A r \in Runner : ~Alive(r)
<1>1. pidFile = 0 /\ pc[c] # "writePid"
  BY Zenon DEF Safe, PidInv
<1>2. 0 \notin Runner
  BY RunnerNumbers
<1> QED
  BY <1>1, <1>2, Zenon DEF Safe, PidInv

(* A stop signals the only runner that can be alive.                       *)
LEMMA Signalled ==
  ASSUME NEW c \in Client, TypeOK, Safe(c), pc[c] \in Signalling \cup {"removePid"}
  PROVE  /\ target[c] \in Runner /\ target[c] = pidFile /\ ~(target[c] > spawned)
         /\ 0 \in 0..spawned
         /\ \A r \in Runner : Alive(r) => r = target[c]
<1>1. /\ target[c] \in Runner /\ target[c] = pidFile
      /\ \A r \in Runner : Alive(r) => r = target[c]
  BY Zenon DEF Safe, PidInv, Signalling
<1>2. MaxRunners[type] \in Nat /\ spawned \in 0..MaxRunners[type] /\ pidFile \in 0..spawned
  BY RunnerNumbers, Zenon DEF TypeOK, Safe, RunnerInv
<1>3. ~(pidFile > spawned) /\ 0 \in 0..spawned
  BY <1>2
<1> QED
  BY <1>1, <1>3, Zenon

(* The number of the next runner is within the bound and not used yet.     *)
LEMMA NextRunner ==
  ASSUME TypeOK, RunnerInv, spawned < MaxRunners[type]
  PROVE  /\ spawned + 1 \in Runner /\ spawned + 1 \in 0..MaxRunners[type]
         /\ pidFile \in 0..(spawned + 1)
         /\ \A q \in Runner : q > spawned + 1 => q > spawned /\ q # spawned + 1
         /\ ~term[spawned + 1] /\ child[spawned + 1] = "none"
<1>1. MaxRunners[type] \in Nat /\ spawned \in 0..MaxRunners[type] /\ pidFile \in 0..spawned
  BY RunnerNumbers, Zenon DEF TypeOK, RunnerInv
<1>2. spawned + 1 \in 1..MaxRunners[type] /\ spawned + 1 > spawned
  BY <1>1
<1>3. spawned + 1 \in Runner
  BY <1>2, RunnerNumbers, Zenon DEF TypeOK
<1>4. spawned + 1 \in 0..MaxRunners[type] /\ pidFile \in 0..(spawned + 1)
  BY <1>1, <1>2
<1>5. \A q \in Runner : q > spawned + 1 => q > spawned /\ q # spawned + 1
  BY <1>1, RunnerNumbers
<1>6. ~term[spawned + 1] /\ child[spawned + 1] = "none"
  BY <1>2, <1>3, Zenon DEF RunnerInv, RunnerOK
<1> QED
  BY <1>3, <1>4, <1>5, <1>6

(* A start that has launched its runner waits for the last one.            *)
LEMMA LastRunner ==
  ASSUME NEW c \in Client, TypeOK, Safe(c), pc[c] \in {"writePid", "poll"}
  PROVE  /\ mine[c] = spawned /\ mine[c] \in Runner /\ spawned \in 0..spawned
         /\ \A r \in Runner : Alive(r) => r = spawned
<1>1. /\ mine[c] = spawned /\ mine[c] \in Runner
      /\ \A r \in Runner : Alive(r) => r = spawned
  BY Zenon DEF Safe, RunnerInv, RunnerOK, PidInv
<1>2. mine[c] \in Nat
  BY <1>1, RunnerNumbers, Zenon
<1> QED
  BY <1>1, <1>2

(* A runner that has read meta has the current configuration.              *)
LEMMA RunnerBootsKeeps ==
  ASSUME NEW c \in Client, NEW r \in Runner, TypeOK, Safe(c), RunnerBoots(r)
  PROVE  Safe(c)'
<1>1. /\ rpc[r] = "boot" /\ \A q \in Runner : rpc'[q] = (IF q = r THEN "armed" ELSE rpc[q])
      /\ \A q \in Runner : config'[q] = (IF q = r THEN meta ELSE config[q])
      /\ UNCHANGED <<type, files, spawned, term, child, clients>>
  BY DEF RunnerBoots, RunnerAt, TypeOK
<1>2. r = spawned /\ (pidFile = r \/ pc[c] = "writePid")
  BY <1>1, Zenon DEF Safe, RunnerInv, RunnerOK, PidInv, Alive
<1>3. RunnerInv'
  BY <1>1, <1>2, Zenon DEF Safe, RunnerInv, RunnerOK, Alive, files, clients
<1>4. PidInv(c)'
  BY <1>1, <1>2, Zenon DEF Safe, PidInv, Signalling, RunnerInv, RunnerOK, Alive, files,
     clients
<1>5. ChildInv(c)'
  BY <1>1, <1>2, Zenon DEF Safe, ChildInv, Alive, files, clients
<1>6. FrameInv(c)'
  BY <1>1, <1>2, Zenon DEF Safe, FrameInv, RunnerInv, RunnerOK, PidInv, Signalling,
     ChildInv, Alive, files, clients
<1>7. MarkerInv(c)'
  BY <1>1, <1>2, Zenon DEF Safe, MarkerInv, Alive, files, clients
<1>8. ConfigInv(c)'
  BY <1>1, <1>2, Zenon DEF Safe, ConfigInv, Reconfiguring, Alive, files, clients
<1> QED
  BY <1>3, <1>4, <1>5, <1>6, <1>7, <1>8, Zenon DEF Safe

(* The TERM trap runs only while a stop waits for the runner.              *)
LEMMA TrapRunsKeeps ==
  ASSUME NEW c \in Client, NEW r \in Runner, TypeOK, Safe(c), TrapRuns(r)
  PROVE  Safe(c)'
<1>1. /\ rpc[r] \in {"armed", "fetched"} /\ term[r] /\ ~enabled'
      /\ \A q \in Runner : term'[q] = (IF q = r THEN FALSE ELSE term[q])
      /\ UNCHANGED <<type, meta, runtime, autostart, pidFile, frame, spawned, rpc, child,
                     config, clients>>
  BY DEF TrapRuns, TypeOK
<1>2. RunnerInv'
  BY <1>1, Zenon DEF Safe, RunnerInv, RunnerOK, Alive, clients
<1>3. PidInv(c)'
  BY <1>1, Zenon DEF Safe, PidInv, Signalling, RunnerInv, RunnerOK, Alive, clients
<1>4. ChildInv(c)'
  BY <1>1, Zenon DEF Safe, ChildInv, Alive, clients
<1>5. FrameInv(c)'
  BY <1>1, Zenon DEF Safe, FrameInv, RunnerInv, RunnerOK, PidInv, Signalling, ChildInv,
     Alive, clients
<1>6. MarkerInv(c)'
  BY <1>1, Zenon DEF Safe, MarkerInv, Alive, clients
<1>7. ConfigInv(c)'
  BY <1>1, Zenon DEF Safe, ConfigInv, Reconfiguring, Alive, clients
<1> QED
  BY <1>2, <1>3, <1>4, <1>5, <1>6, <1>7, Zenon DEF Safe

(* A runner that starts a child waits for it.                              *)
LEMMA RunnerSpawnsChildKeeps ==
  ASSUME NEW c \in Client, NEW r \in Runner, TypeOK, Safe(c), RunnerSpawnsChild(r)
  PROVE  Safe(c)'
<1>1. /\ \E to \in {"fetch", "stream", "exit"}, k \in {"none", "fetcher", "streamer"} :
           /\ rpc[r] \in {"armed", "fetched"} /\ (to = "fetch" => type = "staged")
           /\ k = (IF to = "fetch" THEN "fetcher"
                   ELSE IF to = "stream" THEN "streamer" ELSE child[r])
           /\ \A q \in Runner : rpc'[q] = (IF q = r THEN to ELSE rpc[q])
           /\ \A q \in Runner : child'[q] = (IF q = r THEN k ELSE child[q])
      /\ UNCHANGED <<type, files, spawned, term, config, clients>>
  BY DEF RunnerSpawnsChild, RunnerAt, SetChild, TypeOK
<1>2. RunnerInv'
  BY <1>1, ZenonT(40) DEF Safe, RunnerInv, RunnerOK, Alive, files, clients
<1>3. PidInv(c)'
  BY <1>1, Zenon DEF Safe, PidInv, Signalling, RunnerInv, RunnerOK, Alive, files, clients
<1>4. ChildInv(c)'
  BY <1>1, Zenon DEF Safe, ChildInv, Alive, files, clients
<1>5. FrameInv(c)'
  BY <1>1, Zenon DEF Safe, FrameInv, RunnerInv, RunnerOK, PidInv, Signalling, ChildInv,
     Alive, files, clients
<1>6. MarkerInv(c)'
  BY <1>1, Zenon DEF Safe, MarkerInv, Alive, files, clients
<1>7. ConfigInv(c)'
  BY <1>1, Zenon DEF Safe, ConfigInv, Reconfiguring, Alive, files, clients
<1> QED
  BY <1>2, <1>3, <1>4, <1>5, <1>6, <1>7, Zenon DEF Safe

(* So does the end of a download,                                          *)
LEMMA FetchEndsKeeps ==
  ASSUME NEW c \in Client, NEW r \in Runner, TypeOK, Safe(c), FetchEnds(r)
  PROVE  Safe(c)'
<1>1. /\ child[r] = "fetcher" /\ \A q \in Runner : child'[q] = (IF q = r THEN "none" ELSE child[q])
      /\ \/ rpc[r] = "dead" /\ UNCHANGED rpc
         \/ /\ rpc[r] = "fetch"
            /\ \E to \in {"fetched", "exit"} :
                 \A q \in Runner : rpc'[q] = (IF q = r THEN to ELSE rpc[q])
      /\ UNCHANGED <<type, files, spawned, term, config, clients>>
  BY DEF FetchEnds, RunnerAt, SetChild, TypeOK
<1>2. RunnerInv'
  BY <1>1, ZenonT(40) DEF Safe, RunnerInv, RunnerOK, Alive, files, clients
<1>3. PidInv(c)'
  BY <1>1, Zenon DEF Safe, PidInv, Signalling, RunnerInv, RunnerOK, Alive, files, clients
<1>4. ChildInv(c)'
  BY <1>1, Zenon DEF Safe, ChildInv, Alive, files, clients
<1>5. FrameInv(c)'
  BY <1>1, Zenon DEF Safe, FrameInv, RunnerInv, RunnerOK, PidInv, Signalling, ChildInv,
     Alive, files, clients
<1>6. MarkerInv(c)'
  BY <1>1, Zenon DEF Safe, MarkerInv, Alive, files, clients
<1>7. ConfigInv(c)'
  BY <1>1, Zenon DEF Safe, ConfigInv, Reconfiguring, Alive, files, clients
<1> QED
  BY <1>2, <1>3, <1>4, <1>5, <1>6, <1>7, Zenon DEF Safe

(* a frame, which for a direct provider is one of the runner launched last,*)
LEMMA StreamerWritesKeeps ==
  ASSUME NEW c \in Client, NEW r \in Runner, TypeOK, Safe(c), StreamerWrites(r)
  PROVE  Safe(c)'
<1>1. /\ child[r] = "streamer" /\ frame' = r
      /\ UNCHANGED <<type, meta, runtime, enabled, autostart, pidFile, procs, clients>>
  BY DEF StreamerWrites
<1>2. RunnerInv'
  BY <1>1, Zenon DEF Safe, RunnerInv, RunnerOK, Alive, procs, clients
<1>3. PidInv(c)'
  BY <1>1, Zenon DEF Safe, PidInv, Signalling, RunnerInv, RunnerOK, Alive, procs, clients
<1>4. ChildInv(c)'
  BY <1>1, Zenon DEF Safe, ChildInv, Alive, procs, clients
<1>5. FrameInv(c)'
  BY <1>1, Zenon DEF Safe, FrameInv, RunnerInv, RunnerOK, PidInv, Signalling, ChildInv,
     Alive, procs, clients
<1>6. MarkerInv(c)'
  BY <1>1, Zenon DEF Safe, MarkerInv, Alive, procs, clients
<1>7. ConfigInv(c)'
  BY <1>1, Zenon DEF Safe, ConfigInv, Reconfiguring, Alive, procs, clients
<1> QED
  BY <1>2, <1>3, <1>4, <1>5, <1>6, <1>7, Zenon DEF Safe

(* and the end of a streamer.                                              *)
LEMMA StreamEndsKeeps ==
  ASSUME NEW c \in Client, NEW r \in Runner, TypeOK, Safe(c), StreamEnds(r)
  PROVE  Safe(c)'
<1>1. /\ child[r] = "streamer" /\ \A q \in Runner : child'[q] = (IF q = r THEN "none" ELSE child[q])
      /\ \/ rpc[r] = "dead" /\ UNCHANGED rpc
         \/ rpc[r] = "stream" /\ \A q \in Runner : rpc'[q] = (IF q = r THEN "exit" ELSE rpc[q])
      /\ mine[c] \in Pid /\ target[c] \in Pid
      /\ UNCHANGED <<type, files, spawned, term, config, clients>>
  BY DEF StreamEnds, RunnerAt, SetChild, TypeOK
<1>2. RunnerInv'
  BY <1>1, ZenonT(40) DEF Safe, RunnerInv, RunnerOK, Alive, files, clients
<1>3. PidInv(c)'
  BY <1>1, Zenon DEF Safe, PidInv, Signalling, RunnerInv, RunnerOK, Alive, files, clients
<1>4. ChildInv(c)'
  BY <1>1, Zenon DEF Safe, ChildInv, Alive, files, clients
<1>5. FrameInv(c)'
  BY <1>1, Zenon DEF Safe, FrameInv, RunnerInv, RunnerOK, PidInv, Signalling, ChildInv,
     Alive, files, clients
<1>6. MarkerInv(c)'
  BY <1>1, Zenon DEF Safe, MarkerInv, Alive, files, clients
<1>7. ConfigInv(c)'
  BY <1>1, Zenon DEF Safe, ConfigInv, Reconfiguring, Alive, files, clients
<1> QED
  BY <1>2, <1>3, <1>4, <1>5, <1>6, <1>7, Zenon DEF Safe

(* The EXIT trap removes the marker of the only runner that was alive.     *)
LEMMA RunnerExitsKeeps ==
  ASSUME NEW c \in Client, NEW r \in Runner, TypeOK, Safe(c), RunnerExits(r)
  PROVE  Safe(c)'
<1>1. /\ rpc[r] = "exit" /\ ~enabled'
      /\ \A q \in Runner : rpc'[q] = (IF q = r THEN "dead" ELSE rpc[q])
      /\ UNCHANGED <<type, meta, runtime, autostart, pidFile, frame, spawned, term, child,
                     config, clients>>
  BY DEF RunnerExits, RunnerAt, TypeOK
<1>2. r = spawned /\ (pidFile = r \/ pc[c] = "writePid")
  BY <1>1, Zenon DEF Safe, RunnerInv, RunnerOK, PidInv, Alive
<1>3. \A q \in Runner : ~Alive(q)'
  BY <1>1, <1>2, Zenon DEF Safe, RunnerInv, RunnerOK, Alive
<1>4. pc[c] # "spawn"
  BY <1>1, NoRunner, Zenon DEF Alive
<1>5. RunnerInv'
  BY <1>1, <1>2, <1>3, <1>4, Zenon DEF Safe, RunnerInv, RunnerOK, Alive, clients
<1>6. PidInv(c)'
  BY <1>1, <1>2, <1>3, <1>4, Zenon DEF Safe, PidInv, Signalling, Alive, clients
<1>7. ChildInv(c)'
  BY <1>1, <1>2, <1>3, <1>4, Zenon DEF Safe, ChildInv, RunnerInv, RunnerOK, PidInv,
     Signalling, Alive, clients
<1>8. FrameInv(c)'
  BY <1>1, <1>2, <1>3, <1>4, Zenon DEF Safe, FrameInv, RunnerInv, RunnerOK, PidInv,
     Signalling, Alive, clients
<1>9. MarkerInv(c)'
  BY <1>1, <1>2, <1>3, <1>4, Zenon DEF Safe, MarkerInv, Alive, clients
<1>10. ConfigInv(c)'
  BY <1>1, <1>2, <1>3, <1>4, Zenon DEF Safe, ConfigInv, Reconfiguring, Alive, clients
<1> QED
  BY <1>5, <1>6, <1>7, <1>8, <1>9, <1>10, Zenon DEF Safe

(* stop_provider begins.                                                   *)
LEMMA StopKeeps ==
  ASSUME NEW c \in Client, TypeOK, Safe(c), Stop(c)
  PROVE  Safe(c)'
<1>1. /\ pc[c] = "idle" /\ pc'[c] = "readPid" /\ ret'[c] = "stopped"
      /\ UNCHANGED <<type, files, procs, caller, mine, target, snap, backup, wasEnabled,
                     result>>
  BY DEF Stop, CallStop, Go, TypeOK
<1>2. RunnerInv'
  BY <1>1, Zenon DEF Safe, RunnerInv, RunnerOK, Alive, files, procs
<1>3. PidInv(c)'
  BY <1>1, Zenon DEF Safe, PidInv, Signalling, Alive, files, procs
<1>4. ChildInv(c)'
  BY <1>1, Zenon DEF Safe, ChildInv, Alive, files, procs
<1>5. FrameInv(c)'
  BY <1>1, Zenon DEF Safe, FrameInv, Alive, files, procs
<1>6. MarkerInv(c)'
  BY <1>1, Zenon DEF Safe, MarkerInv, Alive, files, procs
<1>7. ConfigInv(c)'
  BY <1>1, Zenon DEF Safe, ConfigInv, Reconfiguring, StopSteps, UpdateSteps, Alive, files,
     procs
<1> QED
  BY <1>2, <1>3, <1>4, <1>5, <1>6, <1>7, Zenon DEF Safe

(* It reads stream.pid,                                                    *)
LEMMA ReadPidKeeps ==
  ASSUME NEW c \in Client, TypeOK, Safe(c), ReadPid(c)
  PROVE  Safe(c)'
<1>1. /\ pc[c] = "readPid" /\ target'[c] = pidFile /\ (pidFile = 0 \/ pidFile \in Runner)
      /\ pc'[c] = (IF pidFile = 0 THEN "removeEnabled" ELSE "snapshot")
      /\ UNCHANGED <<type, files, procs, ret, caller, mine, snap, backup, wasEnabled, result>>
  BY DEF ReadPid, Go, TypeOK, Pid
<1>2. RunnerInv'
  BY <1>1, Zenon DEF Safe, RunnerInv, RunnerOK, Alive, files, procs
<1>3. PidInv(c)'
  BY <1>1, Zenon DEF Safe, PidInv, Signalling, Alive, files, procs
<1>4. ChildInv(c)'
  BY <1>1, Zenon DEF Safe, ChildInv, Alive, files, procs
<1>5. FrameInv(c)'
  BY <1>1, Zenon DEF Safe, FrameInv, Alive, files, procs
<1>6. MarkerInv(c)'
  BY <1>1, Zenon DEF Safe, MarkerInv, Alive, files, procs
<1>7. ConfigInv(c)'
  BY <1>1, Zenon DEF Safe, ConfigInv, Reconfiguring, StopSteps, UpdateSteps, Alive, files,
     procs
<1> QED
  BY <1>2, <1>3, <1>4, <1>5, <1>6, <1>7, Zenon DEF Safe

(* lists the children of a live runner,                                    *)
LEMMA SnapshotKeeps ==
  ASSUME NEW c \in Client, TypeOK, Safe(c), Snapshot(c)
  PROVE  Safe(c)'
<1>1. /\ pc[c] = "snapshot"
      /\ \/ pc'[c] = "killChildren" /\ snap'[c] = child[target[c]]
         \/ ~Alive(target[c]) /\ pc'[c] = "removePid"
      /\ UNCHANGED <<type, files, procs, ret, caller, mine, target, backup, wasEnabled, result>>
  BY DEF Snapshot, Go, TypeOK
<1>2. /\ target[c] \in Runner /\ target[c] = pidFile /\ ~(target[c] > spawned)
      /\ \A q \in Runner : Alive(q) => q = target[c]
  BY <1>1, Signalled, Zenon DEF Signalling
<1>3. RunnerInv'
  BY <1>1, <1>2, Zenon DEF Safe, RunnerInv, RunnerOK, Alive, files, procs
<1>4. PidInv(c)'
  BY <1>1, <1>2, Zenon DEF Safe, PidInv, Signalling, Alive, files, procs
<1>5. ChildInv(c)'
  BY <1>1, <1>2, Zenon DEF Safe, ChildInv, Alive, files, procs
<1>6. FrameInv(c)'
  BY <1>1, <1>2, Zenon DEF Safe, FrameInv, Alive, files, procs
<1>7. MarkerInv(c)'
  BY <1>1, <1>2, Zenon DEF Safe, MarkerInv, Alive, files, procs
<1>8. ConfigInv(c)'
  BY <1>1, <1>2, Zenon DEF Safe, ConfigInv, Reconfiguring, StopSteps, UpdateSteps, Alive,
     files, procs
<1> QED
  BY <1>3, <1>4, <1>5, <1>6, <1>7, <1>8, Zenon DEF Safe

(* sends TERM to them                                                      *)
LEMMA KillChildrenKeeps ==
  ASSUME NEW c \in Client, TypeOK, Safe(c), KillChildren(c)
  PROVE  Safe(c)'
<1>1. /\ pc[c] = "killChildren" /\ pc'[c] = "killRunner"
      /\ UNCHANGED <<type, files, spawned, rpc, term, config, child, ret, caller, mine, target,
                     snap, backup, wasEnabled, result>>
  BY DEF KillChildren, From, Go, TypeOK
<1>2. /\ target[c] \in Runner /\ target[c] = pidFile /\ ~(target[c] > spawned)
      /\ \A q \in Runner : Alive(q) => q = target[c]
  BY <1>1, Signalled, Zenon DEF Signalling
<1>3. RunnerInv'
  BY <1>1, <1>2, Zenon DEF Safe, RunnerInv, RunnerOK, Alive, files
<1>4. PidInv(c)'
  BY <1>1, <1>2, Zenon DEF Safe, PidInv, Signalling, Alive, files
<1>5. ChildInv(c)'
  BY <1>1, <1>2, Zenon DEF Safe, ChildInv, Alive, files
<1>6. FrameInv(c)'
  BY <1>1, <1>2, Zenon DEF Safe, FrameInv, Alive, files
<1>7. MarkerInv(c)'
  BY <1>1, <1>2, Zenon DEF Safe, MarkerInv, Alive, files
<1>8. ConfigInv(c)'
  BY <1>1, <1>2, Zenon DEF Safe, ConfigInv, Reconfiguring, StopSteps, UpdateSteps, Alive,
     files
<1> QED
  BY <1>3, <1>4, <1>5, <1>6, <1>7, <1>8, Zenon DEF Safe

(* and to the runner,                                                      *)
LEMMA KillRunnerKeeps ==
  ASSUME NEW c \in Client, TypeOK, Safe(c), KillRunner(c)
  PROVE  Safe(c)'
<1>1. /\ pc[c] = "killRunner" /\ pc'[c] = "await" /\ target[c] \in Runner /\ type \in Types
      /\ \/ /\ rpc[target[c]] = "boot" /\ UNCHANGED term
            /\ \A q \in Runner : rpc'[q] = (IF q = target[c] THEN "dead" ELSE rpc[q])
         \/ /\ UNCHANGED rpc
            /\ \A q \in Runner : q # target[c] => term'[q] = term[q]
      /\ UNCHANGED <<type, files, spawned, config, child, ret, caller, mine, target, snap,
                     backup, wasEnabled, result>>
  BY DEF KillRunner, From, Go, TypeOK, Pid
<1>2. /\ target[c] \in Runner /\ target[c] = pidFile /\ ~(target[c] > spawned)
      /\ \A q \in Runner : Alive(q) => q = target[c]
  BY <1>1, Signalled, Zenon DEF Signalling
<1>3. RunnerInv'
  BY <1>1, <1>2, ZenonT(40) DEF Safe, RunnerInv, RunnerOK, Alive, files
<1>4. PidInv(c)'
  BY <1>1, <1>2, Zenon DEF Safe, PidInv, Signalling, Alive, files
<1>5. ChildInv(c)'
  BY <1>1, <1>2, Zenon DEF Safe, ChildInv, Alive, files
<1>6. FrameInv(c)'
  BY <1>1, <1>2, Zenon DEF Safe, FrameInv, Alive, files
<1>7. MarkerInv(c)'
  BY <1>1, <1>2, Zenon DEF Safe, MarkerInv, Alive, files
<1>8. ConfigInv(c)'
  BY <1>1, <1>2, Zenon DEF Safe, ConfigInv, Reconfiguring, StopSteps, UpdateSteps, Alive,
     files
<1> QED
  BY <1>3, <1>4, <1>5, <1>6, <1>7, <1>8, Zenon DEF Safe

(* waits for both                                                          *)
LEMMA AwaitExitKeeps ==
  ASSUME NEW c \in Client, TypeOK, Safe(c), AwaitExit(c)
  PROVE  Safe(c)'
<1>1. /\ pc[c] = "await"
      /\ \/ ~Alive(target[c]) /\ pc'[c] = "removePid"
         \/ pc'[c] = "killNine"
      /\ UNCHANGED <<type, files, procs, ret, caller, mine, target, snap, backup, wasEnabled,
                     result>>
  BY DEF AwaitExit, StillAlive, Go, TypeOK
<1>2. /\ target[c] \in Runner /\ target[c] = pidFile /\ ~(target[c] > spawned)
      /\ \A q \in Runner : Alive(q) => q = target[c]
  BY <1>1, Signalled, Zenon DEF Signalling
<1>3. RunnerInv'
  BY <1>1, <1>2, Zenon DEF Safe, RunnerInv, RunnerOK, Alive, files, procs
<1>4. PidInv(c)'
  BY <1>1, <1>2, Zenon DEF Safe, PidInv, Signalling, Alive, files, procs
<1>5. ChildInv(c)'
  BY <1>1, <1>2, Zenon DEF Safe, ChildInv, Alive, files, procs
<1>6. FrameInv(c)'
  BY <1>1, <1>2, Zenon DEF Safe, FrameInv, Alive, files, procs
<1>7. MarkerInv(c)'
  BY <1>1, <1>2, Zenon DEF Safe, MarkerInv, Alive, files, procs
<1>8. ConfigInv(c)'
  BY <1>1, <1>2, Zenon DEF Safe, ConfigInv, Reconfiguring, StopSteps, UpdateSteps, Alive,
     files, procs
<1> QED
  BY <1>3, <1>4, <1>5, <1>6, <1>7, <1>8, Zenon DEF Safe

(* and kills what is left: of a direct provider also the streamer.         *)
LEMMA KillNineKeeps ==
  ASSUME NEW c \in Client, TypeOK, Safe(c), KillNine(c)
  PROVE  Safe(c)'
<1>1. /\ pc[c] = "killNine" /\ pc'[c] = "removePid" /\ target[c] \in Runner
      /\ \A q \in Runner : rpc'[q] = (IF q = target[c] THEN "dead" ELSE rpc[q])
      /\ \A q \in Runner : child'[q] = child[q]
                             \/ (q = target[c] /\ child'[q] = "none")
      /\ target[c] \in Runner /\ snap[c] = child[target[c]] => child'[target[c]] = "none"
      /\ UNCHANGED <<type, files, spawned, term, config, ret, caller, mine, target, snap,
                     backup, wasEnabled, result>>
  BY DEF KillNine, ListedChildLives, SetChild, From, Go, TypeOK, Pid
<1>2. /\ target[c] \in Runner /\ target[c] = pidFile /\ ~(target[c] > spawned)
      /\ \A q \in Runner : Alive(q) => q = target[c]
  BY <1>1, Signalled, Zenon DEF Signalling
<1>3. \A q \in Runner : ~Alive(q)'
  BY <1>1, <1>2, Zenon DEF Alive
<1>4. RunnerInv'
  BY <1>1, <1>2, <1>3, ZenonT(40) DEF Safe, RunnerInv, RunnerOK, Alive, files
<1>5. PidInv(c)'
  BY <1>1, <1>2, <1>3, Zenon DEF Safe, PidInv, Signalling, Alive, files
<1>6. ChildInv(c)'
  BY <1>1, <1>2, <1>3, ZenonT(40) DEF Safe, ChildInv, FrameInv, Alive, files
<1>7. FrameInv(c)'
  BY <1>1, <1>2, <1>3, Zenon DEF Safe, FrameInv, Alive, files
<1>8. MarkerInv(c)'
  BY <1>1, <1>2, <1>3, Zenon DEF Safe, MarkerInv, Alive, files
<1>9. ConfigInv(c)'
  BY <1>1, <1>2, <1>3, Zenon DEF Safe, ConfigInv, Reconfiguring, StopSteps, UpdateSteps,
     Alive, files
<1> QED
  BY <1>4, <1>5, <1>6, <1>7, <1>8, <1>9, Zenon DEF Safe

(* Nothing is alive when stream.pid is removed,                            *)
LEMMA RemovePidKeeps ==
  ASSUME NEW c \in Client, TypeOK, Safe(c), RemovePid(c)
  PROVE  Safe(c)'
<1>1. /\ pc[c] = "removePid" /\ pc'[c] = "removeEnabled" /\ pidFile' = 0 /\ type \in Types
      /\ UNCHANGED <<type, meta, runtime, enabled, autostart, frame, procs, ret, caller, mine,
                     target, snap, backup, wasEnabled, result>>
  BY DEF RemovePid, From, Go, TypeOK
<1>2. /\ target[c] \in Runner /\ 0 \in 0..spawned
      /\ \A q \in Runner : Alive(q) => q = target[c]
  BY <1>1, Signalled, Zenon DEF Signalling
<1>3. RunnerInv'
  BY <1>1, <1>2, Zenon DEF Safe, RunnerInv, RunnerOK, Alive, procs
<1>4. PidInv(c)'
  BY <1>1, <1>2, Zenon DEF Safe, PidInv, Signalling, Alive, procs
<1>5. ChildInv(c)'
  BY <1>1, <1>2, Zenon DEF Safe, ChildInv, Alive, procs
<1>6. FrameInv(c)'
  BY <1>1, <1>2, Zenon DEF Safe, FrameInv, Alive, procs
<1>7. MarkerInv(c)'
  BY <1>1, <1>2, Zenon DEF Safe, MarkerInv, Alive, procs
<1>8. ConfigInv(c)'
  BY <1>1, <1>2, Zenon DEF Safe, ConfigInv, Reconfiguring, StopSteps, UpdateSteps, Alive,
     procs
<1> QED
  BY <1>3, <1>4, <1>5, <1>6, <1>7, <1>8, Zenon DEF Safe

(* nor when the marker is, which ends a stop.                              *)
LEMMA RemoveEnabledKeeps ==
  ASSUME NEW c \in Client, TypeOK, Safe(c), RemoveEnabled(c)
  PROVE  Safe(c)'
<1>1. /\ pc[c] = "removeEnabled" /\ ~enabled'
      /\ \/ pc'[c] = "idle" /\ result'[c] \in {"stopped", "startFailed"}
         \/ pc'[c] = "idle" /\ result'[c] = "updateFailed" /\ caller[c] = "restore"
         \/ pc'[c] \in {"findRunner", "autostart"}
         \/ pc'[c] = "restoreMeta" /\ caller[c] = "update"
      /\ UNCHANGED <<type, meta, runtime, pidFile, frame, procs, ret, caller, mine, target,
                     snap, backup, wasEnabled>>
  BY DEF RemoveEnabled, StartFails, Done, Go, TypeOK
<1>2. \A q \in Runner : ~Alive(q)
  BY <1>1, NoRunner, Zenon
<1>3. RunnerInv'
  BY <1>1, <1>2, Zenon DEF Safe, RunnerInv, RunnerOK, Alive, procs
<1>4. PidInv(c)'
  BY <1>1, <1>2, Zenon DEF Safe, PidInv, Signalling, Alive, procs
<1>5. ChildInv(c)'
  BY <1>1, <1>2, Zenon DEF Safe, ChildInv, Alive, procs
<1>6. FrameInv(c)'
  BY <1>1, <1>2, Zenon DEF Safe, FrameInv, Alive, procs
<1>7. MarkerInv(c)'
  BY <1>1, <1>2, Zenon DEF Safe, MarkerInv, PidInv, Alive, procs
<1>8. ConfigInv(c)'
  BY <1>1, <1>2, Zenon DEF Safe, ConfigInv, Reconfiguring, StopSteps, UpdateSteps, Alive,
     procs
<1> QED
  BY <1>3, <1>4, <1>5, <1>6, <1>7, <1>8, Zenon DEF Safe

(* start_provider begins,                                                  *)
LEMMA StartKeeps ==
  ASSUME NEW c \in Client, TypeOK, Safe(c), Start(c)
  PROVE  Safe(c)'
<1>1. /\ pc[c] = "idle" /\ pc'[c] = "autostart" /\ caller'[c] = "start"
      /\ UNCHANGED <<type, files, procs, ret, mine, target, snap, backup, wasEnabled, result>>
  BY DEF Start, CallStart, Go, TypeOK
<1>2. RunnerInv'
  BY <1>1, Zenon DEF Safe, RunnerInv, RunnerOK, Alive, files, procs
<1>3. PidInv(c)'
  BY <1>1, Zenon DEF Safe, PidInv, Signalling, Alive, files, procs
<1>4. ChildInv(c)'
  BY <1>1, Zenon DEF Safe, ChildInv, Alive, files, procs
<1>5. FrameInv(c)'
  BY <1>1, Zenon DEF Safe, FrameInv, Alive, files, procs
<1>6. MarkerInv(c)'
  BY <1>1, Zenon DEF Safe, MarkerInv, Alive, files, procs
<1>7. ConfigInv(c)'
  BY <1>1, Zenon DEF Safe, ConfigInv, Reconfiguring, StopSteps, UpdateSteps, Alive, files,
     procs
<1> QED
  BY <1>2, <1>3, <1>4, <1>5, <1>6, <1>7, Zenon DEF Safe

(* stops the provider first,                                               *)
LEMMA TouchAutostartKeeps ==
  ASSUME NEW c \in Client, TypeOK, Safe(c), TouchAutostart(c)
  PROVE  Safe(c)'
<1>1. /\ pc[c] = "autostart" /\ pc'[c] = "readPid" /\ ret'[c] = "launch"
      /\ UNCHANGED <<type, meta, runtime, enabled, pidFile, frame, procs, caller, mine, target,
                     snap, backup, wasEnabled, result>>
  BY DEF TouchAutostart, CallStop, Go, TypeOK
<1>2. RunnerInv'
  BY <1>1, Zenon DEF Safe, RunnerInv, RunnerOK, Alive, procs
<1>3. PidInv(c)'
  BY <1>1, Zenon DEF Safe, PidInv, Signalling, Alive, procs
<1>4. ChildInv(c)'
  BY <1>1, Zenon DEF Safe, ChildInv, Alive, procs
<1>5. FrameInv(c)'
  BY <1>1, Zenon DEF Safe, FrameInv, Alive, procs
<1>6. MarkerInv(c)'
  BY <1>1, Zenon DEF Safe, MarkerInv, Alive, procs
<1>7. ConfigInv(c)'
  BY <1>1, Zenon DEF Safe, ConfigInv, Reconfiguring, StopSteps, UpdateSteps, Alive, procs
<1> QED
  BY <1>2, <1>3, <1>4, <1>5, <1>6, <1>7, Zenon DEF Safe

(* fails without a runner script,                                          *)
LEMMA FindRunnerKeeps ==
  ASSUME NEW c \in Client, TypeOK, Safe(c), FindRunner(c)
  PROVE  Safe(c)'
<1>1. /\ pc[c] = "findRunner"
      /\ \/ pc'[c] = "touchEnabled"
         \/ pc'[c] = "idle" /\ result'[c] = "startFailed"
         \/ pc'[c] = "idle" /\ result'[c] = "updateFailed" /\ caller[c] = "restore"
         \/ pc'[c] = "restoreMeta" /\ caller[c] = "update"
      /\ UNCHANGED <<type, files, procs, ret, caller, mine, target, snap, backup, wasEnabled>>
  BY DEF FindRunner, StartFails, Done, Go, TypeOK
<1>2. \A q \in Runner : ~Alive(q)
  BY <1>1, NoRunner, Zenon
<1>3. RunnerInv'
  BY <1>1, <1>2, Zenon DEF Safe, RunnerInv, RunnerOK, Alive, files, procs
<1>4. PidInv(c)'
  BY <1>1, <1>2, Zenon DEF Safe, PidInv, Signalling, Alive, files, procs
<1>5. ChildInv(c)'
  BY <1>1, <1>2, Zenon DEF Safe, ChildInv, Alive, files, procs
<1>6. FrameInv(c)'
  BY <1>1, <1>2, Zenon DEF Safe, FrameInv, Alive, files, procs
<1>7. MarkerInv(c)'
  BY <1>1, <1>2, Zenon DEF Safe, MarkerInv, PidInv, Alive, files, procs
<1>8. ConfigInv(c)'
  BY <1>1, <1>2, Zenon DEF Safe, ConfigInv, Reconfiguring, StopSteps, UpdateSteps, Alive,
     files, procs
<1> QED
  BY <1>3, <1>4, <1>5, <1>6, <1>7, <1>8, Zenon DEF Safe

(* marks the provider and removes the last frame, with no streamer left to *)
(* write one,                                                              *)
LEMMA TouchEnabledKeeps ==
  ASSUME NEW c \in Client, TypeOK, Safe(c), TouchEnabled(c)
  PROVE  Safe(c)'
<1>1. /\ pc[c] = "touchEnabled" /\ pc'[c] = "spawn" /\ frame' = 0 /\ enabled'
      /\ UNCHANGED <<type, meta, runtime, autostart, pidFile, procs, ret, caller, mine, target,
                     snap, backup, wasEnabled, result>>
  BY DEF TouchEnabled, From, Go, TypeOK
<1>2. \A q \in Runner : ~Alive(q)
  BY <1>1, NoRunner, Zenon
<1>3. RunnerInv'
  BY <1>1, <1>2, Zenon DEF Safe, RunnerInv, RunnerOK, Alive, procs
<1>4. PidInv(c)'
  BY <1>1, <1>2, Zenon DEF Safe, PidInv, Signalling, Alive, procs
<1>5. ChildInv(c)'
  BY <1>1, <1>2, Zenon DEF Safe, ChildInv, Alive, procs
<1>6. FrameInv(c)'
  BY <1>1, <1>2, Zenon DEF Safe, FrameInv, Alive, procs
<1>7. MarkerInv(c)'
  BY <1>1, <1>2, Zenon DEF Safe, MarkerInv, Alive, procs
<1>8. ConfigInv(c)'
  BY <1>1, <1>2, Zenon DEF Safe, ConfigInv, Reconfiguring, StopSteps, UpdateSteps, Alive,
     procs
<1> QED
  BY <1>3, <1>4, <1>5, <1>6, <1>7, <1>8, Zenon DEF Safe

(* launches the runner,                                                    *)
LEMMA SpawnRunnerKeeps ==
  ASSUME NEW c \in Client, TypeOK, Safe(c), SpawnRunner(c)
  PROVE  Safe(c)'
<1>1. /\ pc[c] = "spawn" /\ pc'[c] = "writePid" /\ spawned < MaxRunners[type]
      /\ spawned' = spawned + 1 /\ mine'[c] = spawned + 1
      /\ \A q \in Runner : rpc'[q] = (IF q = spawned + 1 THEN "boot" ELSE rpc[q])
      /\ type \in Types
      /\ UNCHANGED <<type, files, term, config, child, ret, caller, target, snap, backup,
                     wasEnabled, result>>
  BY DEF SpawnRunner, From, Go, TypeOK
<1>2. \A q \in Runner : ~Alive(q)
  BY <1>1, NoRunner, Zenon
<1>3. /\ spawned + 1 \in Runner /\ spawned + 1 \in 0..MaxRunners[type]
      /\ pidFile \in 0..(spawned + 1)
      /\ \A q \in Runner : q > spawned + 1 => q > spawned /\ q # spawned + 1
      /\ ~term[spawned + 1] /\ child[spawned + 1] = "none"
  BY <1>1, NextRunner, Zenon DEF Safe
<1>4. RunnerInv'
  BY <1>1, <1>2, <1>3, Zenon DEF Safe, RunnerInv, RunnerOK, Alive, files
<1>5. PidInv(c)'
  BY <1>1, <1>2, <1>3, Zenon DEF Safe, PidInv, Signalling, Alive, files
<1>6. ChildInv(c)'
  BY <1>1, <1>2, <1>3, Zenon DEF Safe, ChildInv, Alive, files
<1>7. FrameInv(c)'
  BY <1>1, <1>2, <1>3, Zenon DEF Safe, FrameInv, PidInv, Alive, files
<1>8. MarkerInv(c)'
  BY <1>1, <1>2, <1>3, Zenon DEF Safe, MarkerInv, PidInv, Alive, files
<1>9. ConfigInv(c)'
  BY <1>1, <1>2, <1>3, Zenon DEF Safe, ConfigInv, Reconfiguring, StopSteps, UpdateSteps,
     Alive, files
<1> QED
  BY <1>4, <1>5, <1>6, <1>7, <1>8, <1>9, Zenon DEF Safe

(* writes its number to stream.pid                                         *)
LEMMA WritePidKeeps ==
  ASSUME NEW c \in Client, TypeOK, Safe(c), WritePid(c)
  PROVE  Safe(c)'
<1>1. /\ pc[c] = "writePid" /\ pc'[c] = "poll" /\ pidFile' = mine[c] /\ type \in Types
      /\ UNCHANGED <<type, meta, runtime, enabled, autostart, frame, procs, ret, caller, mine,
                     target, snap, backup, wasEnabled, result>>
  BY DEF WritePid, From, Go, TypeOK
<1>2. /\ mine[c] = spawned /\ mine[c] \in Runner /\ spawned \in 0..spawned
      /\ \A q \in Runner : Alive(q) => q = spawned
  BY <1>1, LastRunner, Zenon DEF Safe
<1>3. RunnerInv'
  BY <1>1, <1>2, Zenon DEF Safe, RunnerInv, RunnerOK, Alive, procs
<1>4. PidInv(c)'
  BY <1>1, <1>2, Zenon DEF Safe, PidInv, Signalling, Alive, procs
<1>5. ChildInv(c)'
  BY <1>1, <1>2, Zenon DEF Safe, ChildInv, Alive, procs
<1>6. FrameInv(c)'
  BY <1>1, <1>2, Zenon DEF Safe, FrameInv, Alive, procs
<1>7. MarkerInv(c)'
  BY <1>1, <1>2, Zenon DEF Safe, MarkerInv, Alive, procs
<1>8. ConfigInv(c)'
  BY <1>1, <1>2, Zenon DEF Safe, ConfigInv, Reconfiguring, StopSteps, UpdateSteps, Alive,
     procs
<1> QED
  BY <1>3, <1>4, <1>5, <1>6, <1>7, <1>8, Zenon DEF Safe

(* and waits for a frame; one is there only after the runner has started a *)
(* child.                                                                  *)
LEMMA PollFrameKeeps ==
  ASSUME NEW c \in Client, TypeOK, Safe(c), PollFrame(c)
  PROVE  Safe(c)'
<1>1. /\ pc[c] = "poll"
      /\ \/ /\ frame # 0 /\ pc'[c] = "idle"
            /\ \/ result'[c] \in {"started", "updated"}
               \/ result'[c] = "updateFailed" /\ caller[c] = "restore"
         \/ /\ rpc[mine[c]] \notin {"boot", "armed"}
            /\ pc'[c] = "readPid" /\ ret'[c] = "failed" /\ result'[c] = result[c]
      /\ UNCHANGED <<type, files, procs, caller, mine, target, snap, backup, wasEnabled>>
  BY DEF PollFrame, StartSucceeds, CallStop, Done, Go, TypeOK
<1>2. /\ mine[c] = spawned /\ mine[c] \in Runner /\ spawned \in 0..spawned
      /\ \A q \in Runner : Alive(q) => q = spawned
  BY <1>1, LastRunner, Zenon DEF Safe
<1>3. RunnerInv'
  BY <1>1, <1>2, Zenon DEF Safe, RunnerInv, RunnerOK, Alive, files, procs
<1>4. PidInv(c)'
  BY <1>1, <1>2, Zenon DEF Safe, PidInv, Signalling, Alive, files, procs
<1>5. ChildInv(c)'
  BY <1>1, <1>2, Zenon DEF Safe, ChildInv, FrameInv, Alive, files, procs
<1>6. FrameInv(c)'
  BY <1>1, <1>2, Zenon DEF Safe, FrameInv, Alive, files, procs
<1>7. MarkerInv(c)'
  BY <1>1, <1>2, Zenon DEF Safe, MarkerInv, Alive, files, procs
<1>8. ConfigInv(c)'
  BY <1>1, <1>2, Zenon DEF Safe, ConfigInv, Reconfiguring, StopSteps, UpdateSteps, Alive,
     files, procs
<1> QED
  BY <1>3, <1>4, <1>5, <1>6, <1>7, <1>8, Zenon DEF Safe

(* provider_update sees a marker beside every live runner,                 *)
LEMMA UpdateKeeps ==
  ASSUME NEW c \in Client, TypeOK, Safe(c), Update(c)
  PROVE  Safe(c)'
<1>1. /\ pc[c] = "idle" /\ pc'[c] = "writeMeta" /\ caller'[c] = "update" /\ backup'[c] = meta
      /\ wasEnabled'[c] = (enabled \/ autostart)
      /\ UNCHANGED <<type, files, procs, ret, mine, target, snap, result>>
  BY DEF Update, Go, TypeOK
<1>2. RunnerInv'
  BY <1>1, Zenon DEF Safe, RunnerInv, RunnerOK, Alive, files, procs
<1>3. PidInv(c)'
  BY <1>1, Zenon DEF Safe, PidInv, Signalling, Alive, files, procs
<1>4. ChildInv(c)'
  BY <1>1, Zenon DEF Safe, ChildInv, Alive, files, procs
<1>5. FrameInv(c)'
  BY <1>1, Zenon DEF Safe, FrameInv, Alive, files, procs
<1>6. MarkerInv(c)'
  BY <1>1, Zenon DEF Safe, MarkerInv, Alive, files, procs
<1>7. ConfigInv(c)'
  BY <1>1, Zenon DEF Safe, ConfigInv, Reconfiguring, StopSteps, UpdateSteps, MarkerInv,
     Alive, files, procs
<1> QED
  BY <1>2, <1>3, <1>4, <1>5, <1>6, <1>7, Zenon DEF Safe

(* changes meta                                                            *)
LEMMA WriteMetaKeeps ==
  ASSUME NEW c \in Client, TypeOK, Safe(c), WriteMeta(c)
  PROVE  Safe(c)'
<1>1. /\ pc[c] = "writeMeta" /\ pc'[c] = "writeRuntime"
      /\ UNCHANGED <<type, runtime, enabled, autostart, pidFile, frame, procs, ret, caller,
                     mine, target, snap, backup, wasEnabled, result>>
  BY DEF WriteMeta, From, Go, TypeOK
<1>2. RunnerInv'
  BY <1>1, Zenon DEF Safe, RunnerInv, RunnerOK, Alive, procs
<1>3. PidInv(c)'
  BY <1>1, Zenon DEF Safe, PidInv, Signalling, Alive, procs
<1>4. ChildInv(c)'
  BY <1>1, Zenon DEF Safe, ChildInv, Alive, procs
<1>5. FrameInv(c)'
  BY <1>1, Zenon DEF Safe, FrameInv, Alive, procs
<1>6. MarkerInv(c)'
  BY <1>1, Zenon DEF Safe, MarkerInv, Alive, procs
<1>7. ConfigInv(c)'
  BY <1>1, Zenon DEF Safe, ConfigInv, Reconfiguring, StopSteps, UpdateSteps, Alive, procs
<1> QED
  BY <1>2, <1>3, <1>4, <1>5, <1>6, <1>7, Zenon DEF Safe

(* and the runtime files, restarts a provider that was enabled,            *)
LEMMA WriteRuntimeKeeps ==
  ASSUME NEW c \in Client, TypeOK, Safe(c), WriteRuntime(c)
  PROVE  Safe(c)'
<1>1. /\ pc[c] = "writeRuntime" /\ runtime' = meta
      /\ \/ wasEnabled[c] /\ pc'[c] = "readPid" /\ ret'[c] = "restart" /\ result'[c] = result[c]
         \/ ~wasEnabled[c] /\ pc'[c] = "idle" /\ result'[c] = "updated"
      /\ UNCHANGED <<type, meta, enabled, autostart, pidFile, frame, procs, caller, mine,
                     target, snap, backup, wasEnabled>>
  BY DEF WriteRuntime, CallStop, Done, Go, TypeOK
<1>2. RunnerInv'
  BY <1>1, Zenon DEF Safe, RunnerInv, RunnerOK, Alive, procs
<1>3. PidInv(c)'
  BY <1>1, Zenon DEF Safe, PidInv, Signalling, Alive, procs
<1>4. ChildInv(c)'
  BY <1>1, Zenon DEF Safe, ChildInv, Alive, procs
<1>5. FrameInv(c)'
  BY <1>1, Zenon DEF Safe, FrameInv, Alive, procs
<1>6. MarkerInv(c)'
  BY <1>1, Zenon DEF Safe, MarkerInv, Alive, procs
<1>7. ConfigInv(c)'
  BY <1>1, Zenon DEF Safe, ConfigInv, Reconfiguring, StopSteps, UpdateSteps, Alive, procs
<1> QED
  BY <1>2, <1>3, <1>4, <1>5, <1>6, <1>7, Zenon DEF Safe

(* and puts back meta                                                      *)
LEMMA RestoreMetaKeeps ==
  ASSUME NEW c \in Client, TypeOK, Safe(c), RestoreMeta(c)
  PROVE  Safe(c)'
<1>1. /\ pc[c] = "restoreMeta" /\ pc'[c] = "restoreRuntime" /\ meta' = backup[c]
      /\ UNCHANGED <<type, runtime, enabled, autostart, pidFile, frame, procs, ret, caller,
                     mine, target, snap, backup, wasEnabled, result>>
  BY DEF RestoreMeta, From, Go, TypeOK
<1>2. \A q \in Runner : ~Alive(q)
  BY <1>1, NoRunner, Zenon
<1>3. RunnerInv'
  BY <1>1, <1>2, Zenon DEF Safe, RunnerInv, RunnerOK, Alive, procs
<1>4. PidInv(c)'
  BY <1>1, <1>2, Zenon DEF Safe, PidInv, Signalling, Alive, procs
<1>5. ChildInv(c)'
  BY <1>1, <1>2, Zenon DEF Safe, ChildInv, Alive, procs
<1>6. FrameInv(c)'
  BY <1>1, <1>2, Zenon DEF Safe, FrameInv, Alive, procs
<1>7. MarkerInv(c)'
  BY <1>1, <1>2, Zenon DEF Safe, MarkerInv, Alive, procs
<1>8. ConfigInv(c)'
  BY <1>1, <1>2, Zenon DEF Safe, ConfigInv, Reconfiguring, StopSteps, UpdateSteps, Alive,
     procs
<1> QED
  BY <1>3, <1>4, <1>5, <1>6, <1>7, <1>8, Zenon DEF Safe

(* and the runtime files when the restart fails.                           *)
LEMMA RestoreRuntimeKeeps ==
  ASSUME NEW c \in Client, TypeOK, Safe(c), RestoreRuntime(c)
  PROVE  Safe(c)'
<1>1. /\ pc[c] = "restoreRuntime" /\ runtime' = meta
      /\ pc'[c] = "autostart" /\ caller'[c] = "restore"
      /\ UNCHANGED <<type, meta, enabled, autostart, pidFile, frame, procs, ret, mine, target,
                     snap, backup, wasEnabled, result>>
  BY DEF RestoreRuntime, CallStart, Go, TypeOK
<1>2. \A q \in Runner : ~Alive(q)
  BY <1>1, NoRunner, Zenon
<1>3. RunnerInv'
  BY <1>1, <1>2, Zenon DEF Safe, RunnerInv, RunnerOK, Alive, procs
<1>4. PidInv(c)'
  BY <1>1, <1>2, Zenon DEF Safe, PidInv, Signalling, Alive, procs
<1>5. ChildInv(c)'
  BY <1>1, <1>2, Zenon DEF Safe, ChildInv, Alive, procs
<1>6. FrameInv(c)'
  BY <1>1, <1>2, Zenon DEF Safe, FrameInv, Alive, procs
<1>7. MarkerInv(c)'
  BY <1>1, <1>2, Zenon DEF Safe, MarkerInv, Alive, procs
<1>8. ConfigInv(c)'
  BY <1>1, <1>2, Zenon DEF Safe, ConfigInv, Reconfiguring, StopSteps, UpdateSteps, Alive,
     procs
<1> QED
  BY <1>3, <1>4, <1>5, <1>6, <1>7, <1>8, Zenon DEF Safe

(* A provider that has never been started satisfies the invariant.         *)
THEOREM InvInit == Init => Inv
<1> SUFFICES ASSUME Init PROVE Inv
  OBVIOUS
<1>1. FlagTypes
  BY Zenon DEF Init, FlagTypes
<1>2. TypeOK
  BY <1>1, RunnerNumbers DEF Init, TypeOK, FlagTypes, Pid, Configs
<1>3. ASSUME NEW c \in Client PROVE Safe(c)
  <2>1. RunnerInv /\ PidInv(c) /\ ChildInv(c) /\ FrameInv(c)
    BY RunnerNumbers DEF Init, RunnerInv, RunnerOK, PidInv, ChildInv, FrameInv, Alive, Signalling
  <2>2. MarkerInv(c) /\ ConfigInv(c)
    BY DEF Init, MarkerInv, ConfigInv, Alive, UpdateSteps
  <2> QED
    BY <2>1, <2>2 DEF Safe
<1> QED
  BY <1>2, <1>3 DEF Inv

(* Every step of the one command and of the runners preserves it.          *)
THEOREM InvStep == ASSUME OneClient PROVE Inv /\ [Next]_vars => Inv'
<1> SUFFICES ASSUME Inv, [Next]_vars PROVE Inv'
  OBVIOUS
<1>1. PICK c \in Client : Client = {c}
  BY OneClient DEF OneClient
<1>2. FlagTypes'
  BY FlagTypesStep DEF Inv, TypeOK, FlagTypes
<1>3. TypeOK /\ Safe(c)
  BY DEF Inv
<1> SUFFICES TypeOK' /\ Safe(c)'
  BY <1>1, Zenon DEF Inv
<1>4. ASSUME NEW r \in Runner, RunnerStep(r) PROVE TypeOK' /\ Safe(c)'
  BY <1>2, <1>3, <1>4, RunnerTypes, RunnerBootsKeeps, TrapRunsKeeps, RunnerSpawnsChildKeeps,
     FetchEndsKeeps, StreamerWritesKeeps, StreamEndsKeeps, RunnerExitsKeeps DEF RunnerStep
<1>5. CASE Stop(c) \/ Start(c) \/ Update(c) \/ ClientStep(c)
  <2>1. TypeOK'
    BY <1>2, <1>3, <1>5, StopTypes, StartTypes DEF ClientStep
  <2>2. Safe(c)'
    BY <1>3, <1>5, StopKeeps, ReadPidKeeps, SnapshotKeeps, KillChildrenKeeps, KillRunnerKeeps,
       AwaitExitKeeps, KillNineKeeps, RemovePidKeeps, RemoveEnabledKeeps, StartKeeps,
       TouchAutostartKeeps, FindRunnerKeeps, TouchEnabledKeeps, SpawnRunnerKeeps, WritePidKeeps,
       PollFrameKeeps, UpdateKeeps, WriteMetaKeeps, WriteRuntimeKeeps, RestoreMetaKeeps,
       RestoreRuntimeKeeps DEF ClientStep
  <2> QED
    BY <2>1, <2>2
<1>6. CASE UNCHANGED vars
  <2>1. UNCHANGED <<type, files, procs, clients>>
    BY <1>6 DEF vars
  <2>2. TypeOK'
    BY <1>3, <2>1 DEF TypeOK, files, procs, clients
  <2>3. RunnerInv' /\ PidInv(c)' /\ MarkerInv(c)'
    BY <1>3, <2>1, Zenon DEF Safe, RunnerInv, RunnerOK, PidInv, MarkerInv, Alive, files,
       procs, clients
  <2>4. ChildInv(c)' /\ FrameInv(c)' /\ ConfigInv(c)'
    BY <1>3, <2>1, Zenon DEF Safe, ChildInv, FrameInv, ConfigInv, Alive, Reconfiguring, files,
       procs, clients
  <2> QED
    BY <2>2, <2>3, <2>4, Zenon DEF Safe
<1> QED
  BY <1>1, <1>4, <1>5, <1>6, Zenon DEF Next

(* The inductive invariant holds in every reachable state.                 *)
THEOREM Invariance == ASSUME OneClient PROVE Spec => []Inv
<1> QED
  BY InvInit, InvStep, PTL DEF Spec

(* Type correctness of one command and any number of runners.              *)
THEOREM TypeCorrect == ASSUME OneClient PROVE Spec => []TypeOK
<1>1. Inv => TypeOK
  BY DEF Inv
<1> QED
  BY <1>1, Invariance, PTL

(* After stop_provider, or a start_provider that failed, nothing of a      *)
(* direct provider is left: no runner, no streamer, no `enabled` marker.   *)
(* A new runner is launched only then.                                     *)
THEOREM CompleteStop == ASSUME OneClient PROVE Spec => []StopIsComplete
<1>1. Inv => StopIsComplete
  <2> SUFFICES ASSUME Inv, type = "direct"
               PROVE  /\ ReplacementStartsAlone
                      /\ \A c \in Client :
                           pc[c] = "idle" /\ result[c] \in {"stopped", "startFailed"} =>
                             ~enabled /\ \A r \in Runner : ~Alive(r) /\ child[r] = "none"
    BY DEF StopIsComplete
  <2>1. \A c \in Client : Safe(c) /\ \A r \in Runner : child[r] # "none" => Alive(r)
    BY Zenon DEF Inv, Safe, ChildInv
  <2>2. ReplacementStartsAlone
    <3> SUFFICES ASSUME NEW c \in Client, NEW r \in Runner,
                        \/ pc[c] \in {"touchEnabled", "spawn"}
                        \/ pc[c] \in {"writePid", "poll"} /\ r # mine[c]
                 PROVE  ~Alive(r)
      BY <2>1, Zenon DEF ReplacementStartsAlone
    <3>1. CASE pc[c] \in {"touchEnabled", "spawn"}
      BY <2>1, <3>1, NoRunner, Zenon
    <3>2. CASE pc[c] \in {"writePid", "poll"} /\ r # mine[c]
      BY <2>1, <3>2, Zenon DEF Safe, RunnerInv, RunnerOK, PidInv
    <3> QED
      BY <3>1, <3>2
  <2>3. ASSUME NEW c \in Client, pc[c] = "idle", result[c] \in {"stopped", "startFailed"}
        PROVE  ~enabled /\ \A r \in Runner : ~Alive(r) /\ child[r] = "none"
    <3>1. ~enabled /\ pidFile = 0
      BY <2>1, <2>3, Zenon DEF Safe, MarkerInv
    <3> QED
      BY <2>1, <2>3, <3>1, NoRunner, Zenon
  <2> QED
    BY <2>2, <2>3
<1> QED
  BY <1>1, Invariance, PTL

(* When no command runs, the provider that streams is marked as enabled:   *)
(* the TERM and EXIT traps of the runners it replaced came before the      *)
(* marker was created again.                                               *)
THEOREM MarkedStream == ASSUME OneClient PROVE Spec => []StreamHasMarker
<1>1. Inv => StreamHasMarker
  <2>1. PICK c \in Client : Client = {c}
    BY OneClient DEF OneClient
  <2>2. Inv => MarkerInv(c)
    BY Zenon DEF Inv, Safe
  <2> QED
    BY <2>1, <2>2, Zenon DEF MarkerInv, StreamHasMarker, Alive
<1> QED
  BY <1>1, Invariance, PTL

(* When no command runs, meta, the runtime files and the running provider  *)
(* agree, and a provider_update that failed has put everything back.       *)
THEOREM ConsistentUpdate == ASSUME OneClient PROVE Spec => []UpdateIsConsistent
<1>1. Inv => UpdateIsConsistent
  <2> SUFFICES ASSUME Inv, \A d \in Client : pc[d] = "idle" PROVE UpdateIsConsistent
    BY Zenon DEF UpdateIsConsistent
  <2>1. PICK c \in Client : Client = {c}
    BY OneClient DEF OneClient
  <2>2. ConfigInv(c) /\ pc[c] = "idle"
    BY <2>1, Zenon DEF Inv, Safe
  <2>3. ~Reconfiguring(c)
    BY <2>2, SMTT(30) DEF Reconfiguring, StopSteps
  <2>4. /\ runtime = meta
        /\ \A r \in Runner : Alive(r) /\ rpc[r] # "boot" => config[r] = meta
    BY <2>2, <2>3, Zenon DEF ConfigInv
  <2>5. result[c] = "updateFailed" => meta = backup[c]
    BY <2>2, Zenon DEF ConfigInv
  <2> QED
    BY <2>1, <2>4, <2>5, Zenon DEF UpdateIsConsistent
<1> QED
  BY <1>1, Invariance, PTL

(* start_provider of a direct provider takes no frame of an earlier runner *)
(* for the one that it waits for.                                          *)
THEOREM NewFirstFrame == ASSUME OneClient PROVE Spec => FirstFrameIsNew
<1> DEFINE Own == type = "direct" =>
                    \A c \in Client : pc[c] = "poll" /\ pc'[c] = "idle" => frame = mine[c]
<1>1. Inv /\ [Next]_vars => [Own]_vars
  <2> SUFFICES ASSUME Inv, Next, type = "direct",
                      NEW c \in Client, pc[c] = "poll", pc'[c] = "idle"
               PROVE  frame = mine[c]
    BY DEF vars
  <2>1. \A r \in Runner : ~RunnerStep(r)
    <3> SUFFICES ASSUME NEW r \in Runner, RunnerStep(r) PROVE pc' = pc
      OBVIOUS
    <3> QED
      BY Zenon DEF RunnerStep, RunnerBoots, TrapRuns, RunnerSpawnsChild, FetchEnds,
         StreamerWrites, StreamEnds, RunnerExits, clients
  <2>2. ClientStep(c)
    <3>1. \A d \in Client : d = c
      BY OneClient, Zenon DEF OneClient
    <3> QED
      BY <2>1, <3>1, Zenon DEF Next, Stop, Start, Update
  <2>3. PollFrame(c)
    BY <2>2, Zenon DEF ClientStep, ReadPid, Snapshot, KillChildren, KillRunner, AwaitExit,
       KillNine, RemovePid, RemoveEnabled, TouchAutostart, FindRunner, TouchEnabled,
       SpawnRunner, WritePid, WriteMeta, WriteRuntime, RestoreMeta, RestoreRuntime, From
  <2>4. frame # 0
    BY <2>3 DEF PollFrame, CallStop, Go, Inv, TypeOK
  <2> QED
    BY <2>4, Zenon DEF Inv, Safe, FrameInv
<1> QED
  BY <1>1, Invariance, PTL DEF Spec, FirstFrameIsNew
=============================================================================
