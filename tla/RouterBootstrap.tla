--------------------------- MODULE RouterBootstrap ---------------------------
(***************************************************************************)
(* How the Binder router gets into cameraserver and how a bad one gets out *)
(* again: the launcher that replaces cameraserver (CameraServerLauncher),  *)
(* the router's monitor thread and the statistics it publishes             *)
(* (AndroidCameraServiceRouter), and the scripts of the portable module    *)
(* (post-mount.sh, service.sh) over crashes and reboots.                   *)
(*                                                                         *)
(* bootstrap.pending and router.stats are in /dev and do not survive a     *)
(* reboot; the module's disable file does.                                 *)
(***************************************************************************)
EXTENDS Integers

CONSTANTS
  StableSamples,    \* samples of one process that count as stable (100)
  MaxSamples,       \* samples service.sh takes at most (450)
  MaxKills,         \* crashes of a process without router
  MaxUser           \* reboots and re-enabling by the user

ASSUME BootstrapAssumption ==
  /\ StableSamples \in Nat \ {0} /\ MaxSamples \in Nat
  /\ MaxKills \in Nat /\ MaxUser \in Nat

Mode == {"stock", "preflight", "passthrough", "physical-route", "invalid"}
Ready == {"preflight_ready", "passthrough_ready", "physical_route_ready"}
Failed == {"thread_failed", "no_manager", "timeout", "not_local", "unqualified",
           "registration_failed", "verification_failed"}

VARIABLES
  mode, qualified, unified, compatible, captured,
                     \* of the installation: bootstrap.mode, protocol profile, NX769J
                     \* module, whether the launcher can start this CameraService, and
                     \* whether the stock executable to fall back to is in place
  disabled, image,   \* disable file; what /system/bin/cameraserver is
  marker,            \* bootstrap.pending exists
  stats,             \* router.stats: none, that of this process, of an earlier one,
                     \* or of an earlier one and not to be removed
  exe, ppc, routed,  \* the cameraserver process: image, progress, router mapped
  rpc, report,       \* monitor thread and gState
  registry,          \* what media.camera resolves to
  spc, samples, stable, known,      \* service.sh; known: it saw this process last time
  attempt,           \* history: a routed attempt of this boot, or earlier, failed
  kills, user        \* bounded faults and user actions

install == <<mode, qualified, unified, compatible, captured>>
server == <<exe, ppc, routed, rpc, report, registry>>
files == <<disabled, image, marker, stats>>
script == <<spc, samples, stable, known>>
bootVars == <<install, files, server, script, attempt, kills, user>>

BootTypeOK ==
  /\ mode \in Mode /\ qualified \in BOOLEAN /\ unified \in BOOLEAN
  /\ compatible \in BOOLEAN /\ captured \in BOOLEAN
  /\ disabled \in BOOLEAN /\ marker \in BOOLEAN
  /\ stats \in {"none", "own", "old", "kept"}
  /\ routed \in BOOLEAN /\ known \in BOOLEAN
  /\ image \in {"launcher", "stock"} /\ exe \in {"launcher", "stock"}
  /\ ppc \in {"down", "main", "arm", "load", "up", "serving"}
  /\ rpc \in {"off", "wait", "check", "register", "verify", "done"}
  /\ report \in {"none", "waiting"} \cup Ready \cup Failed
  /\ registry \in {"none", "original", "router"}
  /\ spc \in {"post-mount", "watch", "reboot", "done"}
  /\ samples \in 0..MaxSamples /\ stable \in 0..StableSamples
  /\ attempt \in {"none", "failed", "failed_before"}
  /\ rpc # "off" => routed
  /\ ppc \in {"down", "main", "arm"} => ~routed

BootInit ==
  /\ mode \in Mode /\ qualified \in BOOLEAN /\ unified \in BOOLEAN
  /\ compatible \in BOOLEAN /\ captured \in BOOLEAN
  /\ disabled = FALSE /\ image = "launcher" /\ marker = FALSE /\ stats = "none"
  /\ exe = "stock" /\ ppc = "down" /\ routed = FALSE /\ rpc = "off" /\ report = "none"
  /\ registry = "none"
  /\ spc = "post-mount" /\ samples = 0 /\ stable = 0 /\ known = FALSE
  /\ attempt = "none" /\ kills = 0 /\ user = 0

-----------------------------------------------------------------------------
(* The launcher.                                                           *)

(* init starts cameraserver.                                               *)
Launch ==
  /\ ppc = "down" /\ spc # "post-mount"
  /\ exe' = image /\ ppc' = (IF image = "stock" THEN "up" ELSE "main")
  /\ UNCHANGED <<install, files, routed, rpc, report, registry, script, attempt, kills, user>>

Unrouted == ppc' = "up" /\ UNCHANGED <<exe, routed, rpc, report, registry>>

(* readBootstrapMode() and parseCameraServerBootstrapMode().               *)
StockMode == mode \in {"stock", "invalid"}

(* unlink() of the statistics; a failure is logged and nothing else.       *)
RemoveStats == stats' = "none" \/ (stats # "none" /\ stats' = "kept")

(* main() up to the marker: a wrong SELinux domain or an unreadable        *)
(* library also selects the unrouted service.                              *)
Main ==
  /\ ppc = "main" /\ RemoveStats /\ UNCHANGED <<disabled, image, marker>>
  /\ \/ Unrouted
     \/ ~StockMode /\ ppc' = "arm" /\ UNCHANGED <<exe, routed, rpc, report, registry>>
  /\ UNCHANGED <<install, script, attempt, kills, user>>

(* Mutant: a marker that exists is opened like a new one.                  *)
ArmAgain ==
  /\ ppc = "arm" /\ marker' = TRUE /\ ppc' = "load"
  /\ UNCHANGED <<install, disabled, image, stats, exe, routed, rpc, report, registry>>
  /\ UNCHANGED <<script, attempt, kills, user>>

(* armBootstrapAttempt(): created, already pending, or not created.        *)
Arm ==
  /\ ppc = "arm"
  /\ \/ /\ ~marker /\ marker' = TRUE /\ ppc' = "load"
        /\ UNCHANGED <<exe, routed, rpc, report, registry>>
     \/ Unrouted /\ UNCHANGED marker
  /\ UNCHANGED <<install, disabled, image, stats, script, attempt, kills, user>>

(* The library's constructor starts the monitor thread, which waits for    *)
(* CameraService when there is a service manager.                          *)
startRouterMonitor ==
  /\ routed' = TRUE
  /\ \/ rpc' = "wait" /\ report' = "waiting"
     \/ rpc' = "done" /\ report' \in {"thread_failed", "no_manager"}

(* setenv() and dlopen(), either of which may fail.                        *)
Load ==
  /\ ppc = "load" /\ ppc' = "up"
  /\ startRouterMonitor \/ UNCHANGED <<routed, rpc, report>>
  /\ UNCHANGED <<install, files, exe, registry, script, attempt, kills, user>>

(* runCameraServer() publishes media.camera, unless the entry point of     *)
(* CameraService is not there and the launcher exits.                      *)
Instantiate ==
  /\ ppc = "up" /\ (exe = "launcher" => compatible)
  /\ ppc' = "serving" /\ registry' = "original"
  /\ UNCHANGED <<install, files, exe, routed, rpc, report, script, attempt, kills, user>>

Die ==
  /\ ppc' = "down" /\ routed' = FALSE /\ rpc' = "off" /\ report' = "none" /\ registry' = "none"
  /\ attempt' = (IF ppc = "load" \/ (routed /\ report \notin Ready) THEN "failed" ELSE attempt)
  /\ known' = FALSE /\ stats' = (IF stats = "none" THEN "none" ELSE "old")
  /\ UNCHANGED <<install, disabled, image, marker, exe, spc, samples, stable, user>>

Exit == ppc = "up" /\ exe = "launcher" /\ ~compatible /\ Die /\ UNCHANGED kills

(* With a router in it, or one on the way, the process dies at any moment  *)
(* and as often as it likes.                                               *)
Crash ==
  /\ ppc # "down"
  /\ \/ (routed \/ ppc = "load") /\ UNCHANGED kills
     \/ ~(routed \/ ppc = "load") /\ kills < MaxKills /\ kills' = kills + 1
  /\ Die

-----------------------------------------------------------------------------
(* The monitor thread of the router.                                       *)
Stops(s) == rpc' = "done" /\ report' = s
Goes(p) == rpc' = p /\ UNCHANGED report
RouterUnchanged ==
  UNCHANGED <<install, disabled, image, exe, ppc, routed, script, attempt, kills, user>>

(* setTerminalState() of a success removes the marker, if it can.          *)
ReadyState(s) == Stops(s) /\ (marker' = FALSE \/ UNCHANGED marker)

MonitorWait ==
  /\ rpc = "wait"
  /\ \/ registry # "none" /\ Goes("check")
     \/ registry = "none" /\ Stops("timeout")
  /\ UNCHANGED <<marker, stats, registry>> /\ RouterUnchanged

MonitorCheck ==
  /\ rpc = "check"
  /\ \/ Stops("not_local") /\ UNCHANGED marker
     \/ mode = "preflight" /\ ReadyState("preflight_ready")
     \/ mode = "physical-route" /\ ~qualified /\ Stops("unqualified") /\ UNCHANGED marker
     \/ /\ mode = "passthrough" \/ (mode = "physical-route" /\ qualified)
        /\ Goes("register") /\ UNCHANGED marker
  /\ UNCHANGED <<stats, registry>> /\ RouterUnchanged

(* Mutant: a refused registration is not noticed.                          *)
MonitorRegisterBlind ==
  /\ rpc = "register" /\ registry' \in {"router", registry}
  /\ ReadyState("passthrough_ready") /\ UNCHANGED stats /\ RouterUnchanged

MonitorRegister ==
  /\ rpc = "register"
  /\ \/ registry' = "router" /\ Goes("verify")
     \/ Stops("registration_failed") /\ UNCHANGED registry
  /\ UNCHANGED <<marker, stats>> /\ RouterUnchanged

(* checkService() may answer with another Binder or none although the      *)
(* registration was accepted; it stays as it is.                           *)
MonitorVerify ==
  /\ rpc = "verify"
  /\ \/ /\ registry = "router"
        /\ ReadyState(IF mode = "physical-route" THEN "physical_route_ready"
                                                  ELSE "passthrough_ready")
     \/ Stops("verification_failed") /\ UNCHANGED marker
  /\ UNCHANGED <<stats, registry>> /\ RouterUnchanged

(* statsPublisher() writes once a second from then on.                     *)
PublishStats ==
  /\ report \in {"passthrough_ready", "physical_route_ready"} /\ stats # "own" /\ stats' = "own"
  /\ UNCHANGED <<marker, rpc, report, registry>> /\ RouterUnchanged

-----------------------------------------------------------------------------
(* The module's scripts.                                                   *)
ScriptUnchanged == UNCHANGED <<install, marker, stats, server, attempt, kills, user>>

(* mount -o bind of the stock executable over the launcher.                *)
Rebound == IF captured THEN "stock" ELSE image

(* A failed verification disables the module and binds the stock binary.   *)
PostMount ==
  /\ spc = "post-mount"
  /\ \/ spc' = (IF disabled THEN "done" ELSE "watch") /\ UNCHANGED <<disabled, image>>
     \/ ~disabled /\ spc' = "done" /\ disabled' = TRUE /\ image' = Rebound
  /\ UNCHANGED <<samples, stable, known>> /\ ScriptUnchanged

(* Mutant: the module is not disabled before the recovery reboot.          *)
RecoverEnabled == spc' = "reboot" /\ image' = Rebound /\ UNCHANGED disabled
Recover == spc' = "reboot" /\ image' = Rebound /\ disabled' = TRUE

(* A stable CameraService leaves the module disabled for the next boot     *)
(* unless it is the NX769J one; a missing camera map is a failure.         *)
Conclude(ok) ==
  IF ok THEN spc' = "done" /\ disabled' = (disabled \/ ~unified) /\ UNCHANGED image
  ELSE Recover

SamplesLeft == samples < MaxSamples

Watch ==
  /\ spc = "watch" /\ stable < StableSamples
  /\ IF ~SamplesLeft
       THEN Conclude(FALSE) /\ UNCHANGED <<samples, stable, known>>
       ELSE /\ samples' = samples + 1
            /\ IF registry # "none"
                 THEN stable' = (IF known THEN stable + 1 ELSE 1) /\ known' = TRUE
                 ELSE stable' = 0 /\ known' = FALSE
            /\ UNCHANGED <<spc, disabled, image>>
  /\ ScriptUnchanged

WatchEnds ==
  /\ spc = "watch" /\ stable = StableSamples
  /\ \/ Conclude(TRUE) \/ (mode = "physical-route" /\ Conclude(FALSE))
  /\ UNCHANGED <<samples, stable, known>> /\ ScriptUnchanged

Boot ==
  /\ image' = (IF disabled THEN "stock" ELSE "launcher") /\ marker' = FALSE /\ stats' = "none"
  /\ exe' = "stock" /\ ppc' = "down" /\ routed' = FALSE /\ rpc' = "off" /\ report' = "none"
  /\ registry' = "none" /\ spc' = "post-mount" /\ samples' = 0 /\ stable' = 0 /\ known' = FALSE
  /\ attempt' = (IF attempt = "failed" THEN "failed_before" ELSE attempt)
  /\ UNCHANGED <<install, disabled, kills>>

RecoveryReboot == spc = "reboot" /\ Boot /\ UNCHANGED user
Reboot == user < MaxUser /\ user' = user + 1 /\ Boot

(* The user enables the module again.                                      *)
Enable ==
  /\ user < MaxUser /\ user' = user + 1 /\ disabled
  /\ disabled' = FALSE /\ attempt' = "none"
  /\ UNCHANGED <<install, image, marker, stats, server, script, kills>>

Launcher == Launch \/ Main \/ Arm \/ Load \/ Instantiate \/ Exit
Monitor == MonitorWait \/ MonitorCheck \/ MonitorRegister \/ MonitorVerify \/ PublishStats
Scripts == Watch \/ WatchEnds \/ RecoveryReboot

BootNext == Launcher \/ Crash \/ Monitor \/ PostMount \/ Scripts \/ Reboot \/ Enable

BootSpec == BootInit /\ [][BootNext]_bootVars
(* init restarts cameraserver and its threads run; the root manager runs   *)
(* post-mount.sh.  service.sh may not run at all.                          *)
FairBootSpec == BootSpec /\ WF_bootVars(Launcher) /\ WF_bootVars(PostMount)

-----------------------------------------------------------------------------
(* A router that took its process down before it was ready is not loaded   *)
(* again in this boot, whatever crashes and restarts follow.               *)
OneUnprovenAttempt == attempt = "failed" => ~routed

Registered == report \in {"passthrough_ready", "physical_route_ready"}

(* What the router reports is true.  It is ready only while media.camera   *)
(* resolves to it (nothing else registers that name), and takes the name   *)
(* only in a mode and on a protocol that allow it.  One that reports a     *)
(* failure, even with the name taken, leaves the marker for the next       *)
(* start.  "A stats file belongs to one cameraserver lifetime only":       *)
(* behind main() of a launcher it is that of this process, and one that    *)
(* routes, unless an earlier one could not be removed.                     *)
ReportsAreTrue ==
  /\ Registered => registry = "router"
  /\ registry = "router" => mode = "passthrough" \/ (mode = "physical-route" /\ qualified)
  /\ report \in Failed => marker
  /\ stats = "own" => routed /\ Registered
  /\ exe = "launcher" /\ ppc \notin {"down", "main"} => stats # "old"

served == registry # "none"

(* Where the launcher fits the platform the camera always comes back, even *)
(* if every routed process crashes and service.sh never runs.              *)
CameraReturns == compatible => []<>served

(* Also where it does not fit, with the stock executable in place and      *)
(* service.sh running: it detects the failure, disables the module and     *)
(* reboots.                                                                *)
StockReturns == WF_bootVars(Scripts) => (captured => []<>served)
=============================================================================
