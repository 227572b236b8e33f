# android-vcam in TLA+

A specification of the parts of android-vcam whose correctness depends on
interleavings, failures, crashes, timeouts or boundary cases: code patching in a
running camera server, the router inside it, the cameras it routes to, the
frame files they show, and the control and boot scripts around them. TLC
checks the models on small instances; TLAPS proves the main results for every
value of the constants.

## The system

android-vcam substitutes frames for those of a physical camera.

| Part | Modules | What is hard about it |
|---|---|---|
| Thread quiescence coordinator (`runtime/ThreadQuiescenceCoordinator.cpp`) | ThreadQuiescence | the thread list changes while it is read; failed requests may be delivered |
| Signal backend (`runtime/platform/AndroidSignalQuiescenceBackend.cpp`) | SignalPark | lock-free handler against controller, late signals, epoch reuse |
| Patch transaction (`runtime/Arm64PatchInstallTransaction.cpp`) | PatchTransaction | every backend call may fail, writes may be partial |
| Agent (`runtime/cameraserver_agent.cpp`, `RuntimeAbiGuard`, `RuntimeHookStrategy`, `Arm64PatchPlanner`, `StaticArm64Trampoline`, `RuntimeActivationPreflight`, signal selection) | AgentPreflight | facts go stale between gates; recipes, instruction masks |
| Router bootstrap (`CameraServerLauncher.cpp`, router monitor, `portable-module` scripts) | RouterBootstrap | crash loops, stale markers and statistics, reboots |
| Camera service router (`AndroidCameraServiceRouter.cpp`, `RouteResolver`, `ScopedCameraRouter`) | CameraRouter | policy and maps are files that change between two reads |
| Parcel rewriting (`Android14CameraIdRewriter.cpp`, `Android14CameraDeviceUserRouter.cpp`) | ParcelRewrite, RoutedSession | replacements move everything behind them |
| Virtual camera (`hal/src/VirtualCamera.cpp`) | VirtualCamera | error paths of every buffer, fences, locks, pacing |
| HAL proxy (`native/proxy_bootstrap.cpp`, `hal/src/OriginalHal.cpp`) | ProxyDevice | switching devices with calls that fail, registry races |
| Frame publication (`frame_publisher.c`, `stream_provider.c`, `RgbFrame.cpp`) | FramePublication, AtomicFrame | rename, killed writers, stale detection |
| Provider control (`apmodule/vcamctl`, `provider-runner.sh`) | ProviderLifecycle | unlocked shell commands; signals and traps |

The patch transaction asks for an exclusive window, the coordinator provides
such a window over a process, and the signal backend stops the threads for the
coordinator; the preflight decides whether any of this may be tried. The
repository ships no production backend that joins them, so each is specified
against the contract of the next. Independently, the launcher brings the router
into cameraserver, where it rewrites an application's camera ID to that of a
virtual camera, in the request that opens it and in its capture requests. The
virtual camera, alone or under the proxy, shows the frame file of the provider
on its route. `vcamd` forks a `vcamctl` per request; `vcamctl` edits the routes
and launches a runner per streaming provider, and the runner's streamer writes
the frame file.

`PROJECT.json` lists every component, the hazards with their source lines, and
the source lines behind every definition.

## Modules

Calls the code refuses without changing anything stutter. Definitions marked as
mutants are wrong versions of the definition that follows them, and show that
the properties can fail. Each `MC*` module extends its specification, and each
`*Proofs` module holds its theorems; `InstallationProofs` holds those of
ThreadQuiescence, PatchTransaction and RouterBootstrap, whose names are distinct
for this reason (`PatchSpec`, `BootSpec`). `MCInstallation` runs the first two
side by side: a behaviour is one of the coordinator or one of the transactions,
as no code joins them yet.

**ThreadQuiescence.** The variables are the members of the coordinator, plus the
process: live threads, who is in the patch range, who has an undelivered
request, who is parked. `enter()` is cut at its backend calls: `EnterBegin`,
`WalkNext` (one entry of `/proc/self/task` per step), `FirstInventory`,
`RequestThreadPark`, `ParkedOutsideTarget`, `WaitFails`, `FinalInventory`,
`AbortEnter`. Peers run between any two steps. A walk whose current thread exits
may end early or skip entries; a failed request may have been delivered. The
mismatch and invalid-counter results of a wait all abort, as a timeout does.

**SignalPark.** The backend below that contract: each access to a word of
`gSignalParkRuntime`, by the handler of a peer or by the controlling thread, is
a step. Epochs may be reused. Acquire/release accesses are taken as sequentially
consistent. Third parties that change the signal's disposition are left out.

**PatchTransaction.** Any number of transactions on one target. Each backend
call is a step with a failure branch; `visible` is the set of contents a core
may execute, so that a missing cache synchronization shows. Other software may
rewrite the target when no window is in force. The exclusive window is assumed
to do what ThreadQuiescence establishes.

**ProviderLifecycle.** `vcamctl` start, stop and update of one streaming
provider, and its runners. A step is one file operation, signal or process
event. A TERM sent to a runner takes effect between its commands and runs the
trap, which removes the marker and does not exit; before the trap is installed
it ends the runner. Waits end by success or by timeout at any moment, except
that the 15 seconds of a start suffice for a runner to reach its first child.
Process ids are not reused, and nothing but `vcamctl`
kills a runner.

**AgentPreflight.** The four entry points, validate, plan, preflight and
signal_preflight, each the gates of the one before it and more. A recipe is a
sequence of lines, read one line a step (`ParseLine`) and cross-checked at the
end of the file (`ParseEnd`), as `parseAbiRecipe` does; a loaded library is its
size, hash, notes and executable segments. An instruction is its bits 31-24 and
bit 4, which is what the planner's masks look at. Each gate is a
step on what the process looks like at that moment: other software may patch the
target, change its mappings or claim a signal, and threads start, exit and
change their masks during the choice of a signal. An inventory of that choice is
a walk of `/proc/self/task`, one entry a step (`enumerateThreadsAllocated`);
threads are listed in the order of their creation, and a walk whose current
thread exits may end early or pass by others. Thread IDs are not reused.

**RouterBootstrap.** The launcher (arm the attempt, load the router, fall back),
the monitor thread with its statistics file, and the portable module's
`post-mount.sh` and `service.sh`. Any process may crash at any step. The removal
of old statistics may fail, and the service manager may not return the router
that was just registered.
`/dev` is emptied by a reboot, the module's `disable` file is not.

**CameraRouter.** One request in `onTransact`; each file it reads is a step, the
flag that disables routing and the route table too, whenever they are read. The
maps are checked in one step, as they are not written again before a reboot. The
environment replaces the route table and the providers, publishes the maps one
by one, and reboots. Camera IDs and Camera1 indices are both naturals, as both
are decimal numerals in a request.

**ParcelRewrite** and **RoutedSession.** A parcel is a sequence of cells; an ID
occupies as many as its width. Both rewriting algorithms are operators, compared
with substitution of fields. An integer ID, which a Camera1 request has, is
replaced by one of its own width and moves nothing; it is CameraRouter's only.
`RoutedSession` composes the router with them: a
connectDevice that CameraRouter sent rewritten opens a session whose wrapper has
the two names, and the capture requests of the session go through ParcelRewrite.

**VirtualCamera.** Entry points are serialized by `mutex_`. A capture request is
a sequence of steps with every outcome of fence, lock, encoder and
allocation; callbacks are recorded in order. Settings that are kept for a later
request bear the session they came with. Time is counted since the last shutter.
A fence wait that a signal interrupts starts anew with its whole timeout; it is
one wait here, so `RequestAnswered` assumes that interruptions end.

**ProxyDevice.** A facade per client. Every OEM call and pointer update is a step
and may fail; the framework follows the HAL3 protocol. An OEM open may also
report success without a device; the configuration that follows then calls
through a null pointer, and the process starts again (`ConfigureNull`).

**FramePublication** and **AtomicFrame.** Files are inodes of blocks, so that a
name can be lost while a file is open and a killed writer leaves its temporary
file. `AtomicFrame` is the promise: a register that holds a whole frame or none.
`FramePublication` implements it under the mapping `current`, `seen`, `shown`.
Its values are versions of frames: the camera compares size and sequence number
only, so a frame that repeats both is to it the one it has.

## Runs

| Run | Checks | Instance | Distinct states |
|---|---|---|---|
| installation | the window is granted over a parked process (`WindowIsQuiescent`), no park is forgotten (`NoForgottenPark`), the end is final (`NoParkAfterEnd`), `CallsReturn`; `PatchHasTrampoline`, `ReportedStateIsTrue`, `StuckWindowIsReported`, `OverwritesOnlyOwn` | 3 threads, 2 created later, capacity 4, 2 passes; or 2 transactions, one of each kind | 181,677 |
| signal_park | accepted snapshots stay true (`SnapshotIsTrue`), `ResumeReleasesAll`, `NoStaleMark`, `NoSignalAfterRestore` | 2 peers, 2 rounds, 2 epochs, peers symmetric | 864,315 |
| preflight | ready only on the reviewed bytes, in code, with their trampoline (`ReadyOnLiveCode`); `PlanIsFaithful`, `SelectedSignalIsFree` | every instruction class at 2 places, 39 edited recipes, 12 mappings, 3 threads, 2 signals | 874,652 |
| bootstrap | `OneUnprovenAttempt`; readiness and statistics are of this process (`ReportsAreTrue`); `CameraReturns`, and by the stock path `StockReturns` | 2 stable samples of 4, 1 recovery, 2 user operations | 340,820 |
| router | requests follow the policy of some moment (`FollowsPolicy`), `NoStaleTopology`, fail closed and only with a cause (`RefusedForCause`); capture requests name their device and keep their read position (`RequestsNameTheirDevice`), `RewritersAgree` | 2 UIDs, 2 topologies, 3 tables, 2 changes; batches of 2 requests, IDs of 1 and 4 digits | 1,641,937 |
| virtual_camera | `CallbacksMatchAnswer`; fences and locks (`BuffersSettled`); settings, frames and view (`ServedFromThisSession`); `Paced`, `RequestAnswered` | 3 streams, 2 buffers, 2 providers | 263,538 |
| proxy | OEM devices and facades (`OwnedOnce`), `PointerIsOpen`, `RequestsReachConfigured` | 2 clients, 2 cameras, 3 handles | 46,854 |
| publication | implements AtomicFrame (`ReplacesAtomically`); a version that stays is shown (`ShowsCurrent`) | 1 writer, 4 frames of 2 sizes, 2 of them alike, 3 inodes | 289,004 |
| provider | `StopIsComplete`, `StreamHasMarker`, failed updates undone (`UpdateIsConsistent`), `FirstFrameIsNew`, `CommandsReturn` | 1 client, 4 runners of a direct provider or 2 of a staged one | 560,852 |
| resume_lost_wakeup, orphan_streamer, bc_cond | violated, see below | 2 peers, 1 round; 2 runners of a staged provider; as preflight | |

Each module documents its variables in a type invariant, which also holds on these
instances but is not listed in them: the runs keep to what could be wrong with
the code. Where a module has theorems it is proved, as one of them
or, for FramePublication, as part of the inductive invariant.

Why the bounds suffice: two threads created later and two passes make both a
successful second pass and an unstable thread set happen; a capacity of four
among five threads makes the walk overflow. Two peers and two rounds give a
handler left over from one epoch meeting the next, with equal or different
epochs. Two transactions are enough for one to meet the bytes of the other. One
thread besides the caller and one that starts later meet both inventories of a
signal scan, and two signals make the scan move on. Requests of the router share
no memory, so one against two changes of its files meets every mix of old and
new; two requests of a batch put a read position before, inside and behind each
ID, shorter or longer than its replacement. Three handles for two clients let
one hold two devices during a switch. Four frames of two sizes give a change of
size, of sequence number and, between two frames, of neither; three inodes are
the target, the temporary and an open one. Four runners allow a start, an update that fails and
restores, and another start; two of a staged provider a restart or an update.

In one topology of `router` the Camera1 index of a camera is the Camera2 ID of
another, which the code confuses in one place; `FollowsPolicy` says what it does
then (`TakenForTarget`). `provider` states that stops are complete and first
frames are new for direct providers only. `PlanIsFaithful` excepts one
instruction, and `SelectedSignalIsFree` what changes behind the scan and threads
that its second walk passes by; without either exception TLC finds it violated.
The next section says where these come from.

Deadlock is not checked where the modelled program ends or its users may stop:
the `installation` run (a destroyed coordinator), SignalPark (rounds used up),
AgentPreflight (the verdict), RouterBootstrap (user operations used up),
ProxyDevice (OEM handles used up).

Fairness. A call in progress on a runnable thread continues, and a runner
continues until it waits for a child (`CallStep`, `ClientStep`). Time passes and
a capture thread runs (VirtualCamera). The camera reloads before each buffer
(FramePublication). init restarts cameraserver and the root manager runs
`post-mount.sh`; only `StockReturns` also assumes `service.sh`, as a hypothesis
of the property. Nothing is assumed of peers, signals, clients, downloads or the
network.

## Disagreements with the documentation

`docs/runtime-adaptation.md:223` says that resume wakes all handlers and waits
for their count to reach zero before the disposition can be restored.

* `resume_lost_wakeup`: the handler loads the release word after its loop test.
  If resume stores it in between, and wakes before the handler waits, the
  handler sleeps until another resume. That resume reports a timeout.

`docs/architecture.md:152` says that stopping a provider waits for its runner
and children before a replacement starts.

* `orphan_streamer`: children are listed once. A download that ends after that
  lets the runner spawn a streamer, behind which its trap is deferred; the
  runner is killed and the streamer survives. A direct provider's runner spawns
  one child only, for which the statement holds.

`docs/runtime-adaptation.md:126` says that planning is rejected if any stolen
instruction is PC-relative or performs control flow, and the comment at
`Arm64PatchPlanner.cpp:38` names "B.cond/BC.cond".

* `bc_cond`: the mask on that line requires bit 4 to be 0, which is so for B.cond
  and not for BC.cond. A prologue with a BC.cond is planned, and the branch is
  copied to another address (`MovesNoBranch`). `PlanIsFaithful` shows that it is
  the only such instruction.

The following are not runs of this project. They are limits of what its runs
show, met while reading the code, and in `PROJECT.json` as hazards with a note.

* `AndroidSignalQuiescenceBackend.cpp:807`: shutdown waits for the handler count
  only if an epoch is active, so a handler may outlive the disposition.
* `vcamctl:514`: commands take no lock and the pid is recorded after the launch;
  with two clients at once a runner is lost, and its exit removes a marker.
* `stream_provider.c:80`: publisher and streamer share one temporary name. The
  atomic replacement is shown for one writer at a time (`OneWriter`).
* `AndroidCameraServiceRouter.cpp:453`: the Camera2 ID of a physical provider is
  compared with the number in a Camera1 request. If they are equal by accident
  the request is taken to be for that camera and stays as it is.
* `AndroidSignalQuiescenceBackend.cpp:604`: the scan for a signal does not see a
  mask that changes after it was read, nor a thread that both inventories miss
  because the one listed before it exits.

## Proofs

All constants are arbitrary up to the named assumptions.

*InstallationProofs*, ThreadQuiescence (`QuiescenceAssumption`: the caller is one
of the initial threads, capacity and passes are positive): `WindowIsQuiescent`,
`NoForgottenPark`, `NoParkAfterEnd` and `TypeOK`. The window property is not
inductive: while the second inventory is being read, threads it has not met may
still run. The key conjunct, `WalkInv`, says what a walk in progress
establishes: as long as everything it has read is a requested thread or the
caller, every live thread up to its cursor has been read. This holds because
requested threads are parked by then and cannot exit, so the walk is never lost,
and because new threads are linked at the tail. `ControlInv`,
`DebtInv`, `EpochInv` and `HeldInv` tie the call in progress to the coordinator's
state, to its debt of a resume, and to the parked set.

*InstallationProofs*, PatchTransaction (`TransactionAssumption`: precompiled
transactions are transactions and the absent one is not): its four properties and
`PatchTypeOK`, from an invariant that says for each backend call what memory,
trampoline and publication look like when it is about to be made.

*InstallationProofs*, RouterBootstrap (`BootstrapAssumption`: the counts are
naturals, the sample count positive): `OneUnprovenAttempt`, `ReportsAreTrue` and
`BootTypeOK`.
`MarkerInv` is the reason: the marker is there from before `dlopen()` until the
router is ready, so an attempt that fails leaves it behind. `MonitorInv` says
what the monitor thread has found out at each of its steps.

*AgentPreflightProofs* proves `PlanIsFaithful`, `ReadyOnLiveCode`,
`SelectedSignalIsFree` and `TypeOK`, for any recipe files, code, mappings,
threads and signals. It assumes that a file is a finite sequence
of lines with the keys of `parseAbiRecipe` (`TextAssumption`), that addresses are
naturals and the calling thread is one of the process (`ProcessAssumption`), that
the profile of the precompiled trampoline names each symbol once
(`ProfileAssumption`), that there is a highest signal (`SignalAssumption`), that
threads are numbered from 1 (`ThreadAssumption`), and that the special value is
distinct (`NoneAssumption`). `AcceptInv` carries the checks of the parser to the
later gates. `PlanInv` says that the plan is `PlanPatch` of the first words of a
symbol of the recipe and, from the choice of the trampoline on, of the profile. That step counts:
`exactlyMatches` looks for each profile symbol in the recipe and compares the
lengths, and only because the profile has no duplicates can the recipe hold
nothing else (`NothingElse`, the pigeonhole principle). `LiveInv` says that the
words read are those of the plan and lie in one mapping that allows it;
`Free` and `Seen` that, unless something changed behind the scan, the candidate
has no handler and is free in every live thread already read; `Walked` that the
second walk, unless it passed by a live thread, has listed every live thread up
to its cursor, new threads being listed last. At its end the two inventories
are equal, so that every live thread has been read.
`MasksSuffice` is the arithmetic fact under `PlanIsFaithful`: the masks of the
planner match every instruction that uses its address, BC.cond excepted.
`RunsThrough` follows the trampoline's words to their absolute branch.

*ProviderLifecycleProofs* (`LifecycleAssumption`: the two provider types and how
many runners each may start) proves `StopIsComplete`, `StreamHasMarker`,
`UpdateIsConsistent`, `FirstFrameIsNew` and `TypeOK` for any number of runners
and one client at a time. `OneClient` is a hypothesis of the theorems and not an
assumption of the module: `vcamctl` takes no lock, and with two clients
at once `StreamHasMarker` does not hold (see above). `RunnerInv` says that only
the runner started last can be alive, `PidInv` that `stream.pid` names it from the step after its launch,
so that a stop signals the right process. `ChildInv` and `FrameInv` say that a
direct provider's runner has started its streamer before any command signals
it, and that the streamer a stop kills is the one it listed; this is where the
15 seconds of a start are used, and what a staged provider lacks. `MarkerInv`
confines pending TERMs, which will remove the marker, to the wait of a stop.
`ConfigInv` says at which steps of an update files and runner may differ.

*FramePublicationProofs* (`FrameAssumption`: sizes are between 1 and the largest,
the special values are distinct) proves `NoTornFrame` and the refinement
`ReplacesAtomically`, for one writer (`OneWriter`, a hypothesis of the theorems).
The register holds versions; where sequence numbers tell frames of one size
apart (`SequencesDiffer`) a version is a frame (`VersionIsFrame`). Neither result
is inductive. `WriterInv` says
that a writer owns the temporary file, which holds the part of its frame it has
written; `FilesInv` that the published file and the file being read are whole
and are not the temporary; `ReaderInv` that the reader's buffer is the part of
that frame it has read. The refinement maps `Commit` to `Publish`, and the end
of a reload to `Show`.

*SignalParkProofs* (`ParkAssumption`: finitely many peers, epochs are positive,
the absent peer is not one) proves `SnapshotIsTrue`, `ResumeReleasesAll`,
`NoStaleMark`, `NoSignalAfterRestore` and `TypeOK`. None is inductive, since a
handler may be anywhere when the controller moves. `CountInv` says that
`handlerCount` is the number of handlers between their first and last access, so
that a count of zero, which opening an epoch waits for, means that no handler is
under way. From it `QuietInv` and `HandlerInv` say that while an epoch is being
opened no handler is past its load, and while one is active all that are past it
loaded that epoch; `SignalInv` counts undelivered signals against the rounds.

*VirtualCameraProofs* (`CameraAssumption`: the default and the largest rate are
at least one frame a second and at most one a tick, stream sizes are naturals) proves
`CallbacksMatchAnswer`, `BuffersSettled`, `ServedFromThisSession`, the action
property `Paced`, and `TypeOK`, for any number of streams and buffers.
`SessionInv` ties the two frame durations to the loaded view and to the
configured streams; `CallbackInv` says what has been reported when some of the
outputs are finished, and `BufferInv` that the outputs still to come are as the
framework sent them. `Paced` needs in addition that the durations are positive
and not above a second, which rests on the clamping of rates in
`configureStreamsLocked` (`OutputDurationRange`).

*ProxyDeviceProofs* (`ProxyAssumption`: the special values are distinct) proves
`OwnedOnce`, `PointerIsOpen`, `RequestsReachConfigured` and `TypeOK`. `OwnedOnce`
counts owners; the invariant says instead that the handles of two clients are
disjoint (`Disjoint`) and that every open handle is some client's (`Covered`).
The rest is a statement per client, `ClientInv`. A step of one client that
leaves the records and handles of the others alone keeps theirs (`LocalStep`), so
each action is proved for its own client only.

*CameraRouterProofs* (`RouterAssumption`: topologies are those `camera-map.sh`
accepts, `ValidTopology`; route tables are sequences of lines; physical providers
name a slot; the special values are distinct) proves `FollowsPolicy`,
`NoStaleTopology`, `RefusedForCause` and `TypeOK`, for any topologies and tables
and any number of policy changes during a request. `FileInv` says that a marker
on disk means four maps of this boot; `PolicyInv` and `DecisionInv` that what a decision has read so far is
allowed by policies that were in force while it was handled, which is what
remains of a value once the file has changed. The flag that disables routing,
the table and the state of a provider are read at different moments, so each has a witness of its
own. A Camera1 index that is the Camera2 ID of the other target is covered by
`TakenForTarget`; without it TLC finds `FollowsPolicy` violated.

The inductive invariants were checked by TLC before they were proved, on the
instances of the runs without symmetry or on slightly larger ones.

Only model-checked:

* all liveness (`CallsReturn`, `RequestAnswered`, `ShowsCurrent`, `CameraReturns`,
  `StockReturns`, `CommandsReturn`): the prover handles neither fairness nor ENABLED;
* `RequestsNameTheirDevice` and `RewritersAgree`: what the rewriters compute is a
  recursion over the parcel, and the prover has no induction over data.

## Not modelled

* Status listeners (`Android14CameraListenerFilter.cpp`) and the counters of
  Binder observation: neither shares state with the routing of requests.
* The route table's rewriting by concurrent `vcamctl` commands; CameraRouter
  reads whole tables that change between any two of its reads.
* The control daemon's pipes and limits, and the connecting, pacing and
  reconnecting of the stream decoder around FFmpeg.
* The AIDL provider, whose sessions repeat VirtualCamera's on top of an emulated
  HWL from another source tree, and the AIDL module's scripts.
* Pixel arithmetic: geometry of frames and views, and the test pattern.
* Boot scripts of the original module (`apmodule/post-mount.sh`, `service.sh`,
  `boot-completed.sh`): stages that the root manager orders, decided by file
  hashes and the camera service's dump.
* `vcamctl` media import, view settings and providers without a runner.
* Static camera metadata, vendor tags, module entry points, transaction tables:
  constants and forwarding.
* The HIDL provider, which decides once whether it is ready and forwards.
* The bytes of ELF notes, recipe lines and `/proc` files, which are values, and
  the assembly of the precompiled trampolines.
* Patches to AOSP, whose surrounding code is elsewhere; installation scripts;
  the manager's user interface; the downloader; probes, tools and tests.
