----------------------------- MODULE SignalPark -----------------------------
(***************************************************************************)
(* AndroidSignalQuiescenceBackend (runtime/platform/                       *)
(* AndroidSignalQuiescenceBackend.cpp): parking threads with a real-time   *)
(* signal whose handler sleeps on a futex.  One step is one access to a    *)
(* shared word, by the controlling thread or by the handler of a peer.     *)
(*                                                                         *)
(* The controlling thread behaves as a ThreadQuiescenceCoordinator does:   *)
(* it requests parks one by one, waits, requests more, resumes after any   *)
(* failure or at the end, resumes once more when that failed, and may      *)
(* start again with an epoch that was used before.  The accesses are       *)
(* acquire/release atomics and are taken to be sequentially consistent.    *)
(***************************************************************************)
EXTENDS Naturals, FiniteSets

CONSTANTS
  Peer,            \* threads that can be asked to park
  NoPeer,          \* not a thread
  Epoch,           \* the epochs of coordinators, without 0
  MaximumThreads,  \* slots in use, gSignalParkRuntime.maximumThreads
  MaxRounds        \* bound: coordinators that use the backend

ASSUME ParkAssumption ==
  /\ IsFiniteSet(Peer) /\ NoPeer \notin Peer
  /\ Epoch \subseteq Nat \ {0}
  /\ MaximumThreads \in Nat \ {0}
  /\ MaxRounds \in Nat

VARIABLES
  installed,                               \* parkSignalHandler is the disposition
  activeEpoch, releaseEpoch, handlerCount, \* the words of gSignalParkRuntime
  claimed, slotPC, slotEpoch,              \* its slots, by owning thread
  pending,                                 \* undelivered signals of a peer
  where,                                   \* is its interrupted pc in the target range
  hpc, hepoch, hobserved,                  \* its handler: position and locals
  ctl, epoch, current, requested,          \* the controlling thread
  accepted, resumed, rounds

words   == <<activeEpoch, releaseEpoch, handlerCount>>
slots   == <<claimed, slotPC, slotEpoch>>
locals  == <<hepoch, hobserved>>
handler == <<hpc, locals>>
control == <<ctl, epoch, current, requested, accepted, resumed, rounds>>
vars == <<installed, words, slots, pending, where, handler, control>>

NoPC == "zero"
Rests == {"idle", "failed", "released"}
Loop  == {"bump", "checkActive", "checkRelease", "load", "wait", "asleep"}

TypeOK ==
  /\ installed \in BOOLEAN
  /\ activeEpoch \in Epoch \cup {0} /\ releaseEpoch \in Epoch \cup {0}
  /\ handlerCount \in 0..Cardinality(Peer)
  /\ claimed \subseteq Peer
  /\ slotPC \in [Peer -> {NoPC, "inside", "outside"}]
  /\ slotEpoch \in [Peer -> Epoch \cup {0}]
  /\ pending \in [Peer -> 0..MaxRounds]
  /\ where \in [Peer -> {"inside", "outside"}]
  /\ hpc \in [Peer -> {"out", "delivered", "entered", "storePC", "storeEpoch", "leave"} \cup Loop]
  /\ hepoch \in [Peer -> Epoch \cup {0}] /\ hobserved \in [Peer -> Epoch \cup {0}]
  /\ ctl \in Rests \cup {"open", "reset", "activate", "claim", "zeroPC", "zeroEpoch",
                         "kill", "closeActive", "wake", "drain", "restore"}
  /\ epoch \in Epoch \cup {0} /\ current \in Peer \cup {NoPeer}
  /\ requested \subseteq Peer /\ accepted \subseteq requested
  /\ resumed \in BOOLEAN /\ rounds \in 0..MaxRounds

Init ==
  /\ installed = FALSE
  /\ activeEpoch = 0 /\ releaseEpoch = 0 /\ handlerCount = 0
  /\ claimed = {} /\ slotPC = [t \in Peer |-> NoPC] /\ slotEpoch = [t \in Peer |-> 0]
  /\ pending = [t \in Peer |-> 0] /\ where = [t \in Peer |-> "outside"]
  /\ hpc = [t \in Peer |-> "out"]
  /\ hepoch = [t \in Peer |-> 0] /\ hobserved = [t \in Peer |-> 0]
  /\ ctl = "released" /\ epoch = 0 /\ current = NoPeer
  /\ requested = {} /\ accepted = {} /\ resumed = TRUE /\ rounds = 0

-----------------------------------------------------------------------------
(* A peer thread: its own code, and parkSignalHandler.  The signal is      *)
(* blocked while its handler runs.                                         *)

At(t, from, to) == hpc[t] = from /\ hpc' = [hpc EXCEPT ![t] = to]

Run(t) ==
  /\ hpc[t] = "out"
  /\ where' = [where EXCEPT ![t] = IF @ = "inside" THEN "outside" ELSE "inside"]
  /\ UNCHANGED <<installed, words, slots, pending, handler, control>>

Deliver(t) ==
  /\ installed /\ pending[t] > 0
  /\ At(t, "out", "delivered")
  /\ pending' = [pending EXCEPT ![t] = @ - 1]
  /\ UNCHANGED <<installed, words, slots, where, locals, control>>

EnterHandler(t) ==
  /\ At(t, "delivered", "entered")
  /\ handlerCount' = handlerCount + 1
  /\ UNCHANGED <<installed, activeEpoch, releaseEpoch, slots, pending, where, locals, control>>

(* Reads the active epoch, then looks for its slot.                        *)
LoadEpoch(t) ==
  /\ hepoch' = [hepoch EXCEPT ![t] = activeEpoch]
  /\ \/ activeEpoch # 0 /\ At(t, "entered", "storePC")
     \/ activeEpoch = 0 /\ At(t, "entered", "leave")
  /\ UNCHANGED <<installed, words, slots, pending, where, hobserved, control>>

StorePC(t) ==
  /\ \/ /\ t \in claimed /\ At(t, "storePC", "storeEpoch")
        /\ slotPC' = [slotPC EXCEPT ![t] = where[t]]
     \/ /\ t \notin claimed /\ At(t, "storePC", "leave")
        /\ UNCHANGED slotPC
  /\ UNCHANGED <<installed, words, claimed, slotEpoch, pending, where, locals, control>>

StoreEpoch(t) ==
  /\ At(t, "storeEpoch", "bump")
  /\ slotEpoch' = [slotEpoch EXCEPT ![t] = hepoch[t]]
  /\ UNCHANGED <<installed, words, claimed, slotPC, pending, where, locals, control>>

(* parkedSequence: its waiter has a deadline, see WaitParked.              *)
BumpSequence(t) ==
  /\ At(t, "bump", "checkActive")
  /\ UNCHANGED <<installed, words, slots, pending, where, locals, control>>

CheckActive(t) ==
  /\ IF activeEpoch = hepoch[t] THEN At(t, "checkActive", "checkRelease")
                                ELSE At(t, "checkActive", "leave")
  /\ UNCHANGED <<installed, words, slots, pending, where, locals, control>>

CheckRelease(t) ==
  /\ IF releaseEpoch # hepoch[t] THEN At(t, "checkRelease", "load")
                                 ELSE At(t, "checkRelease", "leave")
  /\ UNCHANGED <<installed, words, slots, pending, where, locals, control>>

LoadRelease(t) ==
  /\ At(t, "load", "wait")
  /\ hobserved' = [hobserved EXCEPT ![t] = releaseEpoch]
  /\ UNCHANGED <<installed, words, slots, pending, where, hepoch, control>>

(* futexWait() compares and sleeps in one step.                            *)
FutexWait(t) ==
  /\ IF releaseEpoch = hobserved[t] THEN At(t, "wait", "asleep")
                                    ELSE At(t, "wait", "checkActive")
  /\ UNCHANGED <<installed, words, slots, pending, where, locals, control>>

(* Another signal interrupts the futex wait.                               *)
Interrupt(t) ==
  /\ At(t, "asleep", "checkActive")
  /\ UNCHANGED <<installed, words, slots, pending, where, locals, control>>

LeaveHandler(t) ==
  /\ At(t, "leave", "out")
  /\ handlerCount' = handlerCount - 1
  /\ hepoch' = [hepoch EXCEPT ![t] = 0] /\ hobserved' = [hobserved EXCEPT ![t] = 0]
  /\ UNCHANGED <<installed, activeEpoch, releaseEpoch, slots, pending, where, control>>

HandlerStep(t) ==
  \/ EnterHandler(t) \/ LoadEpoch(t) \/ StorePC(t) \/ StoreEpoch(t) \/ BumpSequence(t)
  \/ CheckActive(t) \/ CheckRelease(t) \/ LoadRelease(t) \/ FutexWait(t) \/ LeaveHandler(t)

-----------------------------------------------------------------------------
(* The controlling thread: prepare(), requestParkCallback(),               *)
(* waitForParkedCallback(), resumeEpoch() and shutdown().                  *)

ClearSlots ==
  /\ claimed' = {}
  /\ slotPC' = [t \in Peer |-> NoPC] /\ slotEpoch' = [t \in Peer |-> 0]

(* The signal is eligible only while it is pending nowhere.                *)
Prepare ==
  /\ ctl = "released" /\ ~installed
  /\ \A t \in Peer : pending[t] = 0
  /\ installed' = TRUE
  /\ activeEpoch' = 0 /\ releaseEpoch' = 0 /\ ClearSlots
  /\ UNCHANGED <<handlerCount, pending, where, handler, control>>

(* A new coordinator starts to use the backend.                            *)
NewRound ==
  /\ ctl = "released" /\ installed /\ activeEpoch = 0
  /\ rounds < MaxRounds /\ rounds' = rounds + 1
  /\ ctl' = "idle" /\ epoch' \in Epoch
  /\ requested' = {} /\ accepted' = {}
  /\ UNCHANGED <<installed, words, slots, pending, where, handler, current, resumed>>

BeginRequest ==
  /\ ctl = "idle"
  /\ current' \in Peer \ requested
  /\ \/ activeEpoch = 0 /\ ctl' = "open"
     \/ activeEpoch = epoch /\ ctl' = "claim"
  /\ UNCHANGED <<installed, words, slots, pending, where, handler, epoch, requested,
                 accepted, resumed, rounds>>

RequestFails == ctl' = "failed" /\ current' = NoPeer

(* Mutant: an epoch is opened while handlers of an earlier one still run.  *)
OpenUnchecked ==
  /\ ctl = "open"
  /\ ctl' = "reset"
  /\ UNCHANGED <<installed, words, slots, pending, where, handler, epoch, current,
                 requested, accepted, resumed, rounds>>

OpenEpoch ==
  /\ ctl = "open"
  /\ \/ handlerCount = 0 /\ ctl' = "reset" /\ UNCHANGED current
     \/ handlerCount # 0 /\ RequestFails
  /\ UNCHANGED <<installed, words, slots, pending, where, handler, epoch,
                 requested, accepted, resumed, rounds>>

ResetEpoch ==
  /\ ctl = "reset" /\ ctl' = "activate"
  /\ ClearSlots /\ releaseEpoch' = 0
  /\ UNCHANGED <<installed, activeEpoch, handlerCount, pending, where, handler, epoch,
                 current, requested, accepted, resumed, rounds>>

ActivateEpoch ==
  /\ ctl = "activate" /\ ctl' = "claim"
  /\ activeEpoch' = epoch /\ resumed' = FALSE
  /\ UNCHANGED <<installed, releaseEpoch, handlerCount, slots, pending, where, handler,
                 epoch, current, requested, accepted, rounds>>

ClaimSlot ==
  /\ ctl = "claim"
  /\ IF current \in claimed \/ Cardinality(claimed) < MaximumThreads
     THEN claimed' = claimed \cup {current} /\ ctl' = "zeroPC" /\ UNCHANGED current
     ELSE RequestFails /\ UNCHANGED claimed
  /\ UNCHANGED <<installed, words, slotPC, slotEpoch, pending, where, handler, epoch,
                 requested, accepted, resumed, rounds>>

ZeroPC ==
  /\ ctl = "zeroPC" /\ ctl' = "zeroEpoch"
  /\ slotPC' = [slotPC EXCEPT ![current] = NoPC]
  /\ UNCHANGED <<installed, words, claimed, slotEpoch, pending, where, handler, epoch,
                 current, requested, accepted, resumed, rounds>>

ZeroEpoch ==
  /\ ctl = "zeroEpoch" /\ ctl' = "kill"
  /\ slotEpoch' = [slotEpoch EXCEPT ![current] = 0]
  /\ UNCHANGED <<installed, words, claimed, slotPC, pending, where, handler, epoch,
                 current, requested, accepted, resumed, rounds>>

SendSignal ==
  /\ ctl = "kill"
  /\ \/ /\ pending' = [pending EXCEPT ![current] = @ + 1]
        /\ requested' = requested \cup {current} /\ ctl' = "idle" /\ current' = NoPeer
     \/ RequestFails /\ UNCHANGED <<pending, requested>>
  /\ UNCHANGED <<installed, words, slots, where, handler, epoch, accepted, resumed,
                 rounds>>

(* Mutant: the coordinator takes a zero program counter for a snapshot.    *)
AnySnapshot(t) == TRUE

(* The coordinator's test of a snapshot that the wait returned.            *)
ValidSnapshot(t) == slotPC[t] # NoPC

(* The wait returns the slots once each of them shows the epoch, or times  *)
(* out.                                                                    *)
WaitParked ==
  /\ ctl = "idle" /\ requested # {}
  /\ \/ /\ \A t \in requested : slotEpoch[t] = epoch
        /\ IF \A t \in requested : ValidSnapshot(t)
           THEN accepted' = requested /\ UNCHANGED ctl
           ELSE ctl' = "failed" /\ UNCHANGED accepted
     \/ ctl' = "failed" /\ UNCHANGED accepted
  /\ UNCHANGED <<installed, words, slots, pending, where, handler, epoch, current,
                 requested, resumed, rounds>>

(* resumeEpoch(): release, deactivate, wake, wait for the handlers.  The   *)
(* destructor of the coordinator repeats a resume that failed.             *)
Resume ==
  /\ installed
  /\ \/ ctl = "idle" /\ requested # {}
     \/ ctl = "failed"
     \/ ctl = "released" /\ ~resumed
  /\ activeEpoch \in {0, epoch}
  /\ ctl' = "closeActive" /\ accepted' = {}
  /\ releaseEpoch' = epoch
  /\ UNCHANGED <<installed, activeEpoch, handlerCount, slots, pending, where, handler,
                 epoch, current, requested, resumed, rounds>>

(* Mutant: the epoch is released but stays active.                         *)
LeaveActive ==
  /\ ctl = "closeActive" /\ ctl' = "wake"
  /\ UNCHANGED <<installed, words, slots, pending, where, handler,
                 epoch, current, requested, accepted, resumed, rounds>>

CloseActive ==
  /\ ctl = "closeActive" /\ ctl' = "wake"
  /\ activeEpoch' = 0
  /\ UNCHANGED <<installed, releaseEpoch, handlerCount, slots, pending, where, handler,
                 epoch, current, requested, accepted, resumed, rounds>>

WakeHandlers ==
  /\ ctl = "wake" /\ ctl' = "drain"
  /\ hpc' = [t \in Peer |-> IF hpc[t] = "asleep" THEN "checkActive" ELSE hpc[t]]
  /\ UNCHANGED <<installed, words, slots, pending, where, locals, epoch, current,
                 requested, accepted, resumed, rounds>>

WaitForHandlersToExit ==
  /\ ctl = "drain" /\ ctl' = "released"
  /\ \/ handlerCount = 0 /\ resumed' = TRUE
     \/ resumed' = FALSE
  /\ UNCHANGED <<installed, words, slots, pending, where, handler, epoch, current,
                 requested, accepted, rounds>>

(* Mutant: the disposition is restored without draining the signal.        *)
RestoreAtOnce ==
  /\ ctl = "released" /\ installed /\ activeEpoch = 0
  /\ ctl' = "restore"
  /\ UNCHANGED <<installed, words, slots, pending, where, handler, epoch, current,
                 requested, accepted, resumed, rounds>>

(* shutdown() with no active epoch (an active one is resumed first): the   *)
(* signal must be pending nowhere before the disposition is restored.      *)
DrainPending ==
  /\ ctl = "released" /\ installed /\ activeEpoch = 0
  /\ \A t \in Peer : pending[t] = 0
  /\ ctl' = "restore"
  /\ UNCHANGED <<installed, words, slots, pending, where, handler, epoch, current,
                 requested, accepted, resumed, rounds>>

RestoreDisposition ==
  /\ ctl = "restore" /\ ctl' = "released"
  /\ installed' = FALSE
  /\ UNCHANGED <<words, slots, pending, where, handler, epoch, current, requested,
                 accepted, resumed, rounds>>

(* A call in progress, which the running controlling thread completes.     *)
CallStep ==
  \/ OpenEpoch \/ ResetEpoch \/ ActivateEpoch \/ ClaimSlot \/ ZeroPC \/ ZeroEpoch
  \/ SendSignal \/ CloseActive \/ WakeHandlers \/ WaitForHandlersToExit
  \/ RestoreDisposition

Next ==
  \/ Prepare \/ NewRound \/ BeginRequest \/ WaitParked \/ Resume \/ DrainPending
  \/ CallStep
  \/ \E t \in Peer : Run(t) \/ Deliver(t) \/ HandlerStep(t) \/ Interrupt(t)

Spec == Init /\ [][Next]_vars

-----------------------------------------------------------------------------
(* A snapshot that the coordinator accepted stays true until it resumes:   *)
(* the thread is inside the handler, held by the epoch, at the recorded    *)
(* program counter, although a late signal of an earlier epoch may run the *)
(* handler while the slot is being claimed and zeroed.                     *)
SnapshotIsTrue ==
  \A t \in accepted :
    /\ hpc[t] \in Loop
    /\ hepoch[t] = activeEpoch /\ releaseEpoch # activeEpoch
    /\ slotPC[t] = where[t]

(* After a resume that returned true no peer is held or can come to be     *)
(* held until the next epoch is opened: a handler that still starts only   *)
(* enters and leaves.                                                      *)
ResumeReleasesAll ==
  (ctl = "released" /\ resumed) =>
    \A t \in Peer : hpc[t] \in {"out", "delivered", "entered", "leave"}

(* A handler that belongs to an earlier epoch never marks a slot of the    *)
(* current one, although epochs are reused and resumes time out.           *)
NoStaleMark ==
  activeEpoch # 0 => \A t \in Peer : slotEpoch[t] \in {0, activeEpoch}

(* The default action of a real-time signal ends the process: once the     *)
(* disposition is restored no such signal is left to be delivered.         *)
NoSignalAfterRestore == ~installed => \A t \in Peer : pending[t] = 0

(* "Resume ... wakes all handlers": once resume has issued its wake-up no  *)
(* handler sleeps on the release word, because nothing but another resume  *)
(* wakes it.                                                               *)
ResumeWakesAllHandlers == ctl = "drain" => \A t \in Peer : hpc[t] # "asleep"
=============================================================================
