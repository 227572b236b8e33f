-------------------------- MODULE ThreadQuiescence --------------------------
(***************************************************************************)
(* ThreadQuiescenceCoordinator (runtime/ThreadQuiescenceCoordinator.cpp):  *)
(* the stop-the-world protocol that parks every peer thread of a process   *)
(* outside a 16-byte patch range before code is overwritten.               *)
(*                                                                         *)
(* The peers are processes of the model: while they are not parked they    *)
(* create threads, exit, and move in and out of the target range at any    *)
(* moment.  Reading /proc/self/task is a walk of the kernel's thread list, *)
(* one thread per step, that interleaves with them.                        *)
(*                                                                         *)
(* Threads are numbered in order of creation, which is the order of the    *)
(* kernel's list (new threads are linked at its tail).  The order in which *)
(* one pass requests parks is the order of kernel ids, which is unrelated. *)
(***************************************************************************)
EXTENDS Integers, FiniteSets

CONSTANTS
  MaxCreated,      \* bound: threads ever created in the process
  InitialThreads,  \* threads alive when the coordinator is built
  Caller,          \* configuration_.currentThreadId
  MaximumThreads,  \* configuration_.maximumThreads
  MaximumPasses    \* configuration_.maximumStabilizationPasses

Thread == 1..MaxCreated

ASSUME QuiescenceAssumption ==
  /\ MaxCreated \in Nat
  /\ InitialThreads \in 1..MaxCreated
  /\ Caller \in 1..InitialThreads
  /\ MaximumThreads \in Nat \ {0}
  /\ MaximumPasses \in Nat \ {0}

VARIABLES
  live, created,    \* threads of the process; how many were ever created
  inTarget,         \* threads whose program counter is in the patch range
  signalled,        \* threads with an undelivered park request
  parked,           \* threads stopped by the backend
  open,             \* the backend parks threads that receive the request
  state,            \* state_
  pc,               \* the call in progress
  pass, requested, inventory, parkAttempted,
  scanned, cursor   \* the walk of /proc/self/task: threads read, last read

process == <<live, created, inTarget>>
backend == <<signalled, parked, open>>
walk    == <<scanned, cursor>>
vars == <<process, backend, walk, state, pc, pass, requested, inventory,
          parkAttempted>>

States == {"Empty", "Prepared", "Exclusive", "Released", "Failed"}
Drains == {"abortDrain", "leaveDrain", "destroyDrain"}
Calls  == {"idle", "scan", "request", "wait", "rescan", "abort", "gone"} \cup Drains

TypeOK ==
  /\ live \in SUBSET Thread /\ created \in 0..MaxCreated
  /\ inTarget \in SUBSET Thread
  /\ signalled \in SUBSET Thread /\ parked \in SUBSET Thread /\ open \in BOOLEAN
  /\ scanned \in SUBSET Thread /\ cursor \in 0..MaxCreated
  /\ state \in States /\ pc \in Calls
  /\ pass \in 0..(MaximumPasses - 1)
  /\ requested \in SUBSET Thread /\ inventory \in SUBSET Thread
  /\ parkAttempted \in BOOLEAN

Init ==
  /\ live = 1..InitialThreads /\ created = InitialThreads
  /\ inTarget = {}
  /\ signalled = {} /\ parked = {} /\ open = FALSE
  /\ scanned = {} /\ cursor = 0
  /\ state = "Empty" /\ pc = "idle"
  /\ pass = 0 /\ requested = {} /\ inventory = {} /\ parkAttempted = FALSE

-----------------------------------------------------------------------------
(* The process: what a peer thread may do while it is not parked.          *)

Running(t) == t \in live \ parked /\ t # Caller

CreateThread(t) ==
  /\ Running(t) /\ created < MaxCreated
  /\ created' = created + 1
  /\ live' = live \cup {created + 1}
  /\ UNCHANGED <<inTarget, backend, walk, state, pc, pass, requested, inventory,
                 parkAttempted>>

ExitThread(t) ==
  /\ Running(t)
  /\ live' = live \ {t}
  /\ inTarget' = inTarget \ {t}
  /\ signalled' = signalled \ {t}
  /\ UNCHANGED <<created, parked, open, walk, state, pc, pass, requested,
                 inventory, parkAttempted>>

MoveProgramCounter(t) ==
  /\ Running(t)
  /\ inTarget' = IF t \in inTarget THEN inTarget \ {t} ELSE inTarget \cup {t}
  /\ UNCHANGED <<live, created, backend, walk, state, pc, pass, requested,
                 inventory, parkAttempted>>

-----------------------------------------------------------------------------
(* The injected backend's effect on a peer: a delivered request parks the  *)
(* thread while the epoch is open and is ignored afterwards; a parked      *)
(* thread runs again only once the epoch was released.                     *)

DeliverRequest(t) ==
  /\ Running(t) /\ t \in signalled
  /\ signalled' = signalled \ {t}
  /\ parked' = IF open THEN parked \cup {t} ELSE parked
  /\ UNCHANGED <<process, open, walk, state, pc, pass, requested, inventory,
                 parkAttempted>>

Unpark(t) ==
  /\ t \in parked /\ ~open
  /\ parked' = parked \ {t}
  /\ UNCHANGED <<process, signalled, open, walk, state, pc, pass, requested,
                 inventory, parkAttempted>>

-----------------------------------------------------------------------------
(* prepare(): validates the configuration and reads the inventory once; an *)
(* invalid configuration or a failed read leaves the coordinator failed.   *)

Prepare ==
  /\ pc = "idle" /\ state = "Empty"
  /\ \/ state' = "Failed"
     \/ Cardinality(live) <= MaximumThreads /\ state' = "Prepared"
  /\ UNCHANGED <<process, backend, walk, pc, pass, requested, inventory,
                 parkAttempted>>

EnterBegin ==
  /\ pc = "idle" /\ state = "Prepared"
  /\ pc' = "scan" /\ requested' = {} /\ pass' = 0
  /\ scanned' = {} /\ cursor' = 0
  /\ UNCHANGED <<process, backend, state, inventory, parkAttempted>>

(* One step of readInventory(): the next thread of the list.  A walk whose *)
(* last thread has exited is lost: it may end there, or go on further down *)
(* the list after skipping any number of threads.                          *)
Following == {t \in live : t > cursor}
Lost == cursor # 0 /\ cursor \notin live

WalkNext ==
  /\ pc \in {"scan", "rescan"}
  /\ \E t \in Following :
       /\ Lost \/ \A u \in Following : t <= u
       /\ IF Cardinality(scanned) = MaximumThreads
          THEN pc' = "abort" /\ UNCHANGED walk
          ELSE scanned' = scanned \cup {t} /\ cursor' = t /\ UNCHANGED pc
  /\ UNCHANGED <<process, backend, state, pass, requested, inventory,
                 parkAttempted>>

WalkEnds == Lost \/ Following = {}

EnumerationFails ==
  /\ pc \in {"scan", "rescan"}
  /\ pc' = "abort"
  /\ UNCHANGED <<process, backend, walk, state, pass, requested, inventory,
                 parkAttempted>>

(* The inventory read before parking: valid when it holds the caller.      *)
FirstInventory ==
  /\ pc = "scan" /\ WalkEnds
  /\ IF Caller \in scanned
     THEN inventory' = scanned /\ pc' = "request"
     ELSE pc' = "abort" /\ UNCHANGED inventory
  /\ UNCHANGED <<process, backend, walk, state, pass, requested, parkAttempted>>

Unrequested == inventory \ (requested \cup {Caller})

(* requestThreadPark() for one peer.  A failed request may nevertheless    *)
(* have been delivered, so parkAttempted_ is set before the call.          *)
RequestThreadPark ==
  /\ pc = "request"
  /\ \E t \in Unrequested :
       IF Cardinality(requested) = MaximumThreads
       THEN pc' = "abort" /\ UNCHANGED <<backend, requested, parkAttempted>>
       ELSE /\ parkAttempted' = TRUE
            /\ \/ /\ t \in live
                  /\ open' = TRUE /\ signalled' = signalled \cup {t}
                  /\ requested' = requested \cup {t} /\ UNCHANGED pc
               \/ /\ open' \in {open, TRUE}
                  /\ signalled' \in {signalled, signalled \cup ({t} \cap live)}
                  /\ pc' = "abort" /\ UNCHANGED requested
            /\ UNCHANGED parked
  /\ UNCHANGED <<process, walk, state, pass, inventory>>

RequestsDone ==
  /\ pc = "request" /\ Unrequested = {}
  /\ pc' = "wait"
  /\ UNCHANGED <<process, backend, walk, state, pass, requested, inventory,
                 parkAttempted>>

(* waitForParkedThreads() succeeded: every snapshot is checked against the *)
(* patch range, then the second inventory is started.                      *)
ParkedOutsideTarget ==
  /\ pc = "wait" /\ requested \subseteq parked
  /\ IF requested \cap inTarget = {}
     THEN pc' = "rescan" /\ scanned' = {} /\ cursor' = 0
     ELSE pc' = "abort" /\ UNCHANGED walk
  /\ UNCHANGED <<process, backend, state, pass, requested, inventory,
                 parkAttempted>>

(* Mutant: a wait without a deadline.                                      *)
WaitNeverTimesOut == FALSE

(* The wait timed out, or its snapshots do not match the request set, the  *)
(* epoch, or hold an invalid program counter.                              *)
WaitFails ==
  /\ pc = "wait" /\ requested # {}
  /\ pc' = "abort"
  /\ UNCHANGED <<process, backend, walk, state, pass, requested, inventory,
                 parkAttempted>>

(* Mutant: threads that appeared during the pass are ignored.              *)
ContainsRequested == requested \subseteq scanned

Exact == scanned = requested \cup {Caller}

LastPass == pass + 1 = MaximumPasses

FinalInventory ==
  /\ pc = "rescan" /\ WalkEnds
  /\ IF Caller \in scanned /\ requested \subseteq scanned
     THEN \/ /\ Exact
             /\ state' = "Exclusive" /\ pc' = "idle"
             /\ UNCHANGED <<pass, inventory>>
          \/ /\ ~Exact /\ LastPass
             /\ pc' = "abort"
             /\ UNCHANGED <<state, pass, inventory>>
          \/ /\ ~Exact /\ ~LastPass
             /\ pass' = pass + 1 /\ inventory' = scanned /\ pc' = "request"
             /\ UNCHANGED state
     ELSE pc' = "abort" /\ UNCHANGED <<state, pass, inventory>>
  /\ UNCHANGED <<process, backend, walk, requested, parkAttempted>>

-----------------------------------------------------------------------------
(* resumeParkedThreads(): releases the epoch, then waits for the peers.    *)
(* abortEnter(), leave() and the destructor call it when a park was ever   *)
(* attempted.                                                              *)

(* Mutant: the parked threads are woken but the epoch stays open.          *)
WakeOnly == open' = open

Release == open' = FALSE

AbortEnter ==
  /\ pc = "abort"
  /\ IF parkAttempted
     THEN Release /\ pc' = "abortDrain" /\ UNCHANGED state
     ELSE state' = "Failed" /\ pc' = "idle" /\ UNCHANGED open
  /\ UNCHANGED <<process, signalled, parked, walk, pass, requested, inventory,
                 parkAttempted>>

Leave ==
  /\ pc = "idle" /\ state = "Exclusive"
  /\ IF parkAttempted
     THEN Release /\ pc' = "leaveDrain" /\ UNCHANGED state
     ELSE state' = "Released" /\ UNCHANGED <<open, pc>>
  /\ UNCHANGED <<process, signalled, parked, walk, pass, requested, inventory,
                 parkAttempted>>

Destroy ==
  /\ pc = "idle"
  /\ IF parkAttempted
     THEN Release /\ pc' = "destroyDrain"
     ELSE pc' = "gone" /\ UNCHANGED open
  /\ UNCHANGED <<process, signalled, parked, walk, state, pass, requested,
                 inventory, parkAttempted>>

ResumeSucceeds ==
  /\ pc \in Drains /\ parked = {}
  /\ pc' = IF pc = "destroyDrain" THEN "gone" ELSE "idle"
  /\ parkAttempted' = (parkAttempted /\ pc = "destroyDrain")
  /\ state' = CASE pc = "abortDrain" -> "Failed"
                [] pc = "leaveDrain" -> "Released"
                [] OTHER -> state
  /\ UNCHANGED <<process, backend, walk, pass, requested, inventory>>

(* Mutant: a failed resume forgets that a park was attempted.              *)
ResumeFailsAndForgets ==
  /\ pc \in Drains
  /\ pc' = IF pc = "destroyDrain" THEN "gone" ELSE "idle"
  /\ state' = IF pc = "destroyDrain" THEN state ELSE "Failed"
  /\ parkAttempted' = FALSE
  /\ UNCHANGED <<process, backend, walk, pass, requested, inventory>>

ResumeFails ==
  /\ pc \in Drains
  /\ pc' = IF pc = "destroyDrain" THEN "gone" ELSE "idle"
  /\ state' = IF pc = "destroyDrain" THEN state ELSE "Failed"
  /\ UNCHANGED <<process, backend, walk, pass, requested, inventory,
                 parkAttempted>>

-----------------------------------------------------------------------------
(* Steps of a call in progress: each is a bounded piece of enter(),        *)
(* leave() or the destructor, and every wait has a deadline.               *)
CallStep ==
  \/ WalkNext \/ EnumerationFails \/ FirstInventory
  \/ RequestThreadPark \/ RequestsDone
  \/ ParkedOutsideTarget \/ WaitFails \/ FinalInventory
  \/ AbortEnter \/ ResumeSucceeds \/ ResumeFails

Next ==
  \/ Prepare \/ EnterBegin \/ Leave \/ Destroy
  \/ CallStep
  \/ \E t \in Thread : CreateThread(t) \/ ExitThread(t) \/ MoveProgramCounter(t)
                       \/ DeliverRequest(t) \/ Unpark(t)

Spec == Init /\ [][Next]_vars

(* The calling thread is runnable, so a call in progress keeps moving.     *)
FairSpec == Spec /\ WF_vars(CallStep)

-----------------------------------------------------------------------------
InWindow == state = "Exclusive" /\ pc = "idle"

(* Once enter() has returned kOk and until leave() or the destructor       *)
(* releases the epoch, every other thread of the process is parked with    *)
(* its program counter outside the patch range: neither a thread created   *)
(* behind the walk of /proc/self/task nor one that vanished in front of it *)
(* slips through the exact-inventory test.                                 *)
WindowIsQuiescent ==
  InWindow => \A t \in live \ {Caller} : t \in parked /\ t \notin inTarget

(* Whenever the coordinator believes that it owes no resume                *)
(* (parkAttempted_ is false), no thread is parked and no request that is   *)
(* still on its way can park one: a request that reported failure but was  *)
(* delivered is undone too.                                                *)
NoForgottenPark == ~parkAttempted => parked = {} /\ ~open

(* enter(), leave() and the destructor return, whatever the peers do: a    *)
(* thread that exits between tgkill and its handler, or threads that keep  *)
(* appearing, end in a timeout or in kThreadSetUnstable.                   *)
CallsReturn == pc \notin {"idle", "gone"} ~> pc \in {"idle", "gone"}

(* Once the coordinator is released or failed it never becomes exclusive   *)
(* again and never stops another thread: a request that is delivered only  *)
(* after abortEnter() or leave() finds its epoch closed.                   *)
NoParkAfterEnd ==
  [][(state \in {"Released", "Failed"}) =>
       (state' = state) /\ (parked' \subseteq parked)]_vars
=============================================================================
