------------------------- MODULE InstallationProofs -------------------------
(***************************************************************************)
(* Proofs about the ways in which code of this project gets into a camera  *)
(* process: the coordinator that stops the process (ThreadQuiescence), the *)
(* transaction that redirects a function (PatchTransaction) and the        *)
(* bootstrap of the Binder router (RouterBootstrap).  They hold for any    *)
(* number of threads, capacity and pass limit, any set of transactions and *)
(* any number of samples, crashes and reboots.                             *)
(***************************************************************************)
EXTENDS ThreadQuiescence, PatchTransaction, RouterBootstrap, TLAPS

-----------------------------------------------------------------------------
(* ThreadQuiescence.  The inductive invariant: every thread requested so   *)
(* far stays parked outside the patch range from the snapshot check to the *)
(* release; and as long as the second walk has met no unexpected thread,   *)
(* it has met every live thread up to its cursor.                          *)

(* Thread numbers are handed out in order, the caller is alive and runs.   *)
ProcessInv ==
  /\ live \subseteq 1..created
  /\ Caller \in live /\ Caller \notin parked
  /\ parked \subseteq live

(* Which call runs in which state.                                         *)
ControlInv ==
  /\ pc \in {"scan", "request", "wait", "rescan", "abort", "abortDrain"} =>
       state = "Prepared"
  /\ pc = "leaveDrain" => state = "Exclusive"
  /\ state = "Empty" => ~parkAttempted
  /\ pc = "scan" => requested = {}

(* A release is owed as long as the epoch is open or a thread is parked.   *)
DebtInv ==
  /\ ~parkAttempted => parked = {} /\ ~open
  /\ pc \in Drains => ~open
  /\ state \in {"Released", "Failed"} => ~open

(* Requested threads are covered by an open epoch until it is released.    *)
EpochInv ==
  (pc \in {"request", "wait", "rescan"} \/ InWindow) =>
     /\ requested # {} => open
     /\ Caller \notin requested

HeldInv ==
  (pc = "rescan" \/ InWindow) =>
     /\ requested \subseteq parked
     /\ requested \cap inTarget = {}

(* What the second walk knows.                                             *)
WalkInv ==
  pc = "rescan" =>
     /\ cursor <= created
     /\ cursor \in scanned \cup {0}
     /\ scanned \subseteq requested \cup {Caller} =>
          \A t \in live : t <= cursor => t \in scanned

WindowInv == InWindow => live \subseteq requested \cup {Caller}

Inv == TypeOK /\ ProcessInv /\ ControlInv /\ DebtInv
       /\ EpochInv /\ HeldInv /\ WalkInv /\ WindowInv

(* A freshly constructed coordinator satisfies the invariant.              *)
THEOREM InvInit == Init => Inv
<1> SUFFICES ASSUME Init PROVE Inv
  OBVIOUS
<1>1. 1..InitialThreads \subseteq Thread /\ InitialThreads \in 0..MaxCreated
  BY QuiescenceAssumption DEF Thread
<1>2. 0 \in 0..(MaximumPasses - 1) /\ 0 \in 0..MaxCreated
  BY QuiescenceAssumption
<1>3. TypeOK
  BY <1>1, <1>2, Zenon DEF Init, TypeOK, States, Calls
<1>4. ProcessInv /\ ControlInv /\ DebtInv
  BY QuiescenceAssumption DEF Init, ProcessInv, ControlInv, DebtInv, Drains
<1>5. EpochInv /\ HeldInv /\ WalkInv /\ WindowInv
  BY DEF Init, EpochInv, HeldInv, WalkInv, WindowInv, InWindow
<1> QED
  BY <1>3, <1>4, <1>5 DEF Inv

(* Every step of the coordinator, the backend or a peer preserves it.      *)
THEOREM InvStep == Inv /\ [Next]_vars => Inv'
<1> SUFFICES ASSUME Inv, [Next]_vars PROVE Inv'
  OBVIOUS
<1> USE QuiescenceAssumption DEF Inv, TypeOK, ProcessInv, ControlInv, DebtInv,
        EpochInv, HeldInv, WalkInv, WindowInv, InWindow, Thread, States, Calls, Drains,
        process, backend, walk, Release, LastPass
<1>1. CASE Prepare
  BY <1>1, SMTT(30) DEF Prepare
<1>2. CASE EnterBegin
  BY <1>2 DEF EnterBegin
<1>3. CASE Leave
  BY <1>3, Zenon DEF Leave
<1>4. CASE Destroy
  BY <1>4, Zenon DEF Destroy
<1>5. CASE WalkNext
  <2>1. PICK t \in Following :
          /\ Lost \/ \A u \in Following : t <= u
          /\ IF Cardinality(scanned) = MaximumThreads
             THEN pc' = "abort" /\ UNCHANGED walk
             ELSE scanned' = scanned \cup {t} /\ cursor' = t /\ UNCHANGED pc
    BY <1>5, SMTT(30) DEF WalkNext
  <2>2. t \in live /\ t > cursor /\ t \in 1..created
    BY <2>1 DEF Following
  <2>3. UNCHANGED <<live, created, inTarget, signalled, parked, open, state, pass,
                    requested, inventory, parkAttempted>>
    BY <1>5, SMTT(30) DEF WalkNext
  <2>4. CASE pc' = "abort" /\ UNCHANGED walk
    BY <1>5, <2>3, <2>4, SMTT(30) DEF WalkNext
  <2>5. CASE scanned' = scanned \cup {t} /\ cursor' = t /\ UNCHANGED pc
    <3>1. TypeOK' /\ ProcessInv' /\ ControlInv' /\ DebtInv' /\ EpochInv'
          /\ HeldInv' /\ WindowInv'
      BY <2>2, <2>3, <2>5, SMTT(30)
    <3>2. ASSUME pc = "rescan", scanned' \subseteq requested \cup {Caller},
                 NEW u \in live, u <= t
          PROVE  u \in scanned'
      <4>1. ~Lost
        BY <3>2, <2>5 DEF Lost
      <4>2. CASE u <= cursor
        BY <3>2, <4>2, <2>5
      <4>3. CASE u > cursor
        <5>1. t <= u
          BY <4>1, <4>3, <2>1 DEF Following
        <5>2. u \in Int /\ t \in Int
          BY <2>2
        <5>3. u = t
          BY <3>2, <5>1, <5>2
        <5> QED
          BY <5>3, <2>5
      <4>4. u \in Int /\ cursor \in Int
        OBVIOUS
      <4> QED
        BY <4>2, <4>3, <4>4
    <3>3. WalkInv'
      BY <2>2, <2>3, <2>5, <3>2
    <3> QED
      BY <3>1, <3>3, SMTT(30)
  <2> QED
    BY <2>1, <2>4, <2>5, SMTT(30)
<1>6. CASE EnumerationFails
  BY <1>6, SMTT(30) DEF EnumerationFails
<1>7. CASE FirstInventory
  BY <1>7, Zenon DEF FirstInventory, WalkEnds, Following, Lost
<1>8. CASE RequestThreadPark
  BY <1>8, Zenon DEF RequestThreadPark, Unrequested
<1>9. CASE RequestsDone
  BY <1>9, SMTT(30) DEF RequestsDone, Unrequested
<1>10. CASE ParkedOutsideTarget
  <2>1. UNCHANGED <<live, created, inTarget, signalled, parked, open, state, pass,
                    requested, inventory, parkAttempted>>
    BY <1>10 DEF ParkedOutsideTarget
  <2>2. /\ pc = "wait" /\ pc' \in {"rescan", "abort"}
        /\ scanned' \in SUBSET Thread /\ cursor' \in 0..MaxCreated
    <3>1. CASE requested \cap inTarget = {}
      BY <1>10, <3>1, SMTT(30) DEF ParkedOutsideTarget
    <3>2. CASE requested \cap inTarget # {}
      BY <1>10, <3>2, Zenon DEF ParkedOutsideTarget
    <3> QED
      BY <3>1, <3>2
  <2>3. HeldInv'
    BY <1>10, <2>1, SMTT(30) DEF ParkedOutsideTarget
  <2>4. pc' = "rescan" => cursor' = 0 /\ scanned' = {}
    BY <1>10, SMTT(30) DEF ParkedOutsideTarget
  <2>5. \A t \in live : ~(t <= 0)
    OBVIOUS
  <2>6. WalkInv'
    BY <2>1, <2>4, <2>5
  <2>7. TypeOK' /\ ProcessInv' /\ ControlInv' /\ DebtInv' /\ EpochInv' /\ WindowInv'
    BY <2>1, <2>2, SMTT(30)
  <2> QED
    BY <2>3, <2>6, <2>7, SMTT(30)
<1>11. CASE WaitFails
  BY <1>11, SMTT(30) DEF WaitFails
<1>12. CASE FinalInventory
  <2>1. UNCHANGED <<live, created, inTarget, signalled, parked, open, scanned,
                    cursor, requested, parkAttempted>>
    BY <1>12, SMTT(30) DEF FinalInventory
  <2>2. pc = "rescan" /\ state = "Prepared" /\ WalkEnds
    BY <1>12, SMTT(30) DEF FinalInventory
  <2>3. CASE Exact /\ state' = "Exclusive" /\ pc' = "idle" /\ UNCHANGED <<pass, inventory>>
    <3>1. scanned \subseteq live
      BY <2>2, <2>3, SMTT(30) DEF Exact
    <3>2. Following = {}
      BY <2>2, <3>1, SMTT(30) DEF WalkEnds, Lost
    <3>3. \A t \in live : t <= cursor
      BY <3>2 DEF Following
    <3>4. live \subseteq requested \cup {Caller}
      BY <2>2, <2>3, <3>3 DEF Exact
    <3> QED
      BY <2>1, <2>2, <2>3, <3>4, SMTT(30)
  <2>4. CASE pc' = "abort" /\ UNCHANGED <<state, pass, inventory>>
    BY <2>1, <2>2, <2>4, SMTT(30)
  <2>5. CASE /\ ~LastPass
             /\ pass' = pass + 1 /\ inventory' = scanned /\ pc' = "request"
             /\ UNCHANGED state
    BY <2>1, <2>2, <2>5, SMTT(30)
  <2> QED
    BY <1>12, <2>3, <2>4, <2>5, Zenon DEF FinalInventory
<1>13. CASE AbortEnter
  BY <1>13, Zenon DEF AbortEnter
<1>14. CASE ResumeSucceeds
  BY <1>14 DEF ResumeSucceeds
<1>15. CASE ResumeFails
  BY <1>15, SMTT(30) DEF ResumeFails
<1>16. ASSUME NEW t \in Thread, CreateThread(t) PROVE Inv'
  BY <1>16, SMTT(30) DEF CreateThread, Running
<1>17. ASSUME NEW t \in Thread, ExitThread(t) PROVE Inv'
  BY <1>17, SMTT(30) DEF ExitThread, Running
<1>18. ASSUME NEW t \in Thread, MoveProgramCounter(t) PROVE Inv'
  BY <1>18, SMTT(30) DEF MoveProgramCounter, Running
<1>19. ASSUME NEW t \in Thread, DeliverRequest(t) PROVE Inv'
  BY <1>19, SMTT(30) DEF DeliverRequest, Running
<1>20. ASSUME NEW t \in Thread, Unpark(t) PROVE Inv'
  BY <1>20, SMTT(30) DEF Unpark, Running
<1>21. CASE UNCHANGED vars
  BY <1>21, SMTT(30) DEF vars
<1> HIDE DEF Inv, process, backend, walk
<1> QED
  BY <1>1, <1>2, <1>3, <1>4, <1>5, <1>6, <1>7, <1>8, <1>9, <1>10, <1>11, <1>12, <1>13, <1>14,
     <1>15, <1>16, <1>17, <1>18, <1>19, <1>20, <1>21, Zenon DEF Next, CallStep

(* The inductive invariant holds in every reachable state.                 *)
THEOREM Invariance == Spec => []Inv
<1>1. Init => Inv
  BY InvInit
<1>2. Inv /\ [Next]_vars => Inv'
  BY InvStep
<1> QED
  BY <1>1, <1>2, PTL DEF Spec

(* Type correctness, for every value of the constants.                     *)
THEOREM TypeCorrect == Spec => []TypeOK
<1>1. Inv => TypeOK
  BY DEF Inv
<1> QED
  BY <1>1, Invariance, PTL

(* Between a successful enter() and the release of the epoch every other   *)
(* thread of the process is parked outside the patch range, however many   *)
(* threads there are and however they were created during enter().         *)
THEOREM QuiescentWindow == Spec => []WindowIsQuiescent
<1>1. Inv => WindowIsQuiescent
  BY DEF Inv, WindowIsQuiescent, WindowInv, HeldInv
<1> QED
  BY <1>1, Invariance, PTL

(* A coordinator that owes no resume leaves no thread parked and none that *)
(* could still be parked.                                                  *)
THEOREM NothingForgotten == Spec => []NoForgottenPark
<1>1. Inv => NoForgottenPark
  BY DEF Inv, NoForgottenPark, DebtInv
<1> QED
  BY <1>1, Invariance, PTL

(* After release or failure no thread is ever parked again and the state   *)
(* is final.                                                               *)
THEOREM EndIsFinal == Spec => NoParkAfterEnd
<1> DEFINE Final == state \in {"Released", "Failed"} =>
                      (state' = state) /\ (parked' \subseteq parked)
<1>1. Inv /\ [Next]_vars => [Final]_vars
  <2> SUFFICES ASSUME Inv, Next PROVE Final
    BY DEF vars
  <2> QED
    BY Zenon
    DEF Inv, ControlInv, DebtInv, Drains, Next, CallStep, Prepare, EnterBegin, Leave, Destroy,
       WalkNext, EnumerationFails, FirstInventory, RequestThreadPark, RequestsDone,
       ParkedOutsideTarget, WaitFails, FinalInventory, AbortEnter, ResumeSucceeds,
       ResumeFails, CreateThread, ExitThread, MoveProgramCounter, DeliverRequest,
       Unpark, Running, Release, backend
<1> QED
  BY <1>1, Invariance, PTL DEF Spec, NoParkAfterEnd

-----------------------------------------------------------------------------
(* PatchTransaction.  The inductive invariant: PatchHasTrampoline and      *)
(* ReportedStateIsTrue at every step inside the window too, with what the  *)
(* window's holder knows about the target at each backend call.            *)

EntryCalls == {"syncEntry", "restoreEntry", "syncRestored"}

(* Only the holder of the window is in a call, in the state it started in. *)
PatchControlInv ==
  \A x \in Transaction :
    /\ call[x] # "idle" => window = x
    /\ window = x /\ call[x] \in {"idle", "unwind"} => patchState[x] = "Failed"
    /\ call[x] \in CommitCalls => patchState[x] = "Prepared"
    /\ call[x] \in RollbackCalls => patchState[x] = "Committed"

TrampolineInv ==
  \A x \in Transaction :
    (Patch(x) \in visible \/ call[x] \in EntryCalls \cup {"writeEntry"}
        \/ patchState[x] = "Committed")
      => trampoline[x] = "ready" /\ published[x]

PublishInv == \A x \in Transaction : call[x] = "publish" => trampoline[x] = "ready"

(* What the bytes of the target can be when they are about to be written   *)
(* or synchronized.                                                        *)
TargetInv ==
  /\ target \in visible
  /\ \A x \in Transaction :
       /\ call[x] \in {"bind", "writeTrampoline", "syncTrampoline", "publish", "writeEntry",
                     "syncRestored", "syncOriginal"} => target = Original
       /\ call[x] \in {"syncEntry", "writeOriginal"} => target = Patch(x)
       /\ call[x] = "restoreEntry" => target \in {Original, Patch(x), Torn(x)}

VisibleInv ==
  \A x \in Transaction :
    /\ patchState[x] \in {"Empty", "Prepared", "RolledBack"} /\ call[x] \notin EntryCalls =>
         Patch(x) \notin visible /\ Torn(x) \notin visible
    /\ patchState[x] = "Committed" => Torn(x) \notin visible
    /\ patchState[x] = "Committed" /\ call[x] # "syncOriginal" /\ Patch(x) \in visible =>
         visible = {Patch(x)}

PatchInv == PatchTypeOK /\ PatchControlInv /\ TrampolineInv /\ PublishInv /\ TargetInv /\ VisibleInv

(* Contents written by different transactions, and the original, differ.   *)
LEMMA ContentsDiffer ==
  /\ Original \in Content /\ Foreign \in Content /\ Original # Foreign
  /\ \A x \in Transaction : /\ Patch(x) \in Content /\ Torn(x) \in Content
                            /\ Patch(x) # Torn(x)
                            /\ Patch(x) \notin {Original, Foreign}
                            /\ Torn(x) \notin {Original, Foreign}
  /\ \A x, y \in Transaction : Patch(x) # Torn(y)
  /\ \A x, y \in Transaction : x # y => Patch(x) # Patch(y) /\ Torn(x) # Torn(y)
BY DEF Content, Original, Foreign, Patch, Torn

(* The transactions as constructed satisfy the invariant.                  *)
THEOREM PatchInvInit == PatchInit => PatchInv
BY TransactionAssumption, ContentsDiffer, SMTT(30)
   DEF PatchInit, PatchInv, PatchTypeOK, PatchControlInv, TrampolineInv, PublishInv,
       TargetInv, VisibleInv, CommitCalls, RollbackCalls, EntryCalls

(* Every backend call, whether it succeeds or fails, preserves it.         *)
THEOREM PatchInvStep == PatchInv /\ [PatchNext]_patchVars => PatchInv'
<1> SUFFICES ASSUME PatchInv, [PatchNext]_patchVars PROVE PatchInv'
  OBVIOUS
<1> USE TransactionAssumption, ContentsDiffer
    DEF PatchInv, PatchTypeOK, PatchControlInv, TrampolineInv, PublishInv, TargetInv,
        VisibleInv, CommitCalls, RollbackCalls, EntryCalls, memory, Goto, SetState,
        FailAndLeave, WriteTarget, WriteTargetPartly, SyncTarget, PeersMayRun
<1>1. CASE ForeignWrite
  BY <1>1, SMTT(30) DEF ForeignWrite
<1>2. ASSUME NEW x \in Transaction, PreparePatch(x) PROVE PatchInv'
  BY <1>2, SMTT(30) DEF PreparePatch
<1>3. ASSUME NEW x \in Transaction, EnterWindow(x) PROVE PatchInv'
  BY <1>3, SMTT(30) DEF EnterWindow
<1>4. ASSUME NEW x \in Transaction, Reread(x) PROVE PatchInv'
  BY <1>4, SMTT(30) DEF Reread
<1>5. ASSUME NEW x \in Transaction, BindResumeAddress(x) PROVE PatchInv'
  BY <1>5, SMTT(30) DEF BindResumeAddress
<1>6. ASSUME NEW x \in Transaction, WriteTrampoline(x) PROVE PatchInv'
  BY <1>6, SMTT(30) DEF WriteTrampoline
<1>7. ASSUME NEW x \in Transaction, SyncTrampoline(x) PROVE PatchInv'
  BY <1>7, SMTT(30) DEF SyncTrampoline
<1>8. ASSUME NEW x \in Transaction, Publish(x) PROVE PatchInv'
  <2>1. published' \in [Transaction -> BOOLEAN]
    <3>1. PICK done \in BOOLEAN : published' = [published EXCEPT ![x] = done]
      BY <1>8, Zenon DEF Publish
    <3> QED
      BY <3>1, Zenon DEF PatchTypeOK
  <2>2. PatchTypeOK' /\ PatchControlInv' /\ PublishInv' /\ TargetInv' /\ VisibleInv'
    BY <1>8, <2>1, SMTT(30) DEF Publish
  <2>3. \A y \in Transaction : y # x => published'[y] = published[y]
    BY <1>8, SMTT(30) DEF Publish
  <2>4. patchState'[x] # "Failed" => published'[x] = TRUE
    BY <1>8, SMTT(30) DEF Publish
  <2>5. Patch(x) \notin visible
    BY <1>8, SMTT(30) DEF Publish
  <2>6. TrampolineInv'
    BY <1>8, <2>3, <2>4, <2>5, SMTT(30) DEF Publish
  <2> HIDE DEF PatchTypeOK, PatchControlInv, TrampolineInv, PublishInv, TargetInv, VisibleInv
  <2> QED
    BY <2>2, <2>6, Zenon
<1>9. ASSUME NEW x \in Transaction, WriteEntry(x) PROVE PatchInv'
  <2>1. PatchTypeOK' /\ PatchControlInv'
    BY <1>9, SMTT(30) DEF WriteEntry
  <2>2. TrampolineInv' /\ PublishInv'
    BY <1>9, SMTT(30) DEF WriteEntry
  <2>3. TargetInv'
    BY <1>9, SMTT(30) DEF WriteEntry
  <2>4. VisibleInv'
    BY <1>9, SMTT(30) DEF WriteEntry
  <2> HIDE DEF PatchTypeOK, PatchControlInv, TrampolineInv, PublishInv, TargetInv, VisibleInv
  <2> QED
    BY <2>1, <2>2, <2>3, <2>4, Zenon
<1>10. ASSUME NEW x \in Transaction, SyncEntry(x) PROVE PatchInv'
  <2>1. PatchTypeOK' /\ PatchControlInv'
    BY <1>10, SMTT(30) DEF SyncEntry
  <2>2. TrampolineInv' /\ PublishInv'
    BY <1>10, SMTT(30) DEF SyncEntry
  <2>3. TargetInv'
    BY <1>10, SMTT(30) DEF SyncEntry
  <2>4. VisibleInv'
    BY <1>10, SMTT(30) DEF SyncEntry
  <2> HIDE DEF PatchTypeOK, PatchControlInv, TrampolineInv, PublishInv, TargetInv, VisibleInv
  <2> QED
    BY <2>1, <2>2, <2>3, <2>4, Zenon
<1>11. ASSUME NEW x \in Transaction, RestoreEntry(x) PROVE PatchInv'
  <2>1. PatchTypeOK' /\ PatchControlInv'
    BY <1>11, SMTT(30) DEF RestoreEntry
  <2>2. TrampolineInv' /\ PublishInv'
    BY <1>11, SMTT(30) DEF RestoreEntry
  <2>3. TargetInv'
    BY <1>11, SMTT(30) DEF RestoreEntry
  <2>4. VisibleInv'
    BY <1>11, SMTT(30) DEF RestoreEntry
  <2> HIDE DEF PatchTypeOK, PatchControlInv, TrampolineInv, PublishInv, TargetInv, VisibleInv
  <2> QED
    BY <2>1, <2>2, <2>3, <2>4, Zenon
<1>12. ASSUME NEW x \in Transaction, SyncRestored(x) PROVE PatchInv'
  <2>1. PatchTypeOK' /\ PatchControlInv'
    BY <1>12, SMTT(30) DEF SyncRestored
  <2>2. TrampolineInv' /\ PublishInv'
    BY <1>12, SMTT(30) DEF SyncRestored
  <2>3. TargetInv'
    BY <1>12, SMTT(30) DEF SyncRestored
  <2>4. VisibleInv'
    BY <1>12, SMTT(30) DEF SyncRestored
  <2> HIDE DEF PatchTypeOK, PatchControlInv, TrampolineInv, PublishInv, TargetInv, VisibleInv
  <2> QED
    BY <2>1, <2>2, <2>3, <2>4, Zenon
<1>13. ASSUME NEW x \in Transaction, Verify(x) PROVE PatchInv'
  BY <1>13, SMTT(30) DEF Verify
<1>14. ASSUME NEW x \in Transaction, WriteOriginal(x) PROVE PatchInv'
  <2>1. PatchTypeOK' /\ PatchControlInv'
    BY <1>14, SMTT(30) DEF WriteOriginal
  <2>2. TrampolineInv' /\ PublishInv'
    BY <1>14, SMTT(30) DEF WriteOriginal
  <2>3. TargetInv'
    BY <1>14, SMTT(30) DEF WriteOriginal
  <2>4. VisibleInv'
    BY <1>14, SMTT(30) DEF WriteOriginal
  <2> HIDE DEF PatchTypeOK, PatchControlInv, TrampolineInv, PublishInv, TargetInv, VisibleInv
  <2> QED
    BY <2>1, <2>2, <2>3, <2>4, Zenon
<1>15. ASSUME NEW x \in Transaction, SyncOriginal(x) PROVE PatchInv'
  <2>1. PatchTypeOK' /\ PatchControlInv'
    BY <1>15, SMTT(30) DEF SyncOriginal
  <2>2. TrampolineInv' /\ PublishInv'
    BY <1>15, SMTT(30) DEF SyncOriginal
  <2>3. TargetInv'
    BY <1>15, SMTT(30) DEF SyncOriginal
  <2>4. VisibleInv'
    BY <1>15, SMTT(30) DEF SyncOriginal
  <2> HIDE DEF PatchTypeOK, PatchControlInv, TrampolineInv, PublishInv, TargetInv, VisibleInv
  <2> QED
    BY <2>1, <2>2, <2>3, <2>4, Zenon
<1>16. ASSUME NEW x \in Transaction, LeaveWindow(x) PROVE PatchInv'
  BY <1>16, SMTT(30) DEF LeaveWindow
<1>17. ASSUME NEW x \in Transaction, Unwind(x) PROVE PatchInv'
  BY <1>17, SMTT(30) DEF Unwind
<1>18. CASE UNCHANGED patchVars
  BY <1>18, SMTT(30) DEF patchVars
<1> HIDE DEF PatchInv
<1> QED
  BY <1>1, <1>2, <1>3, <1>4, <1>5, <1>6, <1>7, <1>8, <1>9, <1>10, <1>11, <1>12, <1>13, <1>14,
     <1>15, <1>16, <1>17, <1>18, Zenon DEF PatchNext

(* The inductive invariant holds in every reachable state.                 *)
THEOREM PatchInvariance == PatchSpec => []PatchInv
<1>1. PatchInit => PatchInv
  BY PatchInvInit
<1>2. PatchInv /\ [PatchNext]_patchVars => PatchInv'
  BY PatchInvStep
<1> QED
  BY <1>1, <1>2, PTL DEF PatchSpec

(* Type correctness of any number of transactions.                         *)
THEOREM PatchTypeCorrect == PatchSpec => []PatchTypeOK
<1>1. PatchInv => PatchTypeOK
  BY DEF PatchInv
<1> QED
  BY <1>1, PatchInvariance, PTL

(* Peers that run never meet an entry patch without its trampoline.        *)
THEOREM TrampolineBeforePatch == PatchSpec => []PatchHasTrampoline
<1>1. PatchInv => PatchHasTrampoline
  BY Zenon DEF PatchInv, TrampolineInv, PatchHasTrampoline
<1> QED
  BY <1>1, PatchInvariance, PTL

(* Whatever backend calls fail, the reported state describes the code that *)
(* peers execute.                                                          *)
THEOREM TruthfulState == PatchSpec => []ReportedStateIsTrue
<1>1. PatchInv => ReportedStateIsTrue
  BY SMTT(30)
  DEF PatchInv, PatchControlInv, VisibleInv, ReportedStateIsTrue, PeersMayRun, EntryCalls
<1> QED
  BY <1>1, PatchInvariance, PTL

(* A window that could not be released leaves its transaction failed.      *)
THEOREM StuckReported == PatchSpec => []StuckWindowIsReported
<1>1. PatchInv => StuckWindowIsReported
  BY SMTT(30) DEF PatchInv, PatchControlInv, StuckWindowIsReported
<1> QED
  BY <1>1, PatchInvariance, PTL

(* No transaction ever overwrites another one's bytes or foreign bytes.    *)
THEOREM NoForeignOverwrite == PatchSpec => OverwritesOnlyOwn
<1> DEFINE Own == \A x \in Transaction :
                    window = x /\ ~PeersMayRun /\ target' # target
                      => target \in {Original, Patch(x), Torn(x)}
<1>1. PatchInv /\ [PatchNext]_patchVars => [Own]_patchVars
  <2> SUFFICES ASSUME PatchInv, PatchNext, ~PeersMayRun, target' # target,
                      NEW x \in Transaction, window = x
               PROVE  target \in {Original, Patch(x), Torn(x)}
    BY DEF patchVars
  <2>1. PICK y \in Transaction : WriteEntry(y) \/ RestoreEntry(y) \/ WriteOriginal(y)
    BY Zenon DEF PatchNext, ForeignWrite, PreparePatch, EnterWindow, Reread, BindResumeAddress,
       WriteTrampoline, SyncTrampoline, Publish, SyncEntry, SyncRestored, SyncTarget,
       Verify, SyncOriginal, LeaveWindow, Unwind, memory
  <2>2. y = x /\ call[y] \in {"writeEntry", "restoreEntry", "writeOriginal"}
    BY <2>1, SMTT(30) DEF PatchInv, PatchControlInv, WriteEntry, RestoreEntry, WriteOriginal
  <2> QED
    BY <2>2 DEF PatchInv, TargetInv
<1> QED
  BY <1>1, PatchInvariance, PTL DEF PatchSpec, OverwritesOnlyOwn

-----------------------------------------------------------------------------
(* RouterBootstrap.  The inductive invariant: where each of the processes  *)
(* is tells what the others have done and what the marker file says.       *)

(* Where the process, its router and media.camera are, one by the other.   *)
BootProcessInv ==
  /\ ppc \in {"main", "arm", "load"} => exe = "launcher"
  /\ ppc = "load" => ~routed
  /\ routed <=> rpc # "off"
  /\ rpc = "off" <=> report = "none"
  /\ rpc = "done" <=> report \in Ready \cup Failed
  /\ registry # "none" <=> ppc = "serving"

(* The marker is there from before dlopen() until the router is ready; a   *)
(* failed attempt leaves it behind, and it closes the way to another one.  *)
MarkerInv ==
  /\ ppc = "load" => marker
  /\ routed /\ report \notin Ready => marker
  /\ attempt = "failed" => marker /\ ~routed /\ ppc # "load"

MayRegister == mode = "passthrough" \/ (mode = "physical-route" /\ qualified)

(* What the monitor has found out when it reaches a step.                  *)
MonitorInv ==
  /\ rpc \in {"check", "register", "verify"} => registry # "none"
  /\ rpc \in {"register", "verify"} => MayRegister
  /\ registry = "router" => routed

BootInv ==
  /\ BootTypeOK /\ BootProcessInv /\ MarkerInv /\ MonitorInv
  /\ OneUnprovenAttempt /\ ReportsAreTrue

(* The Boolean variables, whose type is proved on its own.                 *)
Flags ==
  /\ qualified \in BOOLEAN /\ unified \in BOOLEAN /\ compatible \in BOOLEAN
  /\ captured \in BOOLEAN /\ disabled \in BOOLEAN /\ marker \in BOOLEAN
  /\ routed \in BOOLEAN /\ known \in BOOLEAN

(* Every step assigns Boolean values to the files and flags of the module. *)
LEMMA FlagsStep == Flags /\ [BootNext]_bootVars => Flags'
<1> SUFFICES ASSUME Flags, [BootNext]_bootVars PROVE Flags'
  OBVIOUS
<1> USE DEF Flags, install, server, files, script
<1>1. CASE Launch
  BY <1>1, Zenon DEF Launch
<1>2. CASE Main
  BY <1>2, Zenon DEF Main, Unrouted
<1>3. CASE Arm
  BY <1>3, ZenonT(40) DEF Arm, Unrouted
<1>4. CASE Load
  BY <1>4, Zenon DEF Load, startRouterMonitor
<1>5. CASE Instantiate
  BY <1>5, Zenon DEF Instantiate
<1>6. CASE Exit
  BY <1>6, Zenon DEF Exit, Die
<1>7. CASE Crash
  BY <1>7, Zenon DEF Crash, Die
<1>8. CASE MonitorWait
  BY <1>8, Zenon DEF MonitorWait, RouterUnchanged
<1>9. CASE MonitorCheck
  BY <1>9, ZenonT(40) DEF MonitorCheck, ReadyState, RouterUnchanged
<1>10. CASE MonitorRegister
  BY <1>10, Zenon DEF MonitorRegister, RouterUnchanged
<1>11. CASE MonitorVerify
  BY <1>11, Zenon DEF MonitorVerify, ReadyState, RouterUnchanged
<1>12. CASE PublishStats
  BY <1>12, Zenon DEF PublishStats, RouterUnchanged
<1>13. CASE PostMount
  BY <1>13, ZenonT(40) DEF PostMount, ScriptUnchanged
<1>14. CASE Watch
  BY <1>14, ZenonT(40) DEF Watch, Conclude, Recover, ScriptUnchanged
<1>15. CASE WatchEnds
  BY <1>15, Zenon DEF WatchEnds, Conclude, Recover, ScriptUnchanged
<1>16. CASE RecoveryReboot
  BY <1>16, Zenon DEF RecoveryReboot, Boot
<1>17. CASE Reboot
  BY <1>17, Zenon DEF Reboot, Boot
<1>18. CASE Enable
  BY <1>18, Zenon DEF Enable
<1>19. CASE UNCHANGED bootVars
  BY <1>19, Zenon DEF bootVars
<1> HIDE DEF Flags
<1> QED
  BY <1>1, <1>2, <1>3, <1>4, <1>5, <1>6, <1>7, <1>8, <1>9, <1>10, <1>11,
     <1>12, <1>13, <1>14, <1>15, <1>16, <1>17, <1>18, <1>19, Zenon
  DEF BootNext, Launcher, Monitor, Scripts

(* The first boot after the installation satisfies the invariant.          *)
THEOREM BootInvInit == BootInit => BootInv
<1> SUFFICES ASSUME BootInit PROVE BootInv
  OBVIOUS
<1>1. BootTypeOK
  <2>1. Flags
    BY Zenon DEF BootInit, Flags
  <2> QED
    BY <2>1, BootstrapAssumption DEF BootInit, BootTypeOK, Flags, Mode, Ready, Failed
<1>2. BootProcessInv /\ MarkerInv /\ MonitorInv
  BY DEF BootInit, BootProcessInv, MarkerInv, MonitorInv, MayRegister, Ready, Failed
<1>3. OneUnprovenAttempt /\ ReportsAreTrue
  BY DEF BootInit, OneUnprovenAttempt, ReportsAreTrue, Registered, Failed
<1> QED
  BY <1>1, <1>2, <1>3 DEF BootInv

(* Every step of launcher, monitor, scripts and user preserves it.         *)
THEOREM BootInvStep == BootInv /\ [BootNext]_bootVars => BootInv'
<1> SUFFICES ASSUME BootInv, [BootNext]_bootVars PROVE BootInv'
  OBVIOUS
<1> USE BootstrapAssumption DEF BootInv, BootTypeOK, BootProcessInv, MarkerInv, MonitorInv,
        MayRegister, OneUnprovenAttempt, ReportsAreTrue, Registered, Ready, Failed, Mode,
        install, server, files, script
<1>0. Flags'
  BY FlagsStep, SMTT(30) DEF Flags
<1> USE <1>0 DEF Flags
<1>1. CASE Launch
  BY <1>1, SMTT(30) DEF Launch
<1>2. CASE Main
  BY <1>2, SMTT(30) DEF Main, RemoveStats, Unrouted, StockMode
<1>3. CASE Arm
  BY <1>3, SMTT(30) DEF Arm, Unrouted
<1>4. CASE Load
  BY <1>4, SMTT(30) DEF Load, startRouterMonitor
<1>5. CASE Instantiate
  BY <1>5, SMTT(30) DEF Instantiate
<1>6. CASE Exit
  BY <1>6, SMTT(30) DEF Exit, Die
<1>7. CASE Crash
  BY <1>7, SMTT(30) DEF Crash, Die
<1>8. CASE MonitorWait
  BY <1>8, SMTT(30) DEF MonitorWait, Goes, Stops, RouterUnchanged
<1>9. CASE MonitorCheck
  BY <1>9, SMTT(30) DEF MonitorCheck, Goes, Stops, ReadyState, RouterUnchanged
<1>10. CASE MonitorRegister
  BY <1>10, SMTT(30) DEF MonitorRegister, Goes, Stops, RouterUnchanged
<1>11. CASE MonitorVerify
  BY <1>11, SMTT(30) DEF MonitorVerify, Stops, ReadyState, RouterUnchanged
<1>12. CASE PublishStats
  BY <1>12, SMTT(30) DEF PublishStats, RouterUnchanged
<1>13. CASE PostMount
  BY <1>13, SMTT(30) DEF PostMount, Rebound, ScriptUnchanged
<1>14. CASE Watch
  BY <1>14, SMTT(30) DEF Watch, SamplesLeft, Conclude, Recover, Rebound, ScriptUnchanged
<1>15. CASE WatchEnds
  BY <1>15, SMTT(30) DEF WatchEnds, Conclude, Recover, Rebound, ScriptUnchanged
<1>16. CASE RecoveryReboot
  BY <1>16, SMTT(30) DEF RecoveryReboot, Boot
<1>17. CASE Reboot
  BY <1>17, SMTT(30) DEF Reboot, Boot
<1>18. CASE Enable
  BY <1>18, SMTT(30) DEF Enable
<1>19. CASE UNCHANGED bootVars
  BY <1>19, SMTT(30) DEF bootVars
<1> HIDE DEF BootInv, Flags
<1> QED
  BY <1>1, <1>2, <1>3, <1>4, <1>5, <1>6, <1>7, <1>8, <1>9, <1>10, <1>11, <1>12, <1>13,
     <1>14, <1>15, <1>16, <1>17, <1>18, <1>19, Zenon
  DEF BootNext, Launcher, Monitor, Scripts

(* The inductive invariant holds in every reachable state.                 *)
THEOREM BootInvariance == BootSpec => []BootInv
<1> QED
  BY BootInvInit, BootInvStep, PTL DEF BootSpec

(* Type correctness, for every value of the constants.                     *)
THEOREM BootTypeCorrect == BootSpec => []BootTypeOK
<1>1. BootInv => BootTypeOK
  BY DEF BootInv
<1> QED
  BY <1>1, BootInvariance, PTL

(* Once a router has taken its process down before it was ready, the       *)
(* launcher loads none again in this boot, however often cameraserver      *)
(* crashes and is restarted.                                               *)
THEOREM NoSecondAttempt == BootSpec => []OneUnprovenAttempt
<1>1. BootInv => OneUnprovenAttempt
  BY DEF BootInv
<1> QED
  BY <1>1, BootInvariance, PTL

(* The state and the statistics that the router publishes are those of the *)
(* process that runs, media.camera is its own only where mode and protocol *)
(* profile allow it, and a failure keeps the marker.  Statistics that the  *)
(* launcher could not remove are the exception.                            *)
THEOREM TrueReports == BootSpec => []ReportsAreTrue
<1>1. BootInv => ReportsAreTrue
  BY DEF BootInv
<1> QED
  BY <1>1, BootInvariance, PTL
=============================================================================
