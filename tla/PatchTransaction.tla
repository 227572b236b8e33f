-------------------------- MODULE PatchTransaction --------------------------
(***************************************************************************)
(* Arm64PatchInstallTransaction (runtime/Arm64PatchInstallTransaction.cpp):*)
(* a transaction that redirects the entry of one function, and any number  *)
(* of them on the same target.  Every backend call is a step of its own    *)
(* and may fail; a failed write may be partial.                            *)
(*                                                                         *)
(* Memory is abstracted to the content of the target's overwritten bytes.  *)
(* visible is the set of contents that some core may execute: a write adds *)
(* one, synchronizing the instruction cache leaves only the current one.   *)
(* Other software may rewrite the target whenever no exclusive window is   *)
(* in force.                                                               *)
(***************************************************************************)
EXTENDS Naturals

CONSTANTS
  Transaction,  \* the transactions prepared for the target
  Precompiled,  \* those with usesPrecompiledTrampoline_
  NoOne         \* not a transaction

ASSUME TransactionAssumption == Precompiled \subseteq Transaction /\ NoOne \notin Transaction

VARIABLES
  patchState, call,       \* state_ of each transaction; its next backend call
  target, visible,        \* target bytes; what cores may execute
  trampoline, published,  \* per transaction
  window                  \* the transaction that holds the exclusive window

memory == <<target, visible>>
patchVars == <<patchState, call, memory, trampoline, published, window>>

Content == [kind : {"original", "foreign", "patch", "torn"},
            by : Transaction \cup {NoOne}]
Original == [kind |-> "original", by |-> NoOne]
Foreign  == [kind |-> "foreign", by |-> NoOne]
Patch(x) == [kind |-> "patch", by |-> x]
Torn(x)  == [kind |-> "torn", by |-> x]

CommitCalls == {"reread", "bind", "writeTrampoline", "syncTrampoline", "publish",
                "writeEntry", "syncEntry", "restoreEntry", "syncRestored"}
RollbackCalls == {"verify", "writeOriginal", "syncOriginal"}

PatchTypeOK ==
  /\ patchState \in [Transaction -> {"Empty", "Prepared", "Committed", "RolledBack", "Failed"}]
  /\ call \in [Transaction -> CommitCalls \cup RollbackCalls \cup {"idle", "leave", "unwind"}]
  /\ target \in Content /\ visible \in SUBSET Content
  /\ trampoline \in [Transaction -> {"none", "torn", "written", "ready"}]
  /\ published \in [Transaction -> BOOLEAN]
  /\ window \in Transaction \cup {NoOne}

PatchInit ==
  /\ patchState = [x \in Transaction |-> "Empty"]
  /\ call = [x \in Transaction |-> "idle"]
  /\ target = Original /\ visible = {Original}
  /\ trampoline = [x \in Transaction |-> "none"]
  /\ published = [x \in Transaction |-> FALSE]
  /\ window = NoOne

(* Peers are held from a successful enterExclusiveWindow() to the first    *)
(* attempt to leave: an attempt that fails may have resumed some of them.  *)
PeersMayRun == \A x \in Transaction : window = x => call[x] \in {"idle", "unwind"}

-----------------------------------------------------------------------------
Goto(x, step) == call' = [call EXCEPT ![x] = step]
SetState(x, s) == patchState' = [patchState EXCEPT ![x] = s]
FailAndLeave(x) == SetState(x, "Failed") /\ Goto(x, "leave")

WriteTarget(c) == target' = c /\ visible' = visible \cup {c}
WriteTargetPartly(x, c) == \E p \in {target, c, Torn(x)} : WriteTarget(p)
SyncTarget == visible' = {target} /\ UNCHANGED target

(* Other software changes the target between two windows.                  *)
ForeignWrite ==
  /\ PeersMayRun
  /\ \E c \in {Original, Foreign} : target' = c /\ visible' = {c}
  /\ UNCHANGED <<patchState, call, trampoline, published, window>>

PreparePatch(x) ==
  /\ call[x] = "idle" /\ patchState[x] = "Empty" /\ PeersMayRun
  /\ \/ SetState(x, "Failed")
     \/ target = Original /\ SetState(x, "Prepared")
  /\ UNCHANGED <<call, memory, trampoline, published, window>>

(* commit() and rollback() start by acquiring the exclusive window; when   *)
(* that fails they return without any change.                              *)
EnterWindow(x) ==
  /\ call[x] = "idle" /\ window = NoOne
  /\ \/ patchState[x] = "Prepared" /\ Goto(x, "reread")
     \/ patchState[x] = "Committed" /\ Goto(x, "verify")
  /\ window' = x
  /\ UNCHANGED <<patchState, memory, trampoline, published>>

(* Mutant: commit() relies on the snapshot that prepare() compared.        *)
TrustPreparedSnapshot(x) ==
  /\ call[x] = "reread"
  /\ \/ FailAndLeave(x)
     \/ /\ Goto(x, IF x \in Precompiled THEN "bind" ELSE "writeTrampoline")
        /\ UNCHANGED patchState
  /\ UNCHANGED <<memory, trampoline, published, window>>

Reread(x) ==
  /\ call[x] = "reread"
  /\ \/ FailAndLeave(x)
     \/ /\ target = Original
        /\ Goto(x, IF x \in Precompiled THEN "bind" ELSE "writeTrampoline")
        /\ UNCHANGED patchState
  /\ UNCHANGED <<memory, trampoline, published, window>>

BindResumeAddress(x) ==
  /\ call[x] = "bind"
  /\ \/ FailAndLeave(x) /\ UNCHANGED trampoline
     \/ /\ trampoline' = [trampoline EXCEPT ![x] = "ready"]
        /\ Goto(x, "publish") /\ UNCHANGED patchState
  /\ UNCHANGED <<memory, published, window>>

WriteTrampoline(x) ==
  /\ call[x] = "writeTrampoline"
  /\ \/ /\ \E c \in {"none", "torn", "written"} : trampoline' = [trampoline EXCEPT ![x] = c]
        /\ FailAndLeave(x)
     \/ /\ trampoline' = [trampoline EXCEPT ![x] = "written"]
        /\ Goto(x, "syncTrampoline") /\ UNCHANGED patchState
  /\ UNCHANGED <<memory, published, window>>

(* Mutant: the trampoline is published without a cache synchronization.    *)
SkipTrampolineSync(x) ==
  /\ call[x] = "syncTrampoline"
  /\ Goto(x, "publish")
  /\ UNCHANGED <<patchState, memory, trampoline, published, window>>

SyncTrampoline(x) ==
  /\ call[x] = "syncTrampoline"
  /\ \/ FailAndLeave(x) /\ UNCHANGED trampoline
     \/ /\ trampoline' = [trampoline EXCEPT ![x] = "ready"]
        /\ Goto(x, "publish") /\ UNCHANGED patchState
  /\ UNCHANGED <<memory, published, window>>

Publish(x) ==
  /\ call[x] = "publish"
  /\ \/ /\ \E done \in BOOLEAN : published' = [published EXCEPT ![x] = done]
        /\ FailAndLeave(x)
     \/ /\ published' = [published EXCEPT ![x] = TRUE]
        /\ Goto(x, "writeEntry") /\ UNCHANGED patchState
  /\ UNCHANGED <<memory, trampoline, window>>

WriteEntry(x) ==
  /\ call[x] = "writeEntry"
  /\ \/ WriteTargetPartly(x, Patch(x)) /\ Goto(x, "restoreEntry")
     \/ WriteTarget(Patch(x)) /\ Goto(x, "syncEntry")
  /\ UNCHANGED <<patchState, trampoline, published, window>>

(* Mutant: a failed entry synchronization leaves at once.                  *)
SyncEntryWithoutRestore(x) ==
  /\ call[x] = "syncEntry"
  /\ \/ SetState(x, "RolledBack") /\ UNCHANGED memory
     \/ SyncTarget /\ SetState(x, "Committed")
  /\ Goto(x, "leave")
  /\ UNCHANGED <<trampoline, published, window>>

SyncEntry(x) ==
  /\ call[x] = "syncEntry"
  /\ \/ Goto(x, "restoreEntry") /\ UNCHANGED <<patchState, memory>>
     \/ SyncTarget /\ SetState(x, "Committed") /\ Goto(x, "leave")
  /\ UNCHANGED <<trampoline, published, window>>

(* automaticRollback().                                                    *)
RestoreEntry(x) ==
  /\ call[x] = "restoreEntry"
  /\ \/ WriteTargetPartly(x, Original) /\ FailAndLeave(x)
     \/ WriteTarget(Original) /\ Goto(x, "syncRestored") /\ UNCHANGED patchState
  /\ UNCHANGED <<trampoline, published, window>>

SyncRestored(x) ==
  /\ call[x] = "syncRestored"
  /\ \/ FailAndLeave(x) /\ UNCHANGED memory
     \/ SyncTarget /\ SetState(x, "RolledBack") /\ Goto(x, "leave")
  /\ UNCHANGED <<trampoline, published, window>>

(* rollback(): an unreadable target leaves the transaction committed.      *)
Verify(x) ==
  /\ call[x] = "verify"
  /\ \/ Goto(x, "leave") /\ UNCHANGED patchState
     \/ target # Patch(x) /\ FailAndLeave(x)
     \/ target = Patch(x) /\ Goto(x, "writeOriginal") /\ UNCHANGED patchState
  /\ UNCHANGED <<memory, trampoline, published, window>>

WriteOriginal(x) ==
  /\ call[x] = "writeOriginal"
  /\ \/ WriteTargetPartly(x, Original) /\ FailAndLeave(x)
     \/ WriteTarget(Original) /\ Goto(x, "syncOriginal") /\ UNCHANGED patchState
  /\ UNCHANGED <<trampoline, published, window>>

SyncOriginal(x) ==
  /\ call[x] = "syncOriginal"
  /\ \/ FailAndLeave(x) /\ UNCHANGED memory
     \/ SyncTarget /\ SetState(x, "RolledBack") /\ Goto(x, "leave")
  /\ UNCHANGED <<trampoline, published, window>>

(* Mutant: a failed release keeps the outcome of the commit.               *)
LeaveKeepingOutcome(x) ==
  /\ call[x] = "leave"
  /\ \/ window' = NoOne /\ Goto(x, "idle")
     \/ Goto(x, "unwind") /\ UNCHANGED window
  /\ UNCHANGED <<patchState, memory, trampoline, published>>

(* finishExclusive(), and the second attempt of ~ExclusiveWindow().        *)
LeaveWindow(x) ==
  /\ call[x] = "leave"
  /\ \/ window' = NoOne /\ Goto(x, "idle") /\ UNCHANGED patchState
     \/ SetState(x, "Failed") /\ Goto(x, "unwind") /\ UNCHANGED window
  /\ UNCHANGED <<memory, trampoline, published>>

Unwind(x) ==
  /\ call[x] = "unwind"
  /\ Goto(x, "idle")
  /\ window' \in {NoOne, window}
  /\ UNCHANGED <<patchState, memory, trampoline, published>>

PatchNext ==
  \/ ForeignWrite
  \/ \E x \in Transaction :
       \/ PreparePatch(x) \/ EnterWindow(x) \/ LeaveWindow(x) \/ Unwind(x)
       \/ Reread(x) \/ BindResumeAddress(x) \/ WriteTrampoline(x) \/ SyncTrampoline(x)
       \/ Publish(x) \/ WriteEntry(x) \/ SyncEntry(x) \/ RestoreEntry(x) \/ SyncRestored(x)
       \/ Verify(x) \/ WriteOriginal(x) \/ SyncOriginal(x)

PatchSpec == PatchInit /\ [][PatchNext]_patchVars

-----------------------------------------------------------------------------
(* Whatever failed, a peer that runs and can meet the entry patch of a     *)
(* transaction finds that transaction's trampoline complete, synchronized  *)
(* and published: the replacement can always call the original.            *)
PatchHasTrampoline ==
  PeersMayRun =>
    \A x \in Transaction :
      Patch(x) \in visible => trampoline[x] = "ready" /\ published[x]

(* The state a transaction reports is true of the code peers execute: not  *)
(* a byte of it before commit and after a (possibly automatic) rollback,   *)
(* and neither half-written nor stale code after a commit.                 *)
ReportedStateIsTrue ==
  PeersMayRun =>
    \A x \in Transaction :
      /\ patchState[x] \in {"Empty", "Prepared", "RolledBack"} =>
           Patch(x) \notin visible /\ Torn(x) \notin visible
      /\ patchState[x] = "Committed" =>
           Torn(x) \notin visible /\ (Patch(x) \in visible => visible = {Patch(x)})

(* A release that failed is never reported as a successful commit or       *)
(* rollback, even if the second attempt of the guard succeeds.             *)
StuckWindowIsReported ==
  \A x \in Transaction :
    window = x /\ call[x] \in {"idle", "unwind"} => patchState[x] = "Failed"

(* A transaction writes the target only over the original bytes or over    *)
(* what it wrote itself: neither commit() after a change since prepare()   *)
(* nor rollback() after a later change overwrites bytes of someone else.   *)
OverwritesOnlyOwn ==
  [][\A x \in Transaction :
       window = x /\ ~PeersMayRun /\ target' # target
         => target \in {Original, Patch(x), Torn(x)}]_patchVars
=============================================================================
