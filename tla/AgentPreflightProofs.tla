------------------------- MODULE AgentPreflightProofs ------------------------
(***************************************************************************)
(* Proofs about AgentPreflight, for any recipe files, any libraries and    *)
(* mappings of the process, and any numbers of threads and signals.        *)
(***************************************************************************)
EXTENDS AgentPreflight, FiniteSetTheorems, SequenceTheorems, WellFoundedInduction, TLAPS

-----------------------------------------------------------------------------
(* The inductive invariant.                                                *)

ScanSteps == {"disposition", "process", "before", "threads", "after"}
Collecting == {"maps", "bytes", "evaluate"}

(* A recipe of schema 2 that passed the parser has a strategy.             *)
AcceptInv == pc \notin {"parse", "done"} /\ recipe.schema = 2 => Strategy(recipe)

(* The plan moves the first words of a symbol of the recipe.               *)
Moves(symbols) ==
  \E d \in symbols : d.name = plan.symbol /\ SubSeq(d.code, 1, Size) = plan.original
PlanInv ==
  /\ pc = "select" =>
       /\ plan.original \in Seq(Instruction) /\ ~PlanRefuses(plan.original)
       /\ plan = PlanPatch(plan.symbol, plan.target, plan.original)
  /\ pc \in {"select"} \cup Collecting \cup ScanSteps \/ Past(Entry \ {"validate"}) =>
       Moves(Range(recipe.symbol)) /\ Len(plan.original) = Size /\ plan.target \in Nat
  /\ pc \in Collecting \cup ScanSteps \/ Past(Entry \ {"validate"}) =>
       Moves(Range(Profile.symbol))

(* What the snapshot says about bytes is what was read.                    *)
SnapshotInv ==
  pc \in {"bytes", "evaluate"} =>
    /\ DOMAIN snapshot = {"error", "maps", "bytes", "inventory"}
    /\ snapshot.maps \in Seq(ProcessMapEntry) /\ snapshot.bytes \in {<<>>, live}

(* The mapping holds every word of the patch.                              *)
Covers(m) ==
  /\ m.start <= plan.target /\ plan.target + Size <= m.end
  /\ m.readable /\ ~m.writable /\ m.executable /\ m.private /\ m.module
LiveInv ==
  pc \in ScanSteps \/ Past(Activation) =>
    /\ live = plan.original
    /\ \E k \in DOMAIN snapshot.maps :
         snapshot.maps[k] \in ProcessMapEntry /\ Covers(snapshot.maps[k])

(* The signal that is tried is free in what the scan has read, unless that *)
(* changed since.                                                          *)
Clear(t) == candidate \notin threads[t].blocked \cup threads[t].pending
Free == pc \in ScanSteps \ {"disposition"} /\ ~moved => candidate \notin claimed
Seen == pc \in {"threads", "after"} /\ ~moved =>
          \A t \in (before \ unread) \cap DOMAIN threads : Clear(t)

(* The second inventory has the live threads that its walk came to, unless *)
(* it passed by one.                                                       *)
Walked ==
  /\ pc = "threads" => cursor = 0
  /\ pc = "after" =>
       unread = {} /\ (~lost => \A t \in DOMAIN threads : t <= cursor => t \in listed)

ScanTypes ==
  /\ before \subseteq started /\ unread \subseteq before /\ listed \subseteq started
  /\ cursor \in started \cup {0} /\ lost \in BOOLEAN /\ moved \in BOOLEAN
ScanInv == Free /\ Seen /\ Walked /\ SelectedSignalIsFree

Inv == TypeOK /\ AcceptInv /\ PlanInv /\ SnapshotInv /\ LiveInv /\ ScanInv

-----------------------------------------------------------------------------
(* A set of numbers that is not empty has a least one.                     *)
LEMMA LeastIndex ==
  ASSUME NEW I \in SUBSET Nat, I # {}
  PROVE  Min(I) \in I /\ \A j \in I : Min(I) <= j
<1>1. PICK i \in I : \A j \in I : ~(<<j, i>> \in OpToRel(<, Nat))
  BY NatLessThanWellFounded, WFMin, Zenon
<1>2. ASSUME NEW j \in I PROVE i <= j
  <2>1. j \in Nat /\ i \in Nat /\ <<j, i>> \in Nat \X Nat /\ <<j, i>>[1] = j /\ <<j, i>>[2] = i
    OBVIOUS
  <2>2. ~(j < i)
    BY <1>1, <2>1, Zenon DEF OpToRel
  <2> QED
    BY <2>1, <2>2
<1> QED
  BY <1>2, Zenon DEF Min

(* One line of the file: a list grows by the value, and nothing else of    *)
(* the recipe that the proofs use changes.                                 *)
LEMMA LineEntered ==
  ASSUME TypeOK, NEW l, l.key \in Scalar \cup List, l.key \in List => l.value \in LinesOf(l.key),
         l.key = "symbol" => l.value \in SymbolRequirement
  PROVE  /\ DOMAIN Enter(recipe, l) = Scalar \cup List
         /\ Enter(recipe, l).symbol \in Seq(SymbolRequirement)
         /\ \A key \in List : Enter(recipe, l)[key] \in Seq(LinesOf(key))
<1> DEFINE r == Enter(recipe, l)
<1>1. CASE l.key \in Scalar
  <2>1. r = [recipe EXCEPT ![l.key] = l.value]
    BY <1>1 DEF Enter
  <2>2. l.key \notin List
    BY <1>1 DEF Scalar, List
  <2>3. DOMAIN r = Scalar \cup List /\ \A key \in List : r[key] = recipe[key]
    BY <2>1, <2>2 DEF TypeOK
  <2>4. "symbol" \in List
    BY DEF List
  <2> QED
    BY <2>2, <2>3, <2>4 DEF TypeOK
<1>2. CASE l.key \in List
  <2>1. r = [recipe EXCEPT ![l.key] = Append(recipe[l.key], l.value)]
    BY <1>2 DEF Enter, Scalar, List
  <2>2. DOMAIN r = Scalar \cup List /\ r[l.key] = Append(recipe[l.key], l.value)
        /\ \A key \in List \ {l.key} : r[key] = recipe[key]
    BY <1>2, <2>1 DEF TypeOK
  <2>3. "symbol" \in List
    BY DEF List
  <2>4. r.symbol \in Seq(SymbolRequirement)
    <3>1. CASE l.key = "symbol"
      <4>1. r.symbol = Append(recipe.symbol, l.value)
        BY <2>2, <3>1, Zenon
      <4>2. recipe.symbol \in Seq(SymbolRequirement) /\ l.value \in SymbolRequirement
        BY <3>1, Zenon DEF TypeOK
      <4> QED
        BY <4>1, <4>2
    <3>2. CASE l.key # "symbol"
      BY <2>2, <2>3, <3>2, Zenon DEF TypeOK
    <3> QED
      BY <3>1, <3>2, Zenon
  <2>5. recipe[l.key] \in Seq(LinesOf(l.key)) /\ l.value \in LinesOf(l.key)
    BY <1>2 DEF TypeOK
  <2>6. r[l.key] \in Seq(LinesOf(l.key))
    <3> DEFINE S == LinesOf(l.key)
    <3> HIDE DEF S
    <3>1. recipe[l.key] \in Seq(S) /\ l.value \in S
      BY <2>5 DEF S
    <3>2. Append(recipe[l.key], l.value) \in Seq(S)
      BY <3>1
    <3> QED
      BY <2>2, <3>2, Zenon DEF S
  <2> QED
    BY <2>2, <2>4, <2>6, Zenon DEF TypeOK
<1> QED
  BY <1>1, <1>2, Zenon

-----------------------------------------------------------------------------
(* What most steps have in common.                                         *)

(* A gate that refuses never lets the call look ready: the codes of the    *)
(* gates are not 0, but for that of the first in validate itself.          *)
LEMMA RefusalIsNotReady ==
  ASSUME TypeOK, NEW gate \in {"abi", "strategy", "trampoline", "activation", "signal"}, NEW why,
         Finish(gate, why), UNCHANGED entry
  PROVE  pc' = "done" /\ ~Past(Entry \ {"validate"})'
<1>1. entry # "validate" => Base(gate) # 0
  BY DEF Base, TypeOK, Entry
<1>2. pc' = "done" /\ status'[1] = Base(gate)
  BY DEF Finish
<1>3. Ready' => status'[1] = 0
  BY DEF Ready
<1>4. Past(Entry \ {"validate"})' => Ready' /\ entry # "validate"
  BY DEF Past
<1> QED
  BY <1>1, <1>2, <1>3, <1>4, Zenon

(* A call that ended without being ready promises nothing.                 *)
LEMMA EndKeeps ==
  ASSUME TypeOK', pc' = "done", ~Past(Entry \ {"validate"})'
  PROVE  Inv'
<1>1. ~Past(Activation)' /\ ~Past({"signal_preflight"})'
  BY Zenon DEF Past, Activation, Entry
<1>2. pc' \notin {"parse", "validate", "plan", "select"} \cup Collecting \cup ScanSteps
  BY DEF Collecting, ScanSteps
<1>3. AcceptInv'
  BY Zenon DEF AcceptInv
<1>4. PlanInv'
  BY <1>2, Zenon DEF PlanInv
<1>5. SnapshotInv' /\ LiveInv'
  BY <1>1, <1>2, Zenon DEF SnapshotInv, LiveInv, Collecting
<1>6. ScanInv'
  BY <1>1, <1>2, Zenon DEF ScanInv, Free, Seen, Walked, SelectedSignalIsFree, ScanSteps
<1> QED
  BY <1>3, <1>4, <1>5, <1>6, Zenon DEF Inv

(* A step that leaves the file, the recipe, the process and the plan alone *)
(* keeps their types.                                                      *)
LEMMA TypeKept ==
  ASSUME TypeOK, UNCHANGED <<entry, text, line, recipe, maps, plan, threads, started, claimed>>,
         pc' \in Steps, pc' # "done" => status' = None,
         ScanTypes', Scanning' => candidate' \in Signal
  PROVE  TypeOK'
<1>1. \A key : LinesOf(key)' = LinesOf(key)
  BY Zenon DEF LinesOf
<1> QED
  BY <1>1, Zenon DEF TypeOK, ScanTypes

(* A step that leaves the scan alone keeps its types.                      *)
LEMMA ScanTypesKept ==
  ASSUME TypeOK, UNCHANGED <<started, scan>>
  PROVE  ScanTypes' /\ UNCHANGED <<candidate, before, unread, cursor, listed, lost, moved>>
BY Zenon DEF TypeOK, ScanTypes, scan, walk

(* A gate that refuses ends the call.                                      *)
LEMMA RefusalKeeps ==
  ASSUME Inv, NEW gate \in {"abi", "strategy", "trampoline", "activation", "signal"}, NEW why,
         Finish(gate, why), UNCHANGED <<probe, target, planning, threads, started, claimed, scan>>
  PROVE  Inv'
<1>1. UNCHANGED <<entry, text, line, recipe, maps, plan, threads, started, claimed>> /\ ScanTypes'
  BY ScanTypesKept, Zenon DEF Inv, probe, target, planning
<1>2. pc' = "done" /\ ~Past(Entry \ {"validate"})'
  BY <1>1, RefusalIsNotReady, Zenon DEF Inv
<1>3. pc' \in Steps /\ ~Scanning'
  BY <1>2 DEF Steps, Scanning
<1>4. TypeOK'
  BY <1>1, <1>2, <1>3, TypeKept, Zenon DEF Inv, TypeOK
<1> QED
  BY <1>2, <1>4, EndKeeps, Zenon

(* The scan, and what happens during it, leave the work of the earlier     *)
(* gates alone.                                                            *)
LEMMA GatesKept ==
  ASSUME Inv, pc \in ScanSteps, pc' \in ScanSteps, UNCHANGED <<status, probe, planning>>
  PROVE  AcceptInv' /\ PlanInv' /\ SnapshotInv' /\ LiveInv' /\ ~Ready'
<1>1. UNCHANGED <<status, entry, text, line, recipe, plan, snapshot, live>>
  BY DEF probe, planning
<1>2. /\ pc \notin {"parse", "validate", "plan", "select", "done"} \cup Collecting
      /\ pc' \notin {"parse", "validate", "plan", "select", "done"} \cup Collecting
  BY DEF ScanSteps, Collecting
<1>3. AcceptInv'
  BY <1>1, <1>2, Zenon DEF Inv, AcceptInv
<1>4. PlanInv'
  BY <1>1, <1>2, Zenon DEF Inv, PlanInv, Moves, PlanPatch
<1>5. SnapshotInv'
  BY <1>2, Zenon DEF SnapshotInv, Collecting
<1>6. LiveInv'
  BY <1>1, <1>2, Zenon DEF Inv, LiveInv, Covers
<1>7. ~Ready'
  BY <1>1, <1>2, NoneAssumption, Zenon DEF Inv, TypeOK, Ready
<1> QED
  BY <1>3, <1>4, <1>5, <1>6, <1>7, Zenon

-----------------------------------------------------------------------------
(* The scan for a signal.                                                  *)

(* Threads are numbered from 1.                                            *)
LEMMA ThreadNumbers ==
  ASSUME started \subseteq Thread, ScanTypes
  PROVE  cursor \in Nat /\ \A t \in started : t \in Nat /\ ~(t <= 0)
<1>1. 0 \in Nat /\ \A t \in Nat \ {0} : t \in Nat /\ ~(t <= 0)
  OBVIOUS
<1> QED
  BY <1>1, ThreadAssumption, Zenon DEF ScanTypes

(* A step of the scan to another one: the types and the scan itself are    *)
(* what is left to show.                                                   *)
LEMMA ScanGoesOn ==
  ASSUME Inv, pc \in ScanSteps, pc' \in ScanSteps,
         UNCHANGED <<status, probe, target, planning, threads, started, claimed>>,
         ScanTypes', candidate' \in Signal, Free', Seen', Walked'
  PROVE  Inv'
<1>1. UNCHANGED <<status, entry, text, line, recipe, maps, plan, threads, started, claimed>>
  BY Zenon DEF probe, target, planning
<1>2. pc # "done" /\ pc' \in Steps
  BY DEF ScanSteps, Steps
<1>3. TypeOK'
  BY <1>1, <1>2, TypeKept, Zenon DEF Inv, TypeOK
<1>4. AcceptInv' /\ PlanInv' /\ SnapshotInv' /\ LiveInv' /\ ~Ready'
  BY GatesKept, Zenon
<1>5. ScanInv'
  BY <1>4, Zenon DEF ScanInv, SelectedSignalIsFree, Past
<1> QED
  BY <1>3, <1>4, <1>5, Zenon DEF Inv

(* The next lower signal starts the scan anew; below the last one the call *)
(* is refused.                                                             *)
LEMMA NextSignalKeeps ==
  ASSUME Inv, pc \in ScanSteps, NextSignal,
         UNCHANGED <<probe, target, planning, threads, started, claimed>>
  PROVE  Inv'
<1>1. CASE candidate - 1 \in Signal
  <2>1. /\ pc' = "disposition" /\ UNCHANGED status /\ candidate' = candidate - 1
        /\ before' = {} /\ unread' = {} /\ listed' = {} /\ cursor' = 0
        /\ lost' = FALSE /\ moved' = FALSE
    BY <1>1, Zenon DEF NextSignal, Goto, Consider
  <2>2. pc' \in ScanSteps /\ pc' \notin {"threads", "after"}
    BY <2>1 DEF ScanSteps
  <2>3. ScanTypes'
    BY <2>1, Zenon DEF ScanTypes
  <2>4. Free' /\ Seen' /\ Walked'
    BY <2>1, <2>2, Zenon DEF Free, Seen, Walked
  <2> QED
    BY <1>1, <2>1, <2>2, <2>3, <2>4, ScanGoesOn, Zenon
<1>2. CASE candidate - 1 \notin Signal
  BY <1>2, RefusalKeeps, Zenon DEF NextSignal
<1> QED
  BY <1>1, <1>2, Zenon

(* What the invariant says of the scan at any of its steps.                *)
LEMMA ScanFacts ==
  ASSUME Inv, pc \in ScanSteps
  PROVE  /\ threads \in [DOMAIN threads -> Masks] /\ Caller \in DOMAIN threads
         /\ DOMAIN threads \subseteq started /\ started \subseteq Thread
         /\ ScanTypes /\ candidate \in Signal /\ claimed \subseteq Signal
         /\ Free /\ Seen /\ Walked
BY Zenon DEF Inv, TypeOK, ScanTypes, ScanInv, Scanning, ScanSteps

(* InspectDisposition: a signal with a handler is not taken.               *)
LEMMA InspectDispositionKeeps ==
  ASSUME Inv, InspectDisposition
  PROVE  Inv'
<1>1. pc \in ScanSteps /\ UNCHANGED <<probe, target, planning, threads, started, claimed>>
  BY DEF InspectDisposition, ScanSteps
<1>2. CASE NextSignal
  BY <1>1, <1>2, NextSignalKeeps, Zenon
<1>3. CASE ~NextSignal
  <2>1. candidate \notin claimed /\ pc' = "process" /\ UNCHANGED <<status, scan>>
    BY <1>3, Zenon DEF InspectDisposition, Goto
  <2>2. pc' \in ScanSteps /\ pc' \notin {"threads", "after"}
    BY <2>1 DEF ScanSteps
  <2>3. ScanTypes' /\ candidate' = candidate /\ candidate \in Signal
    BY <1>1, <2>1, ScanFacts, ScanTypesKept, Zenon DEF Inv
  <2>4. Free' /\ Seen' /\ Walked'
    BY <1>1, <2>1, <2>2, <2>3, Zenon DEF Free, Seen, Walked
  <2> QED
    BY <1>1, <2>1, <2>2, <2>3, <2>4, ScanGoesOn, Zenon
<1> QED
  BY <1>2, <1>3, Zenon

(* InspectProcess: nothing is assumed of the threads yet.                  *)
LEMMA InspectProcessKeeps ==
  ASSUME Inv, InspectProcess
  PROVE  Inv'
<1>1. pc \in ScanSteps \ {"disposition"}
      /\ UNCHANGED <<probe, target, planning, threads, started, claimed>>
  BY DEF InspectProcess, ScanSteps
<1>2. CASE NextSignal
  BY <1>1, <1>2, NextSignalKeeps, Zenon
<1>3. CASE ~NextSignal
  <2>1. pc' = "before" /\ UNCHANGED <<status, scan>>
    BY <1>3, Zenon DEF InspectProcess, Goto
  <2>2. pc' \in ScanSteps /\ pc' \notin {"threads", "after"}
    BY <2>1 DEF ScanSteps
  <2>3. ScanTypes' /\ UNCHANGED <<candidate, moved>> /\ candidate \in Signal /\ Free
    BY <1>1, <2>1, ScanFacts, ScanTypesKept, Zenon DEF Inv
  <2>4. Free' /\ Seen' /\ Walked'
    BY <1>1, <2>2, <2>3, Zenon DEF Free, Seen, Walked
  <2> QED
    BY <1>1, <2>1, <2>2, <2>3, <2>4, ScanGoesOn, Zenon
<1> QED
  BY <1>2, <1>3, Zenon

(* enumerateThreadsAllocated: an entry is added, and no live thread is     *)
(* between it and the last one unless that is noted.                       *)
LEMMA EnumerateKeeps ==
  ASSUME Inv, enumerateThreadsAllocated
  PROVE  Inv'
<1>1. /\ pc \in ScanSteps \ {"disposition"} /\ pc # "threads"
      /\ UNCHANGED <<pc, status, candidate, before, unread, moved>>
      /\ UNCHANGED <<probe, target, planning, threads, started, claimed>>
  BY DEF enumerateThreadsAllocated, Walking, ScanSteps
<1>2. PICK t \in DOMAIN threads :
        /\ t > cursor /\ cursor' = t /\ listed' = listed \cup {t}
        /\ lost' = (lost \/ \E u \in Following : u < t)
  BY Zenon DEF enumerateThreadsAllocated, Following
<1>3. /\ DOMAIN threads \subseteq started /\ started \subseteq Thread
      /\ ScanTypes /\ candidate \in Signal /\ Free /\ Seen /\ Walked
  BY <1>1, ScanFacts, Zenon
<1>4. ScanTypes'
  <2>1. before' \subseteq started' /\ unread' \subseteq before' /\ listed' \subseteq started'
        /\ cursor' \in started' \cup {0} /\ moved' \in BOOLEAN
    BY <1>1, <1>2, <1>3, Zenon DEF ScanTypes
  <2>2. lost' \in BOOLEAN
    BY <1>2, <1>3, Zenon DEF ScanTypes
  <2> QED
    BY <2>1, <2>2, Zenon DEF ScanTypes
<1>5. Free' /\ Seen'
  BY <1>1, <1>3, Zenon DEF Free, Seen, Clear
<1>6. Walked'
  <2>1. ASSUME pc = "after", ~lost', NEW v \in DOMAIN threads, v <= t PROVE v \in listed'
    <3>1. v \in Nat /\ t \in Nat /\ cursor \in Nat
      BY <1>3, ThreadNumbers, Zenon
    <3>2. ~lost /\ ~(v > cursor /\ v < t)
      BY <1>2, <2>1, Zenon DEF Following
    <3>3. v <= cursor \/ v = t
      BY <2>1, <3>1, <3>2
    <3> QED
      BY <1>2, <1>3, <2>1, <3>2, <3>3, Zenon DEF Walked
  <2> QED
    BY <1>1, <1>2, <1>3, <2>1, Zenon DEF Walked
<1> QED
  BY <1>1, <1>3, <1>4, <1>5, <1>6, ScanGoesOn, Zenon

(* EnumerationFails: the signal is not taken.                              *)
LEMMA EnumerationFailsKeeps ==
  ASSUME Inv, EnumerationFails
  PROVE  Inv'
<1>1. pc \in ScanSteps /\ NextSignal
      /\ UNCHANGED <<probe, target, planning, threads, started, claimed>>
  BY DEF EnumerationFails, Walking, ScanSteps
<1> QED
  BY <1>1, NextSignalKeeps, Zenon

(* FirstThreads: all threads that were listed are still to be read.        *)
LEMMA FirstThreadsKeeps ==
  ASSUME Inv, FirstThreads
  PROVE  Inv'
<1>1. /\ pc \in ScanSteps \ {"disposition"} /\ pc' = "threads"
      /\ UNCHANGED <<status, candidate, moved>>
      /\ UNCHANGED <<probe, target, planning, threads, started, claimed>>
      /\ before' = listed /\ unread' = listed /\ cursor' = 0 /\ listed' = {} /\ lost' = FALSE
  BY DEF FirstThreads, Goto, ScanSteps
<1>2. pc' \in ScanSteps
  BY <1>1 DEF ScanSteps
<1>3. ScanTypes /\ candidate \in Signal /\ Free
  BY <1>1, ScanFacts, Zenon
<1>4. ScanTypes'
  BY <1>1, <1>3, Zenon DEF ScanTypes
<1>5. Free' /\ Seen' /\ Walked'
  BY <1>1, <1>3, Zenon DEF Free, Seen, Walked
<1> QED
  BY <1>1, <1>2, <1>3, <1>4, <1>5, ScanGoesOn, Zenon

(* InspectThread: the thread that was read neither blocks the signal nor   *)
(* has it pending.                                                         *)
LEMMA InspectThreadKeeps ==
  ASSUME Inv, InspectThread
  PROVE  Inv'
<1>1. pc = "threads" /\ pc \in ScanSteps \ {"disposition"}
      /\ UNCHANGED <<probe, target, planning, threads, started, claimed>>
  BY DEF InspectThread, ScanSteps
<1>2. CASE NextSignal
  BY <1>1, <1>2, NextSignalKeeps, Zenon
<1>3. CASE ~NextSignal
  <2> DEFINE t == CHOOSE t \in unread : \A u \in unread : t <= u
  <2>1. PICK m \in parseProcStatusSignalMasks(t) :
          /\ m # None /\ candidate \notin m.blocked \cup m.pending
          /\ pc' = "threads" /\ unread' = unread \ {t}
          /\ UNCHANGED <<status, candidate, before, walk, moved>>
    BY <1>3, Zenon DEF InspectThread, Goto
  <2> HIDE DEF t
  <2>2. t \in DOMAIN threads /\ m = threads[t]
    BY <2>1, Zenon DEF parseProcStatusSignalMasks
  <2>3. pc' = pc /\ UNCHANGED <<cursor, listed, lost>>
    BY <1>1, <2>1, Zenon DEF walk
  <2>4. ScanTypes /\ candidate \in Signal /\ Free /\ Seen /\ Walked
    BY <1>1, ScanFacts, Zenon
  <2>5. ScanTypes'
    BY <1>1, <2>1, <2>3, <2>4, Zenon DEF ScanTypes
  <2>6. Seen'
    BY <1>1, <2>1, <2>2, <2>4, Zenon DEF Seen, Clear
  <2>7. Free' /\ Walked'
    BY <1>1, <2>1, <2>3, <2>4, Zenon DEF Free, Walked
  <2> QED
    BY <1>1, <2>1, <2>3, <2>4, <2>5, <2>6, <2>7, ScanGoesOn, Zenon
<1> QED
  BY <1>2, <1>3, Zenon

(* InspectionEnds: the second walk starts with all threads read.           *)
LEMMA InspectionEndsKeeps ==
  ASSUME Inv, InspectionEnds
  PROVE  Inv'
<1>1. /\ pc = "threads" /\ pc \in ScanSteps \ {"disposition"} /\ pc' = "after" /\ unread = {}
      /\ UNCHANGED <<status, probe, target, planning, threads, started, claimed, scan>>
  BY DEF InspectionEnds, Goto, ScanSteps
<1>2. pc' \in ScanSteps
  BY <1>1 DEF ScanSteps
<1>3. /\ DOMAIN threads \subseteq started /\ started \subseteq Thread
      /\ ScanTypes /\ candidate \in Signal /\ Free /\ Seen /\ Walked
  BY <1>1, ScanFacts, Zenon
<1>4. ScanTypes' /\ UNCHANGED <<candidate, before, unread, cursor, listed, lost, moved>>
  BY <1>1, ScanTypesKept, Zenon DEF Inv
<1>5. Free' /\ Seen'
  BY <1>1, <1>3, <1>4, Zenon DEF Free, Seen, Clear
<1>6. Walked'
  <2>1. \A t \in DOMAIN threads : ~(t <= 0)
    BY <1>3, ThreadNumbers, Zenon
  <2> QED
    BY <1>1, <1>3, <1>4, <2>1, Zenon DEF Walked
<1> QED
  BY <1>1, <1>2, <1>3, <1>4, <1>5, <1>6, ScanGoesOn, Zenon

(* SecondThreads: the same threads were found again and no live one was    *)
(* passed by, so all of them have been read.                               *)
LEMMA SecondThreadsKeeps ==
  ASSUME Inv, SecondThreads
  PROVE  Inv'
<1>1. pc = "after" /\ pc \in ScanSteps \ {"disposition"}
      /\ UNCHANGED <<probe, target, planning, threads, started, claimed>>
  BY DEF SecondThreads, ScanSteps
<1>2. CASE NextSignal
  BY <1>1, <1>2, NextSignalKeeps, Zenon
<1>3. CASE ~NextSignal
  <2>1. /\ listed = before /\ pc' = "done" /\ lost' = (lost \/ Following # {})
        /\ UNCHANGED <<candidate, before, unread, cursor, listed, moved>>
    BY <1>3, Zenon DEF SecondThreads, SameThreads, Succeed
  <2>2. /\ DOMAIN threads \subseteq started /\ started \subseteq Thread
        /\ ScanTypes /\ Free /\ Seen /\ Walked
    BY <1>1, ScanFacts, Zenon
  <2>3. ScanTypes'
    BY <1>1, <2>1, <2>2, Zenon DEF ScanTypes
  <2>4. UNCHANGED <<entry, text, line, recipe, maps, plan, snapshot, live, threads, started,
                    claimed>>
    BY <1>1, Zenon DEF probe, target, planning
  <2>5. pc' \in Steps /\ ~Scanning' /\ pc' \notin {"parse", "select"} \cup Collecting \cup ScanSteps
    BY <2>1 DEF Steps, Scanning, Collecting, ScanSteps
  <2>6. TypeOK'
    BY <2>1, <2>3, <2>4, <2>5, TypeKept, Zenon DEF Inv
  <2>7. AcceptInv' /\ SnapshotInv'
    BY <2>1, <2>5, Zenon DEF AcceptInv, SnapshotInv, Collecting
  <2>8. PlanInv'
    BY <1>1, <2>4, <2>5, Zenon DEF Inv, PlanInv, Moves
  <2>9. LiveInv'
    BY <1>1, <2>4, Zenon DEF Inv, LiveInv, Covers
  <2>10. SelectedSignalIsFree'
    <3>1. ASSUME ~moved, ~lost' PROVE \A t \in DOMAIN threads : Clear(t)
      <4>1. ASSUME NEW t \in DOMAIN threads PROVE t \in before \ unread
        <5>1. ~lost /\ ~(t > cursor)
          BY <2>1, <3>1, Zenon DEF Following
        <5>2. t \in Nat /\ cursor \in Nat
          BY <2>2, ThreadNumbers, Zenon
        <5>3. t <= cursor
          BY <5>1, <5>2
        <5> QED
          BY <1>1, <2>1, <2>2, <5>1, <5>3, Zenon DEF Walked
      <4> QED
        BY <1>1, <2>2, <3>1, <4>1, Zenon DEF Seen
    <3>2. ~moved => candidate \notin claimed
      BY <1>1, <2>2, Zenon DEF Free
    <3> QED
      BY <2>1, <2>4, <3>1, <3>2, Zenon DEF SelectedSignalIsFree, Clear
  <2>11. ScanInv'
    BY <2>1, <2>5, <2>10, Zenon DEF ScanInv, Free, Seen, Walked
  <2> QED
    BY <2>6, <2>7, <2>8, <2>9, <2>11, Zenon DEF Inv
<1> QED
  BY <1>2, <1>3, Zenon

-----------------------------------------------------------------------------
(* What other software does.                                               *)

(* A change of the threads or handlers during the scan: what is left to    *)
(* show of its types, and the scan.                                        *)
LEMMA DisturbanceKeeps ==
  ASSUME Inv, pc \in ScanSteps, UNCHANGED <<pc, status, probe, target, planning, candidate>>,
         threads' \in [DOMAIN threads' -> Masks], Caller \in DOMAIN threads',
         DOMAIN threads' \subseteq started', started' \subseteq Thread, claimed' \subseteq Signal,
         ScanTypes', Free', Seen', Walked'
  PROVE  Inv'
<1>1. UNCHANGED <<pc, status, entry, text, line, recipe, maps, plan, candidate>>
  BY Zenon DEF probe, target, planning
<1>2. pc' \in ScanSteps
  BY <1>1, Zenon
<1>3. TypeOK'
  <2>1. (\A key : LinesOf(key)' = LinesOf(key)) /\ (Scanning' <=> Scanning)
    BY <1>1, Zenon DEF LinesOf, Scanning
  <2> QED
    BY <1>1, <2>1, Zenon DEF Inv, TypeOK, ScanTypes
<1>4. AcceptInv' /\ PlanInv' /\ SnapshotInv' /\ LiveInv' /\ ~Ready'
  BY <1>2, GatesKept, Zenon
<1>5. ScanInv'
  BY <1>4, Zenon DEF ScanInv, SelectedSignalIsFree, Past
<1> QED
  BY <1>3, <1>4, <1>5, Zenon DEF Inv

(* CreateThread: a new thread is not among those that were read, and comes *)
(* after all those that were listed.                                       *)
LEMMA CreateThreadKeeps ==
  ASSUME Inv, NEW t \in Thread, CreateThread(t)
  PROVE  Inv'
<1>1. /\ pc \in ScanSteps /\ (\A u \in started : u < t) /\ started' = started \cup {t}
      /\ UNCHANGED <<pc, status, probe, target, planning, claimed, candidate, before, unread,
                     cursor, listed, lost, moved>>
  BY Zenon DEF CreateThread, scan, walk, Scanning, ScanSteps
<1>2. /\ threads \in [DOMAIN threads -> Masks] /\ Caller \in DOMAIN threads
      /\ DOMAIN threads \subseteq started /\ started \subseteq Thread
      /\ ScanTypes /\ claimed \subseteq Signal /\ Free /\ Seen /\ Walked
  BY <1>1, ScanFacts, Zenon
<1>3. PICK u \in DOMAIN threads :
        threads' = [v \in DOMAIN threads \cup {t} |->
                     IF v = t THEN [blocked |-> threads[u].blocked, pending |-> {}] ELSE threads[v]]
  BY Zenon DEF CreateThread
<1>4. [blocked |-> threads[u].blocked, pending |-> {}] \in Masks
  BY <1>2, <1>3 DEF Masks
<1>5. /\ DOMAIN threads' = DOMAIN threads \cup {t} /\ threads' \in [DOMAIN threads' -> Masks]
      /\ \A v \in DOMAIN threads : v # t => threads'[v] = threads[v]
  BY <1>2, <1>3, <1>4, Zenon
<1>6. t \notin started /\ ~(t <= cursor)
  <2>1. t \in Thread /\ started \subseteq Nat /\ cursor \in started \cup {0}
    BY <1>2, ThreadNumbers, Zenon DEF ScanTypes
  <2>2. t \in Nat \ {0}
    BY <2>1, ThreadAssumption, Zenon
  <2> QED
    BY <1>1, <2>1, <2>2
<1>7. Free' /\ Seen'
  <2>1. \A v \in before \cap DOMAIN threads' : v \in DOMAIN threads /\ threads'[v] = threads[v]
    BY <1>2, <1>5, <1>6, Zenon DEF ScanTypes
  <2> QED
    BY <1>1, <1>2, <2>1, Zenon DEF Free, Seen, Clear
<1>8. Walked'
  BY <1>1, <1>2, <1>5, <1>6, Zenon DEF Walked
<1>9. ScanTypes'
  BY <1>1, <1>2, Zenon DEF ScanTypes
<1>10. Caller \in DOMAIN threads' /\ DOMAIN threads' \subseteq started' /\ started' \subseteq Thread
  BY <1>1, <1>2, <1>5, Zenon
<1> QED
  BY <1>1, <1>2, <1>5, <1>7, <1>8, <1>9, <1>10, DisturbanceKeeps, Zenon

(* ExitThread: what is known of the other threads stays true.              *)
LEMMA ExitThreadKeeps ==
  ASSUME Inv, NEW t \in Thread, ExitThread(t)
  PROVE  Inv'
<1>1. /\ pc \in ScanSteps /\ t # Caller /\ threads' = [v \in DOMAIN threads \ {t} |-> threads[v]]
      /\ UNCHANGED <<pc, status, probe, target, planning, started, claimed, candidate, before,
                     unread, cursor, listed, lost, moved>>
  BY Zenon DEF ExitThread, scan, walk, Scanning, ScanSteps
<1>2. /\ threads \in [DOMAIN threads -> Masks] /\ Caller \in DOMAIN threads
      /\ DOMAIN threads \subseteq started /\ started \subseteq Thread
      /\ ScanTypes /\ claimed \subseteq Signal /\ Free /\ Seen /\ Walked
  BY <1>1, ScanFacts, Zenon
<1>3. /\ DOMAIN threads' = DOMAIN threads \ {t} /\ threads' \in [DOMAIN threads' -> Masks]
      /\ \A v \in DOMAIN threads' : threads'[v] = threads[v]
  BY <1>1, <1>2, Zenon
<1>4. Free' /\ Seen'
  BY <1>1, <1>2, <1>3, Zenon DEF Free, Seen, Clear
<1>5. Walked' /\ ScanTypes'
  BY <1>1, <1>2, <1>3, Zenon DEF Walked, ScanTypes
<1>6. Caller \in DOMAIN threads' /\ DOMAIN threads' \subseteq started' /\ started' \subseteq Thread
  BY <1>1, <1>2, <1>3, Zenon
<1> QED
  BY <1>1, <1>2, <1>3, <1>4, <1>5, <1>6, DisturbanceKeeps, Zenon

(* ChangeMask: a change of a mask that was read is noted, if it is of the  *)
(* signal that is tried.                                                   *)
LEMMA ChangeMaskKeeps ==
  ASSUME Inv, NEW t \in Thread, NEW s \in Signal, ChangeMask(t, s)
  PROVE  Inv'
<1>1. /\ pc \in ScanSteps /\ t \in DOMAIN threads
      /\ moved' = (moved \/ (s = candidate /\ t \in before \ unread))
      /\ threads' = [threads EXCEPT ![t].blocked = (@ \ {s}) \cup ({s} \ @)]
      /\ UNCHANGED <<pc, status, probe, target, planning, started, claimed, candidate, before,
                     unread, cursor, listed, lost>>
  BY Zenon DEF ChangeMask, Behind, walk, Scanning, ScanSteps
<1>2. /\ threads \in [DOMAIN threads -> Masks] /\ Caller \in DOMAIN threads
      /\ DOMAIN threads \subseteq started /\ started \subseteq Thread
      /\ ScanTypes /\ candidate \in Signal /\ claimed \subseteq Signal /\ Free /\ Seen /\ Walked
  BY <1>1, ScanFacts, Zenon
<1>3. /\ threads[t] \in Masks
      /\ threads' = [threads EXCEPT ![t] = [threads[t] EXCEPT !.blocked = (@ \ {s}) \cup ({s} \ @)]]
  BY <1>1, <1>2, Zenon
<1>4. DOMAIN threads' = DOMAIN threads
      /\ (\A v \in DOMAIN threads : v # t => threads'[v] = threads[v])
      /\ threads'[t] = [threads[t] EXCEPT !.blocked = (@ \ {s}) \cup ({s} \ @)]
  BY <1>1, <1>2, <1>3, Zenon
<1>5. /\ threads'[t] \in Masks /\ threads'[t].pending = threads[t].pending
      /\ \A u \in Signal : u # s => (u \in threads'[t].blocked <=> u \in threads[t].blocked)
  BY <1>3, <1>4 DEF Masks
<1>6. threads' \in [DOMAIN threads' -> Masks]
  <2>1. threads' = [v \in DOMAIN threads |-> threads'[v]]
    BY <1>2, <1>3, <1>4, Zenon
  <2> QED
    BY <1>2, <1>4, <1>5, <2>1, Zenon
<1>7. Seen'
  <2>1. ASSUME pc \in {"threads", "after"}, ~moved', NEW v \in (before \ unread) \cap DOMAIN threads
        PROVE  candidate \notin threads'[v].blocked \cup threads'[v].pending
    <3>1. candidate \notin threads[v].blocked \cup threads[v].pending
      BY <1>1, <1>2, <2>1, Zenon DEF Seen, Clear
    <3>2. CASE v = t
      BY <1>1, <1>2, <1>5, <2>1, <3>1, <3>2, Zenon
    <3>3. CASE v # t
      BY <1>4, <3>1, <3>3, Zenon
    <3> QED
      BY <3>2, <3>3, Zenon
  <2> QED
    BY <1>1, <1>4, <2>1, Zenon DEF Seen, Clear
<1>8. Free' /\ Walked'
  BY <1>1, <1>2, <1>4, Zenon DEF Free, Walked
<1>9. ScanTypes'
  <2>1. moved' \in BOOLEAN
    BY <1>1, <1>2, Zenon DEF ScanTypes
  <2> QED
    BY <1>1, <1>2, <2>1, Zenon DEF ScanTypes
<1>10. Caller \in DOMAIN threads' /\ DOMAIN threads' \subseteq started' /\ started' \subseteq Thread
       /\ claimed' \subseteq Signal
  BY <1>1, <1>2, <1>4, Zenon
<1> QED
  BY <1>1, <1>6, <1>7, <1>8, <1>9, <1>10, DisturbanceKeeps, Zenon

(* Claim: a handler for the signal that is tried is noted once the         *)
(* disposition was read.                                                   *)
LEMMA ClaimKeeps ==
  ASSUME Inv, NEW s \in Signal, Claim(s)
  PROVE  Inv'
<1>1. /\ pc \in ScanSteps /\ claimed' = claimed \cup {s}
      /\ moved' = (moved \/ (s = candidate /\ pc # "disposition"))
      /\ UNCHANGED <<pc, status, probe, target, planning, threads, started, candidate, before,
                     unread, cursor, listed, lost>>
  BY Zenon DEF Claim, walk, Scanning, ScanSteps
<1>2. /\ threads \in [DOMAIN threads -> Masks] /\ Caller \in DOMAIN threads
      /\ DOMAIN threads \subseteq started /\ started \subseteq Thread
      /\ ScanTypes /\ claimed \subseteq Signal /\ Free /\ Seen /\ Walked
  BY <1>1, ScanFacts, Zenon
<1>3. Free'
  BY <1>1, <1>2, Zenon DEF Free
<1>4. Seen' /\ Walked'
  BY <1>1, <1>2, Zenon DEF Seen, Clear, Walked
<1>5. ScanTypes'
  <2>1. moved' \in BOOLEAN
    BY <1>1, <1>2, Zenon DEF ScanTypes
  <2> QED
    BY <1>1, <1>2, <2>1, Zenon DEF ScanTypes
<1>6. claimed' \subseteq Signal /\ started' = started /\ threads' = threads
  BY <1>1, <1>2, Zenon
<1> QED
  BY <1>1, <1>2, <1>3, <1>4, <1>5, <1>6, DisturbanceKeeps, Zenon

(* Rewrite, Remap and no step at all: the invariant does not look at the   *)
(* live code, and of the mappings it knows only that they are some.        *)
LEMMA TargetKeeps ==
  ASSUME Inv, maps' \in Seq(ProcessMapEntry),
         UNCHANGED <<pc, status, probe, planning, threads, started, claimed, scan>>
  PROVE  Inv'
<1>1. UNCHANGED <<pc, status, entry, text, line, recipe, plan, snapshot, live, threads, started,
                  claimed, candidate, before, unread, cursor, listed, lost, moved>>
  BY Zenon DEF probe, planning, scan, walk
<1>2. /\ (\A key : LinesOf(key)' = LinesOf(key)) /\ (Scanning' <=> Scanning)
      /\ \A gates : Past(gates)' <=> Past(gates)
  BY <1>1, Zenon DEF LinesOf, Scanning, Past, Ready
<1>3. TypeOK'
  BY <1>1, <1>2, Zenon DEF Inv, TypeOK
<1>4. AcceptInv' /\ SnapshotInv'
  BY <1>1, Zenon DEF Inv, AcceptInv, SnapshotInv
<1>5. PlanInv'
  BY <1>1, <1>2, Zenon DEF Inv, PlanInv, Moves
<1>6. LiveInv'
  BY <1>1, <1>2, Zenon DEF Inv, LiveInv, Covers
<1>7. ScanInv'
  <2>1. Free' /\ Seen' /\ Walked'
    BY <1>1, Zenon DEF Inv, ScanInv, Free, Seen, Clear, Walked
  <2> QED
    BY <1>1, <1>2, <2>1, Zenon DEF Inv, ScanInv, SelectedSignalIsFree
<1> QED
  BY <1>3, <1>4, <1>5, <1>6, <1>7, Zenon DEF Inv

-----------------------------------------------------------------------------
(* The gates.                                                              *)

(* ParseLine: the value is entered where its key says, or the file is      *)
(* refused.                                                                *)
LEMMA ParseLineKeeps ==
  ASSUME Inv, ParseLine
  PROVE  Inv'
<1> DEFINE l == text[line + 1]
<1>1. /\ pc = "parse" /\ line' = line + 1
      /\ UNCHANGED <<entry, text, maps, plan, threads, started, claimed>> /\ ScanTypes'
  BY ScanTypesKept, Zenon DEF Inv, ParseLine, probe, target
<1>2. line + 1 \in DOMAIN text /\ line' \in 0..Len(text)
  <2>1. line \in Nat /\ Len(text) \in Nat /\ line < Len(text) /\ DOMAIN text = 1..Len(text)
    BY TextAssumption DEF Inv, TypeOK, ParseLine
  <2> QED
    BY <1>1, <2>1
<1>3. /\ l.key \in Scalar \cup List \cup {"malformed"} /\ l.value \in LinesOf(l.key)
      /\ l.key = "symbol" => l.value \in SymbolRequirement
  BY <1>2, TextAssumption, Zenon DEF Inv, TypeOK, LinesOf
<1>4. \/ l.key = "malformed" /\ Finish("abi", "invalid_recipe") /\ UNCHANGED recipe
      \/ l.key # "malformed" /\ Goto("parse") /\ recipe' = Enter(recipe, l)
  BY <1>1, Zenon DEF ParseLine
<1> HIDE DEF l
<1>5. \A key : LinesOf(key)' = LinesOf(key)
  BY <1>1, Zenon DEF LinesOf
<1>6. CASE l.key = "malformed"
  <2>1. pc' = "done" /\ ~Past(Entry \ {"validate"})' /\ UNCHANGED recipe
    BY <1>1, <1>4, <1>6, RefusalIsNotReady, Zenon DEF Inv
  <2>2. pc' \in Steps /\ ~Scanning'
    BY <2>1 DEF Steps, Scanning
  <2>3. TypeOK'
    BY <1>1, <1>2, <1>5, <2>1, <2>2, Zenon DEF Inv, TypeOK, ScanTypes
  <2> QED
    BY <2>1, <2>3, EndKeeps, Zenon
<1>7. CASE l.key # "malformed"
  <2>1. pc' = "parse" /\ UNCHANGED status /\ recipe' = Enter(recipe, l)
    BY <1>4, <1>7, Zenon DEF Goto
  <2>2. /\ DOMAIN recipe' = Scalar \cup List /\ recipe'.symbol \in Seq(SymbolRequirement)
        /\ \A key \in List : recipe'[key] \in Seq(LinesOf(key))
    BY <1>3, <1>7, <2>1, LineEntered, Zenon DEF Inv
  <2>3. pc # "done" /\ pc' \in Steps /\ ~Scanning' /\ pc' # "done"
        /\ pc' \notin {"validate", "plan", "select"} \cup Collecting \cup ScanSteps
    BY <1>1, <2>1 DEF Steps, Scanning, Collecting, ScanSteps
  <2>4. TypeOK'
    BY <1>1, <1>2, <1>5, <2>1, <2>2, <2>3, Zenon DEF Inv, TypeOK, ScanTypes
  <2>5. ~Ready'
    BY <2>4, <2>3, NoneAssumption, Zenon DEF TypeOK, Ready
  <2>6. AcceptInv' /\ PlanInv' /\ SnapshotInv' /\ LiveInv' /\ ScanInv'
    BY <2>1, <2>3, <2>5, Zenon
    DEF AcceptInv, PlanInv, SnapshotInv, LiveInv, ScanInv, Free, Seen, Walked,
        SelectedSignalIsFree, Past, Collecting, ScanSteps
  <2> QED
    BY <2>4, <2>6, Zenon DEF Inv
<1> QED
  BY <1>6, <1>7, Zenon

(* ParseEnd: the recipe is accepted as a whole.                            *)
LEMMA ParseEndKeeps ==
  ASSUME Inv, ParseEnd
  PROVE  Inv'
<1>1. pc = "parse" /\ line = Len(text)
      /\ UNCHANGED <<probe, target, planning, threads, started, claimed, scan>>
  BY Zenon DEF ParseEnd
<1>2. CASE ~(Complete(recipe) /\ (recipe.schema = 2 => Strategy(recipe)))
  <2>1. Finish("abi", "invalid_recipe")
    BY <1>2, Zenon DEF ParseEnd
  <2> QED
    BY <1>1, <2>1, RefusalKeeps, Zenon
<1>3. CASE Complete(recipe) /\ (recipe.schema = 2 => Strategy(recipe))
  <2>1. pc' = "validate"
        /\ UNCHANGED <<status, entry, text, line, recipe, maps, plan, threads, started, claimed>>
        /\ ScanTypes'
    BY <1>1, <1>3, ScanTypesKept, Zenon DEF Inv, ParseEnd, Goto, probe, target, planning
  <2>2. pc # "done" /\ pc' \in Steps /\ ~Scanning' /\ pc' # "done"
        /\ pc' \notin {"select"} \cup Collecting \cup ScanSteps
    BY <1>1, <2>1 DEF Steps, Scanning, Collecting, ScanSteps
  <2>3. TypeOK'
    BY <2>1, <2>2, TypeKept, Zenon DEF Inv, TypeOK
  <2>4. AcceptInv'
    BY <1>1, <1>3, <2>1, <2>2, Zenon DEF Inv, AcceptInv, Strategy
  <2>5. ~Ready'
    BY <2>2, <2>3, NoneAssumption, Zenon DEF TypeOK, Ready
  <2>6. PlanInv' /\ SnapshotInv' /\ LiveInv' /\ ScanInv'
    BY <2>2, <2>5, Zenon
    DEF PlanInv, SnapshotInv, LiveInv, ScanInv, Free, Seen, Walked, SelectedSignalIsFree,
        Past, Collecting, ScanSteps
  <2> QED
    BY <2>3, <2>4, <2>6, Zenon DEF Inv
<1> QED
  BY <1>2, <1>3, Zenon

(* Validate: the recipe stays accepted.                                    *)
LEMMA ValidateKeeps ==
  ASSUME Inv, Validate
  PROVE  Inv'
<1>1. /\ pc = "validate" /\ UNCHANGED <<probe, target, planning, threads, started, claimed, scan>>
      /\ (\E why : Finish("abi", why)) \/ Continue(Entry \ {"validate"}, "plan")
  BY Zenon DEF Validate
<1>2. UNCHANGED <<entry, text, line, recipe, maps, plan, threads, started, claimed>> /\ ScanTypes'
  BY <1>1, ScanTypesKept, Zenon DEF Inv, probe, target, planning
<1>3. CASE \E why : Finish("abi", why)
  BY <1>1, <1>3, RefusalKeeps, Zenon
<1>4. CASE Goto("plan")
  <2>1. pc' = "plan" /\ UNCHANGED status
    BY <1>4, Zenon DEF Goto
  <2>2. pc \notin {"parse", "done"} /\ pc' \in Steps /\ ~Scanning' /\ pc' # "done"
        /\ pc' \notin {"select"} \cup Collecting \cup ScanSteps
    BY <1>1, <2>1 DEF Steps, Scanning, Collecting, ScanSteps
  <2>3. TypeOK'
    BY <1>2, <2>1, <2>2, TypeKept, Zenon DEF Inv, TypeOK
  <2>4. AcceptInv'
    BY <1>2, <2>2, Zenon DEF Inv, AcceptInv
  <2>5. ~Ready'
    BY <2>2, <2>3, NoneAssumption, Zenon DEF TypeOK, Ready
  <2>6. PlanInv' /\ SnapshotInv' /\ LiveInv' /\ ScanInv'
    BY <2>2, <2>5, Zenon
    DEF PlanInv, SnapshotInv, LiveInv, ScanInv, Free, Seen, Walked, SelectedSignalIsFree,
        Past, Collecting, ScanSteps
  <2> QED
    BY <2>3, <2>4, <2>6, Zenon DEF Inv
<1>5. CASE entry = "validate" /\ Succeed
  <2>1. pc' = "done" /\ ~Past(Entry \ {"validate"})'
    BY <1>2, <1>5, Zenon DEF Succeed, Past
  <2>2. pc' \in Steps /\ ~Scanning'
    BY <2>1 DEF Steps, Scanning
  <2>3. TypeOK'
    BY <1>2, <2>1, <2>2, TypeKept, Zenon DEF Inv, TypeOK
  <2> QED
    BY <2>1, <2>3, EndKeeps, Zenon
<1> QED
  BY <1>1, <1>3, <1>4, <1>5, Zenon DEF Continue, Inv, TypeOK

(* An absolute branch follows the words it is appended to.                 *)
LEMMA BranchAppended ==
  ASSUME NEW words \in Seq(Instruction), NEW a
  PROVE  /\ Len(AppendAbsoluteBranch(words, a)) = Len(words) + 4
         /\ SubSeq(AppendAbsoluteBranch(words, a), 1, Len(words)) = words
         /\ \A k \in 1..Len(words) : AppendAbsoluteBranch(words, a)[k] = words[k]
         /\ AppendAbsoluteBranch(words, a)[Len(words) + 1] = Load
         /\ AppendAbsoluteBranch(words, a)[Len(words) + 2] = Branch
         /\ AppendAbsoluteBranch(words, a)[Len(words) + 3] = [low |-> a]
<1> DEFINE low == [low |-> a]
           high == [high |-> a]
           U == Instruction \cup {Load, Branch, low, high}
           v == <<Load, Branch>>
           w == <<low, high>>
           n == Len(words)
<1> HIDE DEF low, high
<1>1. words \in Seq(U) /\ v \in Seq(U) /\ w \in Seq(U) /\ n \in Nat
  OBVIOUS
<1>2. Len(v) = 2 /\ Len(w) = 2 /\ v[1] = Load /\ v[2] = Branch /\ w[1] = low /\ w[2] = high
  OBVIOUS
<1> HIDE DEF U, v, w
<1> DEFINE u == words \o v
           t == u \o w
<1>3. /\ u \in Seq(U) /\ Len(u) = n + Len(v)
      /\ \A i \in 1..(n + Len(v)) : u[i] = IF i <= n THEN words[i] ELSE v[i - n]
  BY <1>1, ConcatProperties, Zenon
<1> HIDE DEF u
<1>4. /\ t \in Seq(U) /\ Len(t) = Len(u) + Len(w)
      /\ \A i \in 1..(Len(u) + Len(w)) : t[i] = IF i <= Len(u) THEN u[i] ELSE w[i - Len(u)]
  <2>1. u \in Seq(U) /\ w \in Seq(U)
    BY <1>1, <1>3, Zenon
  <2> QED
    BY <2>1, ConcatProperties, Zenon
<1> HIDE DEF t, n
<1>5. /\ Len(t) = n + 4 /\ t[n + 1] = v[1] /\ t[n + 2] = v[2] /\ t[n + 3] = w[1]
      /\ \A k \in 1..n : t[k] = words[k]
  <2>1. Len(u) = n + 2 /\ u[n + 1] = v[1] /\ u[n + 2] = v[2] /\ \A k \in 1..n : u[k] = words[k]
    BY <1>1, <1>2, <1>3
  <2>2. Len(t) = n + 4 /\ t[n + 3] = w[1] /\ \A k \in 1..(n + 2) : t[k] = u[k]
    BY <1>1, <1>2, <1>4, <2>1
  <2> QED
    BY <1>1, <2>1, <2>2, SMTT(30)
<1>6. SubSeq(t, 1, n) = words
  BY <1>1, <1>4, <1>5 DEF n
<1>7. AppendAbsoluteBranch(words, a) = t
  BY Zenon DEF AppendAbsoluteBranch, Address, t, u, v, w, low, high
<1> QED
  BY <1>2, <1>5, <1>6, <1>7, Zenon DEF low, n

(* The trampoline starts with a branch target marker.                      *)
LEMMA MarkerFirst ==
  ASSUME NEW words \in Seq(Instruction), Len(words) = Size
  PROVE  /\ <<Bti>> \o words \in Seq(Instruction) /\ Len(<<Bti>> \o words) = 1 + Size
         /\ (<<Bti>> \o words)[1] = Bti /\ \A k \in 1..Size : (<<Bti>> \o words)[k + 1] = words[k]
<1>1. Bti \in Instruction
  BY DEF Bti, Instruction
<1>2. <<Bti>> \in Seq(Instruction) /\ Len(<<Bti>>) = 1 /\ <<Bti>>[1] = Bti
  BY <1>1
<1> DEFINE b == <<Bti>>
<1> HIDE DEF b
<1>3. b \in Seq(Instruction) /\ Len(b) = 1 /\ b[1] = Bti
  BY <1>2 DEF b
<1> DEFINE t == b \o words
<1>4. /\ t \in Seq(Instruction) /\ Len(t) = Len(b) + Len(words)
      /\ \A i \in 1..(Len(b) + Len(words)) : t[i] = IF i <= Len(b) THEN b[i] ELSE words[i - Len(b)]
  BY <1>3, ConcatProperties, Zenon
<1> HIDE DEF t
<1>5. Len(t) = 1 + Size /\ t[1] = Bti /\ \A k \in 1..Size : t[k + 1] = words[k]
  BY <1>3, <1>4 DEF Size
<1> QED
  BY <1>4, <1>5, Zenon DEF b, t

(* The words that are taken over would be planned again in the same way.   *)
LEMMA PatchOfPatch ==
  ASSUME NEW prologue \in Seq(Instruction), ~PlanRefuses(prologue), NEW symbol, NEW at
  PROVE  /\ SubSeq(prologue, 1, Size) \in Seq(Instruction) /\ Len(SubSeq(prologue, 1, Size)) = Size
         /\ ~PlanRefuses(SubSeq(prologue, 1, Size))
         /\ PlanPatch(symbol, at, prologue) = PlanPatch(symbol, at, SubSeq(prologue, 1, Size))
<1> DEFINE stolen == SubSeq(prologue, 1, Size)
<1>1. /\ Len(prologue) >= Size
      /\ \A k \in 1..Size : ~IsPcRelative(prologue[k]) /\ ~IsRegisterControlFlow(prologue[k])
  BY Zenon DEF PlanRefuses
<1>2. stolen \in Seq(Instruction) /\ Len(stolen) = Size
      /\ \A k \in 1..Size : stolen[k] = prologue[k]
  BY <1>1 DEF Size
<1>3. SubSeq(stolen, 1, Size) = stolen
  BY <1>2 DEF Size
<1>4. ~PlanRefuses(stolen)
  <2>1. Len(stolen) >= Size
    BY <1>2 DEF Size
  <2> QED
    BY <1>1, <1>2, <2>1, Zenon DEF PlanRefuses
<1> QED
  BY <1>2, <1>3, <1>4, Zenon DEF PlanPatch

(* What planArm64InlineHook() makes of a prologue that it does not refuse. *)
LEMMA PatchShape ==
  ASSUME NEW prologue \in Seq(Instruction), ~PlanRefuses(prologue), NEW symbol, NEW at \in Nat,
         NEW p, p = PlanPatch(symbol, at, prologue)
  PROVE  /\ p.symbol = symbol /\ p.target = at /\ p.original = SubSeq(prologue, 1, Size)
         /\ p.original \in Seq(Instruction) /\ Len(p.original) = Size
         /\ p.entry = AppendAbsoluteBranch(<<>>, Replacement)
         /\ p.trampoline = AppendAbsoluteBranch(<<Bti>> \o p.original, at + Size)
         /\ Len(p.entry) = Size /\ Len(p.trampoline) = 1 + Size + Len(p.entry)
<1> DEFINE stolen == SubSeq(prologue, 1, Size)
<1>1. stolen \in Seq(Instruction) /\ Len(stolen) = Size
  BY PatchOfPatch, Zenon
<1> HIDE DEF stolen
<1>2. p.symbol = symbol /\ p.target = at /\ p.original = stolen
      /\ p.entry = AppendAbsoluteBranch(<<>>, Replacement)
      /\ p.trampoline = AppendAbsoluteBranch(<<Bti>> \o stolen, at + Size)
  BY Zenon DEF PlanPatch, stolen
<1>3. Len(p.entry) = Size
  <2>1. <<>> \in Seq(Instruction) /\ Len(<<>>) + 4 = Size
    BY DEF Size
  <2>2. Len(AppendAbsoluteBranch(<<>>, Replacement)) = Len(<<>>) + 4
    BY <2>1, BranchAppended, Zenon
  <2> QED
    BY <1>2, <2>1, <2>2, Zenon
<1>4. Len(p.trampoline) = 1 + Size + Len(p.entry)
  <2>1. <<Bti>> \o stolen \in Seq(Instruction) /\ Len(<<Bti>> \o stolen) = 1 + Size
    BY <1>1, MarkerFirst, Zenon
  <2> DEFINE b == <<Bti>> \o stolen
  <2>2. b \in Seq(Instruction) /\ Len(b) = 1 + Size
    BY <2>1, Zenon
  <2> HIDE DEF b
  <2>3. Len(AppendAbsoluteBranch(b, at + Size)) = Len(b) + 4
    BY <2>2, BranchAppended, Zenon
  <2>4. Len(p.trampoline) = 1 + Size + 4
    BY <1>2, <2>2, <2>3, Zenon DEF b
  <2> QED
    BY <1>3, <2>4 DEF Size
<1> QED
  BY <1>1, <1>2, <1>3, <1>4, Zenon DEF stolen

(* Plan: the words that are moved are the first of a symbol of the recipe. *)
LEMMA PlanKeeps ==
  ASSUME Inv, Plan
  PROVE  Inv'
<1> DEFINE hook == First(recipe.hook, LAMBDA h : h.role = "on_transact")
           name == recipe.hook[hook].symbol
           k == First(recipe.symbol, LAMBDA s : s.name = name)
           prologue == recipe.symbol[k].code
<1>1. /\ pc = "plan"
      /\ UNCHANGED <<probe, target, line, recipe, snapshot, live, threads, started, claimed, scan>>
  BY Zenon DEF Plan
<1>2. \/ (\E why : Finish("strategy", why)) /\ UNCHANGED plan
      \/ /\ recipe.schema = 2 /\ hook # 0 /\ ~PlanRefuses(prologue)
         /\ plan' = PlanPatch(name, SymbolAt[name], prologue) /\ Goto("select")
  BY Zenon DEF Plan
<1>3. CASE (\E why : Finish("strategy", why)) /\ UNCHANGED plan
  <2>1. UNCHANGED <<probe, target, planning, threads, started, claimed, scan>>
    BY <1>1, <1>3, Zenon DEF planning
  <2> QED
    BY <1>3, <2>1, RefusalKeeps, Zenon
<1>4. CASE /\ recipe.schema = 2 /\ hook # 0 /\ ~PlanRefuses(prologue)
           /\ plan' = PlanPatch(name, SymbolAt[name], prologue) /\ Goto("select")
  <2>1. /\ pc' = "select" /\ UNCHANGED status
        /\ UNCHANGED <<entry, text, line, recipe, maps, threads, started, claimed>> /\ ScanTypes'
    BY <1>1, <1>4, ScanTypesKept, Zenon DEF Inv, Goto, probe, target
  <2>2. pc \notin {"parse", "done"} /\ pc' \in Steps /\ ~Scanning' /\ pc' # "done"
        /\ pc' \notin Collecting \cup ScanSteps
    BY <1>1, <2>1 DEF Steps, Scanning, Collecting, ScanSteps
  <2>3. hook \in DOMAIN recipe.hook
    <3>1. recipe.hook \in Seq(LinesOf("hook"))
      BY Zenon DEF Inv, TypeOK, List
    <3>2. Len(recipe.hook) \in Nat /\ DOMAIN recipe.hook = 1..Len(recipe.hook)
      BY <3>1, LenProperties, Zenon
    <3> DEFINE I == {i \in DOMAIN recipe.hook : recipe.hook[i].role = "on_transact"}
    <3>3. I \in SUBSET Nat /\ I \subseteq DOMAIN recipe.hook
      BY <3>2
    <3>4. I # {} /\ hook = Min(I)
      BY <1>4, Zenon DEF First
    <3> HIDE DEF I, hook
    <3> QED
      BY <3>3, <3>4, LeastIndex, Zenon
  <2>4. k \in DOMAIN recipe.symbol /\ recipe.symbol[k].name = name
    <3>1. \E i \in DOMAIN recipe.symbol : recipe.symbol[i].name = name
      <4>1. Strategy(recipe)
        BY <1>4, <2>2, Zenon DEF Inv, AcceptInv
      <4> HIDE DEF hook
      <4> QED
        BY <2>3, <4>1, Zenon DEF Strategy
    <3>2. recipe.symbol \in Seq(SymbolRequirement)
      BY Zenon DEF Inv, TypeOK
    <3>3. Len(recipe.symbol) \in Nat /\ DOMAIN recipe.symbol = 1..Len(recipe.symbol)
      BY <3>2, LenProperties, Zenon
    <3> DEFINE I == {i \in DOMAIN recipe.symbol : recipe.symbol[i].name = name}
    <3> HIDE DEF hook, name
    <3>4. I \in SUBSET Nat /\ I # {}
      BY <3>1, <3>3
    <3>5. k = Min(I)
      BY <3>4, Zenon DEF First
    <3>6. k \in I
      <4> HIDE DEF I, k
      <4> QED
        BY <3>4, <3>5, LeastIndex, Zenon
    <3> HIDE DEF k
    <3> QED
      BY <3>3, <3>6, Zenon
  <2> HIDE DEF hook, k
  <2>5. prologue \in Seq(Instruction) /\ SymbolAt[name] \in Nat
    <3>1. recipe.symbol[k] \in SymbolRequirement
      BY <2>4 DEF Inv, TypeOK
    <3>2. recipe.symbol[k].code \in Seq(Instruction) /\ recipe.symbol[k].name \in DOMAIN SymbolAt
      BY <3>1, Zenon DEF SymbolRequirement
    <3> QED
      BY <2>4, <3>2, ProcessAssumption, Zenon
  <2> HIDE DEF name, prologue
  <2>6. /\ plan'.symbol = name /\ plan'.target \in Nat /\ plan'.original = SubSeq(prologue, 1, Size)
        /\ plan'.original \in Seq(Instruction) /\ Len(plan'.original) = Size
        /\ ~PlanRefuses(plan'.original)
        /\ plan' = PlanPatch(plan'.symbol, plan'.target, plan'.original)
        /\ Len(plan'.entry) = Size /\ Len(plan'.trampoline) = 1 + Size + Len(plan'.entry)
    <3> DEFINE p == plan'
               at == SymbolAt[name]
    <3>1. prologue \in Seq(Instruction) /\ ~PlanRefuses(prologue) /\ at \in Nat
          /\ p = PlanPatch(name, at, prologue)
      BY <1>4, <2>5, Zenon
    <3> HIDE DEF p, at
    <3>2. /\ p.symbol = name /\ p.target = at /\ p.original = SubSeq(prologue, 1, Size)
          /\ p.original \in Seq(Instruction) /\ Len(p.original) = Size
          /\ Len(p.entry) = Size /\ Len(p.trampoline) = 1 + Size + Len(p.entry)
      BY <3>1, PatchShape, SMTT(30)
    <3>3. ~PlanRefuses(SubSeq(prologue, 1, Size))
          /\ PlanPatch(name, at, prologue) = PlanPatch(name, at, SubSeq(prologue, 1, Size))
      BY <3>1, PatchOfPatch, Zenon
    <3> QED
      BY <3>1, <3>2, <3>3, Zenon DEF p
  <2>7. TypeOK'
    <3>1. \A key : LinesOf(key)' = LinesOf(key)
      BY <2>1, Zenon DEF LinesOf
    <3> QED
      BY <2>1, <2>2, <2>6, <3>1, Zenon DEF Inv, TypeOK, ScanTypes
  <2>8. AcceptInv'
    BY <2>1, <2>2, Zenon DEF Inv, AcceptInv
  <2>9. ~Ready'
    BY <2>2, <2>7, NoneAssumption, Zenon DEF TypeOK, Ready
  <2>10. PlanInv'
    <3>1. recipe.symbol[k] \in Range(recipe.symbol)
      BY <2>4, Zenon DEF Range
    <3>2. Moves(Range(recipe.symbol))'
      BY <2>1, <2>4, <2>6, <3>1, Zenon DEF Moves, prologue
    <3> QED
      BY <2>1, <2>2, <2>6, <2>9, <3>2, Zenon DEF PlanInv, Past, PlanPatch, PlanRefuses
  <2>11. SnapshotInv' /\ LiveInv' /\ ScanInv'
    BY <2>2, <2>9, Zenon
    DEF SnapshotInv, LiveInv, ScanInv, Free, Seen, Walked, SelectedSignalIsFree,
        Past, Collecting, ScanSteps
  <2> QED
    BY <2>7, <2>8, <2>10, <2>11, Zenon DEF Inv
<1> QED
  BY <1>2, <1>3, <1>4, Zenon

(* A list as long as another that has no entry twice, and in which each    *)
(* entry of the other is found, has no further ones.                       *)
LEMMA NothingElse ==
  ASSUME NEW S, NEW s \in Seq(S), NEW q, Len(s) = Len(q), DOMAIN q = 1..Len(q),
         \A i, j \in DOMAIN q : q[i] = q[j] => i = j,
         \A i \in DOMAIN q : \E j \in DOMAIN s : s[j] = q[i]
  PROVE  Range(s) \subseteq Range(q)
<1> DEFINE n == Len(s)
           f == [i \in 1..n |-> CHOOSE j \in 1..n : s[j] = q[i]]
<1>1. n \in Nat /\ DOMAIN s = 1..n /\ DOMAIN q = 1..n
  BY LenProperties, Zenon
<1> HIDE DEF n
<1>2. \A i \in 1..n : f[i] \in 1..n /\ s[f[i]] = q[i]
  BY <1>1, Zenon
<1>3. f \in [1..n -> 1..n]
  BY <1>2, Zenon
<1> HIDE DEF f
<1>4. f \in Injection(1..n, 1..n)
  <2>1. ASSUME NEW a \in 1..n, NEW b \in 1..n, f[a] = f[b] PROVE a = b
    <3>1. q[a] = q[b]
      BY <1>2, <2>1, Zenon
    <3> QED
      BY <1>1, <3>1, Zenon
  <2>2. DOMAIN f = 1..n
    BY <1>3, Zenon
  <2>3. IsInjective(f)
    BY <2>1, <2>2, Zenon DEF IsInjective
  <2> QED
    BY <1>3, <2>3, Zenon DEF Injection
<1>5. IsFiniteSet(1..n)
  BY <1>1, FS_Interval
<1>6. f \in Surjection(1..n, 1..n)
  BY <1>4, <1>5, FS_Injection, Zenon
<1>7. \A j \in 1..n : \E i \in 1..n : f[i] = j
  BY <1>6, Zenon DEF Surjection
<1>8. ASSUME NEW x \in Range(s) PROVE x \in Range(q)
  <2>1. PICK j \in 1..n : x = s[j]
    BY <1>1, Zenon DEF Range
  <2>2. PICK i \in 1..n : f[i] = j
    BY <1>7, Zenon
  <2>3. x = q[i] /\ i \in DOMAIN q
    BY <1>1, <1>2, <2>1, <2>2, Zenon
  <2> QED
    BY <2>3, Zenon DEF Range
<1> QED
  BY <1>8, Zenon

(* Select: the symbol is one of the precompiled trampoline's recipe.       *)
LEMMA SelectKeeps ==
  ASSUME Inv, Select
  PROVE  Inv'
<1>1. pc = "select" /\ UNCHANGED <<probe, target, planning, threads, started, claimed, scan>>
  BY Zenon DEF Select
<1>2. CASE ~exactlyMatches
  <2>1. Finish("trampoline", "no_exact_recipe")
    BY <1>2, Zenon DEF Select
  <2> QED
    BY <1>1, <2>1, RefusalKeeps, Zenon
<1>3. CASE exactlyMatches
  <2>1. UNCHANGED <<entry, text, line, recipe, maps, plan, snapshot, live, threads, started,
                    claimed>> /\ ScanTypes'
    BY <1>1, ScanTypesKept, Zenon DEF Inv, probe, target, planning
  <2>2. \/ entry \in Activation /\ pc' = "maps" /\ UNCHANGED status
        \/ entry \notin Activation /\ pc' = "done"
    BY <1>3, Zenon DEF Select, Continue, Goto, Succeed, Activation
  <2>3. Range(recipe.symbol) \subseteq Range(Profile.symbol)
    <3>1. /\ recipe.symbol \in Seq(SymbolRequirement) /\ Len(recipe.symbol) = Len(Profile.symbol)
          /\ \A i \in DOMAIN Profile.symbol : \E j \in DOMAIN recipe.symbol :
               recipe.symbol[j] = Profile.symbol[i]
      BY <1>3, Zenon DEF Inv, TypeOK, exactlyMatches, HasSymbol
    <3> QED
      BY <3>1, ProfileAssumption, NothingElse, Zenon
  <2>4. /\ Moves(Range(recipe.symbol)) /\ Moves(Range(Profile.symbol))
        /\ Len(plan.original) = Size /\ plan.target \in Nat
    <3>1. Moves(Range(recipe.symbol)) /\ Len(plan.original) = Size /\ plan.target \in Nat
      BY <1>1, Zenon DEF Inv, PlanInv
    <3> QED
      BY <2>3, <3>1, Zenon DEF Moves
  <2>5. pc \notin {"parse", "done"} /\ pc' \in Steps /\ ~Scanning' /\ pc' # "select"
        /\ pc' \notin {"bytes", "evaluate"} \cup ScanSteps
    BY <1>1, <2>2 DEF Steps, Scanning, ScanSteps
  <2>6. pc' # "done" => UNCHANGED status
    BY <2>2, Zenon
  <2>7. TypeOK'
    BY <2>1, <2>5, <2>6, TypeKept, Zenon DEF Inv, TypeOK
  <2>8. AcceptInv'
    BY <2>1, <2>5, Zenon DEF Inv, AcceptInv
  <2>9. PlanInv'
    BY <2>1, <2>4, <2>5, Zenon DEF PlanInv, Moves
  <2>10. ~Past(Activation)' /\ ~Past({"signal_preflight"})'
    BY <2>1, <2>2, <2>5, <2>6, <2>7, NoneAssumption, Zenon DEF TypeOK, Past, Ready, Activation
  <2>11. SnapshotInv' /\ LiveInv' /\ ScanInv'
    BY <2>5, <2>10, Zenon DEF SnapshotInv, LiveInv, ScanInv, Free, Seen, Walked, SelectedSignalIsFree,
        ScanSteps
  <2> QED
    BY <2>7, <2>8, <2>9, <2>11, Zenon DEF Inv
<1> QED
  BY <1>2, <1>3, Zenon

(* A step from one of the collecting steps to another keeps all but the    *)
(* snapshot.                                                               *)
LEMMA CollectingKept ==
  ASSUME Inv, pc \in Collecting, pc' \in Collecting, SnapshotInv',
         UNCHANGED <<status, probe, target, line, recipe, plan, threads, started, claimed, scan>>
  PROVE  Inv'
<1>1. /\ UNCHANGED <<status, entry, text, line, recipe, maps, plan, threads, started, claimed>>
      /\ ScanTypes'
  BY ScanTypesKept, Zenon DEF Inv, probe, target
<1>2. /\ pc \notin {"parse", "done"} /\ pc' \in Steps /\ ~Scanning'
      /\ pc' \notin {"parse", "done", "select"} \cup ScanSteps
  BY DEF Collecting, Steps, Scanning, ScanSteps
<1>3. TypeOK'
  BY <1>1, <1>2, TypeKept, Zenon DEF Inv, TypeOK
<1>4. AcceptInv'
  BY <1>1, <1>2, Zenon DEF Inv, AcceptInv
<1>5. PlanInv'
  BY <1>1, <1>2, Zenon DEF Inv, PlanInv, Moves
<1>6. ~Ready'
  BY <1>2, <1>3, NoneAssumption, Zenon DEF TypeOK, Ready
<1>7. LiveInv' /\ ScanInv'
  BY <1>2, <1>6, Zenon DEF LiveInv, ScanInv, Free, Seen, Walked, SelectedSignalIsFree, Past,
      ScanSteps
<1> QED
  BY <1>3, <1>4, <1>5, <1>7, Zenon DEF Inv

(* CollectMaps: the mappings are those of the process.                     *)
LEMMA CollectMapsKeeps ==
  ASSUME Inv, CollectMaps
  PROVE  Inv'
<1>1. /\ pc = "maps"
      /\ UNCHANGED <<status, probe, target, line, recipe, plan, live, threads, started, claimed, scan>>
      /\ \/ snapshot' = NoSnapshot /\ pc' = "evaluate"
         \/ snapshot' = [NoSnapshot EXCEPT !.error = FALSE, !.maps = maps] /\ pc' = "bytes"
  BY Zenon DEF CollectMaps, Goto
<1>2. pc \in Collecting /\ pc' \in Collecting
  BY <1>1 DEF Collecting
<1>3. /\ DOMAIN snapshot' = {"error", "maps", "bytes", "inventory"}
      /\ snapshot'.maps \in Seq(ProcessMapEntry) /\ snapshot'.bytes = <<>>
  <2>1. maps \in Seq(ProcessMapEntry) /\ <<>> \in Seq(ProcessMapEntry)
    BY DEF Inv, TypeOK
  <2>2. CASE snapshot' = NoSnapshot
    BY <2>1, <2>2 DEF NoSnapshot
  <2>3. CASE snapshot' = [NoSnapshot EXCEPT !.error = FALSE, !.maps = maps]
    BY <2>1, <2>3 DEF NoSnapshot
  <2> QED
    BY <1>1, <2>2, <2>3, Zenon
<1>4. SnapshotInv'
  BY <1>1, <1>3, Zenon DEF SnapshotInv
<1> QED
  BY <1>1, <1>2, <1>4, CollectingKept, Zenon

(* CollectBytes: the bytes are those that were read, if any.               *)
LEMMA CollectBytesKeeps ==
  ASSUME Inv, CollectBytes
  PROVE  Inv'
<1>1. /\ pc = "bytes" /\ pc' = "evaluate"
      /\ UNCHANGED <<status, probe, target, line, recipe, plan, threads, started, claimed, scan>>
      /\ \/ snapshot' = NoSnapshot
         \/ \E found : snapshot' = [snapshot EXCEPT !.bytes = live', !.inventory = found]
         \/ UNCHANGED live /\ \E found : snapshot' = [snapshot EXCEPT !.inventory = found]
  BY Zenon DEF CollectBytes, Goto
<1>2. pc \in Collecting /\ pc' \in Collecting
  BY <1>1, Zenon DEF Collecting
<1>3. /\ DOMAIN snapshot' = {"error", "maps", "bytes", "inventory"}
      /\ snapshot'.maps \in Seq(ProcessMapEntry) /\ snapshot'.bytes \in {<<>>, live'}
  <2>1. /\ DOMAIN snapshot = {"error", "maps", "bytes", "inventory"}
        /\ snapshot.maps \in Seq(ProcessMapEntry) /\ snapshot.bytes \in {<<>>, live}
    BY <1>1, Zenon DEF Inv, SnapshotInv
  <2>2. CASE snapshot' = NoSnapshot
    BY <2>1, <2>2 DEF NoSnapshot
  <2>3. CASE \E found : snapshot' = [snapshot EXCEPT !.bytes = live', !.inventory = found]
    BY <2>1, <2>3
  <2>4. CASE UNCHANGED live /\ \E found : snapshot' = [snapshot EXCEPT !.inventory = found]
    BY <2>1, <2>4
  <2> QED
    BY <1>1, <2>2, <2>3, <2>4, Zenon
<1>4. SnapshotInv'
  BY <1>3, Zenon DEF SnapshotInv
<1> QED
  BY <1>1, <1>2, <1>4, CollectingKept, Zenon

(* A verdict of ready: a mapping covers the patch and the bytes that were  *)
(* read are those that the plan moves.                                     *)
LEMMA ReadyVerdict ==
  ASSUME Inv, pc = "evaluate", Verdict = "ready"
  PROVE  /\ live = plan.original
         /\ \E k \in DOMAIN snapshot.maps :
              snapshot.maps[k] \in ProcessMapEntry /\ Covers(snapshot.maps[k])
<1>1. /\ snapshot.maps \in Seq(ProcessMapEntry) /\ snapshot.bytes \in {<<>>, live}
      /\ Len(plan.original) = Size /\ plan.target \in Nat
  <2>1. snapshot.maps \in Seq(ProcessMapEntry) /\ snapshot.bytes \in {<<>>, live}
    BY Zenon DEF Inv, SnapshotInv
  <2> QED
    BY <2>1, Zenon DEF Inv, PlanInv, Collecting
<1> DEFINE h == Holding
           m == snapshot.maps[h]
<1>2. /\ h # 0 /\ ~(plan.target + Size > m.end) /\ Permitted(m) /\ m.module
      /\ snapshot.bytes = plan.original
  BY DEF Verdict, SameBytes
<1>3. live = plan.original
  <2>1. Len(<<>>) # Size
    BY DEF Size
  <2> QED
    BY <1>1, <1>2, <2>1, Zenon
<1>4. h \in DOMAIN snapshot.maps /\ m.start <= plan.target
  <2>1. Len(snapshot.maps) \in Nat /\ DOMAIN snapshot.maps = 1..Len(snapshot.maps)
    BY <1>1, LenProperties, Zenon
  <2> DEFINE I == {i \in DOMAIN snapshot.maps :
                     snapshot.maps[i].start <= plan.target /\ plan.target < snapshot.maps[i].end}
  <2>2. I \in SUBSET Nat
    BY <2>1
  <2>3. I # {} /\ h = Min(I)
    BY <1>2, Zenon DEF Holding, First
  <2>4. h \in I
    <3> HIDE DEF I, h
    <3> QED
      BY <2>2, <2>3, LeastIndex, Zenon
  <2> HIDE DEF h
  <2> QED
    BY <2>1, <2>4, Zenon
<1> HIDE DEF h
<1>5. m \in ProcessMapEntry
  BY <1>1, <1>4
<1>6. plan.target + Size <= m.end
  BY <1>1, <1>2, <1>5, SMTT(30) DEF ProcessMapEntry, Size
<1> QED
  BY <1>2, <1>3, <1>4, <1>5, <1>6, Zenon DEF Covers, Permitted

(* Evaluate: a ready call ends here, or goes on to look for a signal.      *)
LEMMA EvaluateKeeps ==
  ASSUME Inv, Evaluate
  PROVE  Inv'
<1>1. pc = "evaluate" /\ UNCHANGED <<probe, target, planning, threads, started, claimed>>
  BY Zenon DEF Evaluate
<1>2. CASE Verdict # "ready"
  <2>1. Finish("activation", Verdict) /\ UNCHANGED scan
    BY <1>2, Zenon DEF Evaluate
  <2> QED
    BY <1>1, <2>1, RefusalKeeps, Zenon
<1>3. CASE Verdict = "ready"
  <2>1. UNCHANGED <<entry, text, line, recipe, maps, plan, snapshot, live, threads, started,
                    claimed>>
    BY <1>1, Zenon DEF probe, target, planning
  <2>2. \/ /\ pc' = "disposition" /\ UNCHANGED status
           /\ candidate' = Highest /\ before' = {} /\ unread' = {} /\ listed' = {}
           /\ cursor' = 0 /\ lost' = FALSE /\ moved' = FALSE
        \/ entry # "signal_preflight" /\ pc' = "done" /\ UNCHANGED scan
    BY <1>3, Zenon DEF Evaluate, Goto, Consider, Succeed
  <2>3. Highest \in Signal
    BY SignalAssumption, Zenon DEF Highest
  <2>4. pc \notin {"parse", "done"} /\ pc' \in Steps /\ (Scanning' => pc' = "disposition")
        /\ pc' \notin {"select", "threads", "after"} \cup Collecting
        /\ pc' \notin ScanSteps \ {"disposition"} /\ pc \in Collecting
    BY <1>1, <2>2 DEF Steps, Scanning, ScanSteps, Collecting
  <2>5. (pc' # "done" => UNCHANGED status) /\ (pc' = "disposition" => candidate' = Highest)
    BY <2>2
  <2>6. ScanTypes'
    BY <2>1, <2>2, ScanTypesKept, Zenon DEF Inv, ScanTypes
  <2>7. TypeOK'
    BY <2>1, <2>3, <2>4, <2>5, <2>6, TypeKept, Zenon DEF Inv, TypeOK
  <2>8. AcceptInv'
    BY <2>1, <2>4, Zenon DEF Inv, AcceptInv
  <2>9. PlanInv'
    BY <2>1, <2>4, Zenon DEF Inv, PlanInv, Moves
  <2>10. SnapshotInv'
    BY <2>4, Zenon DEF SnapshotInv, Collecting
  <2>11. LiveInv'
    BY <1>1, <1>3, <2>1, ReadyVerdict, Zenon DEF LiveInv, Covers
  <2>12. ~Past({"signal_preflight"})'
    BY <2>1, <2>2, <2>4, <2>5, <2>7, NoneAssumption, Zenon DEF TypeOK, Past, Ready
  <2>13. ScanInv'
    BY <2>4, <2>12, Zenon DEF ScanInv, Free, Seen, Walked, SelectedSignalIsFree
  <2> QED
    BY <2>7, <2>8, <2>9, <2>10, <2>11, <2>13, Zenon DEF Inv
<1> QED
  BY <1>2, <1>3, Zenon

-----------------------------------------------------------------------------
(* The invariant holds.                                                    *)

(* The invariant holds of every process and file a call may start with.    *)
THEOREM InvInit == Init => Inv
<1> SUFFICES ASSUME Init PROVE Inv
  OBVIOUS
<1>1. /\ pc = "parse" /\ text \in Text /\ line = 0 /\ recipe = Blank /\ plan = None /\ status = None
      /\ before = {} /\ unread = {} /\ listed = {} /\ cursor = 0 /\ lost = FALSE /\ moved = FALSE
  BY Zenon DEF Init
<1>2. /\ entry \in Entry /\ maps \in Seq(ProcessMapEntry) /\ claimed \subseteq Signal
      /\ threads \in [DOMAIN threads -> Masks] /\ Caller \in DOMAIN threads
      /\ DOMAIN threads = started /\ started \subseteq Thread
  <2>1. PICK s \in Start[text] :
          /\ entry = s.entry /\ maps = s.maps /\ threads = s.threads /\ started = DOMAIN s.threads
          /\ claimed = s.claimed
    BY Zenon DEF Init
  <2> QED
    BY <1>1, <2>1, ProcessAssumption, Zenon
<1>3. /\ DOMAIN recipe = Scalar \cup List
      /\ \A key \in List : recipe[key] = <<>>
  BY <1>1 DEF Blank, Scalar, List
<1>4. "symbol" \in List /\ \A S : <<>> \in Seq(S)
  BY DEF List
<1>5. pc \in Steps /\ ~Scanning /\ pc \notin {"done", "select"} \cup Collecting \cup ScanSteps
  BY <1>1 DEF Steps, Scanning, Collecting, ScanSteps
<1>6. line \in 0..Len(text)
  <2>1. Len(text) \in Nat
    BY <1>1, TextAssumption, Zenon
  <2> QED
    BY <1>1, <2>1
<1>7. TypeOK
  BY <1>1, <1>2, <1>3, <1>4, <1>5, <1>6, Zenon DEF TypeOK
<1>8. ~Ready
  BY <1>1, NoneAssumption, Zenon DEF Ready
<1>9. AcceptInv
  BY <1>1, Zenon DEF AcceptInv
<1>10. PlanInv /\ SnapshotInv /\ LiveInv /\ ScanInv
  BY <1>5, <1>8, Zenon
  DEF PlanInv, SnapshotInv, LiveInv, ScanInv, Free, Seen, Walked, SelectedSignalIsFree,
        Past, Collecting, ScanSteps
<1> QED
  BY <1>7, <1>9, <1>10, Zenon DEF Inv

(* Every step of the call, and of the other software, keeps the invariant. *)
THEOREM InvStep == Inv /\ [Next]_vars => Inv'
<1> SUFFICES ASSUME Inv, [Next]_vars PROVE Inv'
  OBVIOUS
<1>1. maps \in Seq(ProcessMapEntry)
  BY Zenon DEF Inv, TypeOK
<1>2. CASE ParseLine
  BY <1>2, ParseLineKeeps
<1>3. CASE ParseEnd
  BY <1>3, ParseEndKeeps
<1>4. CASE Validate
  BY <1>4, ValidateKeeps
<1>5. CASE Plan
  BY <1>5, PlanKeeps
<1>6. CASE Select
  BY <1>6, SelectKeeps
<1>7. CASE CollectMaps
  BY <1>7, CollectMapsKeeps
<1>8. CASE CollectBytes
  BY <1>8, CollectBytesKeeps
<1>9. CASE Evaluate
  BY <1>9, EvaluateKeeps
<1>10. CASE InspectDisposition
  BY <1>10, InspectDispositionKeeps
<1>11. CASE InspectProcess
  BY <1>11, InspectProcessKeeps
<1>12. CASE enumerateThreadsAllocated \/ EnumerationFails \/ FirstThreads
  BY <1>12, EnumerateKeeps, EnumerationFailsKeeps, FirstThreadsKeeps, Zenon
<1>13. CASE InspectThread \/ InspectionEnds
  BY <1>13, InspectThreadKeeps, InspectionEndsKeeps, Zenon
<1>14. CASE SecondThreads
  BY <1>14, SecondThreadsKeeps
<1>15. CASE Rewrite
  <2>1. maps' = maps /\ UNCHANGED <<pc, status, probe, planning, threads, started, claimed, scan>>
    BY <1>15, Zenon DEF Rewrite
  <2> QED
    BY <1>1, <2>1, TargetKeeps, Zenon
<1>16. CASE Remap
  <2>1. maps' \in Maps /\ UNCHANGED <<pc, status, probe, planning, threads, started, claimed, scan>>
    BY <1>16, Zenon DEF Remap
  <2> QED
    BY <2>1, ProcessAssumption, TargetKeeps, Zenon
<1>17. ASSUME NEW t \in Thread, CreateThread(t) PROVE Inv'
  BY <1>17, CreateThreadKeeps, Zenon
<1>18. ASSUME NEW t \in Thread, ExitThread(t) PROVE Inv'
  BY <1>18, ExitThreadKeeps, Zenon
<1>19. ASSUME NEW t \in Thread, NEW s \in Signal, ChangeMask(t, s) PROVE Inv'
  BY <1>19, ChangeMaskKeeps, Zenon
<1>20. ASSUME NEW s \in Signal, Claim(s) PROVE Inv'
  BY <1>20, ClaimKeeps, Zenon
<1>21. CASE UNCHANGED vars
  <2>1. maps' = maps /\ UNCHANGED <<pc, status, probe, planning, threads, started, claimed, scan>>
    BY <1>21, Zenon DEF vars, target
  <2> QED
    BY <1>1, <2>1, TargetKeeps, Zenon
<1>22. CASE Call
  BY <1>2, <1>3, <1>4, <1>5, <1>6, <1>7, <1>8, <1>9, <1>10, <1>11, <1>12, <1>13, <1>14, <1>22, Zenon
  DEF Call
<1>23. CASE Environment
  BY <1>15, <1>16, <1>17, <1>18, <1>19, <1>20, <1>23, Zenon DEF Environment
<1> QED
  BY <1>21, <1>22, <1>23, Zenon DEF Next

(* The invariant holds in every state of every call.                       *)
THEOREM Invariance == Spec => []Inv
  BY InvInit, InvStep, PTL DEF Spec

(* The file, the recipe, the plan, the threads and the scan keep their     *)
(* types.                                                                  *)
THEOREM TypeCorrect == Spec => []TypeOK
<1>1. Inv => TypeOK
  BY Zenon DEF Inv
<1> QED
  BY <1>1, Invariance, PTL

(* A signal that signal_preflight selected has no handler, and no thread   *)
(* blocks it or has it pending, unless what the scan had read changed or   *)
(* the second inventory passed by a thread.                                *)
THEOREM FreeSignal == Spec => []SelectedSignalIsFree
<1>1. Inv => SelectedSignalIsFree
  BY Zenon DEF Inv, ScanInv
<1> QED
  BY <1>1, Invariance, PTL

-----------------------------------------------------------------------------
(* A ready call has read the reviewed instructions in a mapping that       *)
(* covers the patch: of the recipe's symbol, of the profile's and of the   *)
(* process.                                                                *)
THEOREM ReadyMeansReviewed == Spec => []ReadyOnLiveCode
<1>1. ASSUME Inv PROVE ReadyOnLiveCode
  <2>1. Past(Activation) => Past(Entry \ {"validate"})
    BY Zenon DEF Past, Activation, Entry
  <2>2. Past(Entry \ {"validate"}) =>
          \E d \in Range(Profile.symbol) :
            d.name = plan.symbol /\ SubSeq(d.code, 1, Size) = plan.original
    BY <1>1, Zenon DEF Inv, PlanInv, Moves
  <2>3. ASSUME Past(Activation)
        PROVE  \E d \in LinesOf("symbol") : d.name = plan.symbol /\ SubSeq(d.code, 1, Size) = live
    <3>1. live = plan.original /\ Moves(Range(recipe.symbol))
      BY <1>1, <2>1, <2>3, Zenon DEF Inv, LiveInv, PlanInv
    <3>2. recipe.symbol \in Seq(LinesOf("symbol"))
      BY <1>1, Zenon DEF Inv, TypeOK, List
    <3>3. Range(recipe.symbol) \subseteq LinesOf("symbol")
      BY <3>2 DEF Range
    <3> QED
      BY <3>1, <3>3, Zenon DEF Moves
  <2>4. ASSUME Past(Activation), NEW a \in plan.target..(plan.target + Size - 1)
        PROVE  \E m \in Range(snapshot.maps) :
                 /\ a \in m.start..(m.end - 1)
                 /\ m.readable /\ ~m.writable /\ m.executable /\ m.private /\ m.module
    <3>1. PICK k \in DOMAIN snapshot.maps :
            snapshot.maps[k] \in ProcessMapEntry /\ Covers(snapshot.maps[k])
      BY <1>1, <2>4, Zenon DEF Inv, LiveInv
    <3> DEFINE m == snapshot.maps[k]
    <3>2. m \in Range(snapshot.maps)
      BY Zenon DEF Range
    <3>3. plan.target \in Nat
      BY <1>1, <2>1, <2>4, Zenon DEF Inv, PlanInv
    <3> HIDE DEF m
    <3>4. m \in ProcessMapEntry /\ Covers(m)
      BY <3>1, Zenon DEF m
    <3>5. m.start \in Nat /\ m.end \in Nat /\ m.start <= plan.target /\ plan.target + Size <= m.end
      BY <3>4, Zenon DEF ProcessMapEntry, Covers
    <3>6. a \in m.start..(m.end - 1)
      BY <3>3, <3>5 DEF Size
    <3> QED
      BY <3>2, <3>4, <3>6, Zenon DEF Covers
  <2> QED
    BY <2>2, <2>3, <2>4, Zenon DEF ReadyOnLiveCode
<1> QED
  BY <1>1, Invariance, PTL

-----------------------------------------------------------------------------
(* The plan.                                                               *)

(* The planner's masks find every instruction that uses its address, but   *)
(* for BC.cond, and every branch to a register.                            *)
LEMMA MasksSuffice ==
  ASSUME NEW i \in Instruction, ~IsPcRelative(i), ~IsRegisterControlFlow(i)
  PROVE  /\ UsesItsAddress(i) => i = [op |-> 84, o0 |-> 1]
         /\ ~BranchesToRegister(i) /\ i # Load
<1> DEFINE n == i.op
<1>1. n \in 0..255
  BY DEF Instruction
<1>2. /\ n % 32 # 16 /\ (n \div 4) % 32 # 5 /\ (n \div 2) % 64 # 26 /\ (n \div 2) % 64 # 27
      /\ n \div 2 # 107
      /\ ~((n \div 32) % 2 = 0 /\ (n \div 16) % 2 = 1 /\ (n \div 8) % 2 = 1 /\ n % 4 = 0)
  BY Zenon
  DEF IsPcRelative, IsAddress, IsLiteralLoad, IsDirectBranch, IsCompareBranch, IsTestBranch,
      IsRegisterControlFlow, Bit
<1> HIDE DEF n
<1>3. n \notin Adr
  BY <1>1, <1>2 DEF Adr
<1>4. n \notin LoadLiteral
  BY <1>1, <1>2 DEF LoadLiteral
<1>5. n \notin BranchImmediate
  BY <1>1, <1>2 DEF BranchImmediate
<1>6. n \notin CompareOrTest
  BY <1>1, <1>2 DEF CompareOrTest
<1>7. n \notin {214, 215}
  BY <1>1, <1>2
<1>8. Load.op \in LoadLiteral
  BY DEF Load, LoadLiteral
<1>9. n \in BranchConditional => i = [op |-> 84, o0 |-> 1]
  <2>1. n = 84 => i.o0 # 0
    BY Zenon DEF IsPcRelative, IsConditionalBranch, n
  <2> QED
    BY <2>1 DEF BranchConditional, Instruction, n
<1> QED
  BY <1>3, <1>4, <1>5, <1>6, <1>7, <1>8, <1>9, Zenon DEF UsesItsAddress, BranchesToRegister, n

(* Words without a literal load run one after the other and into the       *)
(* branch that follows them.                                               *)
LEMMA RunsThrough ==
  ASSUME NEW words \in Seq(Instruction), \A k \in 1..Len(words) : words[k] # Load, NEW a
  PROVE  Runs(AppendAbsoluteBranch(words, a)) = [body |-> words, to |-> a]
<1> DEFINE t == AppendAbsoluteBranch(words, a)
           n == Len(words)
           J == {j \in 1..(Len(t) - 3) : t[j] = Load /\ t[j + 1] = Branch}
<1>1. /\ Len(t) = n + 4 /\ SubSeq(t, 1, n) = words /\ \A k \in 1..n : t[k] = words[k]
      /\ t[n + 1] = Load /\ t[n + 2] = Branch /\ t[n + 3] = [low |-> a]
  <2>1. /\ Len(AppendAbsoluteBranch(words, a)) = Len(words) + 4
        /\ SubSeq(AppendAbsoluteBranch(words, a), 1, Len(words)) = words
        /\ \A k \in 1..Len(words) : AppendAbsoluteBranch(words, a)[k] = words[k]
        /\ AppendAbsoluteBranch(words, a)[Len(words) + 1] = Load
        /\ AppendAbsoluteBranch(words, a)[Len(words) + 2] = Branch
        /\ AppendAbsoluteBranch(words, a)[Len(words) + 3] = [low |-> a]
    BY BranchAppended, SMTT(30)
  <2> QED
    BY <2>1, Zenon
<1>2. n \in Nat
  BY LenProperties, Zenon
<1> HIDE DEF t, n
<1>3. J = {n + 1}
  <2>1. n + 1 \in 1..(Len(t) - 3) /\ n + 1 + 1 = n + 2
    BY <1>1, <1>2, SMTT(30)
  <2>2. \A j \in 1..(Len(t) - 3) : j = n + 1 \/ j \in 1..n
    BY <1>1, <1>2, SMTT(30)
  <2>3. \A k \in 1..n : t[k] # Load
    BY <1>1, Zenon DEF n
  <2> QED
    BY <1>1, <2>1, <2>2, <2>3, ZenonT(40)
<1>4. Min(J) = n + 1
  <2>1. {n + 1} \in SUBSET Nat /\ {n + 1} # {}
    BY <1>2
  <2> HIDE DEF J
  <2>2. Min({n + 1}) \in {n + 1}
    BY <2>1, LeastIndex, Zenon
  <2> QED
    BY <1>3, <2>2, Zenon
<1>5. Runs(t) = [body |-> SubSeq(t, 1, Min(J) - 1), to |-> t[Min(J) + 2].low]
  BY Zenon DEF Runs
<1> HIDE DEF J
<1>6. Min(J) - 1 = n /\ Min(J) + 2 = n + 3
  BY <1>2, <1>4
<1>7. t[n + 3].low = a
  BY <1>1
<1> QED
  BY <1>1, <1>5, <1>6, <1>7, Zenon DEF t

(* A plan moves only instructions that do the same at any address, BC.cond *)
(* excepted; the entry leads to the bridge and the trampoline back behind  *)
(* them.                                                                   *)
THEOREM FaithfulPlan == Spec => []PlanIsFaithful
<1>1. ASSUME Inv, pc = "select" PROVE PlanIsFaithful
  <2> DEFINE words == plan.original
             b == <<Bti>> \o words
  <2>1. /\ words \in Seq(Instruction) /\ ~PlanRefuses(words) /\ plan.target \in Nat
        /\ plan = PlanPatch(plan.symbol, plan.target, words) /\ Len(words) = Size
    BY <1>1, Zenon DEF Inv, PlanInv
  <2>2. /\ plan.entry = AppendAbsoluteBranch(<<>>, Replacement)
        /\ plan.trampoline = AppendAbsoluteBranch(b, plan.target + Size)
    BY <2>1, PatchShape, SMTT(30)
  <2> HIDE DEF words
  <2>3. \A k \in 1..Size :
          words[k] \in Instruction /\ ~IsPcRelative(words[k]) /\ ~IsRegisterControlFlow(words[k])
    <3>1. Len(words) >= Size
      BY <2>1 DEF Size
    <3>2. \A k \in 1..Size : ~IsPcRelative(words[k]) /\ ~IsRegisterControlFlow(words[k])
      BY <2>1, <3>1, Zenon DEF PlanRefuses
    <3>3. \A k \in 1..Size : words[k] \in Instruction
      BY <2>1
    <3> QED
      BY <3>2, <3>3, Zenon
  <2>4. /\ \A k \in 1..Size : /\ UsesItsAddress(words[k]) => words[k] = [op |-> 84, o0 |-> 1]
                             /\ ~BranchesToRegister(words[k])
        /\ \A k \in 1..Size : words[k] # Load
    <3>1. ASSUME NEW i, i \in Instruction, ~IsPcRelative(i), ~IsRegisterControlFlow(i)
          PROVE  /\ UsesItsAddress(i) => i = [op |-> 84, o0 |-> 1]
                 /\ ~BranchesToRegister(i) /\ i # Load
      BY <3>1, MasksSuffice
    <3> QED
      BY <2>3, <3>1
  <2>5. Runs(plan.entry) = [body |-> <<>>, to |-> Replacement]
    <3>1. <<>> \in Seq(Instruction) /\ \A k \in 1..Len(<<>>) : <<>>[k] # Load
      OBVIOUS
    <3> QED
      BY <2>2, <3>1, RunsThrough, Zenon
  <2>6. Runs(plan.trampoline) = [body |-> b, to |-> plan.target + Size]
    <3>1. b \in Seq(Instruction) /\ Len(b) = 1 + Size /\ b[1] = Bti
          /\ \A k \in 1..Size : b[k + 1] = words[k]
      BY <2>1, MarkerFirst, Zenon
    <3>2. Bti # Load /\ \A k \in 1..Size : words[k] # Load
      <4>1. Bti.op # Load.op
        BY DEF Load, Bti
      <4> QED
        BY <2>4, <4>1, Zenon
    <3> HIDE DEF b
    <3>3. ASSUME NEW k \in 1..Len(b) PROVE b[k] # Load
      <4>1. k = 1 \/ \E j \in 1..Size : k = j + 1
        <5>1. k = 1 \/ (k - 1 \in 1..Size /\ k = (k - 1) + 1)
          BY <3>1 DEF Size
        <5> QED
          BY <5>1, Zenon
      <4> QED
        BY <3>1, <3>2, <4>1, ZenonT(40)
    <3> QED
      BY <2>2, <3>1, <3>3, RunsThrough, Zenon
  <2> QED
    BY <2>4, <2>5, <2>6, Zenon DEF PlanIsFaithful, words
<1>2. Inv => PlanIsFaithful
  BY <1>1, Zenon DEF PlanIsFaithful
<1> QED
  BY <1>2, Invariance, PTL
=============================================================================
