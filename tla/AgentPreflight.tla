---------------------------- MODULE AgentPreflight ---------------------------
(***************************************************************************)
(* The entry points of the agent (cameraserver_agent.cpp): validate, plan, *)
(* preflight and signal_preflight, each the gates of the one before it and *)
(* more, in a process whose code, mappings and threads other software may  *)
(* change between them.  Gates are RuntimeAbiGuard, RuntimeHookStrategy    *)
(* with Arm64PatchPlanner, StaticArm64Trampoline,                          *)
(* RuntimeActivationPreflight and the choice of a signal in                *)
(* AndroidSignalQuiescenceBackend.                                         *)
(*                                                                         *)
(* A recipe file is a sequence of lines [key, value]; "malformed" stands   *)
(* for a line that cannot be parsed, an unknown key or a missing file.     *)
(* Addresses count words of four bytes.  Of an instruction the model has   *)
(* its bits 31-24 (op) and bit 4 (o0), all the planner's masks look at.    *)
(***************************************************************************)
EXTENDS Integers, Sequences, FiniteSetsExt

CONSTANTS
  Text,           \* recipe files that are tried
  Start,          \* Start[x]: how the process may look when file x is tried
  Profile,        \* the recipe of the precompiled trampoline
  SymbolAt,       \* word address of every symbol
  Replacement,    \* word address of the pass-through bridge
  Maps,           \* contents /proc/self/maps may have
  Foreign,        \* an instruction other software writes
  Thread, Caller, Signal,    \* threads, numbered as they are created; real-time
                             \* signals, a range of numbers
  None

Entry == {"validate", "plan", "preflight", "signal_preflight"}
Instruction == [op : 0..255, o0 : {0, 1}]
Size == 4         \* kOverwriteSize in words

Scalar == {"schema", "module", "file_size", "sha256", "build_id", "architecture"}
List == {"symbol", "hook", "transaction", "dependency"}
SymbolRequirement == [name : DOMAIN SymbolAt, code : Seq(Instruction)]
ProcessMapEntry ==
  [start : Nat, end : Nat, readable : BOOLEAN, writable : BOOLEAN, executable : BOOLEAN,
   private : BOOLEAN, module : BOOLEAN]
Masks == [blocked : SUBSET Signal, pending : SUBSET Signal]

(* The lines of a file; the code of a symbol is whole instructions.        *)
ASSUME TextAssumption ==
  \A x \in Text :
    /\ Len(x) \in Nat /\ DOMAIN x = 1..Len(x)
    /\ \A i \in DOMAIN x : /\ x[i].key \in Scalar \cup List \cup {"malformed"}
                           /\ x[i].key = "symbol" => x[i].value \in SymbolRequirement
ASSUME ProcessAssumption ==
  /\ \A x \in Text : \A s \in Start[x] :
       /\ s.entry \in Entry /\ s.maps \in Seq(ProcessMapEntry) /\ s.claimed \subseteq Signal
       /\ s.threads \in [DOMAIN s.threads -> Masks]
       /\ Caller \in DOMAIN s.threads /\ DOMAIN s.threads \subseteq Thread
  /\ \A n \in DOMAIN SymbolAt : SymbolAt[n] \in Nat
  /\ Maps \subseteq Seq(ProcessMapEntry)
(* The profile names two functions, each once.                             *)
ASSUME ProfileAssumption ==
  /\ Len(Profile.symbol) \in Nat /\ DOMAIN Profile.symbol = 1..Len(Profile.symbol)
  /\ \A i, j \in DOMAIN Profile.symbol : Profile.symbol[i] = Profile.symbol[j] => i = j
ASSUME SignalAssumption ==
  Signal \subseteq Int /\ \E s \in Signal : \A u \in Signal : u <= s
ASSUME ThreadAssumption == Thread \subseteq Nat \ {0}
ASSUME NoneAssumption == None # <<0, "ready">>

VARIABLES
  pc, entry, text,
  line, recipe,   \* lines of the recipe file that are read, what they say
  process,        \* loaded libraries in load order
  code, maps,     \* live words of the symbols; mappings of the process
  plan, snapshot, \* patch plan and ActivationSnapshot, or None
  status,         \* what the call returns, or None
  live,           \* history: the code when it was read for the snapshot
  threads,        \* live threads, [blocked, pending] of each, Caller the main one
  started,        \* threads that have ever been started
  claimed,        \* signals with a handler
  candidate, before, unread, \* the scan for a signal: its two inventories,
  cursor, listed,            \* and the walk of /proc/self/task for one of them
  moved,          \* history: the candidate changed behind the scan
  lost            \* history: the walk passed by a live thread

probe == <<entry, text, process>>
target == <<code, maps>>
planning == <<line, recipe, plan, snapshot, live>>
walk == <<cursor, listed, lost>>
scan == <<candidate, before, unread, walk, moved>>
vars == <<pc, status, probe, target, planning, threads, started, claimed, scan>>

Base(gate) ==
  CASE gate = "abi" -> IF entry = "validate" THEN 0 ELSE IF entry = "plan" THEN 1000 ELSE 3000
    [] gate = "strategy" -> IF entry = "plan" THEN 2000 ELSE 4000
    [] gate = "trampoline" -> 6000
    [] gate = "activation" -> 5000
    [] gate = "signal" -> 7000
Finish(gate, why) == pc' = "done" /\ status' = <<Base(gate), why>>
Succeed == pc' = "done" /\ status' = <<0, "ready">>
Goto(next) == pc' = next /\ UNCHANGED status
(* The next gate, for the entry points that have it.                       *)
Continue(entries, next) == IF entry \in entries THEN Goto(next) ELSE Succeed

-----------------------------------------------------------------------------
Blank ==
  [schema |-> 0, module |-> None, file_size |-> None, sha256 |-> None,
   build_id |-> None, architecture |-> None,
   symbol |-> <<>>, hook |-> <<>>, transaction |-> <<>>, dependency |-> <<>>]

(* What a line adds: later values of a scalar replace earlier ones.        *)
Enter(r, l) ==
  IF l.key \in Scalar THEN [r EXCEPT ![l.key] = l.value]
                      ELSE [r EXCEPT ![l.key] = Append(@, l.value)]

Complete(r) ==
  /\ r.schema \in {1, 2} /\ r.symbol # <<>>
  /\ None \notin {r.module, r.file_size, r.sha256, r.build_id}

(* What schema 2 asks for, each entry compared with those before it.       *)
Strategy(r) ==
  /\ r.architecture = "arm64" /\ <<>> \notin {r.hook, r.transaction, r.dependency}
  /\ \A i \in DOMAIN r.hook :
       /\ \E k \in DOMAIN r.symbol : r.symbol[k].name = r.hook[i].symbol
       /\ \A j \in 1..(i - 1) : r.hook[j].role # r.hook[i].role
  /\ \A i \in DOMAIN r.transaction : \A j \in 1..(i - 1) :
       /\ r.transaction[j].role # r.transaction[i].role
       /\ r.transaction[j].code # r.transaction[i].code
  /\ \A i \in DOMAIN r.dependency : \A j \in 1..(i - 1) :
       r.dependency[j].module # r.dependency[i].module

-----------------------------------------------------------------------------
(* The index of the first entry that is such, or 0.                        *)
First(list, Such(_)) ==
  LET found == {i \in DOMAIN list : Such(list[i])} IN IF found = {} THEN 0 ELSE Min(found)

(* The first loaded library whose path ends with the suffix, or 0.         *)
FindModule(suffix) == First(process, LAMBDA l : suffix \in l.suffixes)

(* The first GNU build ID note; a note that overruns its segment ends it.  *)
readBuildId(l) ==
  LET Id(segment) == LET k == First(segment, LAMBDA n : n # "other")
                     IN IF k = 0 \/ segment[k] = "overrun" THEN None ELSE segment[k]
      holder == First(l.notes, LAMBDA segment : Id(segment) # None)
  IN IF holder = 0 THEN None ELSE Id(l.notes[holder])

isInsideExecutableSegment(l, address, length) ==
  \E s \in l.executable : s.start <= address /\ address + length <= s.end

(* Why a loaded library is not the one of identity m; None if it is.  Size *)
(* and hash are those of its file, None when it cannot be read.            *)
IdentityFault(m) ==
  LET k == FindModule(m.module) IN
  IF k = 0 THEN "module_not_loaded"
  ELSE IF process[k].file_size # m.file_size THEN "file_size_mismatch"
  ELSE IF readBuildId(process[k]) # m.build_id THEN "build_id_mismatch"
  ELSE IF process[k].sha256 # m.sha256 THEN "file_hash_mismatch" ELSE None

SymbolFault(s) ==
  IF s.name \notin DOMAIN code THEN "symbol_missing"
  ELSE IF ~isInsideExecutableSegment(process[FindModule(recipe.module)], SymbolAt[s.name],
                                     Len(s.code))
    THEN "symbol_outside_executable_segment"
  ELSE IF \E k \in DOMAIN s.code : s.code[k] # code[s.name][k] THEN "code_prefix_mismatch" ELSE None

-----------------------------------------------------------------------------
Bit(n, weight) == (n \div weight) % 2

IsAddress(i) == i.op % 32 = 16
IsLiteralLoad(i) == Bit(i.op, 32) = 0 /\ Bit(i.op, 16) = 1 /\ Bit(i.op, 8) = 1 /\ i.op % 4 = 0
IsDirectBranch(i) == (i.op \div 4) % 32 = 5
IsConditionalBranch(i) == i.op = 84 /\ i.o0 = 0
IsCompareBranch(i) == (i.op \div 2) % 64 = 26
IsTestBranch(i) == (i.op \div 2) % 64 = 27

(* Mutant: literal loads are forgotten.                                    *)
IsPcRelativeLess(i) ==
  \/ IsAddress(i) \/ IsDirectBranch(i) \/ IsConditionalBranch(i)
  \/ IsCompareBranch(i) \/ IsTestBranch(i)
IsPcRelative(i) ==
  \/ IsAddress(i) \/ IsLiteralLoad(i) \/ IsDirectBranch(i) \/ IsConditionalBranch(i)
  \/ IsCompareBranch(i) \/ IsTestBranch(i)
IsRegisterControlFlow(i) == i.op \div 2 = 107

Bti == [op |-> 213, o0 |-> 1]
Load == [op |-> 88, o0 |-> 1]       \* LDR X17, #8
Branch == [op |-> 214, o0 |-> 0]    \* BR X17
Address(a) == <<[low |-> a], [high |-> a]>>    \* the two words of a pointer

AppendAbsoluteBranch(words, a) == words \o <<Load, Branch>> \o Address(a)

(* planArm64InlineHook(), for addresses that are aligned and not zero.     *)
PlanPatch(symbol, at, prologue) ==
  LET stolen == SubSeq(prologue, 1, Size) IN
  [symbol |-> symbol, target |-> at, original |-> stolen,
   entry |-> AppendAbsoluteBranch(<<>>, Replacement),
   trampoline |-> AppendAbsoluteBranch(<<Bti>> \o stolen, at + Size)]

PlanRefuses(prologue) ==
  Len(prologue) >= Size =>
    \E k \in 1..Size : IsPcRelative(prologue[k]) \/ IsRegisterControlFlow(prologue[k])

-----------------------------------------------------------------------------
Init ==
  /\ pc = "parse" /\ text \in Text
  /\ \E s \in Start[text] :
       /\ entry = s.entry /\ process = s.process /\ code = s.code /\ maps = s.maps
       /\ threads = s.threads /\ started = DOMAIN s.threads /\ claimed = s.claimed
  /\ line = 0 /\ recipe = Blank /\ plan = None /\ snapshot = None /\ status = None /\ live = None
  /\ candidate = None /\ before = {} /\ unread = {} /\ moved = FALSE
  /\ cursor = 0 /\ listed = {} /\ lost = FALSE

(* parseAbiRecipe(), line by line.                                         *)
ParseLine ==
  /\ pc = "parse" /\ line < Len(text) /\ line' = line + 1
  /\ LET l == text[line'] IN
       \/ l.key = "malformed" /\ Finish("abi", "invalid_recipe") /\ UNCHANGED recipe
       \/ l.key # "malformed" /\ Goto("parse") /\ recipe' = Enter(recipe, l)
  /\ UNCHANGED <<probe, target, plan, snapshot, live, threads, started, claimed, scan>>

ParseEnd ==
  /\ pc = "parse" /\ line = Len(text)
  /\ IF Complete(recipe) /\ (recipe.schema = 2 => Strategy(recipe))
     THEN Goto("validate") ELSE Finish("abi", "invalid_recipe")
  /\ UNCHANGED <<probe, target, planning, threads, started, claimed, scan>>

(* validateLoadedModule(): the module, its dependencies, a handle on the   *)
(* module (which may fail), and the symbols; the first fault decides.      *)
Validate ==
  /\ pc = "validate"
  /\ \E handle \in {None, "module_not_loaded"} :
       LET all == <<IdentityFault(recipe)>>
                    \o [i \in DOMAIN recipe.dependency |-> IdentityFault(recipe.dependency[i])]
                    \o <<handle>>
           first == First(all, LAMBDA f : f # None)
           bad == First(recipe.symbol, LAMBDA s : SymbolFault(s) # None)
       IN \/ first # 0 /\ Finish("abi", all[first])
          \/ first = 0 /\ bad # 0 /\ Finish("abi", SymbolFault(recipe.symbol[bad]))
          \/ first = 0 /\ bad = 0 /\ Continue(Entry \ {"validate"}, "plan")
  /\ UNCHANGED <<probe, target, planning, threads, started, claimed, scan>>

(* planOnTransactStrategy(): the first on_transact hook and the first      *)
(* symbol of its name.                                                     *)
Plan ==
  LET hook == First(recipe.hook, LAMBDA h : h.role = "on_transact")
      name == recipe.hook[hook].symbol
      prologue == recipe.symbol[First(recipe.symbol, LAMBDA s : s.name = name)].code
  IN /\ pc = "plan"
     /\ \/ /\ recipe.schema # 2 \/ hook = 0
           /\ Finish("strategy", "incomplete_recipe") /\ UNCHANGED plan
        \/ /\ recipe.schema = 2 /\ hook # 0 /\ PlanRefuses(prologue)
           /\ Finish("strategy", "patch_not_relocatable") /\ UNCHANGED plan
        \/ /\ recipe.schema = 2 /\ hook # 0 /\ ~PlanRefuses(prologue)
           /\ plan' = PlanPatch(name, SymbolAt[name], prologue) /\ Goto("select")
     /\ UNCHANGED <<probe, target, line, recipe, snapshot, live, threads, started, claimed, scan>>

HasSymbol(s) == \E k \in DOMAIN recipe.symbol : recipe.symbol[k] = s

exactlyMatches ==
  /\ \A f \in Scalar \cup {"hook", "dependency"} : recipe[f] = Profile[f]
  /\ Len(recipe.symbol) = Len(Profile.symbol)
  /\ \A k \in DOMAIN Profile.symbol : HasSymbol(Profile.symbol[k])
  /\ Len(recipe.transaction) = Len(Profile.transaction)
  /\ Range(Profile.transaction) \subseteq Range(recipe.transaction)

(* selectStaticArm64Trampoline().                                          *)
Select ==
  /\ pc = "select"
  /\ IF exactlyMatches THEN Continue({"preflight", "signal_preflight"}, "maps")
                       ELSE Finish("trampoline", "no_exact_recipe")
  /\ UNCHANGED <<probe, target, planning, threads, started, claimed, scan>>

NoSnapshot == [error |-> TRUE, maps |-> <<>>, bytes |-> <<>>, inventory |-> "empty"]

(* parseProcMapsText() refuses empty, unsorted or overlapping entries.     *)
ParseProcMaps ==
  /\ maps # <<>> /\ \A k \in DOMAIN maps : maps[k].start < maps[k].end
  /\ \A k \in 1..(Len(maps) - 1) : maps[k].end <= maps[k + 1].start

(* collectCurrentProcessActivationSnapshot(), as far as the mappings.      *)
CollectMaps ==
  /\ pc = "maps"
  /\ \/ snapshot' = NoSnapshot /\ Goto("evaluate")
     \/ /\ ParseProcMaps /\ Goto("bytes")
        /\ snapshot' = [NoSnapshot EXCEPT !.error = FALSE, !.maps = maps]
  /\ UNCHANGED <<probe, target, line, recipe, plan, live, threads, started, claimed, scan>>

(* /proc/self/mem is read when the snapshot has the range in one readable  *)
(* mapping, and then /proc/self/task; both may fail, and a walk that loses *)
(* its place may not come to the calling thread.                           *)
CollectBytes ==
  /\ pc = "bytes" /\ Goto("evaluate")
  /\ \/ snapshot' = NoSnapshot /\ UNCHANGED live
     \/ \E found \in {"empty", "without_caller", "with_caller"} :
          IF \E k \in DOMAIN snapshot.maps :
             /\ snapshot.maps[k].start <= plan.target /\ plan.target + Size <= snapshot.maps[k].end
             /\ snapshot.maps[k].readable
          THEN /\ live' = SubSeq(code[plan.symbol], 1, Size)
               /\ snapshot' = [snapshot EXCEPT !.bytes = live', !.inventory = found]
          ELSE snapshot' = [snapshot EXCEPT !.inventory = found] /\ UNCHANGED live
  /\ UNCHANGED <<probe, target, line, recipe, plan, threads, started, claimed, scan>>

Holding == First(snapshot.maps, LAMBDA m : m.start <= plan.target /\ plan.target < m.end)

Permitted(m) == m.readable /\ ~m.writable /\ m.executable /\ m.private

(* Mutant: what was read is not compared.                                  *)
SomeBytes == snapshot.bytes # <<>>
SameBytes == snapshot.bytes = plan.original

(* evaluateActivationPreflight(): the mapping, its end, its permissions,   *)
(* its module, the bytes and then the inventory of the threads.            *)
Verdict ==
  IF snapshot.error THEN "snapshot_error"
  ELSE IF Holding = 0 THEN "mapping_missing"
  ELSE LET m == snapshot.maps[Holding] IN
       IF plan.target + Size > m.end THEN "range_split"
       ELSE IF ~Permitted(m) THEN "permission"
       ELSE IF ~m.module THEN "module"
       ELSE IF ~SameBytes THEN "bytes"
       ELSE IF snapshot.inventory = "empty" THEN "thread_inventory"
       ELSE IF snapshot.inventory = "without_caller" THEN "current_thread" ELSE "ready"

(* First a signal is tried with the highest number.                        *)
Consider(s) ==
  /\ candidate' = s /\ before' = {} /\ unread' = {} /\ moved' = FALSE
  /\ cursor' = 0 /\ listed' = {} /\ lost' = FALSE
Highest == CHOOSE s \in Signal : \A u \in Signal : u <= s

Evaluate ==
  /\ pc = "evaluate"
  /\ IF Verdict # "ready" THEN Finish("activation", Verdict) /\ UNCHANGED scan
     ELSE IF entry = "signal_preflight" THEN Goto("disposition") /\ Consider(Highest)
     ELSE Succeed /\ UNCHANGED scan
  /\ UNCHANGED <<probe, target, planning, threads, started, claimed>>

-----------------------------------------------------------------------------
(* selectEligibleRealtimeSignal(): a signal that is not eligible, for any  *)
(* reason, is followed by the next lower one.                              *)
NextSignal ==
  IF candidate - 1 \in Signal THEN Goto("disposition") /\ Consider(candidate - 1)
  ELSE Finish("signal", "no_eligible_realtime_signal") /\ UNCHANGED scan

(* The query of the disposition may fail.                                  *)
InspectDisposition ==
  /\ pc = "disposition"
  /\ NextSignal \/ (candidate \notin claimed /\ Goto("process") /\ UNCHANGED scan)
  /\ UNCHANGED <<probe, target, planning, threads, started, claimed>>

(* The masks in a thread's status file, None when it cannot be read or     *)
(* lacks one; a thread that is gone has no file.                           *)
parseProcStatusSignalMasks(t) == IF t \in DOMAIN threads THEN {threads[t], None} ELSE {None}

(* /proc/self/status is that of the main thread.                           *)
InspectProcess ==
  /\ pc = "process"
  /\ \E m \in parseProcStatusSignalMasks(Caller) :
       IF m = None \/ candidate \in m.pending THEN NextSignal ELSE Goto("before") /\ UNCHANGED scan
  /\ UNCHANGED <<probe, target, planning, threads, started, claimed>>

(* A walk of /proc/self/task lists the threads in the order in which they  *)
(* were created.  When the thread at its place is gone it ends, or goes on *)
(* further down the list.                                                  *)
Following == {t \in DOMAIN threads : t > cursor}
Lost == cursor # 0 /\ cursor \notin DOMAIN threads
Walking == pc \in {"before", "after"}

enumerateThreadsAllocated ==
  /\ Walking
  /\ \E t \in Following :
       /\ Lost \/ \A u \in Following : t <= u
       /\ cursor' = t /\ listed' = listed \cup {t}
       /\ lost' = (lost \/ \E u \in Following : u < t)
  /\ UNCHANGED <<pc, status, candidate, before, unread, moved>>
  /\ UNCHANGED <<probe, target, planning, threads, started, claimed>>

EnumerationFails ==
  /\ Walking /\ NextSignal
  /\ UNCHANGED <<probe, target, planning, threads, started, claimed>>

WalkEnds == Following = {} \/ Lost

FirstThreads ==
  /\ pc = "before" /\ WalkEnds /\ Goto("threads")
  /\ before' = listed /\ unread' = listed
  /\ cursor' = 0 /\ listed' = {} /\ lost' = FALSE /\ UNCHANGED <<candidate, moved>>
  /\ UNCHANGED <<probe, target, planning, threads, started, claimed>>

(* Threads are read in the order of their IDs.                             *)
InspectThread ==
  /\ pc = "threads" /\ unread # {}
  /\ LET t == CHOOSE t \in unread : \A u \in unread : t <= u IN
     \E m \in parseProcStatusSignalMasks(t) :
       IF m = None \/ candidate \in m.blocked \cup m.pending THEN NextSignal
       ELSE Goto("threads") /\ unread' = unread \ {t} /\ UNCHANGED <<candidate, before, walk, moved>>
  /\ UNCHANGED <<probe, target, planning, threads, started, claimed>>

InspectionEnds ==
  /\ pc = "threads" /\ unread = {} /\ Goto("after")
  /\ UNCHANGED <<probe, target, planning, threads, started, claimed, scan>>

(* Mutant: the second inventory is not compared.                           *)
SomeThreadsFound == listed # {}
SameThreads == listed = before

SecondThreads ==
  /\ pc = "after" /\ WalkEnds
  /\ IF SameThreads
       THEN /\ Succeed /\ lost' = (lost \/ Following # {})
            /\ UNCHANGED <<candidate, before, unread, cursor, listed, moved>>
       ELSE NextSignal
  /\ UNCHANGED <<probe, target, planning, threads, started, claimed>>

-----------------------------------------------------------------------------
(* Other software patches a function, or changes the mappings: at the      *)
(* gates that look at them or before.                                      *)
Rewrite ==
  /\ pc \in {"validate", "plan", "select", "maps", "bytes"}
  /\ \E n \in DOMAIN code : Head(code[n]) # Foreign /\ code' = [code EXCEPT ![n][1] = Foreign]
  /\ UNCHANGED <<pc, status, probe, maps, planning, threads, started, claimed, scan>>
Remap ==
  /\ pc \in {"maps", "bytes"} /\ maps' \in Maps \ {maps}
  /\ UNCHANGED <<pc, status, probe, code, planning, threads, started, claimed, scan>>

Scanning == pc \in {"disposition", "process", "before", "threads", "after"}
Behind(t) == t \in before \ unread

(* During the scan a thread starts with its creator's mask, exits, or      *)
(* changes its mask, or a handler is installed.                            *)
CreateThread(t) ==
  /\ Scanning /\ t \in Thread /\ (\A u \in started : u < t) /\ started' = started \cup {t}
  /\ \E u \in DOMAIN threads :
       threads' = [v \in DOMAIN threads \cup {t} |->
                    IF v = t THEN [blocked |-> threads[u].blocked, pending |-> {}] ELSE threads[v]]
  /\ UNCHANGED <<pc, status, probe, target, planning, claimed, scan>>
ExitThread(t) ==
  /\ Scanning /\ t \in DOMAIN threads \ {Caller}
  /\ threads' = [v \in DOMAIN threads \ {t} |-> threads[v]]
  /\ UNCHANGED <<pc, status, probe, target, planning, started, claimed, scan>>
ChangeMask(t, s) ==
  /\ Scanning /\ t \in DOMAIN threads \ {Caller} /\ s \notin threads[t].pending
  /\ threads' = [threads EXCEPT ![t].blocked = (@ \ {s}) \cup ({s} \ @)]
  /\ moved' = (moved \/ (s = candidate /\ Behind(t)))
  /\ UNCHANGED <<pc, status, probe, target, planning, started, claimed>>
  /\ UNCHANGED <<candidate, before, unread, walk>>
Claim(s) ==
  /\ Scanning /\ s \notin claimed /\ claimed' = claimed \cup {s}
  /\ moved' = (moved \/ (s = candidate /\ pc # "disposition"))
  /\ UNCHANGED <<pc, status, probe, target, planning, threads, started>>
  /\ UNCHANGED <<candidate, before, unread, walk>>

Call ==
  \/ ParseLine \/ ParseEnd \/ Validate \/ Plan \/ Select \/ CollectMaps \/ CollectBytes \/ Evaluate
  \/ InspectDisposition \/ InspectProcess \/ enumerateThreadsAllocated \/ EnumerationFails
  \/ FirstThreads \/ InspectThread \/ InspectionEnds \/ SecondThreads
Environment ==
  \/ Rewrite \/ Remap
  \/ \E t \in Thread : CreateThread(t) \/ ExitThread(t) \/ \E s \in Signal : ChangeMask(t, s)
  \/ \E s \in Signal : Claim(s)
Next == Call \/ Environment
Spec == Init /\ [][Next]_vars

-----------------------------------------------------------------------------
Steps == {"parse", "validate", "plan", "select", "maps", "bytes", "evaluate", "done"}
           \cup {"disposition", "process", "before", "threads", "after"}

(* The values that the file gives for a key.                               *)
LinesOf(key) == {text[i].value : i \in {j \in DOMAIN text : text[j].key = key}}

TypeOK ==
  /\ pc \in Steps /\ entry \in Entry /\ (pc # "done" => status = None)
  /\ text \in Text /\ line \in 0..Len(text)
  /\ DOMAIN recipe = Scalar \cup List /\ recipe.symbol \in Seq(SymbolRequirement)
  /\ \A key \in List : recipe[key] \in Seq(LinesOf(key))
  /\ maps \in Seq(ProcessMapEntry)
  /\ plan # None => Len(plan.original) = Size /\ Len(plan.entry) = Size
                    /\ Len(plan.trampoline) = 1 + Size + Len(plan.entry)
  /\ threads \in [DOMAIN threads -> Masks] /\ Caller \in DOMAIN threads
  /\ DOMAIN threads \subseteq started /\ started \subseteq Thread
  /\ before \subseteq started /\ unread \subseteq before /\ listed \subseteq started
  /\ cursor \in started \cup {0} /\ lost \in BOOLEAN /\ moved \in BOOLEAN
  /\ (Scanning => candidate \in Signal) /\ claimed \subseteq Signal

Ready == status = <<0, "ready">>
Past(gates) == Ready /\ entry \in gates
Activation == {"preflight", "signal_preflight"}

(* A call that reports ready has read, in this process and after the other *)
(* gates, exactly the instructions that were reviewed, that the plan moves *)
(* and that the precompiled trampoline runs; every word the patch would    *)
(* overwrite lay in a private, executable and not writable mapping of the  *)
(* module.                                                                 *)
ReadyOnLiveCode ==
  LET Described(symbols, words) ==
        \E d \in symbols : d.name = plan.symbol /\ SubSeq(d.code, 1, Size) = words
      Holds(a, m) == /\ a \in m.start..(m.end - 1)
                     /\ m.readable /\ ~m.writable /\ m.executable /\ m.private /\ m.module
  IN /\ Past(Entry \ {"validate"}) => Described(Range(Profile.symbol), plan.original)
     /\ Past(Activation) =>
          /\ Described(LinesOf("symbol"), live)
          /\ \A a \in plan.target..(plan.target + Size - 1) :
               \E m \in Range(snapshot.maps) : Holds(a, m)

(* A signal that was selected has no handler, and no thread of the process *)
(* blocks it or has it pending, threads that started during the scan or    *)
(* that the first inventory passed by included, as the second one is       *)
(* compared with it.  Two things escape the scan: a change of what it had  *)
(* already read, and a thread that the second inventory passes by because  *)
(* the one listed before it exits.                                         *)
SelectedSignalIsFree ==
  Past({"signal_preflight"}) /\ ~moved /\ ~lost =>
    /\ candidate \notin claimed
    /\ \A t \in DOMAIN threads : candidate \notin threads[t].blocked \cup threads[t].pending

(* The A64 instructions that use the address they are at, by their op.     *)
Adr == {16, 48, 80, 112, 144, 176, 208, 240}
LoadLiteral == {24, 28, 88, 92, 152, 156, 216, 220}
BranchImmediate == (20..23) \cup (148..151)
CompareOrTest == (52..55) \cup (180..183)
BranchConditional == {84}     \* B.cond, and BC.cond, which has bit 4 set
UsesItsAddress(i) ==
  i.op \in Adr \cup LoadLiteral \cup BranchImmediate \cup CompareOrTest \cup BranchConditional
BranchesToRegister(i) == i.op \in {214, 215}

(* What executing words from an address does: the instructions run on the  *)
(* way and where an absolute branch of the planner leaves to.              *)
Runs(words) ==
  LET k == Min({j \in 1..(Len(words) - 3) : words[j] = Load /\ words[j + 1] = Branch}) IN
  [body |-> SubSeq(words, 1, k - 1), to |-> words[k + 2].low]

(* "Planning is rejected if any stolen instruction is PC-relative or       *)
(* performs control flow."  isPcRelative() names BC.cond, but its mask     *)
(* does not match it.                                                      *)
MovesNoBranch ==
  pc = "select" =>
    \A k \in 1..Size : ~UsesItsAddress(plan.original[k]) /\ ~BranchesToRegister(plan.original[k])

(* A plan that is ready moves only instructions that do the same at any    *)
(* address, BC.cond excepted (see MovesNoBranch); the entry leads to the   *)
(* bridge, and the trampoline runs all stolen instructions and goes on     *)
(* after them.                                                             *)
PlanIsFaithful ==
  pc = "select" =>
    /\ \A k \in 1..Size :
         /\ UsesItsAddress(plan.original[k]) => plan.original[k] = [op |-> 84, o0 |-> 1]
         /\ ~BranchesToRegister(plan.original[k])
    /\ Runs(plan.entry) = [body |-> <<>>, to |-> Replacement]
    /\ Runs(plan.trampoline) = [body |-> <<Bti>> \o plan.original, to |-> plan.target + Size]
=============================================================================
