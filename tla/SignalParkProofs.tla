-------------------------- MODULE SignalParkProofs --------------------------
(* Proofs, for any finite set of peers, any epochs and any number of       *)
(* rounds, of the safety properties of SignalPark.                         *)
EXTENDS SignalPark, FiniteSetTheorems, TLAPS

-----------------------------------------------------------------------------
(* The inductive invariant.                                                *)

(* The handlers that handlerCount counts.                                  *)
Inside == {t \in Peer : hpc[t] \notin {"out", "delivered"}}

(* No handler has loaded an epoch, or one that has is about to leave.      *)
Quiet == \A t \in Peer : hpc[t] \in {"out", "delivered", "entered", "leave"}

Opening == {"open", "reset", "activate"}
Claiming == {"claim", "zeroPC", "zeroEpoch", "kill"}

(* Which epoch is active, by where the controlling thread is.              *)
EpochInv ==
  /\ ctl \notin {"released", "restore"} \/ ~resumed => epoch # 0 /\ rounds > 0
  /\ activeEpoch \in {0, epoch}
  /\ ctl \in Claiming \/ (ctl \in {"idle", "failed"} /\ requested # {}) => activeEpoch = epoch
  /\ ctl \in Opening \cup {"wake", "drain", "released", "restore"} => activeEpoch = 0
  /\ ctl \in Opening => requested = {}
  /\ ctl \in Opening \cup Claiming => current \in Peer \ requested
  /\ activeEpoch # 0 /\ ctl # "closeActive" => releaseEpoch = 0
  /\ ctl = "activate" => releaseEpoch = 0 /\ \A t \in Peer : slotEpoch[t] = 0

(* When no handler of an earlier epoch is left.                            *)
QuietInv ==
  ctl \in {"reset", "activate"} \/ (ctl \in {"released", "restore"} /\ resumed) => Quiet

(* A peer is sent at most one signal in a round, and none is left when the *)
(* disposition is restored.                                                *)
SignalInv ==
  /\ ctl # "released" => installed
  /\ \A t \in Peer : /\ pending[t] <= rounds
                     /\ t \notin requested => pending[t] = 0 \/ pending[t] < rounds
                     /\ ctl = "restore" \/ ~installed => pending[t] = 0

(* While an epoch is active its handlers are the only ones that are past   *)
(* the load, and whoever has marked a slot is held.                        *)
HandlerInv ==
  activeEpoch # 0 => \A t \in Peer :
    /\ hpc[t] \in {"storePC", "storeEpoch"} \cup Loop => hepoch[t] = activeEpoch
    /\ hpc[t] \in {"storeEpoch"} \cup Loop => slotPC[t] \in {NoPC, where[t]}
    /\ slotEpoch[t] \in {0, activeEpoch}
    /\ ctl # "closeActive" /\ slotEpoch[t] # 0 => hpc[t] \in Loop

(* What was accepted still stands in the slots.                            *)
AcceptedInv ==
  \A t \in accepted :
    /\ activeEpoch # 0 /\ ctl \in {"idle", "failed"} \cup Claiming
    /\ slotEpoch[t] = activeEpoch /\ slotPC[t] # NoPC

CountInv == handlerCount = Cardinality(Inside)

Inv ==
  /\ TypeOK /\ CountInv /\ EpochInv /\ QuietInv /\ SignalInv /\ HandlerInv /\ AcceptedInv

-----------------------------------------------------------------------------
(* The counted handlers are finitely many, and none when the count is 0.   *)
LEMMA Counted ==
  ASSUME CountInv
  PROVE  /\ IsFiniteSet(Inside) /\ handlerCount \in 0..Cardinality(Peer)
         /\ handlerCount = 0 => \A t \in Peer : hpc[t] \in {"out", "delivered"}
<1>1. Inside \subseteq Peer /\ IsFiniteSet(Peer)
  BY ParkAssumption DEF Inside
<1>2. /\ IsFiniteSet(Inside) /\ Cardinality(Inside) \in Nat /\ Cardinality(Peer) \in Nat
      /\ Cardinality(Inside) <= Cardinality(Peer)
  BY <1>1, FS_Subset, FS_CardinalityType
<1>3. handlerCount = 0 => Inside = {}
  BY <1>2, FS_EmptySet, Zenon DEF CountInv
<1> QED
  BY <1>2, <1>3 DEF CountInv, Inside

(* handlerCount counts the handlers between their first and last access.   *)
LEMMA CountStep ==
  ASSUME Inv, Next
  PROVE  CountInv'
<1>1. CountInv /\ hpc \in [Peer -> {"out", "delivered", "entered", "storePC", "storeEpoch", "leave"} \cup Loop]
  BY DEF Inv, TypeOK
<1>2. IsFiniteSet(Inside) /\ handlerCount = Cardinality(Inside) /\ handlerCount \in Nat
  BY <1>1, Counted, FS_CardinalityType DEF CountInv
<1>3. ASSUME NEW t \in Peer, EnterHandler(t) PROVE CountInv'
  <2>1. t \notin Inside /\ Inside' = Inside \cup {t}
    BY <1>1, <1>3 DEF EnterHandler, At, Inside
  <2>2. Cardinality(Inside') = Cardinality(Inside) + 1
    BY <1>2, <2>1, FS_AddElement, Zenon
  <2> QED
    BY <1>2, <1>3, <2>2 DEF EnterHandler, CountInv
<1>4. ASSUME NEW t \in Peer, LeaveHandler(t) PROVE CountInv'
  <2>1. t \in Inside /\ Inside' = Inside \ {t}
    BY <1>1, <1>4 DEF LeaveHandler, At, Inside
  <2>2. Cardinality(Inside') = Cardinality(Inside) - 1
    BY <1>2, <2>1, FS_RemoveElement, Zenon
  <2> QED
    BY <1>2, <1>4, <2>2 DEF LeaveHandler, CountInv
<1>5. ASSUME UNCHANGED handlerCount,
             \A u \in Peer : hpc'[u] \in {"out", "delivered"} <=> hpc[u] \in {"out", "delivered"}
      PROVE  CountInv'
  BY <1>1, <1>5 DEF CountInv, Inside
<1>6. ASSUME UNCHANGED <<handlerCount, hpc>> PROVE CountInv'
  BY <1>5, <1>6
<1>7. ASSUME NEW t \in Peer, HandlerStep(t) \/ Deliver(t) \/ Interrupt(t) PROVE CountInv'
  <2>1. ASSUME NEW from, NEW to, At(t, from, to), UNCHANGED handlerCount,
               from \in {"out", "delivered"} <=> to \in {"out", "delivered"}
        PROVE  CountInv'
    BY <1>1, <1>5, <2>1 DEF At
  <2>2. CASE Deliver(t) \/ Interrupt(t)
    BY <2>1, <2>2 DEF Deliver, Interrupt, words
  <2>3. CASE LoadEpoch(t) \/ StorePC(t)
    BY <2>1, <2>3 DEF LoadEpoch, StorePC, words
  <2>4. CASE StoreEpoch(t) \/ BumpSequence(t) \/ CheckActive(t)
    BY <2>1, <2>4 DEF StoreEpoch, BumpSequence, CheckActive, words
  <2>5. CASE CheckRelease(t) \/ LoadRelease(t) \/ FutexWait(t)
    BY <2>1, <2>5 DEF CheckRelease, LoadRelease, FutexWait, words
  <2> QED
    BY <1>3, <1>4, <1>7, <2>2, <2>3, <2>4, <2>5 DEF HandlerStep
<1>8. CASE WakeHandlers
  BY <1>1, <1>5, <1>8 DEF WakeHandlers, words
<1>9. CASE Prepare \/ NewRound \/ BeginRequest \/ WaitParked \/ Resume \/ DrainPending
  BY <1>6, <1>9, Zenon
  DEF Prepare, NewRound, BeginRequest, WaitParked, Resume, DrainPending, words, handler
<1>10. CASE OpenEpoch \/ ResetEpoch \/ ActivateEpoch \/ ClaimSlot \/ ZeroPC \/ ZeroEpoch
  BY <1>6, <1>10
  DEF OpenEpoch, ResetEpoch, ActivateEpoch, ClaimSlot, ZeroPC, ZeroEpoch, words, handler
<1>11. CASE SendSignal \/ CloseActive \/ WaitForHandlersToExit \/ RestoreDisposition
  BY <1>6, <1>11
  DEF SendSignal, CloseActive, WaitForHandlersToExit, RestoreDisposition, words, handler
<1>12. ASSUME NEW t \in Peer, Run(t) PROVE CountInv'
  BY <1>6, <1>12 DEF Run, words, handler
<1> QED
  BY <1>7, <1>8, <1>9, <1>10, <1>11, <1>12 DEF Next, CallStep

(* No round sends a peer two signals, and shutdown() waits for the last.   *)
LEMMA SignalStep ==
  ASSUME Inv, Next
  PROVE  SignalInv' /\ pending' \in [Peer -> 0..MaxRounds] /\ rounds' \in 0..MaxRounds
<1> DEFINE Goal == SignalInv' /\ pending' \in [Peer -> 0..MaxRounds] /\ rounds' \in 0..MaxRounds
<1>1. /\ pending \in [Peer -> 0..MaxRounds] /\ rounds \in 0..MaxRounds /\ MaxRounds \in Nat
      /\ SignalInv /\ EpochInv
  BY ParkAssumption DEF Inv, TypeOK
<1>2. ASSUME UNCHANGED <<installed, pending, requested, rounds>>,
             ctl' = "restore" => ctl = "restore", ctl' = "released" \/ installed
      PROVE  Goal
  BY <1>1, <1>2 DEF SignalInv
<1>3. ASSUME NEW t \in Peer, Deliver(t) PROVE Goal
  <2>1. /\ UNCHANGED <<installed, requested, rounds, ctl>> /\ pending[t] \in Nat /\ pending[t] > 0
        /\ pending'[t] = pending[t] - 1 /\ \A u \in Peer \ {t} : pending'[u] = pending[u]
        /\ pending' \in [Peer -> 0..MaxRounds]
    BY <1>1, <1>3 DEF Deliver, control
  <2> QED
    BY <1>1, <2>1 DEF SignalInv
<1>4. CASE Prepare
  BY <1>1, <1>4 DEF Prepare, SignalInv, control
<1>5. CASE NewRound
  <2>1. /\ UNCHANGED <<installed, pending>> /\ installed /\ rounds' = rounds + 1 /\ rounds < MaxRounds
        /\ ctl' = "idle" /\ requested' = {}
    BY <1>5 DEF NewRound
  <2> QED
    BY <1>1, <2>1 DEF SignalInv
<1>6. CASE SendSignal
  <2>1. UNCHANGED <<installed, rounds>> /\ ctl = "kill" /\ installed
    BY <1>1, <1>6 DEF SendSignal, SignalInv
  <2>2. CASE RequestFails /\ UNCHANGED <<pending, requested>>
    BY <1>2, <2>1, <2>2 DEF RequestFails
  <2>3. CASE /\ pending' = [pending EXCEPT ![current] = @ + 1]
             /\ requested' = requested \cup {current} /\ ctl' = "idle" /\ current' = NoPeer
    <3>1. current \in Peer \ requested /\ rounds > 0
      BY <1>1, <2>1 DEF EpochInv, Claiming
    <3>2. pending[current] \in 0..MaxRounds /\ pending[current] < rounds
      BY <1>1, <3>1 DEF SignalInv
    <3>3. /\ pending' \in [Peer -> 0..MaxRounds] /\ pending'[current] = pending[current] + 1
          /\ \A u \in Peer \ {current} : pending'[u] = pending[u]
      BY <1>1, <2>3, <3>1, <3>2
    <3> QED
      BY <1>1, <2>1, <2>3, <3>1, <3>2, <3>3 DEF SignalInv
  <2> QED
    BY <1>6, <2>2, <2>3 DEF SendSignal
<1>7. CASE DrainPending
  BY <1>1, <1>7 DEF DrainPending, SignalInv
<1>8. CASE RestoreDisposition
  BY <1>1, <1>8 DEF RestoreDisposition, SignalInv
<1>9. ASSUME NEW t \in Peer, HandlerStep(t) \/ Interrupt(t) \/ Run(t) PROVE Goal
  <2>1. UNCHANGED <<installed, pending, control>>
    BY <1>9, Zenon
    DEF HandlerStep, Interrupt, Run, EnterHandler, LoadEpoch, StorePC, StoreEpoch, BumpSequence,
                CheckActive, CheckRelease, LoadRelease, FutexWait, LeaveHandler
  <2> QED
    BY <1>1, <1>2, <2>1 DEF control, SignalInv
<1>10. CASE BeginRequest \/ WaitParked \/ Resume \/ OpenEpoch \/ ResetEpoch \/ ActivateEpoch
  <2>1. ctl # "released" => installed
    BY <1>1 DEF SignalInv
  <2> QED
    BY <1>2, <1>10, <2>1, Zenon
    DEF BeginRequest, WaitParked, Resume, OpenEpoch, ResetEpoch, ActivateEpoch, RequestFails
<1>11. CASE \/ ClaimSlot \/ ZeroPC \/ ZeroEpoch \/ CloseActive
            \/ WakeHandlers \/ WaitForHandlersToExit
  <2>1. ctl # "released" => installed
    BY <1>1 DEF SignalInv
  <2> QED
    BY <1>2, <1>11, <2>1
    DEF ClaimSlot, ZeroPC, ZeroEpoch, CloseActive, WakeHandlers, WaitForHandlersToExit, RequestFails
<1> QED
  BY <1>3, <1>4, <1>5, <1>6, <1>7, <1>8, <1>9, <1>10, <1>11 DEF Next, CallStep


(* Type correctness: the counters are bounded by the two lemmas above.     *)
LEMMA TypeStep ==
  ASSUME Inv, Next
  PROVE  TypeOK'
<1>1. handlerCount' \in 0..Cardinality(Peer)
  <2>1. Inside' \subseteq Peer /\ IsFiniteSet(Peer)
    BY ParkAssumption DEF Inside
  <2>2. /\ Cardinality(Inside') \in Nat /\ Cardinality(Peer) \in Nat
        /\ Cardinality(Inside') <= Cardinality(Peer)
    BY <2>1, FS_Subset, FS_CardinalityType
  <2> QED
    BY <2>2, CountStep DEF CountInv
<1>2. pending' \in [Peer -> 0..MaxRounds] /\ rounds' \in 0..MaxRounds
  BY SignalStep
<1>3. TypeOK /\ EpochInv /\ NoPC \in {NoPC, "inside", "outside"}
  BY DEF Inv
<1> USE <1>1, <1>2, <1>3 DEF TypeOK, Rests, Loop
<1>4. ASSUME NEW t \in Peer, Run(t) \/ Deliver(t) \/ EnterHandler(t) \/ Interrupt(t) PROVE TypeOK'
  BY <1>4, ZenonT(40)
  DEF Run, Deliver, EnterHandler, Interrupt, At, words, slots, locals, handler, control
<1>5. ASSUME NEW t \in Peer, LoadEpoch(t) \/ LeaveHandler(t) PROVE TypeOK'
  BY <1>5 DEF LoadEpoch, LeaveHandler, At, words, slots, locals, control
<1>6. ASSUME NEW t \in Peer, StorePC(t) PROVE TypeOK'
  BY <1>6 DEF StorePC, At, words, locals, control
<1>7. ASSUME NEW t \in Peer, StoreEpoch(t) \/ BumpSequence(t) PROVE TypeOK'
  BY <1>7, SMTT(30) DEF StoreEpoch, BumpSequence, At, words, slots, locals, control
<1>8. ASSUME NEW t \in Peer, CheckActive(t) \/ CheckRelease(t) PROVE TypeOK'
  BY <1>8, ZenonT(40) DEF CheckActive, CheckRelease, At, words, slots, locals, control
<1>9. ASSUME NEW t \in Peer, LoadRelease(t) \/ FutexWait(t) PROVE TypeOK'
  BY <1>9, SMTT(30) DEF LoadRelease, FutexWait, At, words, slots, locals, control
<1>10. CASE Prepare \/ NewRound \/ BeginRequest
  BY <1>10, ZenonT(40)
  DEF Prepare, NewRound, BeginRequest, ClearSlots, words, slots, locals, handler, control
<1>11. CASE WaitParked \/ Resume \/ DrainPending
  BY <1>11, ZenonT(40) DEF WaitParked, Resume, DrainPending, words, slots, locals, handler
<1>12. CASE OpenEpoch \/ ResetEpoch \/ ActivateEpoch
  BY <1>12, ZenonT(40)
  DEF OpenEpoch, ResetEpoch, ActivateEpoch, RequestFails, ClearSlots, words, slots, locals, handler
<1>13. CASE ClaimSlot \/ ZeroPC \/ ZeroEpoch \/ SendSignal
  <2>1. current \in Peer
    BY <1>13, Zenon DEF EpochInv, ClaimSlot, ZeroPC, ZeroEpoch, SendSignal, Claiming
  <2>2. CASE ClaimSlot
    BY <2>1, <2>2, SMTT(30) DEF ClaimSlot, RequestFails, words, locals, handler
  <2>3. CASE ZeroPC \/ ZeroEpoch
    BY <2>1, <2>3, Zenon DEF ZeroPC, ZeroEpoch, words, locals, handler
  <2>4. CASE SendSignal
    BY <2>1, <2>4, ZenonT(40) DEF SendSignal, RequestFails, words, slots, locals, handler
  <2> QED
    BY <1>13, <2>2, <2>3, <2>4, Zenon
<1>14. CASE CloseActive \/ WakeHandlers \/ WaitForHandlersToExit \/ RestoreDisposition
  BY <1>14, ZenonT(40)
  DEF CloseActive, WakeHandlers, WaitForHandlersToExit, RestoreDisposition, words, slots, locals, handler
<1> QED
  BY <1>4, <1>5, <1>6, <1>7, <1>8, <1>9, <1>10, <1>11, <1>12, <1>13, <1>14, Zenon
  DEF Next, CallStep, HandlerStep

(* What a peer leaves alone: the controlling thread, and what is another   *)
(* peer's.                                                                 *)
PeerStep(t) == Run(t) \/ Deliver(t) \/ HandlerStep(t) \/ Interrupt(t)

(* A handler touches its own slot and no word of an epoch.                 *)
LEMMA PeerKeeps ==
  ASSUME TypeOK, NEW t \in Peer, PeerStep(t)
  PROVE  /\ UNCHANGED <<installed, activeEpoch, releaseEpoch, claimed, control>>
         /\ \A u \in Peer \ {t} : /\ hpc'[u] = hpc[u] /\ hepoch'[u] = hepoch[u] /\ where'[u] = where[u]
                                  /\ slotPC'[u] = slotPC[u] /\ slotEpoch'[u] = slotEpoch[u]
<1>1. /\ slotPC \in [Peer -> {NoPC, "inside", "outside"}] /\ slotEpoch \in [Peer -> Epoch \cup {0}]
      /\ where \in [Peer -> {"inside", "outside"}] /\ hepoch \in [Peer -> Epoch \cup {0}]
      /\ hpc \in [Peer -> {"out", "delivered", "entered", "storePC", "storeEpoch", "leave"} \cup Loop]
  BY DEF TypeOK
<1>2. CASE Run(t) \/ Deliver(t) \/ EnterHandler(t) \/ Interrupt(t)
  BY <1>1, <1>2 DEF Run, Deliver, EnterHandler, Interrupt, At, words, slots, locals, handler
<1>3. CASE LoadEpoch(t) \/ StorePC(t) \/ StoreEpoch(t) \/ BumpSequence(t)
  BY <1>1, <1>3 DEF LoadEpoch, StorePC, StoreEpoch, BumpSequence, At, words, slots, locals
<1>4. CASE CheckActive(t) \/ CheckRelease(t) \/ LoadRelease(t) \/ FutexWait(t) \/ LeaveHandler(t)
  BY <1>1, <1>4, Zenon
  DEF CheckActive, CheckRelease, LoadRelease, FutexWait, LeaveHandler, At, words, slots, locals
<1> QED
  BY <1>2, <1>3, <1>4, Zenon DEF PeerStep, HandlerStep

(* Handlers that find no active epoch leave again.                         *)
LEMMA QuietKept ==
  ASSUME TypeOK, NEW t \in Peer, PeerStep(t), Quiet, activeEpoch = 0
  PROVE  Quiet' /\ UNCHANGED slotEpoch
<1>1. hpc \in [Peer -> {"out", "delivered", "entered", "storePC", "storeEpoch", "leave"} \cup Loop]
  BY DEF TypeOK
<1>2. hpc[t] \in {"out", "delivered", "entered", "leave"}
  BY DEF Quiet
<1>3. hpc'[t] \in {"out", "delivered", "entered", "leave"} /\ UNCHANGED slotEpoch
  BY <1>1, <1>2, Zenon
  DEF PeerStep, HandlerStep, Run, Deliver, Interrupt, EnterHandler, LoadEpoch, StorePC, StoreEpoch,
      BumpSequence, CheckActive, CheckRelease, LoadRelease, FutexWait, LeaveHandler, At, slots, handler
<1> QED
  BY <1>3, PeerKeeps, Zenon DEF Quiet

(* An epoch opens only when the last one is closed and its handlers have   *)
(* left.                                                                   *)
LEMMA EpochStep ==
  ASSUME Inv, Next
  PROVE  EpochInv' /\ QuietInv'
<1>1. TypeOK /\ CountInv /\ EpochInv /\ QuietInv
  BY DEF Inv
<1>2. ASSUME NEW t \in Peer, PeerStep(t) PROVE EpochInv' /\ QuietInv'
  <2>1. UNCHANGED <<activeEpoch, releaseEpoch, control>>
    BY <1>1, <1>2, PeerKeeps
  <2>2. QuietInv'
    BY <1>1, <1>2, <2>1, QuietKept DEF QuietInv, EpochInv, Opening, control
  <2>3. ctl = "activate" => UNCHANGED slotEpoch
    BY <1>1, <1>2, QuietKept DEF QuietInv, EpochInv, Opening
  <2>4. EpochInv'
    BY <1>1, <2>1, <2>3 DEF EpochInv, control
  <2> QED
    BY <2>2, <2>4
<1>3. CASE Prepare
  BY <1>1, <1>3 DEF Prepare, EpochInv, QuietInv, Quiet, Opening, Claiming, control, handler
<1>4. CASE NewRound
  BY <1>1, <1>4, ParkAssumption, SMTT(30)
  DEF NewRound, TypeOK, EpochInv, QuietInv, Opening, Claiming, words
<1>5. CASE BeginRequest \/ WaitParked \/ Resume
  BY <1>1, <1>5, SMTT(30)
  DEF BeginRequest, WaitParked, Resume, EpochInv, QuietInv, Opening, Claiming, words, slots
<1>6. CASE OpenEpoch
  <2>1. handlerCount = 0 => Quiet
    BY <1>1, Counted DEF Quiet
  <2> QED
    BY <1>1, <1>6, <2>1, Zenon
    DEF OpenEpoch, RequestFails, EpochInv, QuietInv, Quiet, Opening, Claiming, words, slots, handler
<1>7. CASE ResetEpoch
  BY <1>1, <1>7, Zenon
  DEF ResetEpoch, ClearSlots, EpochInv, QuietInv, Quiet, Opening, Claiming, handler
<1>8. CASE ActivateEpoch
  BY <1>1, <1>8, Zenon DEF ActivateEpoch, EpochInv, QuietInv, Opening, Claiming
<1>9. CASE ClaimSlot \/ ZeroPC \/ ZeroEpoch \/ SendSignal
  BY <1>1, <1>9, Zenon
  DEF ClaimSlot, ZeroPC, ZeroEpoch, SendSignal, RequestFails, EpochInv, QuietInv, Opening, Claiming, words
<1>10. CASE CloseActive \/ WakeHandlers
  BY <1>1, <1>10, SMTT(30)
  DEF CloseActive, WakeHandlers, EpochInv, QuietInv, Opening, Claiming, words, slots
<1>11. CASE WaitForHandlersToExit
  <2>1. handlerCount = 0 => Quiet
    BY <1>1, Counted DEF Quiet
  <2> QED
    BY <1>1, <1>11, <2>1, Zenon
    DEF WaitForHandlersToExit, EpochInv, QuietInv, Quiet, Opening, Claiming, words, slots, handler
<1>12. CASE DrainPending \/ RestoreDisposition
  BY <1>1, <1>12, SMTT(30)
  DEF DrainPending, RestoreDisposition, EpochInv, QuietInv, Quiet, Opening, Claiming, words, slots, handler
<1> QED
  BY <1>2, <1>3, <1>4, <1>5, <1>6, <1>7, <1>8, <1>9, <1>10, <1>11, <1>12
  DEF Next, CallStep, PeerStep

(* A handler past its load belongs to the active epoch, and it is held     *)
(* from its mark until the controlling thread releases that epoch.         *)
LEMMA HandlersHeld ==
  ASSUME Inv, Next
  PROVE  HandlerInv'
<1>1. TypeOK /\ EpochInv /\ QuietInv /\ HandlerInv
  BY DEF Inv
<1>2. ASSUME NEW t \in Peer, PeerStep(t) PROVE HandlerInv'
  <2>1. /\ UNCHANGED <<activeEpoch, releaseEpoch, ctl>>
        /\ \A u \in Peer \ {t} : /\ hpc'[u] = hpc[u] /\ hepoch'[u] = hepoch[u] /\ where'[u] = where[u]
                                 /\ slotPC'[u] = slotPC[u] /\ slotEpoch'[u] = slotEpoch[u]
    BY <1>1, <1>2, PeerKeeps, Zenon DEF control
  <2> DEFINE Kept ==
        /\ hpc'[t] \in {"storePC", "storeEpoch"} \cup Loop => hepoch'[t] = activeEpoch
        /\ hpc'[t] \in {"storeEpoch"} \cup Loop => slotPC'[t] \in {NoPC, where'[t]}
        /\ slotEpoch'[t] \in {0, activeEpoch}
        /\ ctl # "closeActive" /\ slotEpoch'[t] # 0 => hpc'[t] \in Loop
  <2> SUFFICES ASSUME activeEpoch # 0 PROVE Kept
    BY <1>1, <2>1, Zenon DEF HandlerInv
  <2>2. /\ hpc[t] \in {"storePC", "storeEpoch"} \cup Loop => hepoch[t] = activeEpoch
        /\ hpc[t] \in {"storeEpoch"} \cup Loop => slotPC[t] \in {NoPC, where[t]}
        /\ slotEpoch[t] \in {0, activeEpoch}
        /\ ctl # "closeActive" /\ slotEpoch[t] # 0 => hpc[t] \in Loop
        /\ ctl # "closeActive" => releaseEpoch = 0
    BY <1>1, Zenon DEF HandlerInv, EpochInv
  <2>3. /\ slotPC \in [Peer -> {NoPC, "inside", "outside"}] /\ slotEpoch \in [Peer -> Epoch \cup {0}]
        /\ where \in [Peer -> {"inside", "outside"}] /\ hepoch \in [Peer -> Epoch \cup {0}]
        /\ hpc \in [Peer -> {"out", "delivered", "entered", "storePC", "storeEpoch", "leave"} \cup Loop]
    BY <1>1 DEF TypeOK
  <2>4. CASE Run(t) \/ Deliver(t) \/ EnterHandler(t) \/ Interrupt(t)
    BY <2>2, <2>3, <2>4, Zenon
    DEF Run, Deliver, EnterHandler, Interrupt, At, Loop, slots, locals, handler
  <2>5. CASE LoadEpoch(t)
    BY <2>2, <2>3, <2>5, Zenon DEF LoadEpoch, At, Loop, slots
  <2>6. CASE StorePC(t)
    BY <2>2, <2>3, <2>6, Zenon DEF StorePC, At, Loop, locals
  <2>7. CASE StoreEpoch(t) \/ BumpSequence(t)
    BY <2>2, <2>3, <2>7, Zenon DEF StoreEpoch, BumpSequence, At, Loop, slots, locals
  <2>8. CASE CheckActive(t) \/ CheckRelease(t)
    BY <2>2, <2>3, <2>8, Zenon DEF CheckActive, CheckRelease, At, Loop, slots, locals
  <2>9. CASE LoadRelease(t) \/ FutexWait(t) \/ LeaveHandler(t)
    BY <2>2, <2>3, <2>9, Zenon DEF LoadRelease, FutexWait, LeaveHandler, At, Loop, slots, locals
  <2> QED
    BY <1>2, <2>4, <2>5, <2>6, <2>7, <2>8, <2>9, Zenon DEF PeerStep, HandlerStep
<1>3. CASE Prepare \/ CloseActive
  BY <1>3, Zenon DEF Prepare, CloseActive, HandlerInv
<1>4. CASE ActivateEpoch
  BY <1>1, <1>4, Zenon
  DEF ActivateEpoch, EpochInv, QuietInv, Quiet, HandlerInv, Loop, slots, handler
<1>5. CASE OpenEpoch \/ ResetEpoch \/ WakeHandlers \/ WaitForHandlersToExit
  BY <1>1, <1>5, Zenon
  DEF OpenEpoch, ResetEpoch, WakeHandlers, WaitForHandlersToExit, EpochInv, HandlerInv, Opening, words
<1>6. CASE ClaimSlot \/ ZeroPC \/ ZeroEpoch
  <2>1. current \in Peer
    BY <1>1, <1>6, Zenon DEF EpochInv, ClaimSlot, ZeroPC, ZeroEpoch, Claiming
  <2> QED
    BY <1>1, <1>6, <2>1, Zenon
    DEF ClaimSlot, ZeroPC, ZeroEpoch, RequestFails, TypeOK, HandlerInv, words, locals, handler
<1>7. CASE NewRound \/ BeginRequest \/ SendSignal \/ WaitParked \/ Resume
  BY <1>1, <1>7, Zenon
  DEF NewRound, BeginRequest, SendSignal, RequestFails, WaitParked, Resume, HandlerInv, words, slots, locals, handler
<1>8. CASE DrainPending \/ RestoreDisposition
  BY <1>1, <1>8, Zenon
  DEF DrainPending, RestoreDisposition, HandlerInv, words, slots, locals, handler
<1> QED
  BY <1>2, <1>3, <1>4, <1>5, <1>6, <1>7, <1>8 DEF Next, CallStep, PeerStep

(* What the coordinator accepted is neither stored over by the handler,    *)
(* which is held, nor zeroed by a request for another peer.                *)
LEMMA AcceptedStep ==
  ASSUME Inv, Next
  PROVE  AcceptedInv'
<1>1. TypeOK /\ EpochInv /\ HandlerInv /\ AcceptedInv
  BY DEF Inv
<1>2. accepted \subseteq Peer /\ accepted \subseteq requested
  BY <1>1 DEF TypeOK
<1>3. ASSUME NEW t \in Peer, PeerStep(t) PROVE AcceptedInv'
  <2>1. /\ UNCHANGED <<activeEpoch, ctl, accepted>>
        /\ \A u \in Peer \ {t} : slotPC'[u] = slotPC[u] /\ slotEpoch'[u] = slotEpoch[u]
    BY <1>1, <1>3, PeerKeeps DEF control
  <2>2. t \in accepted => hpc[t] \in Loop
    BY <1>1, <1>2 DEF AcceptedInv, HandlerInv, Claiming
  <2>3. t \in accepted => UNCHANGED <<slotPC, slotEpoch>>
    BY <1>3, <2>2, Zenon
    DEF PeerStep, HandlerStep, Run, Deliver, Interrupt, EnterHandler, LoadEpoch, StorePC, StoreEpoch,
        BumpSequence, CheckActive, CheckRelease, LoadRelease, FutexWait, LeaveHandler, At, Loop, slots
  <2> QED
    BY <1>1, <1>2, <2>1, <2>3, Zenon DEF AcceptedInv
<1>4. CASE WaitParked
  BY <1>1, <1>2, <1>4, Zenon
  DEF WaitParked, ValidSnapshot, EpochInv, AcceptedInv, Claiming, words, slots
<1>5. CASE NewRound \/ BeginRequest \/ Resume \/ SendSignal
  BY <1>1, <1>5, Zenon
  DEF NewRound, BeginRequest, Resume, SendSignal, RequestFails, AcceptedInv, Claiming, words, slots
<1>6. CASE ClaimSlot \/ ZeroPC \/ ZeroEpoch
  <2>1. current \in Peer \ requested
    BY <1>1, <1>6, Zenon DEF EpochInv, ClaimSlot, ZeroPC, ZeroEpoch, Claiming
  <2> QED
    BY <1>1, <1>2, <1>6, <2>1, Zenon
    DEF ClaimSlot, ZeroPC, ZeroEpoch, RequestFails, TypeOK, AcceptedInv, Claiming, words
<1>7. CASE OpenEpoch \/ ResetEpoch \/ ActivateEpoch \/ CloseActive \/ WakeHandlers
  BY <1>1, <1>7, Zenon
  DEF OpenEpoch, ResetEpoch, ActivateEpoch, CloseActive, WakeHandlers, AcceptedInv, Claiming
<1>8. CASE Prepare \/ WaitForHandlersToExit \/ DrainPending \/ RestoreDisposition
  BY <1>1, <1>8, Zenon
  DEF Prepare, WaitForHandlersToExit, DrainPending, RestoreDisposition, AcceptedInv, Claiming, control
<1> QED
  BY <1>3, <1>4, <1>5, <1>6, <1>7, <1>8 DEF Next, CallStep, PeerStep

-----------------------------------------------------------------------------
(* An unprepared backend satisfies the invariant.                          *)
THEOREM InvInit == Init => Inv
<1> SUFFICES ASSUME Init PROVE Inv
  OBVIOUS
<1>1. Inside = {} /\ Cardinality({}) = 0
  BY FS_EmptySet DEF Init, Inside
<1>2. CountInv /\ Cardinality(Peer) \in Nat
  BY <1>1, ParkAssumption, FS_CardinalityType DEF Init, CountInv
<1>3. TypeOK
  <2>1. 0 \in 0..Cardinality(Peer) /\ 0 \in 0..MaxRounds
    BY <1>2, ParkAssumption
  <2> QED
    BY <2>1, Zenon DEF Init, TypeOK, Rests, Loop
<1>4. EpochInv /\ QuietInv /\ SignalInv /\ HandlerInv /\ AcceptedInv
  BY ParkAssumption, SMTT(30)
  DEF Init, EpochInv, QuietInv, Quiet, SignalInv, HandlerInv, AcceptedInv, Opening, Claiming
<1> QED
  BY <1>2, <1>3, <1>4 DEF Inv

(* Every access of the controlling thread and of a handler preserves it.   *)
THEOREM InvStep == Inv /\ [Next]_vars => Inv'
<1> SUFFICES ASSUME Inv, [Next]_vars PROVE Inv'
  OBVIOUS
<1>1. CASE Next
  BY <1>1, CountStep, SignalStep, TypeStep, EpochStep, HandlersHeld, AcceptedStep DEF Inv
<1>2. CASE UNCHANGED vars
  BY <1>2, SMTT(30)
  DEF vars, words, slots, locals, handler, control, Inv, TypeOK, CountInv, Inside, EpochInv, QuietInv, Quiet,
      SignalInv, HandlerInv, AcceptedInv
<1> QED
  BY <1>1, <1>2

(* The inductive invariant holds in every reachable state.                 *)
THEOREM Invariance == Spec => []Inv
<1> QED
  BY InvInit, InvStep, PTL DEF Spec

(* Type correctness; in particular handlerCount never underflows, and no   *)
(* peer has more signals pending than there were rounds.                   *)
THEOREM TypeCorrect == Spec => []TypeOK
<1>1. Inv => TypeOK
  BY DEF Inv
<1> QED
  BY <1>1, Invariance, PTL

(* A snapshot that was accepted stays true until the epoch is resumed,     *)
(* whatever late signals and further requests do.                          *)
THEOREM SnapshotsAreTrue == Spec => []SnapshotIsTrue
<1>1. ASSUME Inv PROVE SnapshotIsTrue
  <2> SUFFICES ASSUME NEW t \in accepted
               PROVE  /\ hpc[t] \in Loop
                      /\ hepoch[t] = activeEpoch /\ releaseEpoch # activeEpoch
                      /\ slotPC[t] = where[t]
    BY Zenon DEF SnapshotIsTrue
  <2>1. /\ t \in Peer /\ activeEpoch # 0 /\ ctl # "closeActive"
        /\ slotEpoch[t] = activeEpoch /\ slotPC[t] # NoPC
    BY <1>1, Zenon DEF Inv, TypeOK, AcceptedInv, Claiming
  <2>2. hpc[t] \in Loop /\ hepoch[t] = activeEpoch /\ slotPC[t] \in {NoPC, where[t]}
    BY <1>1, <2>1, Zenon DEF Inv, HandlerInv
  <2> QED
    BY <1>1, <2>1, <2>2, Zenon DEF Inv, EpochInv
<1> QED
  BY <1>1, Invariance, PTL

(* After resumeEpoch() has returned true no peer is or comes to be held.   *)
THEOREM ResumeReleases == Spec => []ResumeReleasesAll
<1>1. Inv => ResumeReleasesAll
  BY DEF Inv, QuietInv, Quiet, ResumeReleasesAll
<1> QED
  BY <1>1, Invariance, PTL

(* A handler of an earlier epoch marks no slot of the current one.         *)
THEOREM MarksAreCurrent == Spec => []NoStaleMark
<1>1. Inv => NoStaleMark
  BY DEF Inv, HandlerInv, NoStaleMark
<1> QED
  BY <1>1, Invariance, PTL

(* No park signal is left when shutdown() has restored the disposition.    *)
THEOREM RestoredWithoutSignals == Spec => []NoSignalAfterRestore
<1>1. Inv => NoSignalAfterRestore
  BY DEF Inv, SignalInv, NoSignalAfterRestore
<1> QED
  BY <1>1, Invariance, PTL
=============================================================================
