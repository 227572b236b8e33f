-------------------------- MODULE CameraRouterProofs -------------------------
(***************************************************************************)
(* Proofs about CameraRouter, for any topologies that camera-map.sh would  *)
(* publish, any packages, providers and route tables, and any number of    *)
(* policy changes during a request.                                        *)
(***************************************************************************)
EXTENDS CameraRouter, FiniteSetTheorems, WellFoundedInduction, TLAPS

Active(w) == ~w.disabled /\ w.routes # <<>>

(* The steps after the caller, the slot and the provider are known.        *)
Replacing == {"camera1", "rewrite"}
Provided == {"enabled", "physical"} \cup Replacing
Targeted == {"routes", "lines"} \cup Provided
Identified == {"target"} \cup Targeted
UnderWay == {"policy", "table", "maps", "identity"} \cup Identified

(* The maps published so far are of this boot, and the marker is the last. *)
FileInv ==
  /\ \A i \in 1..4 : i <= stage => file[Maps[i]] = boot
  /\ routing /\ file["topology"] # None => stage = 4

RequestInv ==
  /\ used \subseteq {boot}
  /\ pc # "idle" => /\ req \in Request /\ policy \in was
                    /\ req.package # None => req.shape \in NamedShape
  /\ pc \in UnderWay => routing /\ req.observed /\ ~isInternalCameraId(req.id)

(* What routingPolicyActive() found: the flag and the table, which need    *)
(* not have been there at one time; only with both a request goes on to    *)
(* the maps of this boot.                                                  *)
PolicyInv ==
  /\ pc \in {"maps", "identity"} /\ ~configured => \E w \in was : ~Active(w)
  /\ pc = "table" => \E f \in was : ~f.disabled
  /\ pc \in {"maps", "identity"} \cup Identified /\ configured
       => \E f, w \in was : ~f.disabled /\ w.routes # <<>>
  /\ pc \in {"identity"} \cup Identified /\ configured => stage = 4
  /\ pc \in Identified => configured

(* The facts a decision rests on are those the properties ask for.         *)
Selected(c) ==
  \/ Physical[provider] = None /\ c = Internal(slot) /\ \E v \in was : provider \in v.enabled
  \/ Physical[provider] # None /\ c = boot.targets[Physical[provider]] /\ c # None
     /\ ~TakenForTarget(provider)
DecisionInv ==
  /\ pc \in Identified => who \in Entitled(req)
  /\ pc \in Targeted => slot \in RequestedSlots
  /\ pc \in Provided => /\ provider \in Provider
                        /\ \E f, w \in was : ~f.disabled /\ provider \in Rules(w.routes, who, slot)
  /\ pc = "enabled" => Physical[provider] = None
  /\ pc = "physical" => Physical[provider] # None
  /\ pc = "camera1" => Selected(replacement) /\ req.shape \in IntegerShape
  /\ pc = "rewrite" => replacement \in Nat /\ Selected(Opened(req.shape, replacement))

SystemType ==
  /\ boot \in Topology /\ routing \in BOOLEAN /\ stage \in 0..4
  /\ file \in [{Maps[i] : i \in 1..4} -> Topology \cup {None}] /\ policy \in Policy
RequestType ==
  /\ pc \in {"idle", "done"} \cup UnderWay /\ req \in Request \cup {None} /\ configured \in BOOLEAN
  /\ who \in Package \cup {None} /\ slot \in Slot \cup {None}
  /\ provider \in Provider \cup {None} /\ sent \in Nat \cup {Rejected, None}
  /\ was \subseteq Policy /\ used \subseteq Topology /\ fault \in BOOLEAN
  /\ changes \in 0..MaxChanges

(* What has been answered.                                                 *)
AnswerInv ==
  RefusedForCause /\ FollowsPolicy /\ (pc = "done" => sent # None)

Inv ==
  /\ SystemType /\ FileInv
  /\ RequestType /\ RequestInv /\ PolicyInv /\ DecisionInv /\ AnswerInv

-----------------------------------------------------------------------------
(* The first of some lines of a table.                                     *)
LEMMA FirstLine ==
  ASSUME NEW lines \in SUBSET Nat, lines # {}
  PROVE  Min(lines) \in lines /\ \A j \in lines : Min(lines) <= j
<1>1. PICK i \in lines : \A j \in lines : ~(<<j, i>> \in OpToRel(<, Nat))
  BY NatLessThanWellFounded, WFMin, Zenon
<1>2. ASSUME NEW j \in lines PROVE i <= j
  <2>1. j \in Nat /\ i \in Nat /\ <<j, i>> \in Nat \X Nat /\ <<j, i>>[1] = j /\ <<j, i>>[2] = i
    OBVIOUS
  <2>2. ~(j < i)
    BY <1>1, <2>1, Zenon DEF OpToRel
  <2> QED
    BY <2>1, <2>2
<1> QED
  BY <1>2, Zenon DEF Min

(* resolveProviderForPackage() picks a provider that the rules allow, and  *)
(* none only when they allow none.                                         *)
LEMMA RouteRule ==
  ASSUME NEW table \in RouteTable, NEW p \in Package \cup {None}, NEW s \in Slot
  PROVE  IF providerForPackage(table, p, s) = None THEN Rules(table, p, s) = {}
         ELSE /\ providerForPackage(table, p, s) \in Provider
              /\ providerForPackage(table, p, s) \in Rules(table, p, s)
<1> DEFINE own == LinesFor(table, p, s)
           all == LinesFor(table, AnyPackage, s)
<1>1. /\ table \in Seq(RouteLine) /\ DOMAIN table \subseteq Nat
      /\ \A i \in DOMAIN table : /\ table[i] \in RouteLine
                                 /\ \A j \in 1..(i - 1) : j \in DOMAIN table /\ j < i
  BY RouterAssumption
<1>2. \A i \in DOMAIN table : table[i].provider \in Provider /\ table[i].package \in Package \cup {AnyPackage}
  BY <1>1 DEF RouteLine
<1>3. own \in SUBSET Nat /\ all \in SUBSET Nat /\ own \subseteq DOMAIN table /\ all \subseteq DOMAIN table
  BY <1>1 DEF LinesFor
<1>4. p = None => own = {}
  BY <1>2, RouterAssumption DEF LinesFor
<1>5. CASE own # {}
  <2> DEFINE i == Min(own)
  <2>1. i \in own /\ \A j \in own : i <= j
    BY <1>3, <1>5, FirstLine
  <2>2. providerForPackage(table, p, s) = table[i].provider
    BY <1>4, <1>5 DEF providerForPackage
  <2> HIDE DEF i
  <2>3. \A j \in 1..(i - 1) : j \notin own
    BY <1>1, <1>3, <2>1
  <2>4. table[i].provider \in Rules(table, p, s)
    BY <1>1, <1>3, <2>1, <2>3, Zenon DEF Rules, LinesFor
  <2>5. table[i].provider \in Provider /\ table[i].provider # None
    BY <1>2, <1>3, <2>1, RouterAssumption
  <2> QED
    BY <2>2, <2>4, <2>5
<1>6. CASE own = {} /\ all # {}
  <2> DEFINE i == Min(all)
  <2>1. i \in all /\ \A j \in all : i <= j
    BY <1>3, <1>6, FirstLine
  <2>2. providerForPackage(table, p, s) = table[i].provider
    BY <1>6 DEF providerForPackage
  <2> HIDE DEF i
  <2>3. \A j \in 1..(i - 1) : j \notin all
    BY <1>1, <1>3, <2>1
  <2>4. table[i].provider \in Rules(table, p, s)
    BY <1>1, <1>3, <1>6, <2>1, <2>3, Zenon DEF Rules, LinesFor
  <2>5. table[i].provider \in Provider /\ table[i].provider # None
    BY <1>2, <1>3, <2>1, RouterAssumption
  <2> QED
    BY <2>2, <2>4, <2>5
<1>7. CASE own = {} /\ all = {}
  <2>1. providerForPackage(table, p, s) = None
    BY <1>7 DEF providerForPackage
  <2>2. Rules(table, p, s) = {}
    BY <1>7, Zenon DEF Rules, LinesFor
  <2> QED
    BY <2>1, <2>2
<1> QED
  BY <1>5, <1>6, <1>7

(* An empty table has no rule.                                             *)
LEMMA NoRules ==
  ASSUME NEW p, NEW s
  PROVE  Rules(<<>>, p, s) = {}
BY DEF Rules

(* A Camera1 index opens the camera it is the index of.                    *)
LEMMA OpenedByIndex ==
  ASSUME boot \in Topology, NEW shape \in IntegerShape, NEW c \in DOMAIN boot.index
  PROVE  Opened(shape, boot.index[c]) = c /\ boot.index[c] \in Nat /\ c \in Nat
<1> DEFINE cs == {d \in DOMAIN boot.index : boot.index[d] = boot.index[c]}
<1>1. ValidTopology(boot)
  BY RouterAssumption
<1>2. cs = {c}
  BY <1>1, Zenon DEF ValidTopology
<1>3. (CHOOSE d \in cs : TRUE) = c
  BY <1>2
<1>4. Opened(shape, boot.index[c]) = c
  BY <1>2, <1>3 DEF Opened
<1> QED
  BY <1>1, <1>4 DEF ValidTopology

(* What a decision is compared with does not change during a request.      *)
LEMMA SameRequest ==
  ASSUME boot' = boot, req' = req
  PROVE  /\ RequestedSlots' = RequestedSlots /\ Entitled(req)' = Entitled(req)
         /\ \A n : Opened(req.shape, n)' = Opened(req.shape, n)
         /\ \A f, w, e, p, s : Prescribed(f, w, e, p, s)' = Prescribed(f, w, e, p, s)
BY DEF RequestedSlots, Entitled, Opened, Prescribed, TakenForTarget

-----------------------------------------------------------------------------
(* A step of a request changes no file.                                    *)
LEMMA SystemKept ==
  ASSUME SystemType, FileInv, UNCHANGED <<system, policy>>
  PROVE  SystemType' /\ FileInv'
BY Zenon DEF SystemType, FileInv, system

(* A request is answered only in its last step.                            *)
LEMMA NotAnswered ==
  ASSUME pc' # "done"
  PROVE  AnswerInv'
BY Zenon DEF AnswerInv, RefusedForCause, FollowsPolicy, Routed

(* Its last step leaves nothing to decide.                                 *)
LEMMA Answered ==
  ASSUME RequestInv, pc # "idle", pc' = "done", UNCHANGED <<boot, req, was, policy>>,
         used' \subseteq {boot}
  PROVE  RequestInv' /\ PolicyInv' /\ DecisionInv'
<1>1. pc' # "idle" /\ pc' \notin UnderWay
  BY DEF UnderWay, Identified, Targeted, Provided, Replacing
<1>2. /\ pc' \notin Identified /\ pc' \notin {"table", "maps", "identity"} /\ pc' \notin Targeted
      /\ pc' \notin Provided /\ pc' \notin {"enabled", "physical", "camera1", "rewrite"}
  BY <1>1, Zenon DEF UnderWay, Identified, Targeted, Provided, Replacing
<1>3. RequestInv'
  BY <1>1, Zenon DEF RequestInv
<1>4. PolicyInv'
  BY <1>2, Zenon DEF PolicyInv
<1> QED
  BY <1>2, <1>3, <1>4, Zenon DEF DecisionInv

(* A request is refused: the reasons of RefusedForCause.                   *)
Cause ==
  \/ isInternalCameraId(req.id)
  \/ \E f, w \in was : /\ ~f.disabled /\ w.routes # <<>>
                       /\ \/ stage < 4
                          \/ \E p \in Entitled(req), s \in RequestedSlots :
                               \E r \in Rules(w.routes, p, s) :
                                 Physical[r] # None /\ boot.targets[Physical[r]] = None
(* Refusing for one of them is refusing for cause.                         *)
LEMMA Refused ==
  ASSUME Cause, Reject, UNCHANGED <<boot, stage, req>>, was \subseteq was'
  PROVE  AnswerInv'
<1>1. sent' = Rejected /\ pc' = "done" /\ sent' # None
  BY RouterAssumption DEF Reject
<1>2. RequestedSlots' = RequestedSlots /\ Entitled(req)' = Entitled(req)
  BY SameRequest
<1>3. Cause'
  BY <1>2, Zenon DEF Cause
<1>4. RefusedForCause'
  BY <1>1, <1>3, Zenon DEF RefusedForCause, Cause, Active
<1> QED
  BY <1>1, <1>4, Zenon DEF AnswerInv, FollowsPolicy

(* A request is sent on with the number n: what makes it right.            *)
Right(n) ==
  \/ RequestedSlots = {} /\ n = req.id
  \/ \E f, w, v \in was, p \in Entitled(req), s \in RequestedSlots :
       Opened(req.shape, n) \in Prescribed(f, w, v.enabled, p, s)
(* Sending that number keeps the promises of the answer.                   *)
LEMMA Sent ==
  ASSUME NEW n \in Nat, Forward(n), UNCHANGED <<boot, stage, req, was>>,
         ~isInternalCameraId(req.id),
         stage = 4 \/ \E w \in was : ~Active(w),
         fault' = TRUE \/ Right(n)
  PROVE  AnswerInv'
<1>1. sent' = n /\ pc' = "done" /\ sent' # Rejected /\ sent' # None
  BY RouterAssumption DEF Forward
<1>2. /\ RequestedSlots' = RequestedSlots /\ Entitled(req)' = Entitled(req)
      /\ Opened(req.shape, n)' = Opened(req.shape, n)
      /\ \A f, w, e, p, s : Prescribed(f, w, e, p, s)' = Prescribed(f, w, e, p, s)
  BY SameRequest, Zenon
<1>3. RefusedForCause'
  BY <1>1, Zenon DEF RefusedForCause, Active
<1>4. Right(n) => Right(n)'
  <2>1. CASE RequestedSlots = {} /\ n = req.id
    BY <1>2, <2>1, Zenon DEF Right
  <2>2. ASSUME NEW f \in was, NEW w \in was, NEW v \in was, NEW p \in Entitled(req),
               NEW s \in RequestedSlots, Opened(req.shape, n) \in Prescribed(f, w, v.enabled, p, s)
        PROVE  Right(n)'
    <3>1. Opened(req.shape, n)' \in Prescribed(f, w, v.enabled, p, s)'
      BY <1>2, <2>2, Zenon
    <3>2. f \in was' /\ w \in was' /\ v \in was' /\ p \in Entitled(req)' /\ s \in RequestedSlots'
      BY <1>2, Zenon
    <3> QED
      BY <3>1, <3>2, Zenon DEF Right
  <2> QED
    BY <2>1, <2>2, Zenon DEF Right
<1>5. FollowsPolicy'
  <2>1. CASE fault' = TRUE
    BY <2>1, Zenon DEF FollowsPolicy
  <2>2. CASE Right(sent)'
    BY <2>2, Zenon DEF FollowsPolicy, Right
  <2>3. Right(n)' => Right(sent)'
    BY <1>1 DEF Right
  <2> QED
    BY <1>4, <2>1, <2>2, <2>3, Zenon
<1> QED
  BY <1>1, <1>3, <1>5, Zenon DEF AnswerInv

-----------------------------------------------------------------------------
(* The groups of steps, listed.                                            *)
LEMMA Steps ==
  /\ Identified = {"target", "routes", "lines", "enabled", "physical", "camera1", "rewrite"}
  /\ Targeted = {"routes", "lines", "enabled", "physical", "camera1", "rewrite"}
  /\ Provided = {"enabled", "physical", "camera1", "rewrite"}
  /\ UnderWay = {"policy", "table", "maps", "identity", "target", "routes", "lines", "enabled",
                 "physical", "camera1", "rewrite"}
BY DEF UnderWay, Identified, Targeted, Provided, Replacing

(* camera-map.sh publishes four files, the topology marker last.           *)
LEMMA MapFiles ==
  /\ Maps[1] = "targets" /\ Maps[2] = "camera1Targets" /\ Maps[3] = "camera1Map"
  /\ Maps[4] = "topology"
  /\ {Maps[i] : i \in 1..4} = {"targets", "camera1Targets", "camera1Map", "topology"}
<1>1. /\ Maps[1] = "targets" /\ Maps[2] = "camera1Targets" /\ Maps[3] = "camera1Map"
      /\ Maps[4] = "topology"
  BY DEF Maps
<1>2. 1..4 = {1, 2, 3, 4}
  OBVIOUS
<1> QED
  BY <1>1, <1>2, Zenon

(* With all maps published, every file is of this boot.                    *)
LEMMA AllOfThisBoot ==
  ASSUME FileInv, stage = 4, NEW m \in {"targets", "camera1Targets", "camera1Map", "topology"}
  PROVE  file[m] = boot
<1>1. \A i \in 1..4 : file[Maps[i]] = boot
  BY DEF FileInv
<1> QED
  BY <1>1, MapFiles, Zenon

(* A request that ended has left nothing behind.                           *)
LEMMA Ended ==
  ASSUME EndRequest
  PROVE  RequestType' /\ RequestInv' /\ PolicyInv' /\ DecisionInv' /\ AnswerInv'
<1>1. pc' = "idle" /\ pc' \notin UnderWay
  BY Steps DEF EndRequest
<1>2. RequestType'
  <2>1. 0 \in 0..MaxChanges
    BY RouterAssumption
  <2> QED
    BY <1>1, <2>1, Zenon DEF EndRequest, RequestType
<1>3. RequestInv'
  BY <1>1, Zenon DEF EndRequest, RequestInv
<1>4. PolicyInv' /\ DecisionInv'
  BY <1>1, Steps, Zenon DEF PolicyInv, DecisionInv
<1> QED
  BY <1>1, <1>2, <1>3, <1>4, NotAnswered, Zenon

(* post-mount.sh removes the marker and ends every request.                *)
LEMMA RebootStep ==
  ASSUME Inv, NEW t \in Topology, NEW r \in BOOLEAN, Reboot(t, r)
  PROVE  Inv'
<1>1. /\ boot' = t /\ routing' = r /\ stage' = 0 /\ policy' = policy
      /\ file' = IF r THEN [file EXCEPT !["topology"] = None] ELSE file
  BY DEF Reboot
<1>2. SystemType'
  <2>1. file' \in [{Maps[i] : i \in 1..4} -> Topology \cup {None}]
    BY <1>1, Zenon DEF Inv, SystemType
  <2>2. stage' \in 0..4
    BY <1>1
  <2> QED
    BY <1>1, <2>1, <2>2, Zenon DEF Inv, SystemType
<1>3. FileInv'
  <2>1. r => file'["topology"] = None
    BY <1>1, MapFiles, Zenon DEF Inv, SystemType
  <2>2. \A i \in 1..4 : ~(i <= stage')
    BY <1>1
  <2> QED
    BY <1>1, <2>1, <2>2, Zenon DEF FileInv
<1> QED
  BY <1>2, <1>3, Ended, Zenon DEF Inv, Reboot

(* A request that has returned leaves nothing behind.                      *)
LEMMA ReturnStep ==
  ASSUME Inv, Return
  PROVE  Inv'
BY SystemKept, Ended, Zenon DEF Inv, Return

(* What a request knows is not affected by the next map, and a change of   *)
(* policy only adds to the ones in force.                                  *)
LEMMA RequestGoesOn ==
  ASSUME RequestType, RequestInv, PolicyInv, DecisionInv, pc # "done",
         UNCHANGED <<boot, routing, pc, req, decision, sent, used, fault>>,
         was \subseteq was', was' \subseteq Policy, pc # "idle" => policy' \in was',
         stage = 4 => stage' = 4, changes' \in 0..MaxChanges
  PROVE  RequestType' /\ RequestInv' /\ PolicyInv' /\ DecisionInv' /\ AnswerInv'
<1>1. UNCHANGED <<configured, who, slot, provider, replacement>>
  BY DEF decision
<1>2. /\ RequestedSlots' = RequestedSlots /\ Entitled(req)' = Entitled(req)
      /\ \A n : Opened(req.shape, n)' = Opened(req.shape, n)
  BY SameRequest, Zenon
<1>3. RequestType' /\ RequestInv'
  BY <1>1, ZenonT(40) DEF RequestType, RequestInv
<1>4. PolicyInv'
  BY <1>1, Zenon DEF PolicyInv
<1>5. \A c : Selected(c) => Selected(c)'
  BY <1>1, Zenon DEF Selected, TakenForTarget
<1>6. DecisionInv'
  BY <1>1, <1>2, <1>5, Zenon DEF DecisionInv
<1> QED
  BY <1>3, <1>4, <1>6, NotAnswered, Zenon

(* The next map file is replaced by that of this boot.                     *)
LEMMA PublishStep ==
  ASSUME Inv, PublishMap
  PROVE  Inv'
<1>1. /\ routing /\ stage \in 0..3 /\ pc # "done" /\ stage' = stage + 1 /\ stage' \in 1..4
      /\ file' = [file EXCEPT ![Maps[stage']] = boot]
      /\ boot' = boot /\ routing' = routing /\ policy' = policy
  BY DEF Inv, SystemType, PublishMap
<1>2. \A i, j \in 1..4 : Maps[i] = Maps[j] => i = j
  BY DEF Maps
<1>3. /\ file' \in [{Maps[i] : i \in 1..4} -> Topology \cup {None}]
      /\ file'[Maps[stage']] = boot
      /\ \A i \in 1..4 : i # stage' => file'[Maps[i]] = file[Maps[i]]
  BY <1>1, <1>2, Zenon DEF Inv, SystemType
<1>4. SystemType'
  <2>1. stage' \in 0..4
    BY <1>1
  <2> QED
    BY <1>1, <1>3, <2>1, Zenon DEF Inv, SystemType
<1>5. FileInv'
  <2>1. ASSUME NEW i \in 1..4, i <= stage' PROVE file'[Maps[i]] = boot'
    <3>1. CASE i = stage'
      BY <1>1, <1>3, <3>1, Zenon
    <3>2. CASE i # stage'
      <4>1. i <= stage
        BY <1>1, <2>1, <3>2
      <4> QED
        BY <1>1, <1>3, <3>2, <4>1, Zenon DEF Inv, FileInv
    <3> QED
      BY <3>1, <3>2
  <2>2. ASSUME routing', file'["topology"] # None PROVE stage' = 4
    <3>1. stage # 4
      BY <1>1
    <3>2. file["topology"] = None
      BY <1>1, <3>1, Zenon DEF Inv, FileInv
    <3>3. stage' # 4 => file'["topology"] = file["topology"]
      <4>1. 4 \in 1..4
        OBVIOUS
      <4> QED
        BY <1>3, <4>1, MapFiles, Zenon
    <3> QED
      BY <2>2, <3>2, <3>3, Zenon
  <2> QED
    BY <2>1, <2>2, Zenon DEF FileInv
<1>6. RequestType' /\ RequestInv' /\ PolicyInv' /\ DecisionInv' /\ AnswerInv'
  <2>1. stage # 4
    BY <1>1
  <2>2. was' = was /\ was \subseteq Policy /\ (pc # "idle" => policy' \in was') /\ changes' \in 0..MaxChanges
    BY <1>1, Zenon DEF Inv, RequestType, RequestInv, PublishMap, history
  <2>3. UNCHANGED <<boot, routing, pc, req, decision, sent, used, fault>>
    BY Zenon DEF PublishMap, history
  <2> QED
    BY <1>1, <2>1, <2>2, <2>3, RequestGoesOn, Zenon DEF Inv
<1> QED
  BY <1>4, <1>5, <1>6, Zenon DEF Inv

(* vcamctl changes the policy during a request.                            *)
LEMMA ChangePolicyStep ==
  ASSUME Inv, ChangePolicy
  PROVE  Inv'
<1>1. policy' \in Policy
  <2>1. policy \in Policy
    BY DEF Inv, SystemType
  <2>2. \/ \E t \in RouteTable : policy' = [policy EXCEPT !.routes = t]
        \/ policy' = [policy EXCEPT !.disabled = ~@]
        \/ \E p \in Provider : policy' = [policy EXCEPT !.enabled = (@ \ {p}) \cup ({p} \ @)]
    BY Zenon DEF ChangePolicy
  <2> QED
    BY <2>1, <2>2, Zenon DEF Policy
<1>2. SystemType' /\ FileInv'
  BY <1>1, Zenon DEF Inv, SystemType, FileInv, ChangePolicy, system
<1>3. changes' \in 0..MaxChanges
  BY RouterAssumption DEF Inv, RequestType, ChangePolicy
<1>4. was \subseteq was' /\ was' \subseteq Policy /\ (pc # "idle" => policy' \in was')
  BY <1>1, Zenon DEF Inv, RequestType, ChangePolicy
<1>5. UNCHANGED <<boot, routing, stage, pc, req, decision, sent, used, fault>> /\ pc # "done"
  BY Zenon DEF ChangePolicy, system
<1> QED
  BY <1>2, <1>3, <1>4, <1>5, RequestGoesOn, Zenon DEF Inv

-----------------------------------------------------------------------------
(* A transaction that is not observed, or in pass-through mode, is not     *)
(* routed at all; one that names an internal camera is refused.            *)
LEMMA ReceiveStep ==
  ASSUME Inv, NEW q \in Request, q.package # None => q.shape \in NamedShape, Receive(q)
  PROVE  Inv'
<1>1. /\ pc = "idle" /\ req' = q /\ was' = {policy}
      /\ UNCHANGED <<system, policy, decision, used, fault, changes>>
  BY Zenon DEF Receive
<1>2. /\ UNCHANGED <<boot, routing, stage, policy, configured, who, slot, provider, used, fault, changes>>
      /\ policy \in Policy /\ used \subseteq {boot}
  BY <1>1, Zenon DEF Inv, SystemType, RequestInv, system, decision
<1>3. SystemType' /\ FileInv'
  BY <1>1, SystemKept, Zenon DEF Inv
<1>4. q.id \in Nat
  BY RouterAssumption, Zenon DEF Request
<1>5. \/ q.observed /\ routing /\ isInternalCameraId(q.id) /\ Reject
      \/ q.observed /\ routing /\ ~isInternalCameraId(q.id) /\ pc' = "policy" /\ sent' = sent
      \/ ~(q.observed /\ routing) /\ Forward(q.id)
  BY Zenon DEF Receive
<1>6. pc' \in {"done", "policy"} /\ sent' \in Nat \cup {Rejected, None}
  BY <1>4, <1>5, Zenon DEF Reject, Forward, Inv, RequestType
<1>7. RequestType'
  <2>1. pc' \in {"idle", "done"} \cup UnderWay
    BY <1>6, Steps, Zenon
  <2> QED
    BY <1>1, <1>2, <1>6, <2>1, Zenon DEF Inv, RequestType
<1>8. PolicyInv' /\ DecisionInv'
  BY <1>6, Steps, Zenon DEF PolicyInv, DecisionInv
<1>9. RequestInv'
  <2>1. pc' \in UnderWay => routing /\ q.observed /\ ~isInternalCameraId(q.id)
    BY <1>5, Steps, Zenon DEF Reject, Forward
  <2> QED
    BY <1>1, <1>2, <2>1, Zenon DEF RequestInv
<1>10. AnswerInv'
  <2>1. CASE q.observed /\ routing /\ isInternalCameraId(q.id) /\ Reject
    <3>1. sent' = Rejected /\ sent' # None
      BY <2>1, RouterAssumption DEF Reject
    <3> QED
      BY <1>1, <2>1, <3>1, Zenon DEF AnswerInv, RefusedForCause, FollowsPolicy
  <2>2. CASE pc' = "policy"
    BY <2>2, NotAnswered, Zenon
  <2>3. CASE ~(q.observed /\ routing) /\ Forward(q.id)
    <3>1. ~Routed' /\ sent' # None
      BY <1>1, <1>2, <1>4, <2>3, RouterAssumption DEF Routed, Forward
    <3> QED
      BY <3>1, Zenon DEF AnswerInv, RefusedForCause, FollowsPolicy
  <2> QED
    BY <1>5, <2>1, <2>2, <2>3, Zenon
<1> QED
  BY <1>3, <1>7, <1>8, <1>9, <1>10, Zenon DEF Inv

(* Steps of a request read files and change what is known of it only.      *)
DecideFrame == <<system, policy, req, was, changes>>
(* A step of a decision leaves the files and the request alone.            *)
LEMMA Deciding ==
  ASSUME Inv, UNCHANGED DecideFrame
  PROVE  /\ UNCHANGED <<boot, routing, stage, policy, req, was, changes>>
         /\ SystemType' /\ FileInv'
BY SystemKept, Zenon DEF Inv, DecideFrame, system

(* routingPolicyActive() returns at the flag that disables routing, or     *)
(* goes on to the table.                                                   *)
LEMMA CheckDisabledStep ==
  ASSUME Inv, CheckDisabled
  PROVE  Inv'
<1>1. /\ pc = "policy" /\ UNCHANGED DecideFrame
      /\ UNCHANGED <<who, slot, provider, replacement, sent, used, fault>>
      /\ \/ policy.disabled /\ pc' = "maps" /\ configured' = FALSE
         \/ ~policy.disabled /\ pc' = "table" /\ configured' = configured
  BY Zenon DEF CheckDisabled, Step, DecideFrame, history
<1>2. /\ UNCHANGED <<boot, routing, stage, policy, req, was, changes>>
      /\ SystemType' /\ FileInv'
  BY <1>1, Deciding, Zenon
<1>3. pc \in UnderWay /\ pc' \in UnderWay /\ pc # "idle" /\ pc' \in {"maps", "table"}
  BY <1>1, Steps, Zenon
<1>4. RequestType'
  <2>1. configured' \in BOOLEAN
    BY <1>1, Zenon DEF Inv, RequestType
  <2> QED
    BY <1>1, <1>2, <1>3, <2>1, Zenon DEF Inv, RequestType
<1>5. RequestInv'
  BY <1>1, <1>2, <1>3, Zenon DEF Inv, RequestInv
<1>6. PolicyInv'
  <2>1. policy \in was
    BY <1>1, Zenon DEF Inv, RequestInv
  <2> QED
    BY <1>1, <1>2, <2>1, Steps, Zenon DEF PolicyInv, Active
<1>7. DecisionInv'
  BY <1>3, Steps, Zenon DEF DecisionInv
<1> QED
  BY <1>1, <1>2, <1>3, <1>4, <1>5, <1>6, <1>7, NotAnswered, Zenon DEF Inv

(* It then looks at the table, which may have been replaced and disabled   *)
(* since.                                                                  *)
LEMMA CheckTableStep ==
  ASSUME Inv, CheckTable
  PROVE  Inv'
<1>1. /\ pc = "table" /\ pc' = "maps" /\ configured' = (policy.routes # <<>>) /\ UNCHANGED DecideFrame
      /\ UNCHANGED <<who, slot, provider, replacement, sent, used, fault>>
  BY Zenon DEF CheckTable, Step, DecideFrame, history
<1>2. /\ UNCHANGED <<boot, routing, stage, policy, req, was, changes>>
      /\ SystemType' /\ FileInv'
  BY <1>1, Deciding, Zenon
<1>3. pc \in UnderWay /\ pc' \in UnderWay /\ pc # "idle"
  BY <1>1, Steps, Zenon
<1>4. RequestType'
  <2>1. configured' \in BOOLEAN
    BY <1>1, Zenon
  <2> QED
    BY <1>1, <1>2, <1>3, <2>1, Zenon DEF Inv, RequestType
<1>5. RequestInv'
  BY <1>1, <1>2, <1>3, Zenon DEF Inv, RequestInv
<1>6. PolicyInv'
  <2>1. policy \in was /\ \E f \in was : ~f.disabled
    BY <1>1, Zenon DEF Inv, RequestInv, PolicyInv
  <2> QED
    BY <1>1, <1>2, <2>1, Steps, Zenon DEF PolicyInv, Active
<1>7. DecisionInv'
  BY <1>1, Steps, Zenon DEF DecisionInv
<1> QED
  BY <1>1, <1>2, <1>4, <1>5, <1>6, <1>7, NotAnswered, Zenon DEF Inv

(* routingMapsReady(): an active policy without the maps refuses.          *)
LEMMA CheckMapsStep ==
  ASSUME Inv, CheckMaps
  PROVE  Inv'
<1>1. pc = "maps" /\ UNCHANGED DecideFrame /\ UNCHANGED <<decision, used, fault>>
  BY Zenon DEF CheckMaps, DecideFrame, history
<1>2. /\ UNCHANGED <<boot, routing, stage, policy, req, was, changes>>
      /\ UNCHANGED <<configured, who, slot, provider, replacement>>
      /\ SystemType' /\ FileInv'
  BY <1>1, Deciding, Zenon DEF decision
<1>3. pc \in UnderWay /\ pc # "idle" /\ used \subseteq {boot}
  BY <1>1, Steps, Zenon DEF Inv, RequestInv
<1>4. CASE configured /\ ~routingMapsReady /\ Reject
  <2>1. stage < 4
    <3>1. stage = 4 => routingMapsReady
      <4>1. stage = 4 => \A i \in 1..4 : file[Maps[i]] = boot
        BY DEF Inv, FileInv
      <4>2. boot # None
        BY RouterAssumption DEF Inv, SystemType
      <4> QED
        BY <4>1, <4>2, Zenon DEF routingMapsReady
    <3>2. stage \in 0..4 /\ stage # 4
      BY <1>4, <3>1, Zenon DEF Inv, SystemType
    <3> QED
      BY <3>2
  <2>2. Cause
    BY <1>1, <1>4, <2>1, Zenon DEF Cause, Inv, PolicyInv
  <2>3. AnswerInv'
    BY <1>2, <1>4, <2>2, Refused, Zenon
  <2>4. pc' = "done" /\ sent' = Rejected
    BY <1>4 DEF Reject
  <2>5. RequestInv' /\ PolicyInv' /\ DecisionInv'
    BY <1>1, <1>2, <1>3, <2>4, Answered, Zenon DEF Inv
  <2>6. RequestType'
    BY <1>1, <1>2, <2>4, Zenon DEF Inv, RequestType
  <2> QED
    BY <1>2, <2>3, <2>5, <2>6, Zenon DEF Inv
<1>5. CASE ~(configured /\ ~routingMapsReady) /\ pc' = "identity" /\ sent' = sent
  <2>1. pc' \in UnderWay
    BY <1>5, Steps, Zenon
  <2>2. configured => stage = 4
    <3>1. 4 \in 1..4
      OBVIOUS
    <3> QED
      BY <1>1, <1>3, <1>5, <3>1, MapFiles, Zenon DEF Inv, FileInv, RequestInv, routingMapsReady
  <2>3. RequestType' /\ RequestInv'
    BY <1>1, <1>2, <1>3, <1>5, <2>1, Zenon DEF Inv, RequestType, RequestInv
  <2>4. PolicyInv'
    BY <1>1, <1>2, <1>5, <2>2, Steps, Zenon DEF Inv, PolicyInv
  <2>5. DecisionInv'
    BY <1>5, Steps, Zenon DEF DecisionInv
  <2> QED
    BY <1>2, <1>5, <2>3, <2>4, <2>5, NotAnswered, Zenon DEF Inv
<1> QED
  BY <1>4, <1>5, Zenon DEF CheckMaps

(* The three ways a step of a decision can end.                            *)
DecisionType ==
  /\ configured \in BOOLEAN /\ who \in Package \cup {None} /\ slot \in Slot \cup {None}
  /\ provider \in Provider \cup {None} /\ fault \in BOOLEAN /\ used \subseteq {boot}
(* The request is sent on.                                                 *)
LEMMA SentStep ==
  ASSUME Inv, pc \in UnderWay, UNCHANGED DecideFrame, DecisionType',
         NEW n \in Nat, Forward(n), stage = 4 \/ \E w \in was : ~Active(w),
         fault' = TRUE \/ Right(n)
  PROVE  Inv'
<1>1. /\ UNCHANGED <<boot, routing, stage, policy, req, was, changes>>
      /\ SystemType' /\ FileInv'
  BY Deciding, Zenon
<1>2. pc' = "done" /\ sent' = n /\ pc # "idle"
  BY Steps, Zenon DEF Forward
<1>3. AnswerInv'
  BY <1>1, Sent, Zenon DEF Inv, RequestInv
<1>4. RequestInv' /\ PolicyInv' /\ DecisionInv'
  BY <1>1, <1>2, Answered, Zenon DEF Inv, DecisionType
<1>5. RequestType'
  BY <1>1, <1>2, Zenon DEF Inv, SystemType, RequestType, DecisionType
<1> QED
  BY <1>1, <1>3, <1>4, <1>5, Zenon DEF Inv

(* It is refused.                                                          *)
LEMMA RefusedStep ==
  ASSUME Inv, pc \in UnderWay, UNCHANGED DecideFrame, DecisionType', Reject, Cause
  PROVE  Inv'
<1>1. /\ UNCHANGED <<boot, routing, stage, policy, req, was, changes>>
      /\ SystemType' /\ FileInv'
  BY Deciding, Zenon
<1>2. pc' = "done" /\ sent' = Rejected /\ pc # "idle"
  BY Steps, Zenon DEF Reject
<1>3. AnswerInv'
  BY <1>1, Refused, Zenon
<1>4. RequestInv' /\ PolicyInv' /\ DecisionInv'
  BY <1>1, <1>2, Answered, Zenon DEF Inv, DecisionType
<1>5. RequestType'
  BY <1>1, <1>2, Zenon DEF Inv, SystemType, RequestType, DecisionType
<1> QED
  BY <1>1, <1>3, <1>4, <1>5, Zenon DEF Inv

(* Or there is more to decide.                                             *)
LEMMA NextStep ==
  ASSUME Inv, pc \in {"identity"} \cup Identified, pc' \in Identified, UNCHANGED DecideFrame,
         DecisionType', configured, configured' = configured, sent' = sent, DecisionInv'
  PROVE  Inv'
<1>1. /\ UNCHANGED <<boot, routing, stage, policy, req, was, changes>>
      /\ SystemType' /\ FileInv'
  BY Deciding, Zenon
<1>2. pc \in UnderWay /\ pc' \in UnderWay /\ pc # "idle" /\ pc' # "done" /\ pc' \notin {"table", "maps", "identity"}
  BY Steps, Zenon
<1>3. RequestType'
  BY <1>1, <1>2, Zenon DEF Inv, SystemType, RequestType, DecisionType
<1>4. RequestInv'
  BY <1>1, <1>2, Zenon DEF Inv, RequestInv, DecisionType
<1>5. PolicyInv'
  BY <1>1, <1>2, Zenon DEF Inv, PolicyInv
<1> QED
  BY <1>1, <1>2, <1>3, <1>4, <1>5, NotAnswered, Zenon DEF Inv

(* A policy that was not in force leaves a request as it is.               *)
LEMMA UnroutedIsRight ==
  ASSUME RequestType, NEW w \in was, w.disabled \/ w.routes = <<>>
  PROVE  Right(req.id)
<1>1. CASE RequestedSlots = {}
  BY <1>1, Zenon DEF Right
<1>2. CASE RequestedSlots # {}
  <2>1. PICK s \in RequestedSlots : TRUE
    BY <1>2, Zenon
  <2>2. None \in Entitled(req)
    BY Zenon DEF Entitled
  <2>3. (IF w.disabled THEN {} ELSE Rules(w.routes, None, s)) = {}
    BY NoRules, Zenon
  <2>4. Opened(req.shape, req.id) \in Prescribed(w, w, w.enabled, None, s)
    BY <2>3, Zenon DEF Prescribed
  <2> QED
    BY <2>1, <2>2, <2>4, Zenon DEF Right
<1> QED
  BY <1>1, <1>2

(* The caller may use the routes of the package it is identified as.       *)
LEMMA IdentifyStep ==
  ASSUME Inv, Identify
  PROVE  Inv'
<1>1. /\ pc = "identity" /\ UNCHANGED DecideFrame
      /\ UNCHANGED <<configured, slot, provider, replacement, used, fault>>
  BY Zenon DEF Identify, DecideFrame, history
<1>2. /\ pc \in UnderWay /\ req \in Request /\ req.id \in Nat /\ req.uid \in Uid
      /\ req.package # None => req.shape \in NamedShape
      /\ boot' = boot /\ req' = req /\ was' = was
  <2>1. req \in Request /\ (req.package # None => req.shape \in NamedShape) /\ pc \in UnderWay
    BY <1>1, Steps, Zenon DEF Inv, RequestInv
  <2>2. req.id \in Nat /\ req.uid \in Uid
    BY <2>1, RouterAssumption, Zenon DEF Request
  <2> QED
    BY <1>1, <2>1, <2>2, Deciding, Zenon
<1>3. who' \in Entitled(req) /\ who' \in Package \cup {None}
  <2>1. PICK packages \in {PackagesOf[req.uid], {}} :
          who' = IF classifyCameraCallerIdentity(req) = "claimedPackage"
                   THEN IF req.package \in packages THEN req.package ELSE None
                   ELSE IF configured /\ Cardinality(packages) = 1
                     THEN CHOOSE p \in packages : TRUE ELSE None
    BY Zenon DEF Identify
  <2>2. packages \subseteq PackagesOf[req.uid] /\ packages \subseteq Package /\ IsFiniteSet(packages)
    BY <1>2, <2>1, RouterAssumption, FS_EmptySet, Zenon
  <2>3. None \in Entitled(req)
    BY Zenon DEF Entitled
  <2>4. ASSUME req.package \in packages PROVE req.package \in Entitled(req)
    BY <2>2, <2>4, Zenon DEF Entitled
  <2>5. ASSUME classifyCameraCallerIdentity(req) # "claimedPackage", Cardinality(packages) = 1
        PROVE  (CHOOSE p \in packages : TRUE) \in Entitled(req) \cap packages
    <3>1. PICK x : packages = {x}
      BY <2>2, <2>5, FS_Singleton, Zenon
    <3>2. packages = PackagesOf[req.uid] /\ (CHOOSE p \in packages : TRUE) = x
      BY <2>1, <3>1
    <3>3. req.package = None
      BY <1>2, <2>5, Zenon DEF classifyCameraCallerIdentity
    <3> QED
      BY <3>1, <3>2, <3>3, Zenon DEF Entitled
  <2> QED
    BY <2>1, <2>2, <2>3, <2>4, <2>5, Zenon
<1>4. DecisionType'
  BY <1>1, <1>2, <1>3, Zenon DEF Inv, RequestType, RequestInv, DecisionType
<1>5. CASE configured /\ pc' = "target" /\ sent' = sent
  <2>1. Entitled(req)' = Entitled(req)
    BY <1>2, SameRequest, Zenon
  <2>2. DecisionInv'
    BY <1>3, <1>5, <2>1, Steps, Zenon DEF DecisionInv
  <2>3. pc \in {"identity"} \cup Identified /\ pc' \in Identified
    BY <1>1, <1>5, Steps, Zenon
  <2> QED
    BY <1>1, <1>4, <1>5, <2>2, <2>3, NextStep, Zenon
<1>6. CASE ~configured /\ Forward(req.id)
  <2>1. PICK w \in was : ~Active(w)
    BY <1>1, <1>6, Zenon DEF Inv, PolicyInv
  <2>2. Right(req.id)
    BY <2>1, UnroutedIsRight, Zenon DEF Inv, Active
  <2> QED
    BY <1>1, <1>2, <1>4, <1>6, <2>1, <2>2, SentStep, Zenon
<1> QED
  BY <1>5, <1>6, Zenon DEF Identify

(* targetSlot() finds the slots whose target the number opens.             *)
LEMMA TargetFound ==
  ASSUME SystemType, FileInv, stage = 4, req.id \in Nat, NEW s \in Slot
  PROVE  NameIn(IF req.shape \in IntegerShape THEN "camera1Targets" ELSE "targets", s) = req.id
           <=> s \in RequestedSlots
<1>1. file["targets"] = boot /\ file["camera1Targets"] = boot
  BY AllOfThisBoot, Zenon
<1>2. ValidTopology(boot) /\ boot \in Topology /\ req.id # None
  BY RouterAssumption DEF SystemType
<1>3. boot.targets[s] \in DOMAIN boot.index \cup {None}
  BY <1>2 DEF ValidTopology
<1>4. CASE req.shape \in IntegerShape
  <2>1. NameIn("camera1Targets", s) = IF boot.targets[s] = None THEN None
                                      ELSE boot.index[boot.targets[s]]
    <3>1. "camera1Targets" # "targets"
      OBVIOUS
    <3> QED
      BY <1>1, <3>1, Zenon DEF NameIn
  <2>2. ASSUME boot.targets[s] # None, boot.index[boot.targets[s]] = req.id
        PROVE  boot.targets[s] = Opened(req.shape, req.id)
    BY <1>2, <1>3, <1>4, <2>2, OpenedByIndex, Zenon
  <2>3. ASSUME boot.targets[s] # None, boot.targets[s] = Opened(req.shape, req.id)
        PROVE  boot.index[boot.targets[s]] = req.id
    <3> DEFINE cs == {c \in DOMAIN boot.index : boot.index[c] = req.id}
    <3>1. Opened(req.shape, req.id) = IF cs = {} THEN None ELSE CHOOSE c \in cs : TRUE
      BY <1>4, Zenon DEF Opened
    <3>2. cs # {} => (CHOOSE c \in cs : TRUE) \in cs
      OBVIOUS
    <3> QED
      BY <2>3, <3>1, <3>2, Zenon
  <2>4. NameIn("camera1Targets", s) = req.id
          <=> boot.targets[s] # None /\ boot.index[boot.targets[s]] = req.id
    BY <1>2, <2>1
  <2>5. s \in RequestedSlots
          <=> boot.targets[s] # None /\ boot.targets[s] = Opened(req.shape, req.id)
    BY Zenon DEF RequestedSlots
  <2> QED
    BY <1>4, <2>2, <2>3, <2>4, <2>5, Zenon
<1>5. CASE req.shape \notin IntegerShape
  <2>1. NameIn("targets", s) = boot.targets[s]
    BY <1>1, Zenon DEF NameIn
  <2>2. Opened(req.shape, req.id) = req.id
    BY <1>5, Zenon DEF Opened
  <2> QED
    BY <1>2, <1>5, <2>1, <2>2, Zenon DEF RequestedSlots
<1> QED
  BY <1>4, <1>5

(* Past the check of the maps, a request is well formed and the maps are   *)
(* all of this boot.                                                       *)
LEMMA AtHand ==
  ASSUME Inv, pc \in Identified
  PROVE  /\ pc \in UnderWay /\ pc \in {"identity"} \cup Identified
         /\ configured /\ stage = 4 /\ policy \in was /\ policy \in Policy
         /\ \E f \in was : ~f.disabled
         /\ boot \in Topology /\ req.id \in Nat /\ RequestType
         /\ who \in Entitled(req) /\ who \in Package \cup {None}
         /\ \A m \in {"targets", "camera1Targets", "camera1Map", "topology"} : file[m] = boot
<1>1. pc \in UnderWay /\ pc \in {"identity"} \cup Identified /\ pc # "idle"
  BY Steps, Zenon
<1>2. configured /\ stage = 4 /\ \E f \in was : ~f.disabled
  BY <1>1, Zenon DEF Inv, PolicyInv
<1>3. req \in Request /\ policy \in was
  BY <1>1, Zenon DEF Inv, RequestInv
<1>4. req.id \in Nat
  BY <1>3, RouterAssumption, Zenon DEF Request
<1> QED
  BY <1>1, <1>2, <1>3, <1>4, AllOfThisBoot, Zenon DEF Inv, DecisionInv, SystemType, RequestType

(* targetSlot() finds the slot the request asks for, if it does.           *)
LEMMA ReadTargetStep ==
  ASSUME Inv, ReadTarget
  PROVE  Inv'
<1> DEFINE m == IF req.shape \in IntegerShape THEN "camera1Targets" ELSE "targets"
           found == {s \in Slot : NameIn(m, s) = req.id}
<1>1. /\ pc = "target" /\ UNCHANGED DecideFrame /\ used' = used \cup {file[m]}
      /\ UNCHANGED <<configured, who, provider, replacement, fault>>
      /\ \/ found = {} /\ Forward(req.id) /\ slot' = slot
         \/ pc' = "routes" /\ slot' \in found /\ sent' = sent
  BY Zenon DEF ReadTarget, DecideFrame
<1>2. pc \in Identified
  BY <1>1, Steps, Zenon
<1>3. m \in {"targets", "camera1Targets", "camera1Map", "topology"}
  BY Zenon
<1>4. found = RequestedSlots
  <2>1. \A s \in Slot : NameIn(m, s) = req.id <=> s \in RequestedSlots
    BY <1>2, AtHand, TargetFound, Zenon DEF Inv
  <2>2. RequestedSlots \subseteq Slot
    BY Zenon DEF RequestedSlots
  <2> QED
    BY <2>1, <2>2, Zenon
<1> HIDE DEF m, found
<1>5. boot' = boot /\ req' = req /\ used' \subseteq {boot}
  <2>1. file[m] = boot /\ used \subseteq {boot}
    BY <1>2, <1>3, AtHand, Zenon DEF Inv, RequestInv
  <2> QED
    BY <1>1, <2>1, Deciding, Zenon
<1>6. DecisionType'
  <2>1. slot' \in Slot \cup {None}
    BY <1>1, <1>4, Zenon DEF RequestedSlots, Inv, RequestType
  <2> QED
    BY <1>1, <1>5, <2>1, Zenon DEF DecisionType, Inv, RequestType
<1>7. CASE found = {} /\ Forward(req.id) /\ slot' = slot
  <2>1. Right(req.id)
    BY <1>4, <1>7, Zenon DEF Right
  <2> QED
    BY <1>1, <1>2, <1>6, <1>7, <2>1, AtHand, SentStep, Zenon
<1>8. CASE pc' = "routes" /\ slot' \in found /\ sent' = sent
  <2>1. RequestedSlots' = RequestedSlots /\ Entitled(req)' = Entitled(req)
    BY <1>5, SameRequest, Zenon
  <2>2. DecisionInv'
    BY <1>1, <1>2, <1>4, <1>8, <2>1, AtHand, Steps, Zenon DEF DecisionInv
  <2>3. pc' \in Identified
    BY <1>8, Steps, Zenon
  <2> QED
    BY <1>1, <1>2, <1>6, <1>8, <2>2, <2>3, AtHand, NextStep, Zenon
<1> QED
  BY <1>1, <1>7, <1>8, Zenon

(* Routing may have been disabled since the policy was checked.            *)
LEMMA ReadDisabledStep ==
  ASSUME Inv, ReadDisabled
  PROVE  Inv'
<1>1. /\ pc = "routes" /\ UNCHANGED DecideFrame
      /\ UNCHANGED <<configured, who, slot, provider, replacement, used, fault>>
      /\ \/ policy.disabled /\ Forward(req.id)
         \/ pc' = "lines" /\ sent' = sent
  BY Zenon DEF ReadDisabled, DecideFrame, decision, history
<1>2. pc \in Identified /\ slot \in RequestedSlots
  BY <1>1, Steps, Zenon DEF Inv, DecisionInv
<1>3. boot' = boot /\ req' = req /\ was' = was
  BY <1>1, Deciding, Zenon
<1>4. DecisionType'
  BY <1>1, <1>3, Zenon DEF DecisionType, Inv, RequestType, RequestInv
<1>5. CASE policy.disabled /\ Forward(req.id)
  <2>1. Right(req.id)
    BY <1>2, <1>5, AtHand, UnroutedIsRight, Zenon
  <2> QED
    BY <1>1, <1>2, <1>4, <1>5, <2>1, AtHand, SentStep, Zenon
<1>6. CASE pc' = "lines" /\ sent' = sent
  <2>1. RequestedSlots' = RequestedSlots /\ Entitled(req)' = Entitled(req)
    BY <1>3, SameRequest, Zenon
  <2>2. DecisionInv'
    BY <1>1, <1>2, <1>6, <2>1, AtHand, Steps, Zenon DEF DecisionInv
  <2>3. pc' \in Identified
    BY <1>6, Steps, Zenon
  <2> QED
    BY <1>1, <1>2, <1>4, <1>6, <2>2, <2>3, AtHand, NextStep, Zenon
<1> QED
  BY <1>1, <1>5, <1>6, Zenon

(* The table may have been replaced since, too; what it says now was in    *)
(* force during the request.                                               *)
LEMMA ReadRoutesStep ==
  ASSUME Inv, ReadRoutes
  PROVE  Inv'
<1> DEFINE p == providerForPackage(policy.routes, who, slot)
<1>1. /\ pc = "lines" /\ UNCHANGED DecideFrame /\ provider' = p
      /\ UNCHANGED <<configured, who, slot, replacement, used, fault>>
      /\ \/ p = None /\ Forward(req.id)
         \/ p # None /\ pc' = (IF Physical[p] # None THEN "physical" ELSE "enabled") /\ sent' = sent
  BY Zenon DEF ReadRoutes, DecideFrame, history
<1>2. pc \in Identified /\ slot \in RequestedSlots /\ slot \in Slot
  BY <1>1, Steps, Zenon DEF Inv, DecisionInv, RequestedSlots
<1>3. policy.routes \in RouteTable
  BY <1>2, AtHand DEF Policy
<1>4. \/ p = None /\ Rules(policy.routes, who, slot) = {}
      \/ p \in Provider /\ p \in Rules(policy.routes, who, slot)
  BY <1>2, <1>3, AtHand, RouteRule, Zenon
<1> HIDE DEF p
<1>5. boot' = boot /\ req' = req /\ was' = was
  BY <1>1, Deciding, Zenon
<1>6. DecisionType'
  BY <1>1, <1>4, <1>5, Zenon DEF DecisionType, Inv, RequestType, RequestInv
<1>7. CASE p = None /\ Forward(req.id)
  <2>1. Rules(policy.routes, who, slot) = {}
    BY <1>4, <1>7, RouterAssumption
  <2>2. Opened(req.shape, req.id) \in Prescribed(policy, policy, policy.enabled, who, slot)
    BY <2>1, Zenon DEF Prescribed
  <2>3. Right(req.id)
    BY <1>2, <2>2, AtHand, Zenon DEF Right
  <2> QED
    BY <1>1, <1>2, <1>6, <1>7, <2>3, AtHand, SentStep, Zenon
<1>8. CASE p # None /\ pc' = (IF Physical[p] # None THEN "physical" ELSE "enabled") /\ sent' = sent
  <2>1. RequestedSlots' = RequestedSlots /\ Entitled(req)' = Entitled(req)
    BY <1>5, SameRequest, Zenon
  <2>2. pc' \in {"physical", "enabled"}
    BY <1>8, Zenon
  <2>3. DecisionInv'
    <3>1. provider' \in Provider /\ \E f, w \in was' : ~f.disabled /\ provider' \in Rules(w.routes, who', slot')
      BY <1>1, <1>2, <1>4, <1>5, <1>8, AtHand, Zenon
    <3>2. pc' = "enabled" => Physical[provider'] = None
      BY <1>1, <1>8
    <3>3. pc' = "physical" => Physical[provider'] # None
      BY <1>1, <1>8
    <3> QED
      BY <1>1, <1>2, <2>1, <2>2, <3>1, <3>2, <3>3, AtHand, Zenon DEF DecisionInv
  <2>4. pc' \in Identified
    BY <2>2, Steps, Zenon
  <2> QED
    BY <1>1, <1>2, <1>6, <1>8, <2>3, <2>4, AtHand, NextStep, Zenon
<1> QED
  BY <1>1, <1>7, <1>8, Zenon

(* What the provider's rule prescribes, in terms of the camera selected.   *)
LEMMA SelectedIsRight ==
  ASSUME NEW n, NEW f \in was, NEW w \in was, NEW v \in was, ~f.disabled,
         provider \in Rules(w.routes, who, slot), who \in Entitled(req), slot \in RequestedSlots,
         Opened(req.shape, n) = IF Physical[provider] # None
                                  THEN IF TakenForTarget(provider) THEN Opened(req.shape, req.id)
                                       ELSE boot.targets[Physical[provider]]
                                ELSE IF provider \in v.enabled THEN Internal(slot)
                                ELSE Opened(req.shape, req.id)
  PROVE  Right(n)
<1>1. Opened(req.shape, n) \in Prescribed(f, w, v.enabled, who, slot)
  BY Zenon DEF Prescribed
<1> QED
  BY <1>1, Zenon DEF Right

(* What is known once a route has been found.                              *)
LEMMA Provision ==
  ASSUME Inv, pc \in Provided
  PROVE  /\ pc \in Identified /\ slot \in RequestedSlots /\ slot \in Slot /\ provider \in Provider
         /\ \E f, w \in was : ~f.disabled /\ provider \in Rules(w.routes, who, slot)
BY Steps, Zenon DEF Inv, DecisionInv, RequestedSlots

(* The camera to be opened is one of the topology.                         *)
LEMMA SelectedExists ==
  ASSUME Inv, pc \in Provided, NEW c, Selected(c)
  PROVE  c \in DOMAIN boot.index /\ c \in Nat
<1>1. ValidTopology(boot) /\ slot \in Slot /\ provider \in Provider /\ Physical[provider] \in Slot \cup {None}
  BY Provision, RouterAssumption DEF Inv, SystemType
<1>2. c \in DOMAIN boot.index
  <2>1. CASE c = Internal(slot)
    BY <1>1, <2>1, Zenon DEF ValidTopology
  <2>2. CASE Physical[provider] # None /\ c = boot.targets[Physical[provider]] /\ c # None
    BY <1>1, <2>2, Zenon DEF ValidTopology
  <2> QED
    BY <2>1, <2>2, Zenon DEF Selected
<1> QED
  BY <1>1, <1>2, Zenon DEF ValidTopology

(* The camera selected goes to the rewriter, by way of the Camera1 map if  *)
(* the request carries an index.                                           *)
LEMMA RewriteStep ==
  ASSUME Inv, pc \in {"enabled", "physical"}, UNCHANGED DecideFrame, Rewrite,
         UNCHANGED <<configured, who, slot, provider, fault>>, used' \subseteq {boot},
         NEW c, replacement' = c, Selected(c)
  PROVE  Inv'
<1>1. pc \in Provided /\ pc \in Identified /\ slot \in RequestedSlots
  BY Steps, Provision, Zenon
<1>2. boot' = boot /\ req' = req /\ was' = was
  BY Deciding, Zenon
<1>3. DecisionType'
  BY <1>2, Zenon DEF DecisionType, Inv, RequestType
<1>4. /\ RequestedSlots' = RequestedSlots /\ Entitled(req)' = Entitled(req)
      /\ \A n : Opened(req.shape, n)' = Opened(req.shape, n)
  BY <1>2, SameRequest, Zenon
<1>5. Selected(c)'
  BY <1>2, Zenon DEF Selected, TakenForTarget
<1>6. pc' \in {"camera1", "rewrite"} /\ sent' = sent /\ (pc' = "camera1" <=> req.shape \in IntegerShape)
  BY DEF Rewrite
<1>7. DecisionInv'
  <2>1. provider' \in Provider /\ \E f, w \in was' : ~f.disabled /\ provider' \in Rules(w.routes, who', slot')
    BY <1>1, <1>2, Provision, Zenon
  <2>2. pc' = "rewrite" => replacement' \in Nat /\ Opened(req.shape, c)' = c
    <3>1. pc' = "rewrite" => req.shape \notin IntegerShape
      BY <1>6
    <3> QED
      BY <1>1, <1>4, <3>1, SelectedExists, Zenon DEF Opened
  <2>3. pc' = "rewrite" => Selected(Opened(req.shape, replacement))'
    BY <1>5, <2>2, Zenon
  <2> QED
    BY <1>1, <1>2, <1>4, <1>5, <1>6, <2>1, <2>2, <2>3, AtHand, Zenon DEF DecisionInv
<1>8. pc' \in Identified
  BY <1>6, Steps, Zenon
<1> QED
  BY <1>1, <1>3, <1>6, <1>7, <1>8, AtHand, NextStep, Zenon

(* A virtual provider takes over only while it is available.               *)
LEMMA CheckEnabledStep ==
  ASSUME Inv, CheckEnabled
  PROVE  Inv'
<1>1. /\ pc = "enabled" /\ UNCHANGED DecideFrame
      /\ UNCHANGED <<configured, who, slot, provider, used, fault>>
      /\ \/ Available(provider) /\ replacement' = Internal(slot) /\ Rewrite
         \/ ~Available(provider) /\ Forward(req.id)
  BY Zenon DEF CheckEnabled, DecideFrame, history
<1>2. pc \in Provided /\ pc \in Identified /\ Physical[provider] = None /\ used \subseteq {boot}
  BY <1>1, Steps, Zenon DEF Inv, DecisionInv, RequestInv
<1>3. CASE Available(provider) /\ replacement' = Internal(slot) /\ Rewrite
  <2>1. Selected(Internal(slot))
    BY <1>2, <1>3, AtHand, Zenon DEF Selected, Available
  <2> QED
    BY <1>1, <1>2, <1>3, <2>1, RewriteStep, Zenon
<1>4. CASE ~Available(provider) /\ Forward(req.id)
  <2>1. Right(req.id)
    BY <1>2, <1>4, AtHand, Provision, SelectedIsRight, Zenon DEF Available
  <2>2. DecisionType'
    BY <1>1, <1>2, Deciding, Zenon DEF DecisionType, Inv, RequestType
  <2> QED
    BY <1>1, <1>2, <1>4, <2>1, <2>2, AtHand, SentStep, Zenon
<1> QED
  BY <1>1, <1>3, <1>4, Zenon

(* physicalCameraIdForProvider(): a number that is the target's ID is sent *)
(* on, be it the index of another camera.                                  *)
LEMMA ReadPhysicalStep ==
  ASSUME Inv, ReadPhysical
  PROVE  Inv'
<1> DEFINE c == NameIn("targets", Physical[provider])
<1>1. /\ pc = "physical" /\ UNCHANGED DecideFrame /\ used' = used \cup {file["targets"]}
      /\ UNCHANGED <<configured, who, slot, provider, fault>>
      /\ \/ c = None /\ Reject
         \/ c # None /\ c = req.id /\ Forward(req.id)
         \/ c # None /\ c # req.id /\ replacement' = c /\ Rewrite
  BY Zenon DEF ReadPhysical, DecideFrame
<1>2. /\ pc \in Provided /\ pc \in Identified /\ slot \in RequestedSlots /\ slot \in Slot
      /\ Physical[provider] # None /\ provider \in Provider
  BY <1>1, Steps, Provision, Zenon DEF Inv, DecisionInv
<1>3. file["targets"] = boot /\ boot \in Topology /\ Physical[provider] \in Slot
  BY <1>2, AtHand, RouterAssumption
<1>4. c = boot.targets[Physical[provider]]
  BY <1>3, Zenon DEF NameIn
<1> HIDE DEF c
<1>5. used' \subseteq {boot} /\ boot' = boot
  BY <1>1, <1>3, Deciding, Zenon DEF Inv, RequestInv
<1>6. DecisionType'
  BY <1>1, <1>5, Zenon DEF DecisionType, Inv, RequestType
<1>7. CASE c = None /\ Reject
  <2>1. PICK f \in was, w \in was : ~f.disabled /\ provider \in Rules(w.routes, who, slot)
    BY <1>2, Provision, Zenon
  <2>2. w.routes # <<>>
    BY <2>1, NoRules, Zenon
  <2>3. Cause
    BY <1>2, <1>4, <1>7, <2>1, <2>2, AtHand, Zenon DEF Cause
  <2> QED
    BY <1>1, <1>2, <1>6, <1>7, <2>3, AtHand, RefusedStep, Zenon
<1>8. CASE c # None /\ c = req.id /\ Forward(req.id)
  <2>1. TakenForTarget(provider)
    BY <1>4, <1>8, Zenon DEF TakenForTarget
  <2>2. Right(req.id)
    BY <1>2, <2>1, AtHand, Provision, SelectedIsRight, Zenon
  <2> QED
    BY <1>1, <1>2, <1>6, <1>8, <2>2, AtHand, SentStep, Zenon
<1>9. CASE c # None /\ c # req.id /\ replacement' = c /\ Rewrite
  <2>1. Selected(c)
    BY <1>2, <1>4, <1>9, Zenon DEF Selected, TakenForTarget
  <2> QED
    BY <1>1, <1>5, <1>9, <2>1, RewriteStep, Zenon
<1> QED
  BY <1>1, <1>7, <1>8, <1>9, Zenon


(* camera1IndexForId() finds every camera selected.                        *)
LEMMA ReadCamera1Step ==
  ASSUME Inv, ReadCamera1
  PROVE  Inv'
<1>1. /\ pc = "camera1" /\ UNCHANGED DecideFrame /\ used' = used \cup {file["camera1Map"]}
      /\ UNCHANGED <<configured, who, slot, provider, fault>>
      /\ replacement \in DOMAIN file["camera1Map"].index
           => /\ replacement' = file["camera1Map"].index[replacement]
              /\ pc' = "rewrite" /\ UNCHANGED sent
  BY Zenon DEF ReadCamera1, DecideFrame
<1>2. /\ pc \in Provided /\ pc \in Identified /\ slot \in RequestedSlots /\ provider \in Provider
      /\ req.shape \in IntegerShape /\ Selected(replacement)
      /\ \E f, w \in was : ~f.disabled /\ provider \in Rules(w.routes, who, slot)
  BY <1>1, Steps, Provision, Zenon DEF Inv, DecisionInv
<1>3. file["camera1Map"] = boot /\ replacement \in DOMAIN boot.index /\ boot \in Topology
  BY <1>2, AtHand, SelectedExists, Zenon
<1>4. pc' = "rewrite" /\ replacement' = boot.index[replacement] /\ sent' = sent
  BY <1>1, <1>3, Zenon
<1>5. used' \subseteq {boot} /\ boot' = boot /\ req' = req /\ was' = was
  BY <1>1, <1>3, Deciding, Zenon DEF Inv, RequestInv
<1>6. DecisionType'
  BY <1>1, <1>5, Zenon DEF DecisionType, Inv, RequestType
<1>7. /\ RequestedSlots' = RequestedSlots /\ Entitled(req)' = Entitled(req)
      /\ \A n : Opened(req.shape, n)' = Opened(req.shape, n)
  BY <1>5, SameRequest, Zenon
<1>8. replacement' \in Nat /\ Opened(req.shape, replacement') = replacement
  BY <1>2, <1>3, <1>4, OpenedByIndex, Zenon
<1>9. Selected(Opened(req.shape, replacement))'
  <2>1. Opened(req.shape, replacement)' = replacement
    BY <1>5, <1>8 DEF Opened
  <2> QED
    BY <1>1, <1>2, <1>5, <2>1, Zenon DEF Selected, TakenForTarget
<1>10. DecisionInv'
  <2>1. provider' \in Provider /\ \E f, w \in was' : ~f.disabled /\ provider' \in Rules(w.routes, who', slot')
    BY <1>1, <1>2, <1>5, Zenon
  <2>2. who' \in Entitled(req)' /\ slot' \in RequestedSlots'
    BY <1>1, <1>2, <1>7, AtHand, Zenon
  <2> QED
    BY <1>4, <1>8, <1>9, <2>1, <2>2, Zenon DEF DecisionInv
<1>11. pc' \in Identified
  BY <1>4, Steps, Zenon
<1> QED
  BY <1>1, <1>2, <1>4, <1>5, <1>6, <1>10, <1>11, AtHand, NextStep, Zenon

(* The rewritten request opens what was selected.                          *)
LEMMA SendRewrittenStep ==
  ASSUME Inv, SendRewritten
  PROVE  Inv'
<1>1. /\ pc = "rewrite" /\ UNCHANGED DecideFrame
      /\ UNCHANGED <<configured, who, slot, provider, used>>
      /\ \/ Forward(replacement) /\ UNCHANGED fault
         \/ Forward(req.id) /\ fault' = TRUE
  BY Zenon DEF SendRewritten, DecideFrame, decision
<1>2. /\ pc \in Provided /\ pc \in Identified /\ slot \in RequestedSlots
      /\ replacement \in Nat /\ Selected(Opened(req.shape, replacement))
  BY <1>1, Steps, Provision, Zenon DEF Inv, DecisionInv
<1>3. fault' \in BOOLEAN
  BY <1>1, Zenon DEF Inv, RequestType
<1>4. DecisionType'
  BY <1>1, <1>3, Deciding, Zenon DEF DecisionType, Inv, RequestType, RequestInv
<1>5. Right(replacement)
  <2>1. PICK f \in was, w \in was : ~f.disabled /\ provider \in Rules(w.routes, who, slot)
    BY <1>2, Provision, Zenon
  <2>2. CASE Physical[provider] = None
    BY <1>2, <2>1, <2>2, AtHand, SelectedIsRight, Zenon DEF Selected
  <2>3. CASE Physical[provider] # None
    BY <1>2, <2>1, <2>3, AtHand, SelectedIsRight, Zenon DEF Selected
  <2> QED
    BY <2>2, <2>3, Zenon
<1> QED
  BY <1>1, <1>2, <1>4, <1>5, AtHand, SentStep, Zenon


-----------------------------------------------------------------------------
(* Before the first request of the first boot nothing is published,        *)
(* configured or answered.                                                 *)
THEOREM InvInit == Init => Inv
<1> SUFFICES ASSUME Init PROVE Inv
  OBVIOUS
<1>1. pc = "idle" /\ pc \notin UnderWay
  BY Steps DEF Init
<1>2. SystemType
  <2>1. policy \in Policy
    BY RouterAssumption DEF Init, Policy
  <2> QED
    BY <2>1 DEF Init, SystemType
<1>3. FileInv
  <2>1. stage = 0 /\ \A i \in 1..4 : ~(i <= 0)
    BY DEF Init
  <2>2. "topology" \in {Maps[i] : i \in 1..4}
    BY MapFiles
  <2>3. file["topology"] = None
    BY <2>2, Zenon DEF Init
  <2> QED
    BY <2>1, <2>3, Zenon DEF FileInv
<1>4. RequestType
  <2>1. changes \in 0..MaxChanges
    BY RouterAssumption DEF Init
  <2> QED
    BY <2>1, Zenon DEF Init, RequestType
<1>5. RequestInv /\ PolicyInv /\ DecisionInv
  <2>1. pc \notin {"maps", "identity"} \cup Identified /\ pc \notin Targeted /\ pc \notin Provided
    BY <1>1, Steps, Zenon
  <2> QED
    BY <1>1, <2>1, Zenon DEF Init, RequestInv, PolicyInv, DecisionInv
<1>6. AnswerInv
  BY <1>1, Zenon DEF AnswerInv, RefusedForCause, FollowsPolicy, Routed
<1> QED
  BY <1>2, <1>3, <1>4, <1>5, <1>6, Zenon DEF Inv


(* Every step of the phone, of an operator and of the router keeps it.     *)
THEOREM InvStep == Inv /\ [Next]_vars => Inv'
<1> SUFFICES ASSUME Inv, [Next]_vars PROVE Inv'
  OBVIOUS
<1>1. ASSUME NEW t \in Topology, NEW r \in BOOLEAN, Reboot(t, r) PROVE Inv'
  BY <1>1, RebootStep, Zenon
<1>2. CASE PublishMap
  BY <1>2, PublishStep, Zenon
<1>3. CASE ChangePolicy
  BY <1>3, ChangePolicyStep, Zenon
<1>4. ASSUME NEW q \in Request, q.package # None => q.shape \in NamedShape, Receive(q) PROVE Inv'
  BY <1>4, ReceiveStep, Zenon
<1>5. CASE CheckDisabled \/ CheckTable
  BY <1>5, CheckDisabledStep, CheckTableStep, Zenon
<1>6. CASE CheckMaps
  BY <1>6, CheckMapsStep, Zenon
<1>7. CASE Identify
  BY <1>7, IdentifyStep, Zenon
<1>8. CASE ReadTarget
  BY <1>8, ReadTargetStep, Zenon
<1>9. CASE ReadDisabled \/ ReadRoutes
  BY <1>9, ReadDisabledStep, ReadRoutesStep, Zenon
<1>10. CASE CheckEnabled
  BY <1>10, CheckEnabledStep, Zenon
<1>11. CASE ReadPhysical
  BY <1>11, ReadPhysicalStep, Zenon
<1>12. CASE ReadCamera1
  BY <1>12, ReadCamera1Step, Zenon
<1>13. CASE SendRewritten
  BY <1>13, SendRewrittenStep, Zenon
<1>14. CASE Return
  BY <1>14, ReturnStep, Zenon
<1>15. CASE UNCHANGED vars
  <2>1. /\ boot' = boot /\ routing' = routing /\ stage' = stage /\ pc' = pc /\ req' = req
        /\ configured' = configured /\ who' = who /\ slot' = slot /\ provider' = provider
        /\ replacement' = replacement /\ sent' = sent /\ policy' = policy /\ was' = was
        /\ used' = used /\ fault' = fault /\ changes' = changes /\ SystemType' /\ FileInv'
    BY <1>15, SystemKept, Zenon DEF Inv, vars, system, decision, history
  <2>2. RequestType' /\ RequestInv' /\ PolicyInv'
    BY <2>1, SMTT(30) DEF Inv, RequestType, RequestInv, PolicyInv
  <2>3. DecisionInv'
    BY <2>1, Zenon DEF Inv, DecisionInv, Selected, TakenForTarget, Opened, RequestedSlots, Entitled
  <2>4. AnswerInv'
    <3>1. /\ RequestedSlots' = RequestedSlots /\ Entitled(req)' = Entitled(req)
          /\ \A f, w, e, p, s : Prescribed(f, w, e, p, s)' = Prescribed(f, w, e, p, s)
      BY <2>1, SameRequest, Zenon
    <3>2. Opened(req.shape, sent)' = Opened(req.shape, sent)
      BY <2>1 DEF Opened
    <3>3. RefusedForCause'
      BY <2>1, <3>1, SMTT(30) DEF Inv, AnswerInv, RefusedForCause, Routed
    <3>4. FollowsPolicy => FollowsPolicy'
      BY <2>1, <3>1, <3>2 DEF FollowsPolicy, Routed
    <3> QED
      BY <2>1, <3>3, <3>4, Zenon DEF Inv, AnswerInv
  <2> QED
    BY <2>1, <2>2, <2>3, <2>4, Zenon DEF Inv
<1> QED
  BY <1>1, <1>2, <1>3, <1>4, <1>5, <1>6, <1>7, <1>8, <1>9, <1>10, <1>11, <1>12, <1>13, <1>14, <1>15,
     Zenon DEF Next, Environment, Decide

(* The invariant holds in every reachable state of the router.             *)
THEOREM Invariance == Spec => []Inv
BY InvInit, InvStep, PTL DEF Spec

(* Type correctness, and an answer for every request that has ended.       *)
THEOREM TypeCorrect == Spec => []TypeOK
<1>1. Inv => TypeOK
  <2> SUFFICES ASSUME Inv PROVE TypeOK
    OBVIOUS
  <2>1. pc \in {"idle", "policy", "table", "maps", "identity", "target", "routes", "lines", "enabled",
                "physical", "camera1", "rewrite", "done"}
    BY Steps, Zenon DEF Inv, RequestType
  <2> QED
    BY <2>1, Zenon DEF Inv, SystemType, RequestType, AnswerInv, TypeOK
<1> QED
  BY <1>1, Invariance, PTL

(* Whatever reboots, publications of maps and changes of the policy come   *)
(* between the steps of onTransact(), targetSlot(),                        *)
(* physicalCameraIdForProvider() and camera1IndexForId() never read a      *)
(* map of an earlier boot.                                                 *)
THEOREM MapsAreCurrent == Spec => []NoStaleTopology
<1>1. Inv => NoStaleTopology
  BY DEF Inv, RequestInv, NoStaleTopology
<1> QED
  BY <1>1, Invariance, PTL

(* onTransact() fails closed, and refuses nothing else: an active policy   *)
(* sends no request to the service before the maps of this boot are        *)
(* there, and what is refused is an internal camera, or, with the flag and *)
(* the table each found in favour of routing, an early request or one      *)
(* routed to a slot without a camera.                                      *)
THEOREM RefusalsHaveCause == Spec => []RefusedForCause
<1>1. Inv => RefusedForCause
  BY DEF Inv, AnswerInv
<1> QED
  BY <1>1, Invariance, PTL

(* The camera that is opened is the one that a flag, a route table and a   *)
(* provider state in force during the request prescribe for its caller, on *)
(* every topology: those whose Camera1 indices are the Camera2 IDs of      *)
(* other cameras included, where onTransact() leaves an index that it      *)
(* takes for the ID of the route's target as it is.                        *)
THEOREM RequestsFollowPolicy == Spec => []FollowsPolicy
<1>1. Inv => FollowsPolicy
  BY DEF Inv, AnswerInv
<1> QED
  BY <1>1, Invariance, PTL

=============================================================================
