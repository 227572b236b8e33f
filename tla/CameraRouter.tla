----------------------------- MODULE CameraRouter ----------------------------
(***************************************************************************)
(* CameraServicePassThrough::onTransact (AndroidCameraServiceRouter.cpp)   *)
(* in the camera server: it decides from the route table, the providers    *)
(* and the camera maps which camera an application's request opens.  All   *)
(* of these are files: vcamctl replaces the policy at any time and         *)
(* camera-map.sh publishes the maps of each boot one by one, behind the    *)
(* marker topology.conf.  Requests share nothing else, so one in flight    *)
(* against all changes is the general case.                                *)
(*                                                                         *)
(* Camera IDs and Camera1 indices are both decimal numerals in a request:  *)
(* here both are naturals.  A topology gives the primary camera of the     *)
(* slots 0 (back) and 1 (front) and the Camera1 index of every camera.     *)
(***************************************************************************)
EXTENDS Integers, Sequences, FiniteSets, FiniteSetsExt

CONSTANTS
  Topology,        \* records [targets: Slot -> id or None, index: id -> Nat]
  Shape, Name,     \* kinds of requests, numerals they carry
  Package, Uid, PackagesOf, AnyPackage,
  Provider, Physical,      \* Physical[p]: slot of physical-<slot>, or None
  RouteTable,      \* sequences of [package, slot, provider]
  MaxChanges,      \* policy changes during one request
  None, Rejected

Slot == {0, 1}
RouteLine == [package : Package \cup {AnyPackage}, slot : Slot, provider : Provider]
kBackVirtualCameraId == 1000
kFrontVirtualCameraId == 1001
Internal(s) == IF s = 0 THEN kBackVirtualCameraId ELSE kFrontVirtualCameraId
isInternalCameraId(n) == n \in {kBackVirtualCameraId, kFrontVirtualCameraId}

(* What camera-map.sh validates before it publishes a topology: cameras    *)
(* have different Camera1 indices, both internal ones have one, and the    *)
(* targets of the slots are cameras with one.                              *)
ValidTopology(t) ==
  /\ t.index \in [DOMAIN t.index -> Nat] /\ DOMAIN t.index \subseteq Nat
  /\ \A c, d \in DOMAIN t.index : t.index[c] = t.index[d] => c = d
  /\ \A s \in Slot : Internal(s) \in DOMAIN t.index
  /\ t.targets \in [Slot -> DOMAIN t.index \cup {None}]

IntegerShape == {"connectApi1", "integerCameraId"}
NamedShape == {"connectApi1", "connectDevice"}    \* carry a package name
Request ==
  [shape : Shape,
   id : Name, package : Package \cup {None}, uid : Uid, observed : BOOLEAN]

ASSUME RouterAssumption ==
  /\ \A t \in Topology : ValidTopology(t)
  /\ Name \subseteq Nat /\ MaxChanges \in Nat
  /\ None \notin Nat \cup Package \cup Provider \cup Topology \cup {AnyPackage, Rejected}
  /\ Rejected \notin Nat /\ None \notin Request
  /\ RouteTable \subseteq Seq(RouteLine) /\ <<>> \in RouteTable
  /\ Physical \in [Provider -> Slot \cup {None}]
  /\ PackagesOf \in [Uid -> SUBSET Package] /\ \A u \in Uid : IsFiniteSet(PackagesOf[u])

VARIABLES
  boot, routing, stage,    \* topology of this boot, physical-route mode, maps published
  file,                    \* topology each map file comes from, or None
  policy,                  \* [disabled, routes, enabled]
  pc, req, configured, who, slot, provider, replacement, sent,   \* the request
  was, used, fault, changes      \* history of the request

system == <<boot, routing, stage, file>>
decision == <<configured, who, slot, provider, replacement>>
history == <<was, used, fault>>
vars == <<system, policy, pc, req, decision, sent, history, changes>>

Maps == <<"targets", "camera1Targets", "camera1Map", "topology">>
Policy == [disabled : BOOLEAN, routes : RouteTable, enabled : SUBSET Provider]

TypeOK ==
  /\ boot \in Topology /\ routing \in BOOLEAN /\ stage \in 0..4
  /\ file \in [{Maps[i] : i \in 1..4} -> Topology \cup {None}] /\ policy \in Policy
  /\ pc \in {"idle", "policy", "table", "maps", "identity", "target", "routes", "lines",
             "enabled", "physical", "camera1", "rewrite", "done"}
  /\ req \in Request \cup {None} /\ configured \in BOOLEAN
  /\ who \in Package \cup {None} /\ slot \in Slot \cup {None}
  /\ provider \in Provider \cup {None} /\ (pc = "done" => sent # None)
  /\ sent \in Nat \cup {Rejected, None}
  /\ was \subseteq Policy /\ used \subseteq Topology /\ fault \in BOOLEAN
  /\ changes \in 0..MaxChanges

EndRequest ==
  /\ pc' = "idle" /\ req' = None /\ configured' = FALSE /\ who' = None /\ slot' = None
  /\ provider' = None /\ replacement' = None /\ sent' = None
  /\ was' = {} /\ used' = {} /\ fault' = FALSE /\ changes' = 0

Init ==
  /\ boot \in Topology /\ routing \in BOOLEAN /\ stage = 0
  /\ file = [m \in {Maps[i] : i \in 1..4} |-> None]
  /\ policy = [disabled |-> FALSE, routes |-> <<>>, enabled |-> {}]
  /\ pc = "idle" /\ req = None /\ configured = FALSE /\ who = None /\ slot = None
  /\ provider = None /\ replacement = None /\ sent = None
  /\ was = {} /\ used = {} /\ fault = FALSE /\ changes = 0

-----------------------------------------------------------------------------
(* Mutant: the marker of an earlier boot stays.                            *)
RebootKeepsMarker(t, r) ==
  /\ boot' = t /\ routing' = r /\ stage' = 0 /\ UNCHANGED <<file, policy>>
  /\ EndRequest

(* The device restarts, cameras may be numbered anew; post-mount.sh drops  *)
(* the marker, the maps themselves stay.                                   *)
Reboot(t, r) ==
  /\ boot' = t /\ routing' = r /\ stage' = 0 /\ UNCHANGED policy
  /\ file' = IF r THEN [file EXCEPT !["topology"] = None] ELSE file
  /\ EndRequest

(* camera-map.sh moves the next of its files into place, the marker last.  *)
PublishMap ==
  /\ routing /\ stage < 4 /\ pc # "done" /\ stage' = stage + 1
  /\ file' = [file EXCEPT ![Maps[stage + 1]] = boot]
  /\ UNCHANGED <<boot, routing, policy, pc, req, decision, sent, history, changes>>

(* vcamctl replaces the table, disables routing, or a provider starts or   *)
(* stops.                                                                  *)
ChangePolicy ==
  /\ pc # "done" /\ (pc # "idle" => changes < MaxChanges)
  /\ policy' \in {[policy EXCEPT !.routes = t] : t \in RouteTable}
             \cup {[policy EXCEPT !.disabled = ~@]}
             \cup {[policy EXCEPT !.enabled = (@ \ {p}) \cup ({p} \ @)]
                     : p \in {q \in Provider : Physical[q] = None}}
  /\ policy' # policy
  /\ IF pc = "idle" THEN UNCHANGED <<was, changes>>
                    ELSE was' = was \cup {policy'} /\ changes' = changes + 1
  /\ UNCHANGED <<system, pc, req, decision, sent, used, fault>>

-----------------------------------------------------------------------------
Step(from, to) == pc = from /\ pc' = to
Forward(n) == pc' = "done" /\ sent' = n
Reject == pc' = "done" /\ sent' = Rejected

(* A transaction arrives; what the observer cannot parse is passed on, as  *)
(* is everything in pass-through mode.                                     *)
Receive(q) ==
  /\ pc = "idle" /\ req' = q /\ was' = {policy}
  /\ CASE q.observed /\ routing /\ isInternalCameraId(q.id) -> Reject
       [] q.observed /\ routing /\ ~isInternalCameraId(q.id) -> pc' = "policy" /\ UNCHANGED sent
       [] OTHER -> Forward(q.id)
  /\ UNCHANGED <<system, policy, decision, used, fault, changes>>

(* Mutant: only a missing table counts as no policy, not a disabled one.   *)
IgnoreDisabled ==
  /\ Step("policy", "table")
  /\ UNCHANGED <<system, policy, req, decision, sent, history, changes>>

(* routingPolicyActive(): access() of the flag, then stat() of the table.  *)
CheckDisabled ==
  /\ IF policy.disabled THEN Step("policy", "maps") /\ configured' = FALSE
                        ELSE Step("policy", "table") /\ UNCHANGED configured
  /\ UNCHANGED <<system, policy, req, who, slot, provider, replacement, sent, history, changes>>

CheckTable ==
  /\ Step("table", "maps") /\ configured' = (policy.routes # <<>>)
  /\ UNCHANGED <<system, policy, req, who, slot, provider, replacement, sent, history, changes>>

(* Four calls in one step: within a boot no map is removed, and the marker *)
(* is both published and tested last.                                      *)
routingMapsReady == \A i \in 1..4 : file[Maps[i]] # None

CheckMaps ==
  /\ pc = "maps"
  /\ IF configured /\ ~routingMapsReady
       THEN Reject ELSE pc' = "identity" /\ UNCHANGED sent
  /\ UNCHANGED <<system, policy, req, decision, history, changes>>

(* Mutant: the package name in the request is believed.                    *)
IdentifyByClaim ==
  /\ pc = "identity" /\ who' = req.package
  /\ IF configured THEN pc' = "target" /\ UNCHANGED sent ELSE Forward(req.id)
  /\ UNCHANGED <<system, policy, req, configured, slot, provider, replacement, history, changes>>

classifyCameraCallerIdentity(q) ==
  IF q.shape \in NamedShape /\ q.package # None THEN "claimedPackage" ELSE "uidOnly"

(* The claimed package if the caller's UID owns it, the only package of    *)
(* the UID when none is claimed; the package service may not answer.       *)
Identify ==
  /\ pc = "identity"
  /\ \E packages \in {PackagesOf[req.uid], {}} :
       who' = IF classifyCameraCallerIdentity(req) = "claimedPackage"
                THEN IF req.package \in packages THEN req.package ELSE None
                ELSE IF configured /\ Cardinality(packages) = 1
                  THEN CHOOSE p \in packages : TRUE ELSE None
  /\ IF configured THEN pc' = "target" /\ UNCHANGED sent ELSE Forward(req.id)
  /\ UNCHANGED <<system, policy, req, configured, slot, provider, replacement, history, changes>>

(* The name of slot s in a map file, None when the file has no line for it.*)
NameIn(m, s) ==
  LET t == file[m] IN
  IF t.targets[s] = None THEN None
  ELSE IF m = "targets" THEN t.targets[s] ELSE t.index[t.targets[s]]

(* targetSlot() in the map of the request's API.                           *)
ReadTarget ==
  LET m == IF req.shape \in IntegerShape THEN "camera1Targets" ELSE "targets"
      found == {s \in Slot : NameIn(m, s) = req.id}
  IN /\ pc = "target" /\ used' = used \cup {file[m]}
     /\ IF found = {} THEN Forward(req.id) /\ UNCHANGED slot
                      ELSE pc' = "routes" /\ slot' \in found /\ UNCHANGED sent
     /\ UNCHANGED <<system, policy, req, configured, who, provider, replacement, was, fault, changes>>

(* The first line for the package, else the first line for all packages.   *)
LinesFor(table, p, s) == {i \in DOMAIN table : table[i].slot = s /\ table[i].package = p}
providerForPackage(table, p, s) ==
  LET own == LinesFor(table, p, s)
      all == LinesFor(table, AnyPackage, s)
  IN IF p # None /\ own # {} THEN table[Min(own)].provider
     ELSE IF all # {} THEN table[Min(all)].provider ELSE None

(* resolveProviderForPackage() looks at the flag again,                    *)
ReadDisabled ==
  /\ pc = "routes"
  /\ IF policy.disabled THEN Forward(req.id) ELSE pc' = "lines" /\ UNCHANGED sent
  /\ UNCHANGED <<system, policy, req, decision, history, changes>>

(* then opens and reads the table, up to the provider's state.             *)
ReadRoutes ==
  /\ pc = "lines"
  /\ LET p == providerForPackage(policy.routes, who, slot)
     IN /\ provider' = p
        /\ IF p = None THEN Forward(req.id)
           ELSE pc' = (IF Physical[p] # None THEN "physical" ELSE "enabled") /\ UNCHANGED sent
  /\ UNCHANGED <<system, policy, req, configured, who, slot, replacement, history, changes>>

Rewrite == pc' = (IF req.shape \in IntegerShape THEN "camera1" ELSE "rewrite") /\ UNCHANGED sent

(* The provider's file enabled exists.                                     *)
Available(p) == p \in policy.enabled

(* A provider that is not enabled leaves the request as it is.             *)
CheckEnabled ==
  /\ pc = "enabled"
  /\ IF Available(provider)
       THEN replacement' = Internal(slot) /\ Rewrite
       ELSE Forward(req.id) /\ UNCHANGED replacement
  /\ UNCHANGED <<system, policy, req, configured, who, slot, provider, history, changes>>

(* physicalCameraIdForProvider(): the result is a Camera2 ID and is        *)
(* compared with the number in the request.                                *)
ReadPhysical ==
  /\ pc = "physical" /\ used' = used \cup {file["targets"]}
  /\ LET c == NameIn("targets", Physical[provider]) IN
     \/ c = None /\ Reject /\ UNCHANGED replacement
     \/ c # None /\ c = req.id /\ Forward(req.id) /\ UNCHANGED replacement
     \/ c # None /\ c # req.id /\ replacement' = c /\ Rewrite
  /\ UNCHANGED <<system, policy, req, configured, who, slot, provider, was, fault, changes>>

(* camera1IndexForId()                                                     *)
ReadCamera1 ==
  /\ pc = "camera1" /\ used' = used \cup {file["camera1Map"]}
  /\ LET index == file["camera1Map"].index IN
     IF replacement \in DOMAIN index
       THEN replacement' = index[replacement] /\ pc' = "rewrite" /\ UNCHANGED sent
       ELSE Reject /\ UNCHANGED replacement
  /\ UNCHANGED <<system, policy, req, configured, who, slot, provider, was, fault, changes>>

(* The parcel is rewritten and sent; one that cannot be copied goes out    *)
(* unchanged and is counted as a failure.                                  *)
SendRewritten ==
  /\ pc = "rewrite"
  /\ \/ Forward(replacement) /\ UNCHANGED fault
     \/ Forward(req.id) /\ fault' = TRUE
  /\ UNCHANGED <<system, policy, req, decision, was, used, changes>>

Return == pc = "done" /\ EndRequest /\ UNCHANGED <<system, policy>>

Decide ==
  \/ CheckDisabled \/ CheckTable \/ CheckMaps \/ Identify \/ ReadTarget
  \/ ReadDisabled \/ ReadRoutes \/ CheckEnabled
  \/ ReadPhysical \/ ReadCamera1 \/ SendRewritten

Environment ==
  \/ \E t \in Topology, r \in BOOLEAN : Reboot(t, r)
  \/ PublishMap \/ ChangePolicy
  \/ \E q \in Request : (q.package # None => q.shape \in NamedShape) /\ Receive(q)

Next == Environment \/ Decide \/ Return

Spec == Init /\ [][Next]_vars

-----------------------------------------------------------------------------
(* The camera the service opens for a number.                              *)
Opened(shape, n) ==
  IF shape \in IntegerShape
    THEN LET cs == {c \in DOMAIN boot.index : boot.index[c] = n}
         IN IF cs = {} THEN None ELSE CHOOSE c \in cs : TRUE
    ELSE n

(* The packages whose routes a caller may use, and the rule of the docs    *)
(* for precedence: own lines before global ones, earlier before later.     *)
Entitled(q) ==
  {p \in PackagesOf[q.uid] : q.package = p \/ (q.package = None /\ PackagesOf[q.uid] = {p})}
    \cup {None}
Rules(table, p, s) ==
  LET Of(i, k) == table[i].slot = s /\ table[i].package = k
      First(i, k) == Of(i, k) /\ \A j \in 1..(i - 1) : ~Of(j, k)
  IN {table[i].provider : i \in {i \in DOMAIN table :
        First(i, p) \/ (First(i, AnyPackage) /\ \A j \in DOMAIN table : ~Of(j, p))}}

(* The Camera2 ID of the target of a physical route is the number in the   *)
(* request, which onTransact() takes for a request of that target.  If it  *)
(* was a Camera1 index, it may be that of another camera.                  *)
TakenForTarget(r) == boot.targets[Physical[r]] = req.id

(* What the flag of f and the table of w prescribe with the providers in e *)
(* enabled.                                                                *)
Prescribed(f, w, e, p, s) ==
  LET requested == Opened(req.shape, req.id)
      rules == IF f.disabled THEN {} ELSE Rules(w.routes, p, s)
  IN IF rules = {} THEN {requested}
     ELSE {IF Physical[r] # None
             THEN IF TakenForTarget(r) THEN requested ELSE boot.targets[Physical[r]]
           ELSE IF r \in e THEN Internal(s) ELSE requested : r \in rules}
RequestedSlots ==
  {s \in Slot : boot.targets[s] # None /\ boot.targets[s] = Opened(req.shape, req.id)}

Routed == pc = "done" /\ req.observed /\ routing

(* A request for the camera of a slot opens the camera that the routes     *)
(* prescribe for its caller: by a flag, a table and a provider state that  *)
(* were each in force while it was handled, though vcamctl may have        *)
(* changed one between the reads of the others.  A Camera1 index that      *)
(* TakenForTarget() confuses stays as it is.  Any other request is passed  *)
(* on as it came, unless its number is the ID of an internal camera; the   *)
(* Camera1 index of one is not looked for.                                 *)
FollowsPolicy ==
  Routed /\ sent # Rejected /\ ~fault =>
    /\ ~isInternalCameraId(req.id)
    /\ \/ RequestedSlots = {} /\ sent = req.id
       \/ \E f, w, v \in was, p \in Entitled(req), s \in RequestedSlots :
            Opened(req.shape, sent) \in Prescribed(f, w, v.enabled, p, s)

(* Routing decisions use only camera maps of the running boot: those of an *)
(* earlier one lie behind the removed marker.                              *)
NoStaleTopology == used \subseteq {boot}

(* Requests are refused for cause and only then: a public camera is        *)
(* refused only when routing was found enabled and a table found that has  *)
(* lines, and the maps are not ready or a line of it leads to a physical   *)
(* slot without a camera.  While a policy is active no request reaches the *)
(* service before the maps of this boot are published (fail closed).       *)
RefusedForCause ==
  /\ Routed /\ sent # Rejected /\ (\A w \in was : ~w.disabled /\ w.routes # <<>>) => stage = 4
  /\ Routed /\ sent = Rejected =>
       \/ isInternalCameraId(req.id)
       \/ \E f, w \in was : /\ ~f.disabled /\ w.routes # <<>>
                            /\ \/ stage < 4
                               \/ \E p \in Entitled(req), s \in RequestedSlots :
                                    \E r \in Rules(w.routes, p, s) :
                                      Physical[r] # None /\ boot.targets[Physical[r]] = None
=============================================================================
