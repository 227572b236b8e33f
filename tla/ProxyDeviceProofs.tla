-------------------------- MODULE ProxyDeviceProofs --------------------------
(* Proofs, for any sets of clients, cameras, OEM handles and records, of   *)
(* the safety properties of ProxyDevice.                                   *)
EXTENDS ProxyDevice, FiniteSetTheorems, TLAPS

(* Most leaves are first-order reasoning about facades and handles, which  *)
(* Zenon does fastest; the others cite SMT.                                *)
USE Zenon

-----------------------------------------------------------------------------
(* The inductive invariant.                                                *)

Configuring == {"configure", "select", "select_null", "select_open", "select_init",
                "configure_physical", "configure_null", "publish"}
Closing == {"close_physical", "close_null", "release", "delete"}

(* The handle that the facade of a client owns, and the one in its hands.  *)
Held(t) == IF mine[t] # None /\ pc[t] \notin Between THEN Facade(t).physical ELSE None
Handles(t) == {Held(t), fresh[t]} \ {None}

(* Which call a client is in, by where it is in the HAL3 protocol.         *)
CallInv(t) ==
  /\ fresh[t] # None <=> pc[t] \in {"open_virtual", "select_init"}
  /\ mine[t] # None <=> phase[t] # "none"
  /\ pc[t] = "open_virtual" => phase[t] = "none"
  /\ pc[t] = "init_virtual" => phase[t] = "open"
  /\ pc[t] \in Configuring => phase[t] = "unconfigured"
  /\ pc[t] \in Closing => phase[t] = "broken"

(* What a client has is open and is what the records say: its facade is in *)
(* the slot of its camera until it is released.                            *)
DeviceInv(t) ==
  /\ mine[t] # None => /\ Facade(t).camera # None
                       /\ slot[Facade(t).camera] = mine[t] <=> pc[t] # "delete"
  /\ Held(t) # None => /\ oem[Held(t)] = Facade(t).source /\ Facade(t).source # None
                       /\ Held(t) # fresh[t]
  /\ fresh[t] # None => oem[fresh[t]] # None
  /\ phase[t] = "open" => Held(t) # None
  /\ pc[t] \in {"select_open", "select_init", "release", "delete"} => Facade(t).physical = None

(* What selectPhysicalSource() and the configuration have achieved at each *)
(* step.                                                                   *)
RouteInv(t) ==
  /\ pc[t] \in Configuring \/ phase[t] = "configured" => route[t] # None
  /\ pc[t] = "configure" => route[t] = "virtual"
  /\ pc[t] \in Configuring \ {"configure", "publish"} => route[t] # "virtual"
  /\ pc[t] = "select_init" => oem[fresh[t]] = route[t]
  /\ pc[t] = "configure_physical" => Held(t) # None /\ Facade(t).source = route[t]
  /\ pc[t] = "publish" \/ phase[t] = "configured" =>
       IF route[t] = "virtual" THEN Facade(t).virtual = "streaming"
       ELSE Held(t) \in streaming /\ Facade(t).source = route[t]
  /\ phase[t] = "configured" =>
       Facade(t).backend = (IF route[t] = "virtual" THEN "virtual" ELSE "physical")
  /\ phase[t] \in {"unconfigured", "configured"} \/ pc[t] = "init_virtual" =>
       Held(t) \in ready \cup {None}

ClientInv(t) == CallInv(t) /\ DeviceInv(t) /\ RouteInv(t)

(* No two clients have the same facade or the same handle.                 *)
Disjoint ==
  \A t, u \in Client : t # u =>
    /\ mine[t] # None => mine[t] # mine[u]
    /\ Handles(t) \cap Handles(u) = {}

(* Every open handle is somebody's, and every slot is its camera's.        *)
Covered ==
  /\ \A h \in Handle : oem[h] # None => \E t \in Client : h \in Handles(t)
  /\ \A c \in Camera : slot[c] # None => state[slot[c]].camera = c

Inv == TypeOK /\ Disjoint /\ Covered /\ \A t \in Client : ClientInv(t)

(* The handles of others are untouched, and what is open is still owned.   *)
HandlesKept(t) ==
  /\ \A h \in Handle \ Handles(t) : oem[h] # None =>
       /\ oem'[h] = oem[h] /\ h \notin Handles(t)'
       /\ h \in ready' <=> h \in ready
       /\ h \in streaming' <=> h \in streaming
  /\ \A h \in Handle : oem'[h] # None =>
       h \in Handles(t)' \/ (oem[h] # None /\ h \notin Handles(t))

(* A step of one client touches nothing but what that client has, what     *)
(* nobody has, and the slot that is or becomes its own.                    *)
Local(t) ==
  /\ \A u \in Client \ {t} :
       /\ pc'[u] = pc[u] /\ mine'[u] = mine[u] /\ fresh'[u] = fresh[u]
       /\ route'[u] = route[u] /\ phase'[u] = phase[u]
       /\ mine'[t] # None => mine'[t] # mine[u]
  /\ \A d \in Device \ {mine[t], mine'[t]} : state'[d] = state[d]
  /\ HandlesKept(t)
  /\ \A c \in Camera :
       /\ \/ slot'[c] = slot[c]
          \/ slot[c] = None /\ slot'[c] = mine'[t]
          \/ slot[c] = mine[t] /\ slot'[c] = None
       /\ slot'[c] # None /\ slot'[c] \in {mine[t], mine'[t]} => state'[slot'[c]].camera = c

(* Hence it keeps the invariant if it keeps its own part of it.            *)
LEMMA LocalStep ==
  ASSUME Inv, TypeOK', NEW t \in Client, Local(t), ClientInv(t)'
  PROVE  Inv'
<1>1. \A u \in Client \ {t} : mine[u] # None => mine[u] # mine[t] /\ mine[u] # mine'[t]
  BY DEF Inv, Disjoint, Local
<1>2. ASSUME NEW u \in Client \ {t}
      PROVE  /\ mine[u] # None => Facade(u)' = Facade(u)
             /\ Held(u)' = Held(u) /\ Handles(u)' = Handles(u)
  <2>1. mine[u] \in Device \cup {None}
    BY DEF Inv, TypeOK
  <2>2. pc'[u] = pc[u] /\ mine'[u] = mine[u] /\ fresh'[u] = fresh[u]
    BY DEF Local
  <2>3. mine[u] # None => Facade(u)' = Facade(u)
    BY <1>1, <2>1, <2>2, ZenonT(40) DEF Facade, Local
  <2> QED
    BY <2>2, <2>3 DEF Held, Handles
<1>3. ASSUME NEW u \in Client \ {t}, NEW h \in Handles(u)
      PROVE  /\ h \in Handle \ Handles(t) /\ oem[h] # None /\ oem'[h] = oem[h]
             /\ h \notin Handles(t)'
             /\ h \in ready' <=> h \in ready
             /\ h \in streaming' <=> h \in streaming
  <2>1. h \in Handle /\ oem[h] # None
    BY SMT DEF Inv, TypeOK, ClientInv, DeviceInv, Handles, Held, Facade, Record
  <2>2. h \notin Handles(t)
    BY DEF Inv, Disjoint
  <2> QED
    BY <2>1, <2>2 DEF Local, HandlesKept
<1>4. Disjoint'
  BY <1>1, <1>2, <1>3, SMT DEF Inv, Disjoint, Local
<1>5. Covered'
  <2>1. ASSUME NEW h \in Handle, oem'[h] # None PROVE \E u \in Client : h \in Handles(u)'
    BY <2>1, <1>2, SMT DEF Inv, Covered, Local, HandlesKept
  <2>2. ASSUME NEW c \in Camera, slot'[c] # None PROVE state'[slot'[c]].camera = c
    <3>1. CASE slot'[c] \in {mine[t], mine'[t]}
      BY <2>2, <3>1 DEF Local
    <3>2. CASE slot'[c] \notin {mine[t], mine'[t]}
      <4>1. slot'[c] = slot[c] /\ slot'[c] \in Device
        BY <2>2, <3>2, ZenonT(40) DEF Local, TypeOK
      <4> QED
        BY <2>2, <3>2, <4>1, SMT DEF Local, Inv, Covered
    <3> QED
      BY <3>1, <3>2
  <2> QED
    BY <2>1, <2>2 DEF Covered
<1>6. ASSUME NEW u \in Client \ {t} PROVE ClientInv(u)'
  <2>1. pc'[u] = pc[u] /\ mine'[u] = mine[u] /\ fresh'[u] = fresh[u]
        /\ route'[u] = route[u] /\ phase'[u] = phase[u]
    BY DEF Local
  <2>2. ClientInv(u)
    BY DEF Inv
  <2>3. CallInv(u)'
    BY <2>1, <2>2 DEF ClientInv, CallInv
  <2>4. ASSUME mine[u] # None
        PROVE  slot'[Facade(u).camera] = mine[u] <=> slot[Facade(u).camera] = mine[u]
    <3>1. Facade(u).camera \in Camera
      BY <2>2, <2>4, ZenonT(40) DEF ClientInv, DeviceInv, Inv, TypeOK, Facade, Record
    <3> QED
      BY <1>1, <2>4, <3>1 DEF Local
  <2>5. Held(u)' = Held(u) /\ (mine[u] # None => Facade(u)' = Facade(u))
    BY <1>2
  <2>6. Held(u) # None =>
          /\ oem'[Held(u)] = oem[Held(u)]
          /\ Held(u) \in ready' <=> Held(u) \in ready
          /\ Held(u) \in streaming' <=> Held(u) \in streaming
    BY <1>3 DEF Handles
  <2>7. fresh[u] # None => oem'[fresh[u]] = oem[fresh[u]]
    BY <1>3 DEF Handles
  <2>8. /\ phase[u] # "none" => mine[u] # None
        /\ Held(u) # None => mine[u] # None
        /\ pc[u] \in Configuring \cup Closing => mine[u] # None
    BY <2>2 DEF ClientInv, CallInv, Held
  <2>9. DeviceInv(u)'
    BY <2>1, <2>2, <2>4, <2>5, <2>6, <2>7, <2>8 DEF ClientInv, DeviceInv, Configuring, Closing
  <2>10. RouteInv(u)'
    <3>1. pc[u] = "select_init" => fresh[u] # None
      BY <2>2 DEF ClientInv, CallInv
    <3>2. Held(u) \in streaming => Held(u) # None
      BY ProxyAssumption DEF Inv, TypeOK
    <3>3. pc[u] = "configure_physical" \/ pc[u] = "publish" \/ phase[u] = "configured" => mine[u] # None
      BY <2>8 DEF Configuring
    <3> QED
      BY <2>1, <2>2, <2>5, <2>6, <2>7, <3>1, <3>2, <3>3, ZenonT(40) DEF ClientInv, RouteInv
  <2> QED
    BY <2>3, <2>9, <2>10 DEF ClientInv
<1> QED
  BY <1>4, <1>5, <1>6 DEF Inv

(* Storing a record in the facade of a client changes no other facade.     *)
LEMMA Stored ==
  ASSUME TypeOK, NEW t \in Client, mine[t] \in Device, UNCHANGED mine, NEW r \in Record, Set(t, r)
  PROVE  /\ state' \in [Device -> Record] /\ Facade(t)' = r
         /\ \A d \in Device \ {mine[t]} : state'[d] = state[d]
BY DEF TypeOK, Set, Facade

(* Setting the state of the virtual camera leaves the other fields alone.  *)
LEMMA VirtualStored ==
  ASSUME TypeOK, NEW t \in Client, mine[t] \in Device, UNCHANGED mine,
         NEW v \in {"closed", "open", "ready", "streaming"},
         Set(t, [Facade(t) EXCEPT !.virtual = v])
  PROVE  /\ state' \in [Device -> Record]
         /\ \A d \in Device \ {mine[t]} : state'[d] = state[d]
         /\ Facade(t)'.virtual = v /\ Facade(t)'.camera = Facade(t).camera
         /\ Facade(t)'.physical = Facade(t).physical /\ Facade(t)'.source = Facade(t).source
         /\ Facade(t)'.backend = Facade(t).backend
<1> DEFINE r == [Facade(t) EXCEPT !.virtual = v]
<1>1. Facade(t) \in Record
  BY DEF TypeOK, Facade
<1>2. r \in Record
  BY <1>1 DEF Record
<1>3. /\ r.virtual = v /\ r.camera = Facade(t).camera
      /\ r.physical = Facade(t).physical /\ r.source = Facade(t).source /\ r.backend = Facade(t).backend
  BY <1>1 DEF Record
<1> HIDE DEF r
<1>4. /\ state' \in [Device -> Record] /\ Facade(t)' = r
      /\ \A d \in Device \ {mine[t]} : state'[d] = state[d]
  BY <1>2, Stored DEF r
<1> QED
  BY <1>3, <1>4

(* So does publishing the backend,                                         *)
LEMMA BackendStored ==
  ASSUME TypeOK, NEW t \in Client, mine[t] \in Device, UNCHANGED mine, NEW b \in Backend,
         Set(t, [Facade(t) EXCEPT !.backend = b])
  PROVE  /\ state' \in [Device -> Record]
         /\ \A d \in Device \ {mine[t]} : state'[d] = state[d]
         /\ Facade(t)'.backend = b /\ Facade(t)'.camera = Facade(t).camera
         /\ Facade(t)'.physical = Facade(t).physical /\ Facade(t)'.source = Facade(t).source
         /\ Facade(t)'.virtual = Facade(t).virtual
<1> DEFINE r == [Facade(t) EXCEPT !.backend = b]
<1>1. Facade(t) \in Record
  BY DEF TypeOK, Facade
<1>2. r \in Record
  BY <1>1 DEF Record
<1>3. /\ r.backend = b /\ r.camera = Facade(t).camera
      /\ r.physical = Facade(t).physical /\ r.source = Facade(t).source /\ r.virtual = Facade(t).virtual
  BY <1>1 DEF Record
<1> HIDE DEF r
<1>4. /\ state' \in [Device -> Record] /\ Facade(t)' = r
      /\ \A d \in Device \ {mine[t]} : state'[d] = state[d]
  BY <1>2, Stored DEF r
<1> QED
  BY <1>3, <1>4

(* clearing the pointer to the physical device,                            *)
LEMMA PhysicalStored ==
  ASSUME TypeOK, NEW t \in Client, mine[t] \in Device, UNCHANGED mine,
         Set(t, [Facade(t) EXCEPT !.physical = None])
  PROVE  /\ state' \in [Device -> Record]
         /\ \A d \in Device \ {mine[t]} : state'[d] = state[d]
         /\ Facade(t)'.physical = None /\ Facade(t)'.camera = Facade(t).camera
         /\ Facade(t)'.source = Facade(t).source /\ Facade(t)'.virtual = Facade(t).virtual
         /\ Facade(t)'.backend = Facade(t).backend
<1> DEFINE r == [Facade(t) EXCEPT !.physical = None]
<1>1. Facade(t) \in Record
  BY DEF TypeOK, Facade
<1>2. r \in Record
  BY <1>1 DEF Record
<1>3. /\ r.physical = None /\ r.camera = Facade(t).camera
      /\ r.source = Facade(t).source /\ r.virtual = Facade(t).virtual /\ r.backend = Facade(t).backend
  BY <1>1 DEF Record
<1> HIDE DEF r
<1>4. /\ state' \in [Device -> Record] /\ Facade(t)' = r
      /\ \A d \in Device \ {mine[t]} : state'[d] = state[d]
  BY <1>2, Stored DEF r
<1> QED
  BY <1>3, <1>4

(* and storing the physical device with its source.                        *)
LEMMA SourceStored ==
  ASSUME TypeOK, NEW t \in Client, mine[t] \in Device, UNCHANGED mine,
         NEW h \in Handle \cup {None}, NEW c \in Camera \cup {None},
         Set(t, [Facade(t) EXCEPT !.physical = h, !.source = c])
  PROVE  /\ state' \in [Device -> Record]
         /\ \A d \in Device \ {mine[t]} : state'[d] = state[d]
         /\ Facade(t)'.physical = h /\ Facade(t)'.source = c
         /\ Facade(t)'.camera = Facade(t).camera /\ Facade(t)'.virtual = Facade(t).virtual
         /\ Facade(t)'.backend = Facade(t).backend
<1> DEFINE r == [Facade(t) EXCEPT !.physical = h, !.source = c]
<1>1. Facade(t) \in Record
  BY DEF TypeOK, Facade
<1>2. r \in Record
  BY <1>1 DEF Record
<1>3. /\ r.physical = h /\ r.source = c
      /\ r.camera = Facade(t).camera /\ r.virtual = Facade(t).virtual /\ r.backend = Facade(t).backend
  BY <1>1 DEF Record
<1> HIDE DEF r
<1>4. /\ state' \in [Device -> Record] /\ Facade(t)' = r
      /\ \A d \in Device \ {mine[t]} : state'[d] = state[d]
  BY <1>2, Stored DEF r
<1> QED
  BY <1>3, <1>4

(* What a client has at hand in a call: its facade, the handle it has just *)
(* opened and the route it has resolved.                                   *)
LEMMA AtHand ==
  ASSUME Inv, NEW t \in Client
  PROVE  /\ pc[t] \notin {"out", "open_virtual"} \/ phase[t] # "none" => mine[t] \in Device
         /\ mine[t] \in Device => /\ Facade(t) \in Record /\ Facade(t).camera \in Camera
                                  /\ Facade(t).physical \in Handle \cup {None}
         /\ pc[t] \in {"open_virtual", "select_init"} =>
              fresh[t] \in Handle /\ oem[fresh[t]] \in Camera
         /\ pc[t] \in {"select", "select_null", "select_open", "select_init",
                       "configure_physical"} => route[t] \in Camera
         /\ pc[t] = "configure_physical" \/ (phase[t] = "open" /\ pc[t] = "out") =>
              Facade(t).physical \in Handle
<1> USE DEF Inv, TypeOK
<1>1. CallInv(t) /\ DeviceInv(t) /\ RouteInv(t)
  BY DEF ClientInv
<1>2. pc[t] \in Steps /\ mine[t] \in Device \cup {None} /\ fresh[t] \in Handle \cup {None}
      /\ route[t] \in Route \cup {None}
  OBVIOUS
<1>3. pc[t] \notin {"out", "open_virtual"} \/ phase[t] # "none" => mine[t] \in Device
  BY <1>1, <1>2 DEF CallInv, Configuring, Closing, Steps
<1>4. mine[t] \in Device => /\ Facade(t) \in Record /\ Facade(t).camera \in Camera
                            /\ Facade(t).physical \in Handle \cup {None}
  BY <1>1, ProxyAssumption DEF DeviceInv, Facade, Record
<1>5. pc[t] \in {"open_virtual", "select_init"} =>
        fresh[t] \in Handle /\ oem[fresh[t]] \in Camera
  BY <1>1, <1>2 DEF CallInv, DeviceInv
<1>6. pc[t] \in {"select", "select_null", "select_open", "select_init",
                 "configure_physical"} => route[t] \in Camera
  BY <1>1, <1>2 DEF RouteInv, Configuring, Route
<1>7. pc[t] = "configure_physical" \/ (phase[t] = "open" /\ pc[t] = "out") =>
        Facade(t).physical \in Handle
  BY <1>1, <1>3, <1>4 DEF RouteInv, DeviceInv, Held
<1> QED
  BY <1>3, <1>4, <1>5, <1>6, <1>7

(* Most steps leave facades and slots as they are, up to the contents of   *)
(* the client's own record.                                                *)
OthersKept(t) ==
  \A u \in Client \ {t} :
    /\ pc'[u] = pc[u] /\ fresh'[u] = fresh[u]
    /\ route'[u] = route[u] /\ phase'[u] = phase[u]

RecordKept(t) ==
  /\ UNCHANGED <<mine, slot>>
  /\ \A d \in Device \ {mine[t]} : state'[d] = state[d]
  /\ mine[t] # None => Facade(t)'.camera = Facade(t).camera

(* Such a step keeps the invariant if it keeps its own part of it.         *)
LEMMA OwnRecordStep ==
  ASSUME Inv, TypeOK', NEW t \in Client, OthersKept(t), RecordKept(t), HandlesKept(t), ClientInv(t)'
  PROVE  Inv'
<1>1. \A u \in Client \ {t} : mine[t] # None => mine[t] # mine[u]
  BY DEF Inv, Disjoint
<1>2. ASSUME NEW c \in Camera, slot[c] # None, slot[c] = mine[t] PROVE state'[slot[c]].camera = c
  BY <1>2 DEF Inv, Covered, RecordKept, Facade
<1>3. Local(t)
  BY <1>1, <1>2 DEF Local, OthersKept, RecordKept
<1> QED
  BY <1>3, LocalStep

(* proxyOpen() holds the device it has just opened, and no facade yet.     *)
LEMMA OpenPhysicalStep ==
  ASSUME Inv, NEW t \in Client, NEW c \in Camera, OpenPhysical(t, c)
  PROVE  Inv'
<1>1. TypeOK /\ ClientInv(t)
  BY DEF Inv
<1>2. mine[t] # None <=> phase[t] # "none"
  BY <1>1 DEF ClientInv, CallInv
<1>3. mine[t] = None /\ fresh[t] = None
  BY <1>1, <1>2 DEF OpenPhysical, ClientInv, CallInv
<1>4. PICK h \in Handle : oem[h] = None /\ oem' = [oem EXCEPT ![h] = c] /\ fresh' = [fresh EXCEPT ![t] = h]
  BY DEF OpenPhysical, OemOpen
<1>5. /\ OthersKept(t) /\ RecordKept(t)
      /\ pc'[t] = "open_virtual" /\ phase'[t] = "none" /\ fresh'[t] = h /\ mine'[t] = None
      /\ oem'[h] = c /\ \A g \in Handle \ {h} : oem'[g] = oem[g]
      /\ UNCHANGED <<ready, streaming>>
  BY <1>1, <1>3, <1>4 DEF OpenPhysical, Goto, TypeOK, OthersKept, RecordKept
<1>6. TypeOK'
  BY <1>1, <1>4 DEF OpenPhysical, Goto, TypeOK, Steps
<1>7. Handles(t) = {} /\ Handles(t)' = {h}
  BY <1>3, <1>5, ProxyAssumption DEF Handles, Held
<1>8. HandlesKept(t)
  BY <1>4, <1>5, <1>7 DEF HandlesKept
<1>9. ClientInv(t)'
  BY <1>5, ProxyAssumption DEF ClientInv, CallInv, DeviceInv, RouteInv, Held, Configuring, Closing
<1> QED
  BY <1>5, <1>6, <1>8, <1>9, OwnRecordStep

(* A proxyOpen() that gives up closes the only handle it has.              *)
LEMMA OpenRefusedStep ==
  ASSUME Inv, NEW t \in Client, OpenRefused(t)
  PROVE  Inv'
<1>1. TypeOK /\ ClientInv(t)
  BY DEF Inv
<1>2. mine[t] # None <=> phase[t] # "none"
  BY <1>1 DEF ClientInv, CallInv
<1>3. mine[t] = None /\ fresh[t] \in Handle
  BY <1>1, <1>2, AtHand DEF OpenRefused, ClientInv, CallInv
<1>4. /\ OthersKept(t) /\ RecordKept(t)
      /\ pc'[t] = "out" /\ phase'[t] = "none" /\ fresh'[t] = None /\ mine'[t] = None
      /\ oem'[fresh[t]] = None /\ \A g \in Handle \ {fresh[t]} : oem'[g] = oem[g]
      /\ ready' = ready \ {fresh[t]} /\ streaming' = streaming \ {fresh[t]}
  BY <1>1, <1>2, <1>3
  DEF OpenRefused, OemClose, Goto, TypeOK, OthersKept, RecordKept, ClientInv, CallInv
<1>5. TypeOK'
  BY <1>1, <1>3 DEF OpenRefused, OemClose, Goto, TypeOK, Steps
<1>6. Handles(t) = {fresh[t]} /\ Handles(t)' = {}
  BY <1>3, <1>4, ProxyAssumption DEF Handles, Held
<1>7. HandlesKept(t)
  BY <1>4, <1>6 DEF HandlesKept
<1>8. ClientInv(t)'
  BY <1>4 DEF ClientInv, CallInv, DeviceInv, RouteInv, Held, Configuring, Closing
<1> QED
  BY <1>4, <1>5, <1>7, <1>8, OwnRecordStep

(* The facade takes a record that nobody has and a slot that was free, and *)
(* the new handle with them; or the new handle is closed again.            *)
LEMMA RegisterStep ==
  ASSUME Inv, NEW t \in Client, Register(t)
  PROVE  Inv'
<1> DEFINE c == oem[fresh[t]]
<1>1. TypeOK /\ ClientInv(t)
  BY DEF Inv
<1>2. /\ mine[t] = None /\ fresh[t] \in Handle /\ c \in Camera
      /\ pc[t] = "open_virtual" /\ phase[t] = "none"
  BY <1>1, AtHand DEF Register, ClientInv, CallInv
<1>3. fresh' = [fresh EXCEPT ![t] = None] /\ pc' = [pc EXCEPT ![t] = "out"] /\ UNCHANGED <<module, route>>
  BY DEF Register, Goto
<1>4. CASE OemClose(fresh[t]) /\ UNCHANGED <<slot, state, mine, phase>>
  <2>1. /\ OthersKept(t) /\ RecordKept(t)
        /\ pc'[t] = "out" /\ phase'[t] = "none" /\ fresh'[t] = None /\ mine'[t] = None
        /\ oem'[fresh[t]] = None /\ \A g \in Handle \ {fresh[t]} : oem'[g] = oem[g]
        /\ ready' = ready \ {fresh[t]} /\ streaming' = streaming \ {fresh[t]}
    BY <1>1, <1>2, <1>3, <1>4 DEF OemClose, TypeOK, OthersKept, RecordKept
  <2>2. TypeOK'
    BY <1>1, <1>2, <1>3, <1>4 DEF OemClose, TypeOK, Steps
  <2>3. Handles(t) = {fresh[t]} /\ Handles(t)' = {}
    BY <1>2, <2>1, ProxyAssumption DEF Handles, Held
  <2>4. HandlesKept(t)
    BY <2>1, <2>3 DEF HandlesKept
  <2>5. ClientInv(t)'
    BY <2>1 DEF ClientInv, CallInv, DeviceInv, RouteInv, Held, Configuring, Closing
  <2> QED
    BY <2>1, <2>2, <2>4, <2>5, OwnRecordStep
<1>5. ASSUME NEW d \in Device, state[d] = Free PROVE d \notin {slot[e] : e \in Camera} \cup {mine[u] : u \in Client}
  <2>1. state[d].camera = None
    BY <1>5, SMT DEF Free
  <2>2. ASSUME NEW e \in Camera, slot[e] = d PROVE FALSE
    BY <2>1, <2>2, ProxyAssumption DEF Inv, Covered
  <2>3. ASSUME NEW u \in Client, mine[u] = d PROVE FALSE
    BY <2>1, <2>3, ProxyAssumption DEF Inv, ClientInv, DeviceInv, Facade
  <2> QED
    BY <2>2, <2>3
<1>6. ASSUME slot[c] = None, NEW d \in Device, state[d] = Free,
             slot' = [slot EXCEPT ![c] = d], mine' = [mine EXCEPT ![t] = d],
             state' = [state EXCEPT ![d] = [camera |-> c, physical |-> fresh[t], source |-> c,
                                            virtual |-> "open", backend |-> "unconfigured"]],
             Become(t, "open"), UNCHANGED <<oem, ready, streaming>>
      PROVE  Inv'
  <2> DEFINE r == [camera |-> c, physical |-> fresh[t], source |-> c,
                   virtual |-> "open", backend |-> "unconfigured"]
  <2>1. r \in Record /\ r.camera = c /\ r.physical = fresh[t] /\ r.source = c
    BY <1>2 DEF Record, Backend
  <2>2. state' = [state EXCEPT ![d] = r]
    BY <1>6
  <2> HIDE DEF r, c
  <2>3. /\ state' \in [Device -> Record] /\ state'[d] = r
        /\ \A e \in Device \ {d} : state'[e] = state[e]
    BY <1>1, <2>1, <2>2 DEF TypeOK
  <2>4. /\ pc'[t] = "out" /\ phase'[t] = "open" /\ fresh'[t] = None /\ mine'[t] = d
        /\ \A u \in Client \ {t} :
             /\ pc'[u] = pc[u] /\ mine'[u] = mine[u] /\ fresh'[u] = fresh[u]
             /\ route'[u] = route[u] /\ phase'[u] = phase[u]
    BY <1>1, <1>3, <1>6 DEF Become, TypeOK
  <2>5. slot'[c] = d /\ \A e \in Camera \ {c} : slot'[e] = slot[e]
    BY <1>1, <1>2, <1>6 DEF TypeOK
  <2>6. TypeOK'
    BY <1>1, <1>2, <1>3, <1>6, <2>3 DEF Become, TypeOK, Steps
  <2>7. Handles(t) = {fresh[t]} /\ Handles(t)' = {fresh[t]} /\ Held(t)' = fresh[t] /\ Facade(t)' = r
    BY <1>2, <2>1, <2>3, <2>4, ProxyAssumption DEF Handles, Held, Facade, Between
  <2>8. HandlesKept(t)
    BY <1>6, <2>7 DEF HandlesKept
  <2>9. Local(t)
    <3>1. \A u \in Client \ {t} : mine'[t] # mine[u]
      BY <1>5, <1>6, <2>4, SMT
    <3>2. \A e \in Device \ {mine[t], mine'[t]} : state'[e] = state[e]
      BY <2>3, <2>4
    <3>3. ASSUME NEW e \in Camera
          PROVE  /\ slot'[e] = slot[e] \/ (slot[e] = None /\ slot'[e] = mine'[t])
                 /\ slot'[e] # None /\ slot'[e] \in {mine[t], mine'[t]} => state'[slot'[e]].camera = e
      BY <1>2, <1>5, <1>6, <2>1, <2>3, <2>4, <2>5, SMT
    <3> QED
      BY <2>4, <2>8, <3>1, <3>2, <3>3 DEF Local
  <2>10. ClientInv(t)'
    <3>1. oem'[fresh[t]] = c /\ c # None /\ fresh[t] # None /\ d # None
      BY <1>2, <1>6, ProxyAssumption DEF c
    <3> QED
      BY <2>1, <2>4, <2>5, <2>7, <3>1
      DEF ClientInv, CallInv, DeviceInv, RouteInv, Configuring, Closing
  <2> QED
    BY <2>6, <2>9, <2>10, LocalStep
<1> QED
  BY <1>4, <1>6 DEF Register

(* proxyInitialize() initializes the device that the facade holds,         *)
LEMMA InitializeStep ==
  ASSUME Inv, NEW t \in Client, Initialize(t)
  PROVE  Inv'
<1>1. TypeOK /\ ClientInv(t)
  BY DEF Inv
<1>2. /\ mine[t] \in Device /\ fresh[t] = None /\ Facade(t).physical \in Handle
      /\ pc[t] = "out" /\ phase[t] = "open"
  BY <1>1, AtHand DEF Initialize, ClientInv, CallInv
<1>3. /\ OthersKept(t) /\ RecordKept(t) /\ UNCHANGED <<mine, slot, oem, streaming>>
      /\ Facade(t)' = Facade(t) /\ fresh'[t] = None
      /\ \/ pc'[t] = "init_virtual" /\ phase'[t] = "open" /\ ready' = ready \cup {Facade(t).physical}
         \/ pc'[t] = "out" /\ phase'[t] = "broken" /\ UNCHANGED ready
  BY <1>1, <1>2 DEF Initialize, Goto, Become, TypeOK, OthersKept, RecordKept, Facade
<1>4. TypeOK'
  BY <1>1, <1>2 DEF Initialize, Goto, Become, TypeOK, Steps
<1>5. Held(t) = Facade(t).physical /\ Held(t)' = Held(t) /\ Handles(t) = {Held(t)} /\ Handles(t)' = {Held(t)}
  BY <1>2, <1>3, ProxyAssumption DEF Handles, Held, Between
<1>6. HandlesKept(t)
  BY <1>3, <1>5 DEF HandlesKept
<1>7. ClientInv(t)'
  BY <1>1, <1>2, <1>3, <1>5 DEF ClientInv, CallInv, DeviceInv, RouteInv, Configuring, Closing
<1> QED
  BY <1>3, <1>4, <1>6, <1>7, OwnRecordStep

(* then the virtual camera in the same record.                             *)
LEMMA InitializeVirtualStep ==
  ASSUME Inv, NEW t \in Client, InitializeVirtual(t)
  PROVE  Inv'
<1>1. TypeOK /\ ClientInv(t)
  BY DEF Inv
<1>2. mine[t] \in Device /\ fresh[t] = None /\ pc[t] = "init_virtual" /\ phase[t] = "open"
  BY <1>1, AtHand DEF InitializeVirtual, ClientInv, CallInv
<1>3. /\ state' \in [Device -> Record] /\ \A d \in Device \ {mine[t]} : state'[d] = state[d]
      /\ Facade(t)'.camera = Facade(t).camera /\ Facade(t)'.physical = Facade(t).physical
      /\ Facade(t)'.source = Facade(t).source
  <2>1. CASE UNCHANGED state
    BY <1>1, <2>1 DEF InitializeVirtual, TypeOK, Facade
  <2>2. CASE Set(t, [Facade(t) EXCEPT !.virtual = "ready"])
    BY <1>1, <1>2, <2>2, VirtualStored DEF InitializeVirtual
  <2> QED
    BY <2>1, <2>2 DEF InitializeVirtual
<1>4. /\ OthersKept(t) /\ RecordKept(t) /\ UNCHANGED <<mine, slot, oem, ready, streaming>>
      /\ fresh'[t] = None /\ pc'[t] = "out" /\ phase'[t] \in {"unconfigured", "broken"}
  BY <1>1, <1>2, <1>3 DEF InitializeVirtual, Goto, Become, TypeOK, OthersKept, RecordKept
<1>5. TypeOK'
  BY <1>1, <1>3 DEF InitializeVirtual, Goto, Become, TypeOK, Steps
<1>6. Held(t)' = Held(t) /\ Handles(t)' = Handles(t)
  BY <1>2, <1>3, <1>4 DEF Handles, Held, Between
<1>7. HandlesKept(t)
  BY <1>4, <1>6 DEF HandlesKept
<1>8. ClientInv(t)'
  BY <1>1, <1>2, <1>3, <1>4, <1>6
  DEF ClientInv, CallInv, DeviceInv, RouteInv, Configuring, Closing
<1> QED
  BY <1>4, <1>5, <1>7, <1>8, OwnRecordStep

(* proxyConfigure() outside selectPhysicalSource(): the backend it         *)
(* proxyConfigure() resolves one of the routes.                            *)
LEMMA ResolveRouteStep ==
  ASSUME Inv, NEW t \in Client, NEW r \in Route, ResolveRoute(t, r)
  PROVE  Inv'
<1>1. TypeOK /\ ClientInv(t)
  BY DEF Inv
<1>2. /\ mine[t] \in Device /\ fresh[t] = None /\ pc[t] = "out"
      /\ phase[t] \in {"unconfigured", "configured"}
  BY <1>1, AtHand DEF ResolveRoute, ClientInv, CallInv
<1>3. /\ OthersKept(t) /\ RecordKept(t) /\ UNCHANGED <<mine, slot, oem, ready, streaming>>
      /\ Facade(t)' = Facade(t) /\ fresh'[t] = None /\ route'[t] = r /\ phase'[t] = "unconfigured"
      /\ pc'[t] = (IF r = "virtual" THEN "configure" ELSE "select")
  BY <1>1, <1>2 DEF ResolveRoute, Goto, Become, TypeOK, OthersKept, RecordKept, Facade
<1>4. TypeOK'
  BY <1>1 DEF ResolveRoute, Goto, Become, TypeOK, Steps
<1>5. Held(t)' = Held(t) /\ Handles(t)' = Handles(t)
  BY <1>2, <1>3 DEF Handles, Held, Between
<1>6. HandlesKept(t)
  BY <1>3, <1>5 DEF HandlesKept
<1>7. ClientInv(t)'
  <2>1. r # None
    BY ProxyAssumption DEF Route
  <2> QED
    BY <1>1, <1>2, <1>3, <1>5, <2>1
    DEF ClientInv, CallInv, DeviceInv, RouteInv, Configuring, Closing
<1> QED
  BY <1>3, <1>4, <1>6, <1>7, OwnRecordStep

(* The virtual camera streams before it is published as the backend,       *)
LEMMA ConfigureVirtualStep ==
  ASSUME Inv, NEW t \in Client, ConfigureVirtual(t)
  PROVE  Inv'
<1>1. TypeOK /\ ClientInv(t)
  BY DEF Inv
<1>2. mine[t] \in Device /\ fresh[t] = None /\ pc[t] = "configure" /\ route[t] = "virtual"
  BY <1>1, AtHand DEF ConfigureVirtual, ClientInv, CallInv, RouteInv
<1>3. /\ state' \in [Device -> Record] /\ \A d \in Device \ {mine[t]} : state'[d] = state[d]
      /\ Facade(t)'.camera = Facade(t).camera /\ Facade(t)'.physical = Facade(t).physical
      /\ Facade(t)'.source = Facade(t).source
      /\ \/ pc' = [pc EXCEPT ![t] = "out"]
         \/ pc' = [pc EXCEPT ![t] = "publish"] /\ Facade(t)'.virtual = "streaming"
  <2>1. CASE UNCHANGED state /\ Goto(t, "out")
    BY <1>1, <2>1 DEF ConfigureVirtual, Goto, TypeOK, Facade
  <2>2. CASE Set(t, [Facade(t) EXCEPT !.virtual = "streaming"]) /\ Goto(t, "publish")
    BY <1>1, <1>2, <2>2, VirtualStored DEF ConfigureVirtual, Goto
  <2> QED
    BY <2>1, <2>2 DEF ConfigureVirtual
<1>4. /\ OthersKept(t) /\ RecordKept(t) /\ UNCHANGED <<mine, slot, oem, ready, streaming>>
      /\ fresh'[t] = None /\ route'[t] = "virtual" /\ phase'[t] = phase[t]
      /\ pc'[t] = "out" \/ (pc'[t] = "publish" /\ Facade(t)'.virtual = "streaming")
  BY <1>1, <1>2, <1>3 DEF ConfigureVirtual, TypeOK, OthersKept, RecordKept
<1>5. TypeOK'
  BY <1>1, <1>3 DEF ConfigureVirtual, TypeOK, Steps
<1>6. Held(t)' = Held(t) /\ Handles(t)' = Handles(t)
  BY <1>2, <1>3, <1>4 DEF Handles, Held, Between
<1>7. HandlesKept(t)
  BY <1>4, <1>6 DEF HandlesKept
<1>8. ClientInv(t)'
  BY <1>1, <1>2, <1>3, <1>4, <1>6, ZenonT(40)
  DEF ClientInv, CallInv, DeviceInv, RouteInv, Configuring, Closing
<1> QED
  BY <1>4, <1>5, <1>7, <1>8, OwnRecordStep

(* and so does the device that the facade holds.                           *)
LEMMA ConfigurePhysicalStep ==
  ASSUME Inv, NEW t \in Client, ConfigurePhysical(t)
  PROVE  Inv'
<1>1. TypeOK /\ ClientInv(t)
  BY DEF Inv
<1>2. /\ mine[t] \in Device /\ fresh[t] = None /\ Facade(t).physical \in Handle
      /\ pc[t] = "configure_physical"
  BY <1>1, AtHand DEF ConfigurePhysical, ClientInv, CallInv
<1>3. /\ OthersKept(t) /\ RecordKept(t) /\ UNCHANGED <<mine, slot, oem, ready>>
      /\ Facade(t)' = Facade(t) /\ fresh'[t] = None /\ route'[t] = route[t] /\ phase'[t] = phase[t]
      /\ \/ pc'[t] = "publish" /\ streaming' = streaming \cup {Facade(t).physical}
         \/ pc'[t] = "out" /\ streaming' = streaming \ {Facade(t).physical}
  BY <1>1, <1>2 DEF ConfigurePhysical, Goto, TypeOK, OthersKept, RecordKept, Facade
<1>4. TypeOK'
  BY <1>1, <1>2 DEF ConfigurePhysical, Goto, TypeOK, Steps
<1>5. Held(t) = Facade(t).physical /\ Held(t)' = Held(t) /\ Handles(t) = {Held(t)} /\ Handles(t)' = {Held(t)}
  BY <1>2, <1>3, ProxyAssumption DEF Handles, Held, Between
<1>6. HandlesKept(t)
  BY <1>3, <1>5 DEF HandlesKept
<1>7. ClientInv(t)'
  BY <1>1, <1>2, <1>3, <1>5 DEF ClientInv, CallInv, DeviceInv, RouteInv, Configuring, Closing
<1> QED
  BY <1>3, <1>4, <1>6, <1>7, OwnRecordStep

(* The backend that is published is the configured one.                    *)
LEMMA PublishStep ==
  ASSUME Inv, NEW t \in Client, Publish(t)
  PROVE  Inv'
<1>1. TypeOK /\ ClientInv(t)
  BY DEF Inv
<1> DEFINE b == IF route[t] = "virtual" THEN "virtual" ELSE "physical"
<1>2. mine[t] \in Device /\ fresh[t] = None /\ pc[t] = "publish" /\ phase[t] = "unconfigured"
  BY <1>1, AtHand DEF Publish, ClientInv, CallInv, Configuring
<1>3. /\ state' \in [Device -> Record] /\ \A d \in Device \ {mine[t]} : state'[d] = state[d]
      /\ Facade(t)'.camera = Facade(t).camera /\ Facade(t)'.physical = Facade(t).physical
      /\ Facade(t)'.source = Facade(t).source /\ Facade(t)'.virtual = Facade(t).virtual
      /\ Facade(t)'.backend = b
  <2>1. b \in Backend
    BY DEF Backend
  <2>2. Set(t, [Facade(t) EXCEPT !.backend = b]) /\ UNCHANGED mine
    BY DEF Publish
  <2> QED
    BY <1>1, <1>2, <2>1, <2>2, BackendStored
<1>4. /\ OthersKept(t) /\ RecordKept(t) /\ UNCHANGED <<mine, slot, oem, ready, streaming>>
      /\ fresh'[t] = None /\ route'[t] = route[t] /\ phase'[t] = "configured" /\ pc'[t] = "out"
  BY <1>1, <1>2, <1>3 DEF Publish, Goto, Become, TypeOK, OthersKept, RecordKept
<1>5. TypeOK'
  BY <1>1, <1>3 DEF Publish, Goto, Become, TypeOK, Steps
<1>6. Held(t)' = Held(t) /\ Handles(t)' = Handles(t)
  BY <1>2, <1>3, <1>4 DEF Handles, Held, Between
<1>7. HandlesKept(t)
  BY <1>4, <1>6 DEF HandlesKept
<1>8. ClientInv(t)'
  BY <1>1, <1>2, <1>3, <1>4, <1>6
  DEF ClientInv, CallInv, DeviceInv, RouteInv, Configuring, Closing
<1> QED
  BY <1>4, <1>5, <1>7, <1>8, OwnRecordStep

(* The device of a facade is closed one step before the pointer to it is   *)
(* cleared; in between the facade holds none.                              *)
LEMMA ClosingStep ==
  ASSUME Inv, NEW t \in Client, pc[t] \in {"select", "close_physical"},
         NEW p \in Between, Goto(t, p),
         p = (IF pc[t] = "select" THEN "select_null" ELSE "close_null"),
         IF Facade(t).physical = None THEN UNCHANGED <<oem, ready, streaming>>
         ELSE OemClose(Facade(t).physical),
         UNCHANGED <<module, slot, state, mine, fresh, route, phase>>
  PROVE  Inv'
<1> DEFINE h == Facade(t).physical
<1>1. TypeOK /\ ClientInv(t)
  BY DEF Inv
<1>2. mine[t] \in Device /\ fresh[t] = None /\ h \in Handle \cup {None} /\ None \notin Handle
  BY <1>1, AtHand, ProxyAssumption DEF ClientInv, CallInv
<1>3. /\ OthersKept(t) /\ RecordKept(t) /\ UNCHANGED <<mine, slot>>
      /\ Facade(t)' = Facade(t) /\ fresh'[t] = None /\ route'[t] = route[t] /\ phase'[t] = phase[t]
      /\ pc'[t] = p
  BY <1>1, <1>2 DEF Goto, TypeOK, OthersKept, RecordKept, Facade, Between
<1> HIDE DEF h
<1>4. /\ h \in Handle => oem'[h] = None /\ h \notin ready' /\ h \notin streaming'
      /\ \A g \in Handle \ {h} : /\ oem'[g] = oem[g]
                                 /\ g \in ready' <=> g \in ready
                                 /\ g \in streaming' <=> g \in streaming
      /\ oem' \in [Handle -> Camera \cup {None}] /\ ready' \subseteq Handle /\ streaming' \subseteq Handle
  BY <1>1, <1>2, ZenonT(40) DEF OemClose, TypeOK, h
<1>5. TypeOK'
  BY <1>1, <1>4 DEF Goto, TypeOK, Steps, Between
<1>6. Held(t) = h /\ Held(t)' = None /\ Handles(t) = {h} \ {None} /\ Handles(t)' = {}
  BY <1>2, <1>3, ProxyAssumption DEF Handles, Held, Between, h
<1>7. HandlesKept(t)
  BY <1>2, <1>4, <1>6 DEF HandlesKept
<1>8. ClientInv(t)'
  BY <1>1, <1>3, <1>6
  DEF ClientInv, CallInv, DeviceInv, RouteInv, Configuring, Closing
<1> QED
  BY <1>3, <1>5, <1>7, <1>8, OwnRecordStep

(* selectPhysicalSource(): whichever step fails, the facade is left with   *)
(* selectPhysicalSource() keeps a device of the source it is to select.    *)
LEMMA SelectStep ==
  ASSUME Inv, NEW t \in Client, Select(t)
  PROVE  Inv'
<1>1. TypeOK /\ ClientInv(t)
  BY DEF Inv
<1>2. mine[t] \in Device /\ fresh[t] = None /\ pc[t] = "select"
  BY <1>1, AtHand DEF Select, ClientInv, CallInv
<1>3. CASE Facade(t).physical # None /\ Facade(t).source = route[t]
  <2>1. /\ OthersKept(t) /\ RecordKept(t) /\ UNCHANGED <<mine, slot, oem, ready, streaming>>
        /\ Facade(t)' = Facade(t) /\ fresh'[t] = None /\ route'[t] = route[t]
        /\ phase'[t] = phase[t] /\ pc'[t] = "configure_physical"
    BY <1>1, <1>2, <1>3 DEF Select, Goto, TypeOK, OthersKept, RecordKept, Facade
  <2>2. TypeOK'
    BY <1>1, <1>3 DEF Select, Goto, TypeOK, Steps
  <2>3. Held(t) = Facade(t).physical /\ Held(t)' = Held(t) /\ Handles(t)' = Handles(t)
    BY <1>2, <2>1, ProxyAssumption DEF Handles, Held, Between
  <2>4. HandlesKept(t)
    BY <2>1, <2>3 DEF HandlesKept
  <2>5. ClientInv(t)'
    BY <1>1, <1>2, <1>3, <2>1, <2>3 DEF ClientInv, CallInv, DeviceInv, RouteInv, Configuring, Closing
  <2> QED
    BY <2>1, <2>2, <2>4, <2>5, OwnRecordStep
<1>4. CASE ~(Facade(t).physical # None /\ Facade(t).source = route[t])
  BY <1>2, <1>4, ClosingStep DEF Select, Between
<1> QED
  BY <1>3, <1>4

(* After a device is closed the facade is left without one,                *)
LEMMA SelectNullStep ==
  ASSUME Inv, NEW t \in Client, SelectNull(t)
  PROVE  Inv'
<1>1. TypeOK /\ ClientInv(t)
  BY DEF Inv
<1>2. mine[t] \in Device /\ fresh[t] = None /\ pc[t] = "select_null"
  BY <1>1, AtHand DEF SelectNull, ClientInv, CallInv
<1>3. /\ state' \in [Device -> Record] /\ \A d \in Device \ {mine[t]} : state'[d] = state[d]
      /\ Facade(t)'.camera = Facade(t).camera /\ Facade(t)'.physical = None
  BY <1>1, <1>2, SourceStored DEF SelectNull
<1>4. /\ OthersKept(t) /\ RecordKept(t) /\ UNCHANGED <<mine, slot, oem, ready, streaming>>
      /\ fresh'[t] = None /\ route'[t] = route[t] /\ phase'[t] = phase[t] /\ pc'[t] = "select_open"
  BY <1>1, <1>2, <1>3 DEF SelectNull, Goto, TypeOK, OthersKept, RecordKept
<1>5. TypeOK'
  BY <1>1, <1>3 DEF SelectNull, Goto, TypeOK, Steps
<1>6. Held(t) = None /\ Held(t)' = None /\ Handles(t) = {} /\ Handles(t)' = {}
  BY <1>2, <1>3, <1>4 DEF Handles, Held, Between
<1>7. HandlesKept(t)
  BY <1>4, <1>6 DEF HandlesKept
<1>8. ClientInv(t)'
  BY <1>1, <1>2, <1>3, <1>4, <1>6
  DEF ClientInv, CallInv, DeviceInv, RouteInv, Configuring, Closing
<1> QED
  BY <1>4, <1>5, <1>7, <1>8, OwnRecordStep

(* also when its replacement does not open.                                *)
LEMMA SelectOpenStep ==
  ASSUME Inv, NEW t \in Client, SelectOpen(t)
  PROVE  Inv'
<1>1. TypeOK /\ ClientInv(t)
  BY DEF Inv
<1>2. /\ mine[t] \in Device /\ fresh[t] = None /\ pc[t] = "select_open" /\ route[t] \in Camera
      /\ Facade(t).physical = None
  BY <1>1, AtHand DEF SelectOpen, ClientInv, CallInv, DeviceInv
<1>3. ASSUME NEW step \in {"out", "configure_null"}, Goto(t, step), UNCHANGED <<oem, fresh>>
      PROVE  Inv'
  <2>1. /\ OthersKept(t) /\ RecordKept(t) /\ UNCHANGED <<mine, slot, oem, ready, streaming>>
        /\ Facade(t)' = Facade(t) /\ fresh'[t] = None /\ route'[t] = route[t]
        /\ phase'[t] = phase[t] /\ pc'[t] \in {"out", "configure_null"}
    BY <1>1, <1>2, <1>3 DEF SelectOpen, Goto, TypeOK, OthersKept, RecordKept, Facade
  <2>2. TypeOK'
    BY <1>1, <1>3 DEF SelectOpen, Goto, TypeOK, Steps
  <2>3. Held(t) = None /\ Held(t)' = None /\ Handles(t) = {} /\ Handles(t)' = {}
    BY <1>2, <2>1 DEF Handles, Held, Between
  <2>4. HandlesKept(t)
    BY <2>1, <2>3 DEF HandlesKept
  <2>5. ClientInv(t)'
    BY <1>1, <1>2, <2>1, <2>3 DEF ClientInv, CallInv, DeviceInv, RouteInv, Configuring, Closing
  <2> QED
    BY <2>1, <2>2, <2>4, <2>5, OwnRecordStep
<1>4. ASSUME NEW h \in Handle, oem[h] = None, oem' = [oem EXCEPT ![h] = route[t]],
             fresh' = [fresh EXCEPT ![t] = h], Goto(t, "select_init")
      PROVE  Inv'
  <2>1. /\ OthersKept(t) /\ RecordKept(t) /\ UNCHANGED <<mine, slot, ready, streaming>>
        /\ Facade(t)' = Facade(t) /\ fresh'[t] = h /\ route'[t] = route[t]
        /\ phase'[t] = phase[t] /\ pc'[t] = "select_init"
        /\ oem'[h] = route[t] /\ \A g \in Handle \ {h} : oem'[g] = oem[g]
    BY <1>1, <1>2, <1>4 DEF SelectOpen, Goto, TypeOK, OthersKept, RecordKept, Facade
  <2>2. TypeOK'
    BY <1>1, <1>2, <1>4 DEF SelectOpen, Goto, TypeOK, Steps
  <2>3. /\ Held(t) = None /\ Held(t)' = None /\ Handles(t) = {} /\ Handles(t)' = {h}
        /\ h # None /\ route[t] # None
    BY <1>2, <2>1, ProxyAssumption DEF Handles, Held, Between
  <2>4. HandlesKept(t)
    BY <1>4, <2>1, <2>3 DEF HandlesKept
  <2>5. ClientInv(t)'
    BY <1>1, <1>2, <2>1, <2>3 DEF ClientInv, CallInv, DeviceInv, RouteInv, Configuring, Closing
  <2> QED
    BY <2>1, <2>2, <2>4, <2>5, OwnRecordStep
<1> QED
  BY <1>3, <1>4 DEF SelectOpen, OemOpen

(* A replacement is stored with its source, or closed again.               *)
LEMMA SelectInitStep ==
  ASSUME Inv, NEW t \in Client, SelectInit(t)
  PROVE  Inv'
<1>1. TypeOK /\ ClientInv(t)
  BY DEF Inv
<1>2. /\ mine[t] \in Device /\ fresh[t] \in Handle /\ pc[t] = "select_init" /\ route[t] \in Camera
      /\ Facade(t).physical = None /\ oem[fresh[t]] = route[t]
  BY <1>1, AtHand DEF SelectInit, ClientInv, CallInv, DeviceInv, RouteInv
<1>3. /\ fresh' = [fresh EXCEPT ![t] = None] /\ UNCHANGED <<module, slot, mine, route, phase>>
      /\ None \notin Handle /\ None \notin Camera
  BY ProxyAssumption DEF SelectInit
<1>4. Held(t) = None /\ Handles(t) = {fresh[t]}
  BY <1>2, <1>3 DEF Handles, Held
<1>5. CASE OemClose(fresh[t]) /\ Goto(t, "out") /\ UNCHANGED state
  <2>1. /\ OthersKept(t) /\ RecordKept(t) /\ UNCHANGED <<mine, slot>>
        /\ Facade(t)' = Facade(t) /\ fresh'[t] = None /\ route'[t] = route[t]
        /\ phase'[t] = phase[t] /\ pc'[t] = "out"
        /\ oem'[fresh[t]] = None /\ \A g \in Handle \ {fresh[t]} : oem'[g] = oem[g]
        /\ ready' = ready \ {fresh[t]} /\ streaming' = streaming \ {fresh[t]}
    BY <1>1, <1>2, <1>3, <1>5 DEF OemClose, Goto, TypeOK, OthersKept, RecordKept, Facade
  <2>2. TypeOK'
    BY <1>1, <1>2, <1>3, <1>5 DEF OemClose, Goto, TypeOK, Steps
  <2>3. Held(t)' = None /\ Handles(t)' = {}
    BY <1>2, <2>1 DEF Handles, Held
  <2>4. HandlesKept(t)
    BY <1>4, <2>1, <2>3 DEF HandlesKept
  <2>5. ClientInv(t)'
    BY <1>1, <1>2, <2>1, <2>3 DEF ClientInv, CallInv, DeviceInv, RouteInv, Configuring, Closing
  <2> QED
    BY <2>1, <2>2, <2>4, <2>5, OwnRecordStep
<1>6. CASE /\ Set(t, [Facade(t) EXCEPT !.physical = fresh[t], !.source = route[t]])
           /\ ready' = ready \cup {fresh[t]} /\ Goto(t, "configure_physical")
           /\ UNCHANGED <<oem, streaming>>
  <2>1. /\ state' \in [Device -> Record] /\ \A d \in Device \ {mine[t]} : state'[d] = state[d]
        /\ Facade(t)'.camera = Facade(t).camera /\ Facade(t)'.physical = fresh[t]
        /\ Facade(t)'.source = route[t]
    <3> DEFINE h == fresh[t]
               c == route[t]
    <3>1. h \in Handle \cup {None} /\ c \in Camera \cup {None} /\ UNCHANGED mine
      BY <1>2, <1>3
    <3>2. Set(t, [Facade(t) EXCEPT !.physical = h, !.source = c])
      BY <1>6
    <3> HIDE DEF h, c
    <3>3. /\ state' \in [Device -> Record] /\ \A d \in Device \ {mine[t]} : state'[d] = state[d]
          /\ Facade(t)'.camera = Facade(t).camera /\ Facade(t)'.physical = h
          /\ Facade(t)'.source = c
      BY <1>1, <1>2, <3>1, <3>2, SourceStored, ZenonT(40)
    <3> QED
      BY <3>3 DEF h, c
  <2>2. /\ OthersKept(t) /\ RecordKept(t) /\ UNCHANGED <<mine, slot, oem, streaming>>
        /\ fresh'[t] = None /\ route'[t] = route[t] /\ phase'[t] = phase[t]
        /\ pc'[t] = "configure_physical" /\ ready' = ready \cup {fresh[t]}
    BY <1>1, <1>2, <1>3, <1>6, <2>1 DEF Goto, TypeOK, OthersKept, RecordKept
  <2>3. TypeOK'
    BY <1>1, <1>2, <1>3, <1>6, <2>1 DEF Goto, TypeOK, Steps
  <2>4. Held(t)' = fresh[t] /\ Handles(t)' = {fresh[t]}
    BY <1>2, <1>3, <2>1, <2>2, ProxyAssumption DEF Handles, Held, Between
  <2>5. HandlesKept(t)
    BY <1>4, <2>2, <2>4 DEF HandlesKept
  <2>6. ClientInv(t)'
    BY <1>1, <1>2, <1>3, <2>1, <2>2, <2>4
    DEF ClientInv, CallInv, DeviceInv, RouteInv, Configuring, Closing
  <2> QED
    BY <2>2, <2>3, <2>5, <2>6, OwnRecordStep
<1> QED
  BY <1>5, <1>6 DEF SelectInit

(* proxyClose(): the slot is cleared while the record is still the one     *)
(* proxyClose() closes the virtual camera first;                           *)
LEMMA CloseStep ==
  ASSUME Inv, NEW t \in Client, Close(t)
  PROVE  Inv'
<1>1. TypeOK /\ ClientInv(t)
  BY DEF Inv
<1>2. mine[t] \in Device /\ mine[t] # None /\ fresh[t] = None /\ pc[t] = "out"
  BY <1>1, AtHand DEF Close, ClientInv, CallInv
<1>3. /\ state' \in [Device -> Record] /\ \A d \in Device \ {mine[t]} : state'[d] = state[d]
      /\ Facade(t)'.camera = Facade(t).camera /\ Facade(t)'.physical = Facade(t).physical
      /\ Facade(t)'.source = Facade(t).source
  BY <1>1, <1>2, VirtualStored DEF Close
<1>4. /\ OthersKept(t) /\ RecordKept(t) /\ UNCHANGED <<mine, slot, oem, ready, streaming>>
      /\ fresh'[t] = None /\ phase'[t] = "broken" /\ pc'[t] = "close_physical"
  BY <1>1, <1>2, <1>3 DEF Close, Goto, Become, TypeOK, OthersKept, RecordKept
<1>5. TypeOK'
  BY <1>1, <1>3 DEF Close, Goto, Become, TypeOK, Steps
<1>6. Held(t)' = Held(t) /\ Handles(t)' = Handles(t)
  BY <1>2, <1>3, <1>4 DEF Handles, Held, Between
<1>7. HandlesKept(t)
  BY <1>4, <1>6 DEF HandlesKept
<1>8. ClientInv(t)'
  BY <1>1, <1>2, <1>3, <1>4, <1>6
  DEF ClientInv, CallInv, DeviceInv, RouteInv, Configuring, Closing
<1> QED
  BY <1>4, <1>5, <1>7, <1>8, OwnRecordStep

(* then the device that the facade holds,                                  *)
LEMMA ClosePhysicalStep ==
  ASSUME Inv, NEW t \in Client, ClosePhysical(t)
  PROVE  Inv'
BY ClosingStep DEF ClosePhysical, Between

(* to which it clears the pointer.                                         *)
LEMMA CloseNullStep ==
  ASSUME Inv, NEW t \in Client, CloseNull(t)
  PROVE  Inv'
<1>1. TypeOK /\ ClientInv(t)
  BY DEF Inv
<1>2. mine[t] \in Device /\ fresh[t] = None /\ pc[t] = "close_null"
  BY <1>1, AtHand DEF CloseNull, ClientInv, CallInv
<1>3. /\ state' \in [Device -> Record] /\ \A d \in Device \ {mine[t]} : state'[d] = state[d]
      /\ Facade(t)'.camera = Facade(t).camera /\ Facade(t)'.physical = None
  BY <1>1, <1>2, PhysicalStored DEF CloseNull
<1>4. /\ OthersKept(t) /\ RecordKept(t) /\ UNCHANGED <<mine, slot, oem, ready, streaming>>
      /\ fresh'[t] = None /\ route'[t] = route[t] /\ phase'[t] = phase[t] /\ pc'[t] = "release"
  BY <1>1, <1>2, <1>3 DEF CloseNull, Goto, TypeOK, OthersKept, RecordKept
<1>5. TypeOK'
  BY <1>1, <1>3 DEF CloseNull, Goto, TypeOK, Steps
<1>6. Held(t) = None /\ Held(t)' = None /\ Handles(t) = {} /\ Handles(t)' = {}
  BY <1>2, <1>3, <1>4 DEF Handles, Held, Between
<1>7. HandlesKept(t)
  BY <1>4, <1>6 DEF HandlesKept
<1>8. ClientInv(t)'
  BY <1>1, <1>2, <1>3, <1>4, <1>6
  DEF ClientInv, CallInv, DeviceInv, RouteInv, Configuring, Closing
<1> QED
  BY <1>4, <1>5, <1>7, <1>8, OwnRecordStep

(* The slot is cleared while it still names the record of this facade,     *)
LEMMA ReleaseStep ==
  ASSUME Inv, NEW t \in Client, Release(t)
  PROVE  Inv'
<1>1. TypeOK /\ ClientInv(t)
  BY DEF Inv
<1> DEFINE c == Facade(t).camera
<1>2. /\ mine[t] \in Device /\ fresh[t] = None /\ pc[t] = "release" /\ phase[t] = "broken"
      /\ c \in Camera /\ slot[c] = mine[t] /\ Facade(t).physical = None
  BY <1>1, AtHand DEF Release, ClientInv, CallInv, DeviceInv, Closing
<1> HIDE DEF c
<1>3. /\ UNCHANGED <<mine, oem, ready, streaming, state>>
      /\ Facade(t)' = Facade(t) /\ fresh'[t] = None /\ phase'[t] = "broken" /\ pc'[t] = "delete"
      /\ slot'[c] = None /\ \A e \in Camera \ {c} : slot'[e] = slot[e]
      /\ \A u \in Client \ {t} :
           /\ pc'[u] = pc[u] /\ mine'[u] = mine[u] /\ fresh'[u] = fresh[u]
           /\ route'[u] = route[u] /\ phase'[u] = phase[u]
  BY <1>1, <1>2 DEF Release, Goto, TypeOK, Facade, c
<1>4. TypeOK'
  BY <1>1, <1>2 DEF Release, Goto, TypeOK, Steps, c
<1>5. Held(t)' = Held(t) /\ Held(t) = None /\ Handles(t)' = Handles(t)
  BY <1>2, <1>3 DEF Handles, Held, Between
<1>6. HandlesKept(t)
  BY <1>3, <1>5 DEF HandlesKept
<1>7. Local(t)
  <2>1. \A u \in Client \ {t} : mine[t] # None => mine[t] # mine[u]
    BY DEF Inv, Disjoint
  <2>2. \A e \in Camera : slot[e] # None => state[slot[e]].camera = e
    BY DEF Inv, Covered
  <2> QED
    BY <1>2, <1>3, <1>6, <2>1, <2>2 DEF Local
<1>8. ClientInv(t)'
  <2>1. Facade(t)'.camera = c /\ c # None /\ mine'[t] = mine[t] /\ mine[t] # None
    BY <1>2, <1>3, ProxyAssumption DEF c
  <2> QED
    BY <1>2, <1>3, <1>5, <2>1 DEF ClientInv, CallInv, DeviceInv, RouteInv, Configuring, Closing
<1> QED
  BY <1>4, <1>7, <1>8, LocalStep

(* and a record that no slot names is deleted.                             *)
LEMMA DeleteStep ==
  ASSUME Inv, NEW t \in Client, Delete(t)
  PROVE  Inv'
<1>1. TypeOK /\ ClientInv(t)
  BY DEF Inv
<1>2. /\ mine[t] \in Device /\ fresh[t] = None /\ pc[t] = "delete"
      /\ Facade(t).camera \in Camera /\ slot[Facade(t).camera] # mine[t] /\ Facade(t).physical = None
  BY <1>1, AtHand DEF Delete, ClientInv, CallInv, DeviceInv, Closing
<1>3. Free \in Record
  BY DEF Free, Record, Backend
<1>4. state' \in [Device -> Record] /\ \A d \in Device \ {mine[t]} : state'[d] = state[d]
  BY <1>1, <1>2, <1>3 DEF Delete, Set, TypeOK
<1>5. /\ UNCHANGED <<oem, ready, streaming, slot>>
      /\ mine'[t] = None /\ fresh'[t] = None /\ phase'[t] = "none" /\ pc'[t] = "out"
      /\ \A u \in Client \ {t} :
           /\ pc'[u] = pc[u] /\ mine'[u] = mine[u] /\ fresh'[u] = fresh[u]
           /\ route'[u] = route[u] /\ phase'[u] = phase[u]
  BY <1>1, <1>2 DEF Delete, Goto, Become, TypeOK
<1>6. TypeOK'
  BY <1>1, <1>4 DEF Delete, Goto, Become, TypeOK, Steps
<1>7. Handles(t)' = {} /\ Handles(t) = {} /\ Held(t)' = None
  BY <1>2, <1>5 DEF Handles, Held
<1>8. HandlesKept(t)
  BY <1>5, <1>7 DEF HandlesKept
<1>9. ASSUME NEW e \in Camera, slot[e] # None PROVE slot[e] # mine[t]
  BY <1>2, <1>9 DEF Inv, Covered, Facade
<1>10. Local(t)
  BY <1>4, <1>5, <1>8, <1>9 DEF Local
<1>11. ClientInv(t)'
  BY <1>5, <1>7 DEF ClientInv, CallInv, DeviceInv, RouteInv, Configuring, Closing
<1> QED
  BY <1>6, <1>10, <1>11, LocalStep

(* A process that faulted starts with nothing open and no call running.    *)
LEMMA ConfigureNullStep ==
  ASSUME NEW t \in Client, ConfigureNull(t)
  PROVE  Inv'
<1>1. TypeOK'
  BY DEF ConfigureNull, TypeOK, Free, Record, Backend, Steps
<1>2. Disjoint' /\ Covered'
  BY DEF ConfigureNull, Disjoint, Covered, Handles, Held
<1>3. ASSUME NEW u \in Client PROVE ClientInv(u)'
  BY DEF ConfigureNull, ClientInv, CallInv, DeviceInv, RouteInv, Held, Configuring, Closing
<1> QED
  BY <1>1, <1>2, <1>3 DEF Inv

(* Every step of every call preserves the invariant.                       *)
LEMMA ClientStep ==
  ASSUME Inv, NEW t \in Client, CallStep(t)
  PROVE  Inv'
BY OpenPhysicalStep, OpenRefusedStep, RegisterStep, InitializeStep, InitializeVirtualStep,
   ResolveRouteStep, ConfigureVirtualStep, SelectStep, SelectNullStep, SelectOpenStep,
   SelectInitStep, ConfigurePhysicalStep, ConfigureNullStep, PublishStep, CloseStep, ClosePhysicalStep,
   CloseNullStep, ReleaseStep, DeleteStep DEF CallStep

(* An unloaded proxy satisfies the invariant.                              *)
THEOREM InvInit == Init => Inv
<1> SUFFICES ASSUME Init PROVE Inv
  OBVIOUS
<1>1. TypeOK
  BY DEF Init, TypeOK, Free, Record, Backend, Steps
<1>2. Disjoint /\ Covered
  BY DEF Init, Disjoint, Covered, Handles, Held
<1>3. ASSUME NEW t \in Client PROVE ClientInv(t)
  BY DEF Init, ClientInv, CallInv, DeviceInv, RouteInv, Held, Configuring, Closing
<1> QED
  BY <1>1, <1>2, <1>3 DEF Inv

(* Loading the OEM module and every step of a call preserve it.            *)
THEOREM InvStep == Inv /\ [Next]_vars => Inv'
<1> SUFFICES ASSUME Inv, [Next]_vars PROVE Inv'
  OBVIOUS
<1>1. CASE /\ module' \in {"unloaded", "failed", "loaded", "installed"}
           /\ UNCHANGED <<oem, ready, streaming, slot, state, pc, mine, fresh, route, phase>>
  <2>1. \A t \in Client : Facade(t)' = Facade(t) /\ Held(t)' = Held(t) /\ Handles(t)' = Handles(t)
    BY <1>1 DEF Facade, Held, Handles
  <2>2. \A t \in Client : ClientInv(t)'
    BY <1>1, <2>1, SMT DEF Inv, ClientInv, CallInv, DeviceInv, RouteInv
  <2>3. TypeOK' /\ Disjoint' /\ Covered'
    BY <1>1, <2>1, SMT DEF Inv, TypeOK, Disjoint, Covered
  <2> QED
    BY <2>2, <2>3 DEF Inv
<1>2. ASSUME NEW t \in Client, CallStep(t) PROVE Inv'
  BY <1>2, ClientStep
<1>3. CASE UNCHANGED vars
  BY <1>1, <1>3 DEF vars, Inv, TypeOK
<1> QED
  BY <1>1, <1>2, <1>3 DEF Next, LoadOriginal, Bootstrap

(* The inductive invariant holds in every reachable state.                 *)
THEOREM Invariance == Spec => []Inv
<1> QED
  BY InvInit, InvStep, PTL DEF Spec

(* Type correctness, for every value of the constants.                     *)
THEOREM TypeCorrect == Spec => []TypeOK
<1>1. Inv => TypeOK
  BY DEF Inv
<1> QED
  BY <1>1, Invariance, PTL

(* However many clients open, configure and close cameras at the same      *)
(* time, no OEM device is leaked or shared, and findDevice() finds the     *)
(* facade of each camera.                                                  *)
THEOREM DevicesOwnedOnce == Spec => []OwnedOnce
<1>1. ASSUME Inv PROVE OwnedOnce
  <2>1. ASSUME NEW h \in Handle, oem[h] # None
        PROVE  Cardinality({t \in Client : mine[t] # None /\ Facade(t).physical = h /\ pc[t] \notin Between})
                 + Cardinality({t \in Client : fresh[t] = h}) = 1
    <3> DEFINE H == {t \in Client : mine[t] # None /\ Facade(t).physical = h /\ pc[t] \notin Between}
               F == {t \in Client : fresh[t] = h}
    <3>1. PICK t \in Client : h \in Handles(t)
      BY <1>1, <2>1 DEF Inv, Covered
    <3>2. \A u \in H \cup F : h \in Handles(u)
      BY ProxyAssumption DEF Handles, Held
    <3>3. \A u \in H \cup F : u = t
      BY <1>1, <3>1, <3>2 DEF Inv, Disjoint
    <3>4. Held(t) # fresh[t] \/ Held(t) = None
      BY <1>1 DEF Inv, ClientInv, DeviceInv
    <3>5. \/ H = {t} /\ F = {}
          \/ H = {} /\ F = {t}
      BY <3>1, <3>3, <3>4, ProxyAssumption DEF Handles, Held
    <3>6. Cardinality({}) = 0 /\ Cardinality({t}) = 1
      BY FS_EmptySet, FS_Singleton
    <3> HIDE DEF H, F
    <3>7. Cardinality(H) + Cardinality(F) = 1
      BY <3>5, <3>6, SMT
    <3> QED
      BY <3>7 DEF H, F
  <2> QED
    BY <1>1, <2>1 DEF OwnedOnce, Inv, Covered, ClientInv, DeviceInv
<1> QED
  BY <1>1, Invariance, PTL

(* A concurrent dump() or flush() finds no closed device in a facade,      *)
(* outside the two instants that PointerIsOpen names.                      *)
THEOREM NoDanglingPointer == Spec => []PointerIsOpen
<1>1. ASSUME Inv PROVE PointerIsOpen
  BY <1>1, ProxyAssumption DEF Inv, ClientInv, DeviceInv, Held, PointerIsOpen, SelectedDevice
<1> QED
  BY <1>1, Invariance, PTL

(* A request that the framework may send reaches an open device that is    *)
(* initialized, configured and the routed one, whatever other clients do.  *)
THEOREM RequestsAreServed == Spec => []RequestsReachConfigured
<1>1. ASSUME Inv PROVE RequestsReachConfigured
  <2> SUFFICES ASSUME NEW t \in Client, phase[t] = "configured", pc[t] = "out"
               PROVE  LET device == RequestDevice(Facade(t)) IN
                      IF route[t] = "virtual"
                      THEN device = "virtual" /\ Facade(t).virtual = "streaming"
                      ELSE device \in ready \cap streaming /\ oem[device] = route[t]
    BY DEF RequestsReachConfigured
  <2>1. ClientInv(t) /\ streaming \subseteq Handle
    BY <1>1 DEF Inv, TypeOK
  <2>2. mine[t] # None /\ pc[t] \notin Between
    BY <2>1 DEF ClientInv, CallInv, Between
  <2> QED
    BY <2>1, <2>2, ProxyAssumption DEF ClientInv, DeviceInv, RouteInv, Held, RequestDevice
<1> QED
  BY <1>1, Invariance, PTL
=============================================================================
