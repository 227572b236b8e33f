----------------------------- MODULE ProxyDevice -----------------------------
(***************************************************************************)
(* The OEM Camera HAL proxy (native/proxy_bootstrap.cpp with               *)
(* hal/src/OriginalHal.cpp): a facade per opened camera that switches      *)
(* between the physical devices of the OEM module and a VirtualCamera at   *)
(* configure_streams.                                                      *)
(*                                                                         *)
(* Handles are the devices returned by the OEM module's open.  Each client *)
(* is a framework thread that owns at most one facade and follows the      *)
(* Camera HAL3 protocol: initialize once, requests only after a            *)
(* configuration that succeeded.  Nothing but the module mutex orders the  *)
(* clients, so every OEM call and every pointer update is a step.          *)
(***************************************************************************)
EXTENDS Integers, FiniteSets

CONSTANTS Client, Camera, Handle, Device, None

ASSUME ProxyAssumption ==
  /\ None \notin Camera \cup Handle \cup Device
  /\ "virtual" \notin Camera \cup Handle \cup {None}

VARIABLES
  module,      \* "unloaded", "failed", "loaded" or "installed"
  oem,         \* oem[h]: the camera an OEM handle is open for, or None
  ready,       \* OEM handles initialized with their facade's callbacks
  streaming,   \* OEM handles whose last configure_streams succeeded
  slot,        \* gDevices
  state,       \* the ProxyDevice records
  pc, mine,    \* per client: step of the current call, its facade
  fresh,       \* per client: an OEM handle not yet stored in a facade
  route,       \* per client: backend chosen by the running configuration
  phase        \* per client: where the framework is in the HAL3 protocol

vars == <<module, oem, ready, streaming, slot, state, pc, mine, fresh, route, phase>>

Free == [camera |-> None, physical |-> None, source |-> None, virtual |-> "closed",
         backend |-> "unconfigured"]
Backend == {"unconfigured", "physical", "virtual"}
Record == [camera : Camera \cup {None}, physical : Handle \cup {None},
           source : Camera \cup {None}, virtual : {"closed", "open", "ready", "streaming"},
           backend : Backend]
Route == Camera \cup {"virtual"}
Steps == {"out", "open_virtual", "init_virtual", "configure", "select", "select_null",
          "select_open", "select_init", "configure_physical", "configure_null", "publish",
          "close_physical", "close_null", "release", "delete"}

TypeOK ==
  /\ module \in {"unloaded", "failed", "loaded", "installed"}
  /\ oem \in [Handle -> Camera \cup {None}]
  /\ ready \subseteq Handle /\ streaming \subseteq Handle
  /\ slot \in [Camera -> Device \cup {None}]
  /\ state \in [Device -> Record]
  /\ pc \in [Client -> Steps] /\ mine \in [Client -> Device \cup {None}]
  /\ fresh \in [Client -> Handle \cup {None}] /\ route \in [Client -> Route \cup {None}]
  /\ phase \in [Client -> {"none", "open", "unconfigured", "configured", "broken"}]

Init ==
  /\ module = "unloaded"
  /\ oem = [h \in Handle |-> None] /\ ready = {} /\ streaming = {}
  /\ slot = [c \in Camera |-> None] /\ state = [d \in Device |-> Free]
  /\ pc = [t \in Client |-> "out"] /\ mine = [t \in Client |-> None]
  /\ fresh = [t \in Client |-> None] /\ route = [t \in Client |-> None]
  /\ phase = [t \in Client |-> "none"]

-----------------------------------------------------------------------------
(* The library's constructor: OriginalHal::load(), then the HMI is filled  *)
(* in; the provider resolves it only after the constructor has returned.   *)
LoadOriginal ==
  /\ module = "unloaded"
  /\ module' \in {"failed", "loaded"}
  /\ UNCHANGED <<oem, ready, streaming, slot, state, pc, mine, fresh, route, phase>>

Bootstrap ==
  /\ module = "loaded" /\ module' = "installed"
  /\ UNCHANGED <<oem, ready, streaming, slot, state, pc, mine, fresh, route, phase>>

-----------------------------------------------------------------------------
Goto(t, step) == pc' = [pc EXCEPT ![t] = step]
Become(t, p) == phase' = [phase EXCEPT ![t] = p]
Facade(t) == state[mine[t]]
Set(t, record) == state' = [state EXCEPT ![mine[t]] = record]

OemOpen(t, c) ==
  \E h \in Handle : /\ oem[h] = None
                    /\ oem' = [oem EXCEPT ![h] = c] /\ fresh' = [fresh EXCEPT ![t] = h]
OemClose(h) ==
  /\ oem' = [oem EXCEPT ![h] = None]
  /\ ready' = ready \ {h} /\ streaming' = streaming \ {h}

(* proxyOpen(): the physical device is opened before anything else.        *)
OpenPhysical(t, c) ==
  /\ module = "installed" /\ pc[t] = "out" /\ phase[t] = "none"
  /\ OemOpen(t, c) /\ Goto(t, "open_virtual")
  /\ UNCHANGED <<module, ready, streaming, slot, state, mine, route, phase>>

(* An old device version, an id out of range or a virtual camera that does *)
(* not open: the physical device is closed again.                          *)
OpenRefused(t) ==
  /\ pc[t] = "open_virtual"
  /\ OemClose(fresh[t]) /\ fresh' = [fresh EXCEPT ![t] = None] /\ Goto(t, "out")
  /\ UNCHANGED <<module, slot, state, mine, route, phase>>

(* The facade takes its slot under the module mutex, or, when the camera   *)
(* has been opened meanwhile, both devices are closed.                     *)
Register(t) ==
  /\ pc[t] = "open_virtual"
  /\ LET c == oem[fresh[t]] IN
     \/ /\ slot[c] = None
        /\ \E d \in {e \in Device : state[e] = Free} :
             /\ slot' = [slot EXCEPT ![c] = d] /\ mine' = [mine EXCEPT ![t] = d]
             /\ state' = [state EXCEPT ![d] = [camera |-> c, physical |-> fresh[t], source |-> c,
                                               virtual |-> "open", backend |-> "unconfigured"]]
        /\ Become(t, "open")
        /\ UNCHANGED <<oem, ready, streaming>>
     \/ /\ slot[c] # None
        /\ OemClose(fresh[t]) /\ UNCHANGED <<slot, state, mine, phase>>
  /\ fresh' = [fresh EXCEPT ![t] = None] /\ Goto(t, "out")
  /\ UNCHANGED <<module, route>>

-----------------------------------------------------------------------------
(* proxyInitialize(): first the physical device, then the virtual one; the *)
(* framework closes a device that does not initialize.                     *)
Initialize(t) ==
  /\ pc[t] = "out" /\ phase[t] = "open"
  /\ \/ Goto(t, "init_virtual") /\ ready' = ready \cup {Facade(t).physical} /\ UNCHANGED phase
     \/ Become(t, "broken") /\ UNCHANGED <<pc, ready>>
  /\ UNCHANGED <<module, oem, streaming, slot, state, mine, fresh, route>>

InitializeVirtual(t) ==
  /\ pc[t] = "init_virtual" /\ Goto(t, "out")
  /\ \/ Set(t, [Facade(t) EXCEPT !.virtual = "ready"]) /\ Become(t, "unconfigured")
     \/ Become(t, "broken") /\ UNCHANGED state
  /\ UNCHANGED <<module, oem, ready, streaming, slot, mine, fresh, route>>

-----------------------------------------------------------------------------
(* proxyConfigure(): the route in force is looked up once.  While it runs, *)
(* and after it has failed, the framework sends no request.                *)
ResolveRoute(t, r) ==
  /\ pc[t] = "out" /\ phase[t] \in {"unconfigured", "configured"}
  /\ route' = [route EXCEPT ![t] = r]
  /\ Become(t, "unconfigured") /\ Goto(t, IF r = "virtual" THEN "configure" ELSE "select")
  /\ UNCHANGED <<module, oem, ready, streaming, slot, state, mine, fresh>>

ConfigureVirtual(t) ==
  /\ pc[t] = "configure"
  /\ \/ Set(t, [Facade(t) EXCEPT !.virtual = "streaming"]) /\ Goto(t, "publish")
     \/ UNCHANGED state /\ Goto(t, "out")
  /\ UNCHANGED <<module, oem, ready, streaming, slot, mine, fresh, route, phase>>

(* selectPhysicalSource(): the device in use is closed before the one that *)
(* replaces it is opened.                                                  *)
Select(t) ==
  /\ pc[t] = "select"
  /\ IF Facade(t).physical # None /\ Facade(t).source = route[t]
       THEN Goto(t, "configure_physical") /\ UNCHANGED <<oem, ready, streaming>>
       ELSE /\ Goto(t, "select_null")
            /\ IF Facade(t).physical = None THEN UNCHANGED <<oem, ready, streaming>>
               ELSE OemClose(Facade(t).physical)
  /\ UNCHANGED <<module, slot, state, mine, fresh, route, phase>>

(* Mutant: the pointer to the closed device is kept.                       *)
SelectNullSourceOnly(t) ==
  /\ pc[t] = "select_null" /\ Goto(t, "select_open")
  /\ Set(t, [Facade(t) EXCEPT !.source = None])
  /\ UNCHANGED <<module, oem, ready, streaming, slot, mine, fresh, route, phase>>

SelectNull(t) ==
  /\ pc[t] = "select_null" /\ Goto(t, "select_open")
  /\ Set(t, [Facade(t) EXCEPT !.physical = None, !.source = None])
  /\ UNCHANGED <<module, oem, ready, streaming, slot, mine, fresh, route, phase>>

(* The OEM module opens the replacement, fails, or reports success without *)
(* a device, which selectPhysicalSource() returns as a success.            *)
SelectOpen(t) ==
  /\ pc[t] = "select_open"
  /\ \/ OemOpen(t, route[t]) /\ Goto(t, "select_init")
     \/ Goto(t, "out") /\ UNCHANGED <<oem, fresh>>
     \/ Goto(t, "configure_null") /\ UNCHANGED <<oem, fresh>>
  /\ UNCHANGED <<module, ready, streaming, slot, state, mine, route, phase>>

(* Mutant: a replacement that does not initialize stays open.              *)
SelectInitLeaking(t) ==
  /\ pc[t] = "select_init"
  /\ fresh' = [fresh EXCEPT ![t] = None]
  /\ \/ /\ Set(t, [Facade(t) EXCEPT !.physical = fresh[t], !.source = route[t]])
        /\ ready' = ready \cup {fresh[t]} /\ Goto(t, "configure_physical")
        /\ UNCHANGED <<oem, streaming>>
     \/ Goto(t, "out") /\ UNCHANGED <<state, oem, ready, streaming>>
  /\ UNCHANGED <<module, slot, mine, route, phase>>

SelectInit(t) ==
  /\ pc[t] = "select_init"
  /\ fresh' = [fresh EXCEPT ![t] = None]
  /\ \/ /\ Set(t, [Facade(t) EXCEPT !.physical = fresh[t], !.source = route[t]])
        /\ ready' = ready \cup {fresh[t]} /\ Goto(t, "configure_physical")
        /\ UNCHANGED <<oem, streaming>>
     \/ OemClose(fresh[t]) /\ Goto(t, "out") /\ UNCHANGED state
  /\ UNCHANGED <<module, slot, mine, route, phase>>

ConfigurePhysical(t) ==
  /\ pc[t] = "configure_physical"
  /\ \/ streaming' = streaming \cup {Facade(t).physical} /\ Goto(t, "publish")
     \/ streaming' = streaming \ {Facade(t).physical} /\ Goto(t, "out")
  /\ UNCHANGED <<module, oem, ready, slot, state, mine, fresh, route, phase>>

(* Without a device proxyConfigure() calls through a null pointer.  The    *)
(* process faults, and is started again with nothing open.                 *)
ConfigureNull(t) ==
  /\ pc[t] = "configure_null"
  /\ module' = "unloaded"
  /\ oem' = [h \in Handle |-> None] /\ ready' = {} /\ streaming' = {}
  /\ slot' = [c \in Camera |-> None] /\ state' = [d \in Device |-> Free]
  /\ pc' = [u \in Client |-> "out"] /\ mine' = [u \in Client |-> None]
  /\ fresh' = [u \in Client |-> None] /\ route' = [u \in Client |-> None]
  /\ phase' = [u \in Client |-> "none"]

(* Mutant: the backend is left as it was.                                  *)
PublishOnce(t) ==
  /\ pc[t] = "publish" /\ Goto(t, "out") /\ Become(t, "configured")
  /\ IF Facade(t).backend = "unconfigured"
       THEN Set(t, [Facade(t) EXCEPT !.backend = IF route[t] = "virtual" THEN "virtual" ELSE "physical"])
       ELSE UNCHANGED state
  /\ UNCHANGED <<module, oem, ready, streaming, slot, mine, fresh, route>>

(* The backend changes, under the facade's mutex, only after success.      *)
Publish(t) ==
  /\ pc[t] = "publish" /\ Goto(t, "out") /\ Become(t, "configured")
  /\ Set(t, [Facade(t) EXCEPT !.backend = IF route[t] = "virtual" THEN "virtual" ELSE "physical"])
  /\ UNCHANGED <<module, oem, ready, streaming, slot, mine, fresh, route>>

-----------------------------------------------------------------------------
(* proxyClose(): virtual device, physical device, slot, record.            *)
Close(t) ==
  /\ pc[t] = "out" /\ phase[t] # "none"
  /\ Set(t, [Facade(t) EXCEPT !.virtual = "closed"]) /\ Goto(t, "close_physical") /\ Become(t, "broken")
  /\ UNCHANGED <<module, oem, ready, streaming, slot, mine, fresh, route>>

ClosePhysical(t) ==
  /\ pc[t] = "close_physical" /\ Goto(t, "close_null")
  /\ IF Facade(t).physical = None THEN UNCHANGED <<oem, ready, streaming>>
     ELSE OemClose(Facade(t).physical)
  /\ UNCHANGED <<module, slot, state, mine, fresh, route, phase>>

CloseNull(t) ==
  /\ pc[t] = "close_null" /\ Goto(t, "release") /\ Set(t, [Facade(t) EXCEPT !.physical = None])
  /\ UNCHANGED <<module, oem, ready, streaming, slot, mine, fresh, route, phase>>

Release(t) ==
  /\ pc[t] = "release" /\ Goto(t, "delete")
  /\ slot' = [slot EXCEPT ![Facade(t).camera] = None]
  /\ UNCHANGED <<module, oem, ready, streaming, state, mine, fresh, route, phase>>

Delete(t) ==
  /\ pc[t] = "delete" /\ Goto(t, "out") /\ Become(t, "none")
  /\ Set(t, Free)
  /\ mine' = [mine EXCEPT ![t] = None] /\ route' = [route EXCEPT ![t] = None]
  /\ UNCHANGED <<module, oem, ready, streaming, slot, fresh>>

(* A step of a framework thread in a call of the HAL.                      *)
CallStep(t) ==
  \/ \E c \in Camera : OpenPhysical(t, c)
  \/ OpenRefused(t) \/ Register(t) \/ Initialize(t) \/ InitializeVirtual(t)
  \/ \E r \in Route : ResolveRoute(t, r)
  \/ ConfigureVirtual(t) \/ Select(t) \/ SelectNull(t) \/ SelectOpen(t) \/ SelectInit(t)
  \/ ConfigurePhysical(t) \/ ConfigureNull(t) \/ Publish(t)
  \/ Close(t) \/ ClosePhysical(t) \/ CloseNull(t) \/ Release(t) \/ Delete(t)

Next == LoadOriginal \/ Bootstrap \/ \E t \in Client : CallStep(t)

Spec == Init /\ [][Next]_vars

-----------------------------------------------------------------------------
Between == {"select_null", "close_null"}

(* Every open OEM device has one owner, a facade or a proxyOpen() or       *)
(* selectPhysicalSource() that has not finished, and every facade not      *)
(* being closed is what findDevice() returns for its camera.               *)
OwnedOnce ==
  /\ \A h \in Handle : oem[h] # None =>
       Cardinality({t \in Client : mine[t] # None /\ Facade(t).physical = h /\ pc[t] \notin Between})
         + Cardinality({t \in Client : fresh[t] = h}) = 1
  /\ \A c \in Camera : slot[c] # None => state[slot[c]].camera = c
  /\ \A t \in Client : mine[t] # None /\ pc[t] # "delete" => slot[Facade(t).camera] = mine[t]

(* The device that dump, flush, signal_stream_flush and                    *)
(* is_reconfiguration_required turn to; they return when it is None.       *)
SelectedDevice(f) == IF f.backend = "virtual" THEN "virtual" ELSE f.physical

(* process_capture_request turns to the same device without the test.      *)
RequestDevice(f) == IF f.backend = "virtual" THEN "virtual" ELSE f.physical

(* The device that a concurrent dump() or flush() finds in a facade is     *)
(* none, or open for the source the facade names, but for the instant      *)
(* between closing the device and clearing the pointer in                  *)
(* selectPhysicalSource or proxyClose.                                     *)
PointerIsOpen ==
  \A t \in Client : mine[t] # None /\ pc[t] \notin Between =>
    LET device == SelectedDevice(Facade(t)) IN
    device \in Handle => oem[device] = Facade(t).source

(* Whenever the framework may send a request, proxyProcessRequest forwards *)
(* it to a device that is open, was initialized with this facade's         *)
(* callbacks, accepted the last configuration, and is the routed one.  In  *)
(* particular no request meets a facade whose replacement device failed to *)
(* open or came back null: that configuration fails, or ends the process.  *)
RequestsReachConfigured ==
  \A t \in Client : phase[t] = "configured" /\ pc[t] = "out" =>
    LET device == RequestDevice(Facade(t)) IN
    IF route[t] = "virtual" THEN device = "virtual" /\ Facade(t).virtual = "streaming"
    ELSE device \in ready \cap streaming /\ oem[device] = route[t]

=============================================================================
