------------------------------ MODULE VNetBridge ------------------------------
(***************************************************************************)
(* A bridge of vmnet (bridge.c): a port of a hub that stands for a network *)
(* interface of the host.  It goes up and down with the interface, and     *)
(* keeps it promiscuous while other ports are attached to the hub.         *)
(*                                                                         *)
(* Three threads meet here.  "file" creates the bridge, plugs it in, and   *)
(* unplugs and frees it when its file is closed; "other" connects and      *)
(* disconnects the other ports of the hub; "kernel" changes the interface  *)
(* and calls the bridge's notifier.  The kernel holds RTNL while it calls  *)
(* the notifier, and sends the notifier the states of the interface when   *)
(* it is registered and unregistered.  Connecting and disconnecting hold   *)
(* vnetStructureMutex while they report the change to the bridge.          *)
(***************************************************************************)
EXTENDS Integers

CONSTANTS
  MaxNets,    \* registrations of an interface of that name (bound)
  MaxPorts,   \* other ports on the hub (bound)
  MaxPromisc, \* promiscuity an interface may be left with before it comes up again (bound)
  MayFail     \* may bringing the bridge up fail, for memory (bound: once)?

ASSUME BoundsAssumption ==
  /\ MaxNets \in Nat /\ MaxPorts \in Nat
  /\ MaxPromisc \in Nat \ {0} /\ MayFail \in BOOLEAN

Threads == {"file", "other", "kernel"}
NoOne   == "none"
NULL    == 0
Nets    == 1 .. MaxNets   \* net_device objects, in the order of registration

UpSteps    == {"upMutex", "upPromisc", "upEvent"}
DownSteps  == {"down", "downPromisc", "downClear"}
PortsSteps == {"ports", "read", "apply"}
Steps == UpSteps \cup DownSteps \cup PortsSteps \cup
  {"idle", "register", "plug", "plugged", "unregister", "free", "gone", "fault"}

VARIABLES
  net,             \* the registered interface of the bridge's name
  made,            \* how many have been registered
  isUp,            \* its flag IFF_UP
  promisc,         \* the promiscuity the bridge has asked of each
  dev,             \* bridge->dev
  handler,         \* how often bridge->pt is on the kernel's list
  enabledPromisc,  \* bridge->enabledPromisc
  sent,            \* the last link state event
  notifier,        \* the notifier is registered
  plugged,         \* the bridge's port is connected to its hub jack
  others,          \* the other ports connected to the hub
  rtnl,            \* the holder of RTNL
  mutex,           \* the holder of vnetStructureMutex
  pc,              \* the next step of each thread
  ptr,             \* the local dev of VNetBridgeStartPromisc and StopPromisc
  failed,          \* has it been short of memory, and where: before its packet
                   \* handler was added, or at the event (history)
  excuse           \* why an interface that is up may have no bridge (history)

netVars    == <<net, made, isUp>>
bridgeVars == <<dev, handler, enabledPromisc, sent>>
hubVars    == <<plugged, others>>
faults     == <<failed, excuse>>
vars == <<netVars, promisc, bridgeVars, notifier, hubVars, rtnl, mutex, pc, ptr, faults>>

\* No bridge yet; the interface is up, or down, or not there.
Init ==
  /\ net \in {NULL} \cup (Nets \cap {1}) /\ made = net
  /\ isUp \in {FALSE, net # NULL}
  /\ promisc = [n \in Nets |-> 0]
  /\ dev = NULL /\ handler = 0 /\ enabledPromisc = FALSE /\ sent = "none"
  /\ notifier = FALSE
  /\ plugged = FALSE /\ others \in 0 .. MaxPorts
  /\ rtnl = NoOne /\ mutex = NoOne
  /\ pc = [t \in Threads |-> "idle"]
  /\ ptr = [t \in Threads |-> NULL]
  /\ failed = "no" /\ excuse = "none"

\* VNetGetAttachedPorts of the bridge's jack, as a truth value.
Attached == plugged /\ others > 0

Goto(t, step) == pc' = [pc EXCEPT ![t] = step]

\* May t run a section under RTNL: does it hold it, or can it be taken?
Rtnl(t) == rtnl \in {NoOne, t}

-----------------------------------------------------------------------------
(* VNetBridgeUp.  Its argument rtnlLock says that its caller does not hold   *)
(* RTNL; here that is rtnl # t.                                              *)

\* The notification returns, and the kernel releases RTNL; or VNetBridge_Create
\* goes on after bringing the bridge up itself.
EndUp(t) ==
  /\ Goto(t, IF t = "kernel" THEN "idle" ELSE IF rtnl = t THEN "plug" ELSE "register")
  /\ rtnl' = IF rtnl = t THEN NoOne ELSE rtnl

\* Up to dev_unlock_list: find the interface and add the packet handler.  u is
\* its flag IFF_UP.
Found(t) ==
  /\ dev' = net /\ handler' = handler + 1 /\ enabledPromisc' = FALSE
  /\ Goto(t, "upMutex")
  /\ UNCHANGED <<sent, faults>>

NotFound == dev' = NULL /\ UNCHANGED <<handler, enabledPromisc, sent>>

\* VNetBridge_Create, up to what Found stands for, with vnetIoctlMutex and no
\* other lock.  It may fail before it brings the bridge up.
Create ==
  /\ pc["file"] = "idle"
  /\ \/ isUp /\ Found("file")
     \/ ~isUp /\ NotFound /\ Goto("file", "register") /\ UNCHANGED faults
     \/ /\ MayFail /\ failed = "no" /\ failed' = "start" /\ UNCHANGED excuse
        /\ NotFound
        /\ \/ isUp /\ Goto("file", "register")
           \/ Goto("file", "gone")
  /\ UNCHANGED <<netVars, promisc, notifier, hubVars, rtnl, mutex, ptr>>

\* From the notifier for NETDEV_UP, with RTNL held by t.
NotifyUp(t) ==
  \/ dev = NULL /\ rtnl' = t /\ Found(t)
  \/ /\ dev = NULL /\ MayFail /\ failed = "no"
     /\ failed' = "start" /\ excuse' = "memory"
     /\ NotFound /\ Goto(t, IF t = "kernel" THEN "idle" ELSE "plug") /\ rtnl' = NoOne
  \/ /\ dev # NULL /\ Goto(t, IF t = "kernel" THEN "idle" ELSE "plug") /\ rtnl' = NoOne
     /\ UNCHANGED <<bridgeVars, faults>>

UpMutex(t) ==
  /\ pc[t] = "upMutex" /\ mutex = NoOne
  /\ mutex' = t
  /\ Goto(t, "upPromisc")
  /\ UNCHANGED <<netVars, promisc, bridgeVars, notifier, hubVars, rtnl, ptr, faults>>

\* VNetBridgeStartPromisc and VNetBridgeStopPromisc for the interface n, under RTNL.
StartPromisc(n) ==
  /\ promisc' = IF enabledPromisc THEN promisc ELSE [promisc EXCEPT ![n] = @ + 1]
  /\ enabledPromisc' = TRUE

\* Mutant: it does not look whether it has asked for promiscuous mode.
StopPromiscBlindly(n) ==
  /\ promisc' = [promisc EXCEPT ![n] = @ - 1]
  /\ enabledPromisc' = FALSE

StopPromisc(n) ==
  /\ promisc' = IF enabledPromisc THEN [promisc EXCEPT ![n] = @ - 1] ELSE promisc
  /\ enabledPromisc' = FALSE

\* Mutant: promiscuous mode is left to the next change of the ports.
UpPromiscLater(t) ==
  /\ pc[t] = "upPromisc"
  /\ mutex' = NoOne
  /\ Goto(t, "upEvent")
  /\ UNCHANGED <<netVars, promisc, bridgeVars, notifier, hubVars, rtnl, ptr, faults>>

UpPromisc(t) ==
  /\ pc[t] = "upPromisc"
  /\ \/ Attached /\ Rtnl(t) /\ StartPromisc(dev)
     \/ ~Attached /\ UNCHANGED <<promisc, enabledPromisc>>
  /\ mutex' = NoOne
  /\ Goto(t, "upEvent")
  /\ UNCHANGED <<netVars, dev, handler, sent, notifier, hubVars, rtnl, ptr, faults>>

\* Mutant: the link state is not sent by a notification.
UpEventOnCreate(t) ==
  /\ pc[t] = "upEvent"
  /\ sent' = IF rtnl = t THEN sent ELSE "up"
  /\ EndUp(t)
  /\ UNCHANGED <<netVars, promisc, dev, handler, enabledPromisc, notifier, hubVars, mutex,
                 ptr, faults>>

\* Send the event.  The first one of a sender needs memory; without it the
\* bridge has no interface any more, but its packet handler stays.
UpEvent(t) ==
  /\ pc[t] = "upEvent"
  /\ \/ sent' = "up" /\ UNCHANGED <<dev, faults>>
     \/ /\ sent = "none" /\ MayFail /\ failed = "no"
        /\ failed' = "event" /\ dev' = NULL
        /\ excuse' = IF rtnl = t THEN "memory" ELSE "none"
        /\ UNCHANGED sent
  /\ EndUp(t)
  /\ UNCHANGED <<netVars, promisc, handler, enabledPromisc, notifier, hubVars, mutex, ptr>>

-----------------------------------------------------------------------------
(* VNetBridgeDown.                                                          *)

EndDown(t) ==
  /\ Goto(t, IF t = "kernel" THEN "idle" ELSE IF rtnl = t THEN "free" ELSE "gone")
  /\ rtnl' = IF rtnl = t THEN NoOne ELSE rtnl

DownEvent(t) ==
  /\ pc[t] = "down"
  /\ sent' = "down"
  /\ Goto(t, "downPromisc")
  /\ UNCHANGED <<netVars, promisc, dev, handler, enabledPromisc, notifier, hubVars, rtnl,
                 mutex, ptr, faults>>

DownPromisc(t) ==
  /\ pc[t] = "downPromisc" /\ Rtnl(t)
  /\ StopPromisc(dev)
  /\ Goto(t, "downClear")
  /\ UNCHANGED <<netVars, dev, handler, sent, notifier, hubVars, rtnl, mutex, ptr, faults>>

\* Mutant: the packet handler stays when the bridge is freed.
DownClearNotified(t) ==
  /\ pc[t] = "downClear"
  /\ dev' = NULL /\ handler' = IF t = "kernel" THEN handler - 1 ELSE handler
  /\ EndDown(t)
  /\ UNCHANGED <<netVars, promisc, enabledPromisc, sent, notifier, hubVars, mutex, ptr,
                 faults>>

DownClear(t) ==
  /\ pc[t] = "downClear"
  /\ dev' = NULL /\ handler' = handler - 1
  /\ EndDown(t)
  /\ UNCHANGED <<netVars, promisc, enabledPromisc, sent, notifier, hubVars, mutex, ptr,
                 faults>>

-----------------------------------------------------------------------------
(* The kernel, under RTNL (external), and VNetBridgeNotify.                  *)

\* An interface of that name is registered; the bridge does not care.
Register ==
  /\ rtnl = NoOne /\ net = NULL /\ made < MaxNets
  /\ net' = made + 1 /\ made' = made + 1
  /\ UNCHANGED <<isUp, promisc, bridgeVars, notifier, hubVars, rtnl, mutex, pc, ptr, faults>>

NetUp ==
  /\ rtnl = NoOne /\ net # NULL /\ ~isUp /\ promisc[net] < MaxPromisc
  /\ isUp' = TRUE
  /\ \/ notifier /\ NotifyUp("kernel")
     \/ ~notifier /\ UNCHANGED <<bridgeVars, rtnl, pc, faults>>
  /\ UNCHANGED <<net, made, promisc, notifier, hubVars, mutex, ptr>>

\* NETDEV_DOWN and NETDEV_UNREGISTER take the bridge down if it is up with
\* this interface.
NotifyDown ==
  IF notifier /\ dev = net
    THEN rtnl' = "kernel" /\ Goto("kernel", "down")
    ELSE UNCHANGED <<rtnl, pc>>

NetDown ==
  /\ rtnl = NoOne /\ isUp
  /\ isUp' = FALSE
  /\ NotifyDown
  /\ excuse' = IF excuse = "memory" THEN "none" ELSE excuse
  /\ UNCHANGED <<net, made, promisc, bridgeVars, notifier, hubVars, mutex, ptr, failed>>

\* Nobody tells a bridge whose notifier is not registered yet, or not any more.
Unregister ==
  /\ rtnl = NoOne /\ net # NULL /\ ~isUp
  /\ net' = NULL
  /\ NotifyDown
  /\ excuse' = IF dev = net /\ ~notifier THEN "stale" ELSE excuse
  /\ UNCHANGED <<made, isUp, promisc, bridgeVars, notifier, hubVars, mutex, ptr, failed>>

-----------------------------------------------------------------------------
(* The rest of VNetBridge_Create, plugging and unplugging, VNetBridgeFree.   *)

\* Mutant: the state of the interface is not looked at again.
RegisterQuietly ==
  /\ pc["file"] = "register" /\ rtnl = NoOne
  /\ notifier' = TRUE
  /\ Goto("file", "plug")
  /\ UNCHANGED <<netVars, promisc, bridgeVars, hubVars, rtnl, mutex, ptr, faults>>

\* register_netdevice_notifier, which notifies of an interface that is up.
RegisterNotifier ==
  /\ pc["file"] = "register" /\ rtnl = NoOne
  /\ notifier' = TRUE
  /\ \/ isUp /\ NotifyUp("file")
     \/ ~isUp /\ Goto("file", "plug") /\ UNCHANGED <<bridgeVars, rtnl, faults>>
  /\ UNCHANGED <<netVars, promisc, hubVars, mutex, ptr>>

\* VNetConnect and VNetDisconnect of the bridge, under vnetStructureMutex; when
\* other ports are there the bridge hears of the change.
Plug ==
  /\ pc["file"] = "plug" /\ mutex = NoOne
  /\ plugged' = TRUE
  /\ IF others > 0 THEN mutex' = "file" /\ Goto("file", "ports")
     ELSE Goto("file", "plugged") /\ UNCHANGED mutex
  /\ UNCHANGED <<netVars, promisc, bridgeVars, notifier, others, rtnl, ptr, faults>>

\* The hub has a bridge for the interface already.  VNetSwitchToDifferentPeer gives
\* the new bridge up, but it is not freed: its kref was never set (VNetStructure).
PlugRefused ==
  /\ pc["file"] = "plug" /\ mutex = NoOne
  /\ Goto("file", "gone")
  /\ UNCHANGED <<netVars, promisc, bridgeVars, notifier, hubVars, rtnl, mutex, ptr, faults>>

Unplug ==
  /\ pc["file"] = "plugged" /\ mutex = NoOne
  /\ plugged' = FALSE
  /\ IF others > 0 THEN mutex' = "file" /\ Goto("file", "ports")
     ELSE Goto("file", "unregister") /\ UNCHANGED mutex
  /\ UNCHANGED <<netVars, promisc, bridgeVars, notifier, others, rtnl, ptr, faults>>

\* unregister_netdevice_notifier, which notifies of every interface that it
\* goes down, if it is up, and that it is unregistered.
UnregisterNotifier ==
  /\ pc["file"] = "unregister" /\ rtnl = NoOne
  /\ notifier' = FALSE
  /\ IF dev # NULL /\ dev = net THEN rtnl' = "file" /\ Goto("file", "down")
     ELSE Goto("file", "free") /\ UNCHANGED rtnl
  /\ UNCHANGED <<netVars, promisc, bridgeVars, hubVars, mutex, ptr, faults>>

Free ==
  /\ pc["file"] = "free"
  /\ Goto("file", IF dev # NULL THEN "down" ELSE "gone")
  /\ UNCHANGED <<netVars, promisc, bridgeVars, notifier, hubVars, rtnl, mutex, ptr, faults>>

\* Another port is connected to the hub or disconnected from it.
OtherPort(n) ==
  /\ pc["other"] = "idle" /\ mutex = NoOne
  /\ others' = others + n
  /\ IF plugged THEN mutex' = "other" /\ Goto("other", "ports")
     ELSE UNCHANGED <<mutex, pc>>
  /\ UNCHANGED <<netVars, promisc, bridgeVars, notifier, plugged, rtnl, ptr, faults>>

-----------------------------------------------------------------------------
(* VNetBridgePortsChanged, under vnetStructureMutex.                         *)

\* VNetConnect or VNetDisconnect returns and the mutex is unlocked.
EndPorts(t) ==
  /\ mutex' = NoOne
  /\ Goto(t, IF t = "other" THEN "idle" ELSE IF plugged THEN "plugged" ELSE "unregister")

PortsChanged(t) ==
  /\ pc[t] = "ports"
  /\ IF dev = NULL THEN EndPorts(t) ELSE Goto(t, "read") /\ UNCHANGED mutex
  /\ UNCHANGED <<netVars, promisc, bridgeVars, notifier, hubVars, rtnl, ptr, faults>>

\* VNetBridgeStartPromisc or StopPromisc reads dev before it takes RTNL.
ReadDev(t) ==
  /\ pc[t] = "read"
  /\ ptr' = [ptr EXCEPT ![t] = dev]
  /\ Goto(t, "apply")
  /\ UNCHANGED <<netVars, promisc, bridgeVars, notifier, hubVars, rtnl, mutex, faults>>

\* dev_set_promiscuity of NULL faults, with both locks held.
ApplyPromisc(t) ==
  /\ pc[t] = "apply" /\ Rtnl(t)
  /\ IF ptr[t] = NULL /\ enabledPromisc # Attached
       THEN /\ Goto(t, "fault") /\ rtnl' = t
            /\ UNCHANGED <<promisc, enabledPromisc, mutex>>
       ELSE /\ IF Attached THEN StartPromisc(ptr[t]) ELSE StopPromisc(ptr[t])
            /\ EndPorts(t)
            /\ UNCHANGED rtnl
  /\ ptr' = [ptr EXCEPT ![t] = NULL]
  /\ UNCHANGED <<netVars, dev, handler, sent, notifier, hubVars, faults>>

-----------------------------------------------------------------------------
Going(t) ==
  \/ UpMutex(t) \/ UpPromisc(t) \/ UpEvent(t)
  \/ DownEvent(t) \/ DownPromisc(t) \/ DownClear(t)
  \/ PortsChanged(t) \/ ReadDev(t) \/ ApplyPromisc(t)

Next ==
  \/ Create \/ RegisterNotifier \/ Plug \/ PlugRefused \/ Unplug \/ UnregisterNotifier \/ Free
  \/ Register \/ NetUp \/ NetDown \/ Unregister
  \/ others < MaxPorts /\ OtherPort(1)
  \/ others > 0 /\ OtherPort(-1)
  \/ \E t \in Threads : Going(t)

\* A thread inside the bridge's functions goes on, and gets a lock it waits for
\* if that is free again and again.
Fairness == \A t \in Threads : SF_vars(Going(t))

Spec == Init /\ [][Next]_vars /\ Fairness

-----------------------------------------------------------------------------
(* Properties.                                                              *)

\* The type of every variable.  It bounds promisc: the bridge never withdraws
\* promiscuity from an interface it has not asked it of.
TypeOK ==
  /\ net \in Nets \cup {NULL} /\ made \in 0 .. MaxNets /\ isUp \in BOOLEAN
  /\ promisc \in [Nets -> 0 .. MaxPromisc]
  /\ dev \in Nets \cup {NULL} /\ handler \in Nat /\ enabledPromisc \in BOOLEAN
  /\ sent \in {"none", "up", "down"}
  /\ notifier \in BOOLEAN /\ plugged \in BOOLEAN /\ others \in 0 .. MaxPorts
  /\ rtnl \in Threads \cup {NoOne} /\ mutex \in Threads \cup {NoOne}
  /\ pc \in [Threads -> Steps]
  /\ ptr \in [Threads -> Nets \cup {NULL}]
  /\ failed \in {"no", "start", "event"} /\ excuse \in {"none", "memory", "stale"}

\* Nobody is bringing the bridge up or down.
Settled == \A t \in Threads : pc[t] \notin UpSteps \cup DownSteps

\* The listeners are told what the bridge believes: the last link state event says
\* up exactly while it has an interface.
LinkStateTrue == Settled => (sent = "up" <=> dev # NULL)

\* The packet handler is on the kernel's list, once, exactly while the bridge has an
\* interface, and so never when the bridge has been freed; but a handler that was added
\* before the event failed is there once more, for good (bridge.c:989).
HandlerMatches ==
  Settled => handler = (IF dev # NULL THEN 1 ELSE 0) + (IF failed = "event" THEN 1 ELSE 0)

\* A bridge that is up is promiscuous exactly while other ports are attached,
\* in whatever order the interface and the ports came.
PromiscWhenUp ==
  (Settled /\ dev # NULL /\ \A t \in Threads : pc[t] \notin PortsSteps)
    => /\ enabledPromisc = Attached
       /\ Attached => promisc[dev] > 0

\* Once the notifier is registered an interface that is up has the bridge, even if it
\* came up while the bridge was being created, with two exceptions: the notifier found no
\* memory since the interface came up, and the bridge has none; or the interface that was
\* found at first was unregistered before the notifier was registered, and the bridge
\* keeps that one, which is no more (bridge.c:893).
BridgedWhenUp ==
  (Settled /\ notifier /\ isUp) =>
    CASE excuse = "none"   -> dev = net
      [] excuse = "memory" -> dev = NULL
      [] excuse = "stale"  -> dev \in 1 .. net - 1

\* The listeners, the kernel, the interface and its users agree on what the bridge does.
BridgeTrue == LinkStateTrue /\ HandlerMatches /\ PromiscWhenUp /\ BridgedWhenUp

\* "React accordingly by starting/stopping promiscuous mode"
\* (VNetBridgePortsChanged): whoever reports a change of the ports returns.
Reacts ==
  \A t \in Threads : (pc[t] \in PortsSteps) ~> (pc[t] \notin PortsSteps)
=============================================================================
