---------------------------- MODULE VNetStructure ----------------------------
(***************************************************************************)
(* The virtual network of vmnet: hubs, the jacks on them, the ports the    *)
(* open files of /dev/vmnet own, and the operations that plug, replug and  *)
(* unplug them (driver.c, hub.c).                                          *)
(*                                                                         *)
(* A file runs one operation at a time.  The sections the code runs under  *)
(* vnetStructureMutex or vnetHubLock are one action each; what it does     *)
(* between them is an action of its own, so operations of different files  *)
(* interleave there.  An ioctl holds vnetIoctlMutex (ioctlMutex) from its  *)
(* first step to its return; open and close do not take it.                *)
(*                                                                         *)
(* A hub number stands for a vnet number or a PVN id: VNetHubAlloc treats  *)
(* them alike.  A freshly allocated jack has an uninitialised kref, which  *)
(* is Uninit here; its uninitialised state is FALSE here, because every    *)
(* reader of it tests the peer too, and that is NULL until the jack is     *)
(* connected.                                                              *)
(***************************************************************************)
EXTENDS Integers, FiniteSets

CONSTANTS
  Filps,      \* open file descriptions of /dev/vmnet
  Ports,      \* port objects (bound: the pool kmalloc takes them from)
  HubMem,     \* hub objects (bound: the pool kmalloc takes them from)
  JackIds,    \* indices of the jacks of a hub (NUM_JACKS_PER_HUB is 68)
  HubNums,    \* vnet numbers and PVN ids
  IfNames,    \* names of network interfaces
  PlugKinds,  \* the kinds of port a file asks for in the place of its own
  MayRunShort, \* may a kmalloc of VNetCycleDetectIf fail (bound: in one section)?
  None        \* NULL

HubJacks == HubMem \X JackIds
Jacks    == Ports \cup HubJacks

ASSUME JackIdsAssumption == JackIds \subseteq Nat /\ IsFiniteSet(JackIds)

ASSUME PoolAssumption == Ports \cap HubJacks = {}

ASSUME KindsAssumption == PlugKinds \subseteq {"bridge", "netif", "listener"}

ASSUME NoneAssumption == None \notin Filps \cup Jacks \cup HubNums \cup IfNames

\* NULL is no cable of the patch panel either (see CableOf).
ASSUME CableAssumption ==
  None \notin [hub : HubNums, name : IfNames \cup {None}, up : BOOLEAN]

Uninit    == -1     \* a kref nobody has initialised
Saturated == -2     \* a refcount_t that was put at zero: it never reaches zero

Kinds == {"free", "userif", "bridge", "netif", "listener"}
Steps == {"idle", "lookup", "insert", "fill", "publish", "connect", "switch",
          "put", "hubfree"}

VARIABLES
  kind,        \* what a port object is; "free" before kmalloc and after kfree
  ifname,      \* the interface a bridge or netif port stands for
  hubs,        \* the hubs on the list (vnetHub)
  hubNum,      \* the number a hub was created for
  used,        \* hub->used: the jacks handed out
  private,     \* the hub jacks whose private field is set
  peer,        \* jack->peer
  state,       \* the jacks whose state is TRUE
  kref,        \* jack->kref
  numPorts,    \* numPorts of the hub jacks; that of a port is always 1
  totalPorts,  \* hub->totalPorts
  allPorts,    \* the list vnetAllPorts
  filp,        \* filp->private_data
  ioctlMutex,  \* the file whose ioctl holds vnetIoctlMutex
  oom,         \* a kmalloc of VNetCycleDetectIf has failed (bound: one section)
  pc,          \* the next step of the file's operation
  new,         \* the port the operation has created
  num,         \* the hub number the operation asks for
  hubJack,     \* the hub jack the operation has allocated
  putPort,     \* the port the operation has still to kref_put, before ...
  putHub       \* ... the hub jack it has still to kref_put

memVars   == <<kind, ifname>>
hubVars   == <<hubs, hubNum, used, private>>
netVars   == <<peer, state, kref, numPorts, totalPorts>>
fileVars  == <<allPorts, filp>>
putVars   == <<putPort, putHub>>
localVars == <<pc, new, num, hubJack, putVars>>
vars == <<memVars, hubVars, netVars, fileVars, ioctlMutex, oom, localVars>>

HubOf(j)    == j[1]
JacksOf(h)  == {h} \X JackIds
Siblings(j) == JacksOf(HubOf(j)) \ {j}

Init ==
  /\ kind = [p \in Ports |-> "free"]
  /\ ifname = [p \in Ports |-> None]
  /\ hubs = {}
  /\ hubNum = [h \in HubMem |-> None]
  /\ used = {} /\ private = {}
  /\ peer = [j \in Jacks |-> None]
  /\ state = {}
  /\ kref = [j \in Jacks |-> Uninit]
  /\ numPorts = [j \in HubJacks |-> 0]
  /\ totalPorts = [h \in HubMem |-> 0]
  /\ allPorts = {}
  /\ filp = [f \in Filps |-> None]
  /\ ioctlMutex = None
  /\ oom = FALSE
  /\ pc = [f \in Filps |-> "idle"]
  /\ new = [f \in Filps |-> None]
  /\ num = [f \in Filps |-> None]
  /\ hubJack = [f \in Filps |-> None]
  /\ putPort = [f \in Filps |-> None]
  /\ putHub = [f \in Filps |-> None]

-----------------------------------------------------------------------------
(* Effects shared by the operations, as functions of the wiring: pr is a    *)
(* value of peer, st of state.                                              *)

\* VNetGetAttachedPorts of a hub jack, whose peer is a port and counts one.
Attached(pr, st, j) == j \in st /\ pr[j] # None /\ pr[j] \in st

\* What VNetHubPortsChanged computes for the hub h ...
Total(pr, st, h) ==
  Cardinality({j \in JacksOf(h) : j \in private /\ Attached(pr, st, j)})

\* ... and stores when the jack `this' reports a change: the count of every
\* other allocated jack of the hub, but not that of `this' itself.
Renumber(count, pr, st, this) ==
  [j \in HubJacks |->
     IF j \in Siblings(this) \cap private
       THEN Total(pr, st, HubOf(j)) - (IF Attached(pr, st, j) THEN 1 ELSE 0)
       ELSE count[j]]

\* Mutant: the count goes up or down by the jack that reports.
RetotalByOne(total, pr, st, this) ==
  [total EXCEPT ![HubOf(this)] = IF Attached(pr, st, this) THEN @ + 1 ELSE @ - 1]

Retotal(total, pr, st, this) ==
  [total EXCEPT ![HubOf(this)] = Total(pr, st, HubOf(this))]

\* Mutant: the port itself is not counted.
MetElsewhere(st, p, j) == {peer[k] : k \in Siblings(j) \cap private \cap st} \ {None}

\* The ports VNetCycleDetect meets when port p is about to be connected to
\* the hub jack j: p itself, and the peer of every enabled jack beside j.
Met(st, p, j) ==
  {p} \cup ({peer[k] : k \in Siblings(j) \cap private \cap st} \ {None})

Cycle(st, p, j) ==
  \E a, b \in Met(st, p, j) : a # b /\ ifname[a] = ifname[b] /\ ifname[a] # None

\* VNetCycleDetectIf allocates a list node for every name it meets first.
Named(st, p, j) == \E a \in Met(st, p, j) : ifname[a] # None

\* VNetConnect of port p and hub jack j once no cycle is found; st, count and
\* total are the wiring's values before it.
Wired(p, j) == [peer EXCEPT ![p] = j, ![j] = p]

Connect(st, count, total, p, j) ==
  /\ peer' = Wired(p, j)
  /\ state' = st \cup {p, j}
  /\ kref' = [kref EXCEPT ![p] = 1, ![j] = 1]
  /\ numPorts' = Renumber(count, peer', state', j)
  /\ totalPorts' = Retotal(total, peer', state', j)

-----------------------------------------------------------------------------
(* Creating a port: the kmalloc pool gives p, its kref is what the memory   *)
(* held (bridges and netifs are zeroed, userifs and listeners are not).     *)

Create(p, k, name) ==
  /\ kind[p] = "free"
  /\ name = None <=> k \in {"userif", "listener"}
  /\ k = "netif" => \A q \in Ports : kind[q] = "netif" => ifname[q] # name
  /\ kind' = [kind EXCEPT ![p] = k]
  /\ ifname' = [ifname EXCEPT ![p] = name]
  /\ kref' = [kref EXCEPT ![p] = IF k \in {"bridge", "netif"} THEN 0 ELSE Uninit]

\* VNetFileOpOpen: create the user interface, then go for a hub jack.
Open(f, n) ==
  /\ pc[f] = "idle" /\ filp[f] = None
  /\ \E p \in Ports :
       /\ Create(p, "userif", None)
       /\ new' = [new EXCEPT ![f] = p]
  /\ num' = [num EXCEPT ![f] = n]
  /\ pc' = [pc EXCEPT ![f] = "lookup"]
  /\ UNCHANGED <<hubVars, peer, state, numPorts, totalPorts, fileVars, ioctlMutex, oom,
                 hubJack, putVars>>

\* SIOCSBIND: move the port of f to the hub n.
Bind(f, n) ==
  /\ pc[f] = "idle" /\ filp[f] # None
  /\ ioctlMutex = None
  /\ ioctlMutex' = f
  /\ num' = [num EXCEPT ![f] = n]
  /\ pc' = [pc EXCEPT ![f] = "lookup"]
  /\ UNCHANGED <<memVars, hubVars, netVars, fileVars, oom, new, hubJack, putVars>>

\* SIOCSPEER3, SIOCNETIF and SIOCSUSERLISTENER: create a port of another kind
\* to take the place of the file's port on its hub jack.
Plug(f, k, name) ==
  /\ pc[f] = "idle" /\ filp[f] # None
  /\ ioctlMutex = None
  /\ ioctlMutex' = f
  /\ \E p \in Ports :
       /\ Create(p, k, name)
       /\ new' = [new EXCEPT ![f] = p]
  /\ pc' = [pc EXCEPT ![f] = "switch"]
  /\ UNCHANGED <<hubVars, peer, state, numPorts, totalPorts, fileVars, oom,
                 num, hubJack, putVars>>

-----------------------------------------------------------------------------
(* VNetHubAlloc.                                                            *)

\* No jack: open puts the port it created and fails, bind just fails.
NoJack(f) ==
  /\ pc' = [pc EXCEPT ![f] = "put"]
  /\ putPort' = [putPort EXCEPT ![f] = new[f]]
  /\ UNCHANGED <<used, hubJack, putHub>>

\* Mutant: the jack taken is not marked as in use.
TakeJackUnmarked(f, h, inUse) ==
  \/ /\ \A i \in JackIds : <<h, i>> \in inUse
     /\ NoJack(f)
  \/ \E i \in JackIds :
       /\ <<h, i>> \notin inUse
       /\ used' = inUse
       /\ hubJack' = [hubJack EXCEPT ![f] = <<h, i>>]
       /\ pc' = [pc EXCEPT ![f] = "fill"]
       /\ UNCHANGED putVars

\* Under vnetHubLock, take the first jack of h that is not in use.
TakeJack(f, h, inUse) ==
  LET free == {i \in JackIds : <<h, i>> \notin inUse} IN
  \/ /\ free = {}
     /\ NoJack(f)
  \/ \E i \in free :
       /\ \A k \in free : i <= k
       /\ used' = inUse \cup {<<h, i>>}
       /\ hubJack' = [hubJack EXCEPT ![f] = <<h, i>>]
       /\ pc' = [pc EXCEPT ![f] = "fill"]
       /\ UNCHANGED putVars

HubLookup(f) ==
  /\ pc[f] = "lookup"
  /\ \/ \E h \in hubs : hubNum[h] = num[f] /\ TakeJack(f, h, used)
     \/ /\ \A h \in hubs : hubNum[h] # num[f]
        /\ pc' = [pc EXCEPT ![f] = "insert"]
        /\ UNCHANGED <<used, hubJack, putVars>>
  /\ UNCHANGED <<memVars, hubs, hubNum, private, netVars, fileVars, ioctlMutex, oom,
                 new, num>>

\* Mutant: the hub is not looked for again.
HubInsertBlindly(f) ==
  /\ pc[f] = "insert"
  /\ \E h \in HubMem \ hubs :
       /\ hubs' = hubs \cup {h}
       /\ hubNum' = [hubNum EXCEPT ![h] = num[f]]
       /\ totalPorts' = [totalPorts EXCEPT ![h] = 0]
       /\ TakeJack(f, h, used)
  /\ UNCHANGED <<memVars, private, peer, state, kref, numPorts, fileVars, ioctlMutex, oom,
                 new, num>>

\* The lock was dropped to allocate a hub.  Allocation may fail; another
\* operation may have added the hub meanwhile, and then that one is used.
HubInsert(f) ==
  /\ pc[f] = "insert"
  /\ \/ /\ NoJack(f)
        /\ UNCHANGED <<hubs, hubNum, totalPorts>>
     \/ /\ \E h \in hubs : hubNum[h] = num[f] /\ TakeJack(f, h, used)
        /\ UNCHANGED <<hubs, hubNum, totalPorts>>
     \/ /\ \A h \in hubs : hubNum[h] # num[f]
        /\ \E h \in HubMem \ hubs :
             /\ hubs' = hubs \cup {h}
             /\ hubNum' = [hubNum EXCEPT ![h] = num[f]]
             /\ totalPorts' = [totalPorts EXCEPT ![h] = 0]
             /\ TakeJack(f, h, used)
  /\ UNCHANGED <<memVars, private, peer, state, kref, numPorts, fileVars, ioctlMutex, oom,
                 new, num>>

\* Without any lock: the proc entry, and the count read from the hub.  When
\* the proc entry cannot be made the jack is handed back.
HubFill(f) ==
  /\ pc[f] = "fill"
  /\ LET j == hubJack[f] IN
     \/ /\ numPorts' = [numPorts EXCEPT ![j] = totalPorts[HubOf(j)]]
        /\ peer' = [peer EXCEPT ![j] = None]
        /\ pc' = [pc EXCEPT ![f] = "publish"]
        /\ UNCHANGED <<used, hubJack, putVars>>
     \/ /\ used' = used \ {j}
        /\ hubJack' = [hubJack EXCEPT ![f] = None]
        /\ pc' = [pc EXCEPT ![f] = "put"]
        /\ putPort' = [putPort EXCEPT ![f] = new[f]]
        /\ UNCHANGED <<numPorts, peer, putHub>>
  /\ UNCHANGED <<memVars, hubs, hubNum, private, state, kref, totalPorts, fileVars,
                 ioctlMutex, oom, new, num>>

\* jack->private = hub: from now on the hub's own walks see the jack.
HubPublish(f) ==
  /\ pc[f] = "publish"
  /\ private' = private \cup {hubJack[f]}
  /\ pc' = [pc EXCEPT ![f] = IF new[f] = None THEN "switch" ELSE "connect"]
  /\ UNCHANGED <<memVars, hubs, hubNum, used, netVars, fileVars, ioctlMutex, oom,
                 new, num, hubJack, putVars>>

-----------------------------------------------------------------------------
(* The sections under vnetStructureMutex.                                   *)

\* The rest of VNetFileOpOpen: connect, list the port, set private_data.
OpenConnect(f) ==
  /\ pc[f] = "connect"
  /\ LET p == new[f]
         j == hubJack[f]
     IN
     \/ /\ ~Cycle(state, p, j)
        /\ Connect(state, numPorts, totalPorts, p, j)
        /\ allPorts' = allPorts \cup {p}
        /\ filp' = [filp EXCEPT ![f] = p]
        /\ UNCHANGED <<oom, putVars>>
     \/ /\ \E short \in BOOLEAN :
             /\ Cycle(state, p, j) \/ (short /\ Named(state, p, j))
             /\ short => MayRunShort /\ ~oom
             /\ oom' = (oom \/ short)
        /\ putPort' = [putPort EXCEPT ![f] = p]
        /\ putHub' = [putHub EXCEPT ![f] = j]
        /\ UNCHANGED <<netVars, fileVars>>
  /\ pc' = [pc EXCEPT ![f] = "put"]
  /\ UNCHANGED <<memVars, hubVars, ioctlMutex, new, num, hubJack>>

\* Mutant: only the port's end of the cable is disabled.
UnwiredPort(f) == state \ {filp[f]}

\* Mutant: the hub is not told of the disconnection.
TotalKept(f) == totalPorts

\* VNetDisconnect of the file's port and its hub jack, which keep their peers.
OldJack(f)  == peer[filp[f]]
Unwired(f)  == state \ {filp[f], OldJack(f)}
CountOff(f) == Renumber(numPorts, peer, Unwired(f), OldJack(f))
TotalOff(f) == Retotal(totalPorts, peer, Unwired(f), OldJack(f))

\* What a switch connects: for a bind the file's port to the new hub jack, for
\* the other requests the new port to the old hub jack.
IsBind(f)  == new[f] = None
NewPort(f) == IF IsBind(f) THEN filp[f] ELSE new[f]
NewJack(f) == IF IsBind(f) THEN hubJack[f] ELSE OldJack(f)

\* Mutant: the replaced port stays on the list.
NewListKeepingOld(f) == allPorts \cup {NewPort(f)}

\* AddPortToList and RemovePortFromList.
NewList(f) == IF IsBind(f) THEN allPorts ELSE (allPorts \cup {new[f]}) \ {filp[f]}

\* VNetSwitchToDifferentPeer connects, and puts what has been replaced.
SwitchDone(f) ==
  /\ ~Cycle(Unwired(f), NewPort(f), NewJack(f))
  /\ Connect(Unwired(f), CountOff(f), TotalOff(f), NewPort(f), NewJack(f))
  /\ allPorts' = NewList(f)
  /\ filp' = [filp EXCEPT ![f] = NewPort(f)]
  /\ putPort' = [putPort EXCEPT ![f] = IF IsBind(f) THEN None ELSE filp[f]]
  /\ putHub' = [putHub EXCEPT ![f] = IF IsBind(f) THEN OldJack(f) ELSE None]
  /\ UNCHANGED oom

\* Mutant: the old cable is not restored.
SwitchGivesUp(f) ==
  /\ Cycle(Unwired(f), NewPort(f), NewJack(f))
  /\ state' = Unwired(f)
  /\ numPorts' = CountOff(f)
  /\ totalPorts' = TotalOff(f)
  /\ putPort' = [putPort EXCEPT ![f] = new[f]]
  /\ putHub' = [putHub EXCEPT ![f] = hubJack[f]]
  /\ UNCHANGED <<peer, kref, fileVars, oom>>

\* The connection is refused: the old cable is restored, or, when that is
\* refused too, left disconnected.  Then the new jack is put.  When memory is
\* short the cycle detection gives up, which counts as a cycle.
SwitchRefused(f) ==
  /\ \E short \in BOOLEAN :
       LET Refused(p, j) ==
             Cycle(Unwired(f), p, j) \/ (short /\ Named(Unwired(f), p, j))
       IN
       /\ short => MayRunShort /\ ~oom
       /\ oom' = (oom \/ short)
       /\ Refused(NewPort(f), NewJack(f))
       /\ \/ /\ ~Cycle(Unwired(f), filp[f], OldJack(f))
             /\ Connect(Unwired(f), CountOff(f), TotalOff(f), filp[f], OldJack(f))
          \/ /\ Refused(filp[f], OldJack(f))
             /\ state' = Unwired(f)
             /\ numPorts' = CountOff(f)
             /\ totalPorts' = TotalOff(f)
             /\ UNCHANGED <<peer, kref>>
  /\ putPort' = [putPort EXCEPT ![f] = new[f]]
  /\ putHub' = [putHub EXCEPT ![f] = hubJack[f]]
  /\ UNCHANGED fileVars

Switch(f) ==
  /\ pc[f] = "switch"
  /\ SwitchDone(f) \/ SwitchRefused(f)
  /\ pc' = [pc EXCEPT ![f] = "put"]
  /\ UNCHANGED <<memVars, hubVars, ioctlMutex, new, num, hubJack>>

\* VNetFileOpClose: disconnect, unlist, then put the port and its hub jack.
Close(f) ==
  /\ pc[f] = "idle" /\ filp[f] # None
  /\ state' = Unwired(f)
  /\ numPorts' = CountOff(f)
  /\ totalPorts' = TotalOff(f)
  /\ allPorts' = allPorts \ {filp[f]}
  /\ filp' = [filp EXCEPT ![f] = None]
  /\ putPort' = [putPort EXCEPT ![f] = filp[f]]
  /\ putHub' = [putHub EXCEPT ![f] = OldJack(f)]
  /\ pc' = [pc EXCEPT ![f] = "put"]
  /\ UNCHANGED <<memVars, hubVars, peer, kref, ioctlMutex, oom, new, num, hubJack>>

-----------------------------------------------------------------------------
(* Dropping references.                                                     *)

\* kref_put: releases at one.  A garbage count may happen to be one; a zero
\* count saturates and the jack is never released.
PutReleases(j) == kref[j] \in {1, Uninit}

PutKeeps(j) ==
  /\ kref[j] # 1
  /\ kref' = [kref EXCEPT ![j] = IF @ = 0 THEN Saturated ELSE IF @ > 0 THEN @ - 1 ELSE @]
  /\ UNCHANGED <<memVars, private, peer, state>>

\* VNetKrefRelease and the free function of a port.
ReleasePort(p) ==
  /\ kref' = [kref EXCEPT ![p] = Uninit]
  /\ state' = state \ {p}
  /\ peer' = [peer EXCEPT ![p] = None]
  /\ kind' = [kind EXCEPT ![p] = "free"]
  /\ ifname' = [ifname EXCEPT ![p] = None]
  /\ UNCHANGED private

\* VNetKrefRelease and VNetHubFree up to its lock: no lock is held.
ReleaseHubJack(j) ==
  /\ kref' = [kref EXCEPT ![j] = 0]
  /\ state' = state \ {j}
  /\ peer' = [peer EXCEPT ![j] = None]
  /\ private' = private \ {j}
  /\ UNCHANGED memVars

KrefPutPort(f) ==
  /\ pc[f] = "put" /\ putPort[f] # None
  /\ \/ PutReleases(putPort[f]) /\ ReleasePort(putPort[f])
     \/ PutKeeps(putPort[f])
  /\ putPort' = [putPort EXCEPT ![f] = None]
  /\ UNCHANGED <<hubs, hubNum, used, numPorts, totalPorts, fileVars, ioctlMutex, oom,
                 pc, new, num, hubJack, putHub>>

KrefPutHub(f) ==
  /\ pc[f] = "put" /\ putPort[f] = None /\ putHub[f] # None
  /\ \/ /\ PutReleases(putHub[f]) /\ ReleaseHubJack(putHub[f])
        /\ pc' = [pc EXCEPT ![f] = "hubfree"]
        /\ UNCHANGED putHub
     \/ /\ PutKeeps(putHub[f])
        /\ putHub' = [putHub EXCEPT ![f] = None]
        /\ UNCHANGED pc
  /\ UNCHANGED <<hubs, hubNum, used, numPorts, totalPorts, fileVars, ioctlMutex, oom,
                 new, num, hubJack, putPort>>

\* Mutants: the hub goes with its first jack, or when no other jack of it has
\* been published.
FreeHub(j, last) ==
  /\ used' = used \ {j}
  /\ IF last
       THEN /\ hubs' = hubs \ {HubOf(j)}
            /\ hubNum' = [hubNum EXCEPT ![HubOf(j)] = None]
       ELSE UNCHANGED <<hubs, hubNum>>
  /\ UNCHANGED <<totalPorts, numPorts, kref>>

FreeHubAtOnce(j)      == FreeHub(j, TRUE)
FreeHubUnpublished(j) == FreeHub(j, JacksOf(HubOf(j)) \cap private \subseteq {j})

\* The locked part of VNetHubFree: the jack is free again, and with its last
\* jack the hub leaves the list and is freed.
FreeHubJack(j) ==
  LET h == HubOf(j) IN
  /\ used' = used \ {j}
  /\ IF JacksOf(h) \cap used \subseteq {j}
       THEN /\ hubs' = hubs \ {h}
            /\ hubNum' = [hubNum EXCEPT ![h] = None]
            /\ totalPorts' = [totalPorts EXCEPT ![h] = 0]
            /\ numPorts' = [k \in HubJacks |-> IF HubOf(k) = h THEN 0 ELSE numPorts[k]]
            /\ kref' = [k \in Jacks |-> IF k \in JacksOf(h) THEN Uninit ELSE kref[k]]
       ELSE UNCHANGED <<hubs, hubNum, totalPorts, numPorts, kref>>

HubFree(f) ==
  /\ pc[f] = "hubfree"
  /\ FreeHubJack(putHub[f])
  /\ putHub' = [putHub EXCEPT ![f] = None]
  /\ pc' = [pc EXCEPT ![f] = "put"]
  /\ UNCHANGED <<memVars, private, peer, state, fileVars, ioctlMutex, oom, new, num,
                 hubJack, putPort>>

\* The operation returns; an ioctl drops vnetIoctlMutex.
Return(f) ==
  /\ pc[f] = "put" /\ putPort[f] = None /\ putHub[f] = None
  /\ pc' = [pc EXCEPT ![f] = "idle"]
  /\ new' = [new EXCEPT ![f] = None]
  /\ num' = [num EXCEPT ![f] = None]
  /\ hubJack' = [hubJack EXCEPT ![f] = None]
  /\ ioctlMutex' = IF ioctlMutex = f THEN None ELSE ioctlMutex
  /\ UNCHANGED <<memVars, hubVars, netVars, fileVars, oom, putVars>>

-----------------------------------------------------------------------------
Begin(f) ==
  \/ \E n \in HubNums : Open(f, n) \/ Bind(f, n)
  \/ \E k \in PlugKinds, name \in IfNames \cup {None} : Plug(f, k, name)
  \/ Close(f)

Continue(f) ==
  \/ HubLookup(f) \/ HubInsert(f) \/ HubFill(f) \/ HubPublish(f)
  \/ OpenConnect(f) \/ Switch(f)
  \/ KrefPutPort(f) \/ KrefPutHub(f) \/ HubFree(f) \/ Return(f)

Next == \E f \in Filps : Begin(f) \/ Continue(f)

Spec == Init /\ [][Next]_vars

-----------------------------------------------------------------------------
(* Properties.                                                              *)

\* The types of the variables; a connected jack is one of the two ends of a
\* cable between a port and a hub jack, and a file's operation has the
\* objects its step works on.
TypeOK ==
  /\ kind \in [Ports -> Kinds]
  /\ ifname \in [Ports -> IfNames \cup {None}]
  /\ hubs \subseteq HubMem
  /\ hubNum \in [HubMem -> HubNums \cup {None}]
  /\ used \subseteq HubJacks /\ private \subseteq HubJacks
  /\ peer \in [Jacks -> Jacks \cup {None}]
  /\ \A p \in Ports : peer[p] \in HubJacks \cup {None}
  /\ \A j \in HubJacks : peer[j] \in Ports \cup {None}
  /\ state \subseteq Jacks
  /\ kref \in [Jacks -> Nat \cup {Uninit, Saturated}]
  /\ numPorts \in [HubJacks -> Int]
  /\ totalPorts \in [HubMem -> Nat]
  /\ allPorts \subseteq Ports
  /\ filp \in [Filps -> Ports \cup {None}]
  /\ ioctlMutex \in Filps \cup {None}
  /\ oom \in BOOLEAN
  /\ pc \in [Filps -> Steps]
  /\ new \in [Filps -> Ports \cup {None}]
  /\ num \in [Filps -> HubNums \cup {None}]
  /\ hubJack \in [Filps -> HubJacks \cup {None}]
  /\ putPort \in [Filps -> Ports \cup {None}]
  /\ putHub \in [Filps -> HubJacks \cup {None}]

\* Both ends of a cable agree: an enabled jack has an enabled peer whose peer
\* it is (VNetConnect and VNetDisconnect always change both).
PeerSymmetric ==
  \A j \in state : peer[j] # None /\ peer[j] \in state /\ peer[peer[j]] = j

\* Who has an object in hand: a port belongs to the file it is the private
\* data of, or to the operation that has created it or is about to put it; a
\* hub jack to the file whose port it is the peer of, or to the operation that
\* has allocated it or is about to put it.
Working == {"lookup", "insert", "fill", "publish", "connect", "switch"}
Holding == {"fill", "publish", "connect", "switch"}

IsFilps(f, p) == filp[f] = p
IsNew(f, p)   == pc[f] \in Working /\ new[f] = p
IsPut(f, p)   == putPort[f] = p
HasPort(f, p) == IsFilps(f, p) \/ IsNew(f, p) \/ IsPut(f, p)

IsPeer(f, j)    == filp[f] # None /\ peer[filp[f]] = j
IsTaken(f, j)   == pc[f] \in Holding /\ hubJack[f] = j
IsHubPut(f, j)  == putHub[f] = j
HasJack(f, j)   == IsPeer(f, j) \/ IsTaken(f, j) \/ IsHubPut(f, j)

\* No two files or operations have the same port or hub jack in hand, and none
\* has one twice: two opens never get the same jack, and no jack that is
\* plugged in is put or given out again.
Exclusive ==
  /\ \A p \in Ports, f, g \in Filps : HasPort(f, p) /\ HasPort(g, p) => f = g
  /\ \A j \in HubJacks, f, g \in Filps : HasJack(f, j) /\ HasJack(g, j) => f = g
  /\ \A f \in Filps :
       /\ \A p \in Ports : IsFilps(f, p) => ~IsNew(f, p) /\ ~IsPut(f, p)
       /\ \A j \in HubJacks : IsPeer(f, j) => ~IsTaken(f, j) /\ ~IsHubPut(f, j)

\* What a file or an operation has in hand is there: its port has not been
\* freed, and its hub jack is in use, on a hub that has not been freed.
NoUseAfterFree ==
  \A f \in Filps :
    /\ \A p \in Ports : HasPort(f, p) => kind[p] # "free"
    /\ \A j \in HubJacks : HasJack(f, j) => j \in used /\ HubOf(j) \in hubs

\* Two operations that both miss a hub and allocate it leave one hub of that
\* number on the list (VNetHubAlloc looks again after taking the lock).
OneHubPerNumber ==
  \A g, h \in hubs : hubNum[g] = hubNum[h] => g = h

\* No interface is attached to a hub twice: the loop VNetCycleDetect is for.
NoDuplicateInterface ==
  \A j, k \in state \cap HubJacks :
    (j # k /\ HubOf(j) = HubOf(k) /\ ifname[peer[j]] = ifname[peer[k]])
      => ifname[peer[j]] = None

\* hub->totalPorts counts the hub's connected ports after every step.
TotalPortsExact ==
  \A h \in hubs : totalPorts[h] = Cardinality(state \cap JacksOf(h))

\* As long as no allocation fails, reconnecting after a refused switch
\* succeeds, so the ports on the list are connected ("assert xxx redo this").
ListedConnected == ~oom => allPorts \subseteq state

\* Both: the hubs count what is connected, and what is listed is connected.
ConnectedCounted == TotalPortsExact /\ ListedConnected

\* The list of ports is that of the open files, and no two share a port.
ListMatchesFiles ==
  /\ allPorts = {filp[f] : f \in Filps} \ {None}
  /\ \A f, g \in Filps : filp[f] = filp[g] => f = g \/ filp[f] = None

\* When a switch that was refused for a cycle returns, the new port is gone: "the function
\* will deallocate the old or the new peer" (VNetSwitchToDifferentPeer).
SwitchDeallocates ==
  \A f \in Filps :
    (/\ ~oom
     /\ pc[f] = "put" /\ putPort[f] = None
     /\ filp[f] # None /\ new[f] \notin {None, filp[f]}) => kind[new[f]] = "free"

-----------------------------------------------------------------------------
(* Implementation of the patch panel.                                       *)

\* The cable of a file: its port's hub, by number, and interface.
CableOf(f) ==
  IF filp[f] = None THEN None
  ELSE [hub |-> hubNum[HubOf(peer[filp[f]])], name |-> ifname[filp[f]],
        up |-> filp[f] \in state]

Panel == INSTANCE VNetPlug WITH cable <- [f \in Filps |-> CableOf(f)]

\* Opening, replacing, moving and closing take effect in one step, and no
\* step duplicates an interface on a hub or moves another file's cable.
ImplementsPanel == Panel!Spec
=============================================================================
