-------------------------- MODULE VNetBridgeProofs --------------------------
(***************************************************************************)
(* Proofs about a bridge.                                                  *)
(*                                                                         *)
(* For any number of interfaces and ports the listeners, the kernel, the   *)
(* interface and its users agree on what it does (BridgeTrue), whatever    *)
(* the interleaving of the thread that creates and frees it, the threads   *)
(* that come and go at its hub, and the kernel.  The strengthening says    *)
(* which thread may be where, and with which lock (Turns), what bringing   *)
(* the bridge up or down relies on on its way (Linked), which interface it *)
(* has (Following), and what the promiscuity of an interface is at every   *)
(* step (Promiscuous).                                                     *)
(*                                                                         *)
(* For any number of packets on their way, and any history, the buffers    *)
(* are accounted for (PacketsExact; the strengthening is Passing).         *)
(*                                                                         *)
(* For any number of threads, guests and addresses the table of the single *)
(* MAC code is what is cached of it, answers come back to the guest that   *)
(* used the address last (FramesAnswered; Adding, and Used for the threads *)
(* that add one address at the same time), and the oldest entry is the one *)
(* to go (EvictsOldest; AgesInv).                                          *)
(*                                                                         *)
(* For frames of any number of headers and options, of any length, and     *)
(* words of any width, the rewriting finds what it looks for and corrects  *)
(* the checksum (RewriteExact; RewriteInv).  The model folds over the      *)
(* headers: their places are sums (Position), of which the walk adds up    *)
(* one after the other.  A checksum is right when a sum is a multiple of   *)
(* W - 1, of which the corrections add further ones (SameMultiple).        *)
(***************************************************************************)
EXTENDS MCVNetBridge, Sequences, FiniteSetTheorems, SequenceTheorems, WellFoundedInduction,
        TLAPS

\* The kernel calls the notifier with RTNL held, and "file" comes to the bridge's functions
\* without it only while no notifier is registered: so one thread at a time brings the bridge
\* up or down.  What reports a change of the ports holds vnetStructureMutex, and finds the
\* bridge plugged in or being unplugged.
Turns ==
  /\ pc["other"] \in PortsSteps \cup {"idle", "fault"}
  /\ pc["kernel"] \in UpSteps \cup DownSteps \cup {"idle"}
  /\ pc["kernel"] # "idle" => rtnl = "kernel" /\ notifier
  /\ rtnl = "file" => pc["file"] \in UpSteps \cup DownSteps \cup {"fault"}
  /\ pc["file"] \in UpSteps => (rtnl = "file" <=> notifier)
  /\ pc["file"] \in DownSteps \cup {"idle", "register", "free"} => ~notifier
  /\ plugged => pc["file"] \in PortsSteps \cup {"plugged", "fault"}
  /\ pc["other"] # "idle" => plugged
  /\ \A t \in Threads : pc[t] \in PortsSteps \cup {"upPromisc", "fault"} => mutex = t
  /\ \A t \in Threads : pc[t] = "fault" => rtnl = t

\* The bridge has an interface from the first step of bringing it up to the last of bringing
\* it down, and its packet handler with it; the event of the one state is not sent while it
\* goes to the other.
Linked ==
  /\ \A t \in Threads : pc[t] \in UpSteps \cup DownSteps => dev # NULL
  /\ \A t \in Threads : pc[t] \in UpSteps \cup {"downPromisc", "downClear"} => sent # "up"
  /\ LinkStateTrue
  /\ handler = (IF dev # NULL THEN 1 ELSE 0) + (IF failed = "event" THEN 1 ELSE 0)
  /\ isUp => net # NULL
  /\ pc["file"] = "idle" => dev = NULL
  /\ pc["kernel"] \in DownSteps => ~isUp

\* Which interface the bridge has.  While the notifier is registered it is the one that is up,
\* and there is one, unless memory was short since that came up.  Before, it may also be one
\* that has gone; then it is an earlier one from there on, until the bridge is freed.  A
\* notification of an interface that comes up finds it up until it returns.
Following ==
  /\ net \in {NULL, made} /\ dev <= made
  /\ notifier /\ isUp /\ excuse = "none" => dev # NULL
  /\ excuse = "none" /\ pc["kernel"] \notin DownSteps => dev \in {NULL, net}
  /\ pc["file"] = "idle" => excuse = "none"
  /\ excuse = "memory" => dev = NULL /\ isUp /\ pc["file"] \notin UpSteps \cup {"register"}
  /\ excuse = "stale" /\ (notifier \/ pc["file"] \in UpSteps \cup {"register"})
       => dev \notin {NULL, net} /\ pc["kernel"] \notin DownSteps
  /\ \A t \in Threads : pc[t] \in UpSteps /\ rtnl = t => isUp

\* What the bridge has asked of interface n.
Charged(n) ==
  /\ enabledPromisc => promisc[n] > 0
  /\ ~enabledPromisc => promisc[n] < MaxPromisc

NoneComing == \A t \in Threads : pc[t] # "upMutex"

\* A bridge that has just come up has asked for nothing; later it has asked its interface for
\* what the ports need, but for a change that is being reported.  A thread about to apply such
\* a change has the bridge's interface at hand, unless another is coming up, which then waits
\* for the mutex while the thread waits for RTNL.
Promiscuous ==
  /\ \A t \in Threads : pc[t] \in {"upMutex", "upPromisc"} => ~enabledPromisc
  /\ dev # NULL => Charged(dev)
  /\ (/\ dev # NULL
      /\ \A t \in Threads :
           pc[t] \notin PortsSteps \cup DownSteps \cup {"upMutex", "upPromisc"})
       => (enabledPromisc <=> Attached)
  /\ \A t \in Threads : pc[t] = "apply" /\ NoneComing =>
       (dev # NULL => ptr[t] = dev) /\ (ptr[t] # NULL => Charged(ptr[t]))
  /\ \A t \in Threads : pc[t] = "fault" => dev = NULL
  /\ (pc["file"] \in {"idle", "register"} \cup UpSteps /\ rtnl # "file")
       => \A n \in Nets : promisc[n] = 0

IInv == TypeOK /\ Turns /\ Linked /\ Following /\ Promiscuous

\* The threads, and where they may be.
USE DEF Threads, NoOne, NULL, Nets, UpSteps, DownSteps, PortsSteps

-----------------------------------------------------------------------------
(* The steps of "file", of the kernel and of "other".                       *)

\* Creating the bridge: nobody else is at it, and it has asked for no promiscuous mode.
LEMMA CreateInv == ASSUME IInv, Create PROVE IInv'
<1> USE BoundsAssumption
    DEF IInv, Create, Attached, Goto, Found, NotFound, netVars, hubVars, faults
<1>1. TypeOK'
  <2>1. pc' \in [Threads -> Steps]
    BY DEF TypeOK, Steps
  <2>2. promisc' \in [Nets -> 0 .. MaxPromisc]
    BY DEF TypeOK, Turns, Linked, Promiscuous, Charged, NoneComing
  <2>3. dev' \in Nets \cup {NULL} /\ handler' \in Nat
    BY DEF TypeOK, Turns, Linked
  <2> QED
    BY <2>1, <2>2, <2>3 DEF TypeOK, Turns, Linked
<1>2. Turns'
  BY DEF TypeOK, Turns
<1>3. Linked'
  <2>1. CASE isUp /\ Found("file")
    BY <2>1 DEF TypeOK, Turns, Linked, LinkStateTrue, Settled
  <2>2. CASE NotFound /\ Goto("file", "register")
    BY <2>2 DEF TypeOK, Turns, Linked, LinkStateTrue, Settled
  <2>3. CASE NotFound /\ Goto("file", "gone")
    BY <2>3 DEF TypeOK, Turns, Linked, LinkStateTrue, Settled
  <2> QED
    BY <2>1, <2>2, <2>3
<1>4. Following'
  BY DEF TypeOK, Turns, Linked, Following
<1>5. Promiscuous'
  BY DEF TypeOK, Turns, Linked, Promiscuous, Charged, NoneComing
<1> QED
  BY <1>1, <1>2, <1>3, <1>4, <1>5

\* Registering the notifier, which may bring it up with RTNL held.
LEMMA RegisterNotifierInv == ASSUME IInv, RegisterNotifier PROVE IInv'
<1> USE BoundsAssumption DEF IInv, RegisterNotifier, Attached, Goto, Found, NotFound, NotifyUp,
        netVars, bridgeVars, hubVars, faults
<1>1. TypeOK'
  <2>1. pc' \in [Threads -> Steps]
    BY DEF TypeOK, Steps
  <2>2. promisc' \in [Nets -> 0 .. MaxPromisc]
    BY DEF TypeOK, Turns, Linked, Promiscuous, Charged, NoneComing
  <2>3. dev' \in Nets \cup {NULL} /\ handler' \in Nat
    BY DEF TypeOK, Turns, Linked
  <2> QED
    BY <2>1, <2>2, <2>3 DEF TypeOK, Turns, Linked
<1>2. Turns'
  BY DEF TypeOK, Turns
<1>3. Linked'
  BY DEF TypeOK, Turns, Linked, LinkStateTrue, Settled
<1>4. Following'
  BY DEF TypeOK, Turns, Linked, Following
<1>5. Promiscuous'
  BY DEF TypeOK, Turns, Linked, Promiscuous, Charged, NoneComing
<1> QED
  BY <1>1, <1>2, <1>3, <1>4, <1>5

\* The bridge is plugged in and unplugged with the mutex, which stays held while the change of
\* the ports is reported.
LEMMA PlugInv == ASSUME IInv, Plug PROVE IInv'
<1> USE BoundsAssumption DEF IInv, Plug, Attached, Goto, netVars, bridgeVars, faults
<1>1. TypeOK'
  BY DEF TypeOK, Steps, Turns, Linked, Promiscuous, Charged, NoneComing
<1>2. Turns'
  BY DEF TypeOK, Turns
<1>3. Linked'
  BY DEF TypeOK, Turns, Linked, LinkStateTrue, Settled
<1>4. Following'
  BY DEF TypeOK, Turns, Linked, Following
<1>5. Promiscuous'
  BY DEF TypeOK, Turns, Linked, Promiscuous, Charged, NoneComing
<1> QED
  BY <1>1, <1>2, <1>3, <1>4, <1>5

LEMMA PlugRefusedInv == ASSUME IInv, PlugRefused PROVE IInv'
<1> USE BoundsAssumption DEF IInv, PlugRefused, Attached, Goto, netVars, bridgeVars, hubVars, faults
<1>1. TypeOK'
  BY DEF TypeOK, Steps, Turns, Linked, Promiscuous, Charged, NoneComing
<1>2. Turns'
  BY DEF TypeOK, Turns
<1>3. Linked'
  BY DEF TypeOK, Turns, Linked, LinkStateTrue, Settled
<1>4. Following'
  BY DEF TypeOK, Turns, Linked, Following
<1>5. Promiscuous'
  BY DEF TypeOK, Turns, Linked, Promiscuous, Charged, NoneComing
<1> QED
  BY <1>1, <1>2, <1>3, <1>4, <1>5

LEMMA UnplugInv == ASSUME IInv, Unplug PROVE IInv'
<1> USE BoundsAssumption DEF IInv, Unplug, Attached, Goto, netVars, bridgeVars, faults
<1>1. TypeOK'
  <2>1. pc' \in [Threads -> Steps]
    BY DEF TypeOK, Steps
  <2>2. promisc' \in [Nets -> 0 .. MaxPromisc]
    BY DEF TypeOK, Turns, Linked, Promiscuous, Charged, NoneComing
  <2>3. dev' \in Nets \cup {NULL} /\ handler' \in Nat
    BY DEF TypeOK, Turns, Linked
  <2> QED
    BY <2>1, <2>2, <2>3 DEF TypeOK, Turns, Linked
<1>2. Turns'
  BY DEF TypeOK, Turns
<1>3. Linked'
  BY DEF TypeOK, Turns, Linked, LinkStateTrue, Settled
<1>4. Following'
  BY DEF TypeOK, Turns, Linked, Following
<1>5. Promiscuous'
  BY DEF TypeOK, Turns, Linked, Promiscuous, Charged, NoneComing
<1> QED
  BY <1>1, <1>2, <1>3, <1>4, <1>5

\* When the notifier is gone the kernel is at no bridge's function any more.
LEMMA UnregisterNotifierInv == ASSUME IInv, UnregisterNotifier PROVE IInv'
<1> USE BoundsAssumption
    DEF IInv, UnregisterNotifier, Attached, Goto, netVars, bridgeVars, hubVars, faults
<1>1. TypeOK'
  <2>1. pc' \in [Threads -> Steps]
    BY DEF TypeOK, Steps
  <2>2. promisc' \in [Nets -> 0 .. MaxPromisc]
    BY DEF TypeOK, Turns, Linked, Promiscuous, Charged, NoneComing
  <2>3. dev' \in Nets \cup {NULL} /\ handler' \in Nat
    BY DEF TypeOK, Turns, Linked
  <2> QED
    BY <2>1, <2>2, <2>3 DEF TypeOK, Turns, Linked
<1>2. Turns'
  BY DEF TypeOK, Turns
<1>3. Linked'
  BY DEF TypeOK, Turns, Linked, LinkStateTrue, Settled
<1>4. Following'
  BY DEF TypeOK, Turns, Linked, Following
<1>5. Promiscuous'
  BY DEF TypeOK, Turns, Linked, Promiscuous, Charged, NoneComing
<1> QED
  BY <1>1, <1>2, <1>3, <1>4, <1>5

LEMMA FreeInv == ASSUME IInv, Free PROVE IInv'
<1> USE BoundsAssumption DEF IInv, Free, Attached, Goto, netVars, bridgeVars, hubVars, faults
<1>1. TypeOK'
  BY DEF TypeOK, Steps, Turns, Linked, Promiscuous, Charged, NoneComing
<1>2. Turns'
  BY DEF TypeOK, Turns
<1>3. Linked'
  BY DEF TypeOK, Turns, Linked, LinkStateTrue, Settled
<1>4. Following'
  BY DEF TypeOK, Turns, Linked, Following
<1>5. Promiscuous'
  BY DEF TypeOK, Turns, Linked, Promiscuous, Charged, NoneComing
<1> QED
  BY <1>1, <1>2, <1>3, <1>4, <1>5

\* The kernel's steps, under RTNL.
LEMMA RegisterInv == ASSUME IInv, Register PROVE IInv'
<1> USE BoundsAssumption DEF IInv, Register, Attached, bridgeVars, hubVars, faults
<1>1. TypeOK'
  BY DEF TypeOK, Steps, Turns, Linked, Promiscuous, Charged, NoneComing
<1>2. Turns'
  BY DEF TypeOK, Turns
<1>3. Linked'
  BY DEF TypeOK, Turns, Linked, LinkStateTrue, Settled
<1>4. Following'
  BY DEF TypeOK, Turns, Linked, Following
<1>5. Promiscuous'
  BY DEF TypeOK, Turns, Linked, Promiscuous, Charged, NoneComing
<1> QED
  BY <1>1, <1>2, <1>3, <1>4, <1>5

LEMMA NetUpInv == ASSUME IInv, NetUp PROVE IInv'
<1> USE BoundsAssumption DEF IInv, NetUp, Attached, Goto, Found, NotFound, NotifyUp, bridgeVars,
        hubVars, faults
<1>1. TypeOK'
  <2>1. pc' \in [Threads -> Steps]
    BY DEF TypeOK, Steps
  <2>2. promisc' \in [Nets -> 0 .. MaxPromisc]
    BY DEF TypeOK, Turns, Linked, Promiscuous, Charged, NoneComing
  <2>3. dev' \in Nets \cup {NULL} /\ handler' \in Nat
    BY DEF TypeOK, Turns, Linked
  <2> QED
    BY <2>1, <2>2, <2>3 DEF TypeOK, Turns, Linked
<1>2. Turns'
  BY DEF TypeOK, Turns
<1>3. Linked'
  BY DEF TypeOK, Turns, Linked, LinkStateTrue, Settled
<1>4. Following'
  BY DEF TypeOK, Turns, Linked, Following
<1>5. Promiscuous'
  BY SMTT(40) DEF TypeOK, Turns, Linked, Promiscuous, Charged, NoneComing
<1> QED
  BY <1>1, <1>2, <1>3, <1>4, <1>5

LEMMA NetDownInv == ASSUME IInv, NetDown PROVE IInv'
<1> USE BoundsAssumption DEF IInv, NetDown, Attached, Goto, NotifyDown, bridgeVars, hubVars, faults
<1>1. TypeOK'
  <2>1. pc' \in [Threads -> Steps]
    BY DEF TypeOK, Steps
  <2>2. promisc' \in [Nets -> 0 .. MaxPromisc]
    BY DEF TypeOK, Turns, Linked, Promiscuous, Charged, NoneComing
  <2>3. dev' \in Nets \cup {NULL} /\ handler' \in Nat
    BY DEF TypeOK, Turns, Linked
  <2> QED
    BY <2>1, <2>2, <2>3 DEF TypeOK, Turns, Linked
<1>2. Turns'
  BY DEF TypeOK, Turns
<1>3. Linked'
  BY DEF TypeOK, Turns, Linked, LinkStateTrue, Settled
<1>4. Following'
  BY DEF TypeOK, Turns, Linked, Following
<1>5. Promiscuous'
  BY DEF TypeOK, Turns, Linked, Promiscuous, Charged, NoneComing
<1> QED
  BY <1>1, <1>2, <1>3, <1>4, <1>5

LEMMA UnregisterInv == ASSUME IInv, Unregister PROVE IInv'
<1> USE BoundsAssumption
    DEF IInv, Unregister, Attached, Goto, NotifyDown, bridgeVars, hubVars, faults
<1>1. TypeOK'
  BY DEF TypeOK, Steps, Turns, Linked, Promiscuous, Charged, NoneComing
<1>2. Turns'
  BY DEF TypeOK, Turns
<1>3. Linked'
  BY DEF TypeOK, Turns, Linked, LinkStateTrue, Settled
<1>4. Following'
  BY DEF TypeOK, Turns, Linked, Following
<1>5. Promiscuous'
  BY DEF TypeOK, Turns, Linked, Promiscuous, Charged, NoneComing
<1> QED
  BY <1>1, <1>2, <1>3, <1>4, <1>5

\* A port comes or goes, and with the bridge plugged in the change is reported.
LEMMA OtherPortInv == ASSUME IInv, NEW n \in {1, -1}, others + n \in 0 .. MaxPorts, OtherPort(n) PROVE IInv'
<1> USE BoundsAssumption DEF IInv, OtherPort, Attached, Goto, netVars, bridgeVars, faults
<1>1. TypeOK'
  BY DEF TypeOK, Steps, Turns, Linked, Promiscuous, Charged, NoneComing
<1>2. Turns'
  BY DEF TypeOK, Turns
<1>3. Linked'
  BY DEF TypeOK, Turns, Linked, LinkStateTrue, Settled
<1>4. Following'
  BY DEF TypeOK, Turns, Linked, Following
<1>5. Promiscuous'
  BY DEF TypeOK, Turns, Linked, Promiscuous, Charged, NoneComing
<1> QED
  BY <1>1, <1>2, <1>3, <1>4, <1>5

-----------------------------------------------------------------------------
(* The functions of the bridge, by whatever thread.                          *)

\* Bringing it up ...
LEMMA UpMutexInv == ASSUME IInv, NEW t \in Threads, UpMutex(t) PROVE IInv'
<1> USE BoundsAssumption DEF IInv, UpMutex, Attached, Goto, netVars, bridgeVars, hubVars, faults
<1>1. TypeOK'
  BY DEF TypeOK, Steps, Turns, Linked, Promiscuous, Charged, NoneComing
<1>2. Turns'
  BY DEF TypeOK, Turns
<1>3. Linked'
  BY DEF TypeOK, Turns, Linked, LinkStateTrue, Settled
<1>4. Following'
  BY DEF TypeOK, Turns, Linked, Following
<1>5. Promiscuous'
  BY DEF TypeOK, Turns, Linked, Promiscuous, Charged, NoneComing
<1> QED
  BY <1>1, <1>2, <1>3, <1>4, <1>5

LEMMA UpPromiscInv == ASSUME IInv, NEW t \in Threads, UpPromisc(t) PROVE IInv'
<1> USE BoundsAssumption DEF IInv, UpPromisc, Attached, Goto, Rtnl, StartPromisc, netVars, hubVars, faults
<1>1. TypeOK'
  <2>1. pc' \in [Threads -> Steps]
    BY DEF TypeOK, Steps
  <2>2. promisc' \in [Nets -> 0 .. MaxPromisc]
    BY SMTT(40) DEF TypeOK, Turns, Linked, Promiscuous, Charged, NoneComing
  <2>3. dev' \in Nets \cup {NULL} /\ handler' \in Nat
    BY DEF TypeOK, Turns, Linked
  <2> QED
    BY <2>1, <2>2, <2>3 DEF TypeOK, Turns, Linked
<1>2. Turns'
  BY DEF TypeOK, Turns
<1>3. Linked'
  BY DEF TypeOK, Turns, Linked, LinkStateTrue, Settled
<1>4. Following'
  BY DEF TypeOK, Turns, Linked, Following
<1>5. Promiscuous'
  BY SMTT(40) DEF TypeOK, Turns, Linked, Promiscuous, Charged, NoneComing
<1> QED
  BY <1>1, <1>2, <1>3, <1>4, <1>5

LEMMA UpEventInv == ASSUME IInv, NEW t \in Threads, UpEvent(t) PROVE IInv'
<1> USE BoundsAssumption DEF IInv, UpEvent, Attached, Goto, EndUp, netVars, hubVars, faults
<1>1. TypeOK'
  BY ZenonT(60) DEF TypeOK, Steps, Turns, Linked, Promiscuous, Charged, NoneComing
<1>2. Turns'
  BY DEF TypeOK, Turns
<1>3. Linked'
  BY DEF TypeOK, Turns, Linked, LinkStateTrue, Settled
<1>4. Following'
  BY DEF TypeOK, Turns, Linked, Following
<1>5. Promiscuous'
  BY DEF TypeOK, Turns, Linked, Promiscuous, Charged, NoneComing
<1> QED
  BY <1>1, <1>2, <1>3, <1>4, <1>5

\* ... bringing it down ...
LEMMA DownEventInv == ASSUME IInv, NEW t \in Threads, DownEvent(t) PROVE IInv'
<1> USE BoundsAssumption DEF IInv, DownEvent, Attached, Goto, netVars, hubVars, faults
<1>1. TypeOK'
  BY DEF TypeOK, Steps, Turns, Linked, Promiscuous, Charged, NoneComing
<1>2. Turns'
  BY DEF TypeOK, Turns
<1>3. Linked'
  BY DEF TypeOK, Turns, Linked, LinkStateTrue, Settled
<1>4. Following'
  BY DEF TypeOK, Turns, Linked, Following
<1>5. Promiscuous'
  BY DEF TypeOK, Turns, Linked, Promiscuous, Charged, NoneComing
<1> QED
  BY <1>1, <1>2, <1>3, <1>4, <1>5

LEMMA DownPromiscInv == ASSUME IInv, NEW t \in Threads, DownPromisc(t) PROVE IInv'
<1> USE BoundsAssumption DEF IInv, DownPromisc, Attached, Goto, Rtnl, StopPromisc, netVars, hubVars, faults
<1>1. TypeOK'
  <2>1. pc' \in [Threads -> Steps]
    BY DEF TypeOK, Steps
  <2>2. promisc' \in [Nets -> 0 .. MaxPromisc]
    BY SMTT(40) DEF TypeOK, Turns, Linked, Promiscuous, Charged, NoneComing
  <2>3. dev' \in Nets \cup {NULL} /\ handler' \in Nat
    BY DEF TypeOK, Turns, Linked
  <2> QED
    BY <2>1, <2>2, <2>3, ZenonT(60) DEF TypeOK, Turns, Linked
<1>2. Turns'
  BY DEF TypeOK, Turns
<1>3. Linked'
  BY DEF TypeOK, Turns, Linked, LinkStateTrue, Settled
<1>4. Following'
  BY DEF TypeOK, Turns, Linked, Following
<1>5. Promiscuous'
  BY SMTT(40) DEF TypeOK, Turns, Linked, Promiscuous, Charged, NoneComing
<1> QED
  BY <1>1, <1>2, <1>3, <1>4, <1>5

LEMMA DownClearInv == ASSUME IInv, NEW t \in Threads, DownClear(t) PROVE IInv'
<1> USE BoundsAssumption DEF IInv, DownClear, Attached, Goto, EndDown, netVars, hubVars, faults
<1>1. TypeOK'
  BY DEF TypeOK, Steps, Turns, Linked, Promiscuous, Charged, NoneComing
<1>2. Turns'
  BY DEF TypeOK, Turns
<1>3. Linked'
  BY DEF TypeOK, Turns, Linked, LinkStateTrue, Settled
<1>4. Following'
  BY DEF TypeOK, Turns, Linked, Following
<1>5. Promiscuous'
  BY DEF TypeOK, Turns, Linked, Promiscuous, Charged, NoneComing
<1> QED
  BY <1>1, <1>2, <1>3, <1>4, <1>5

\* ... and following the ports.
LEMMA PortsChangedInv == ASSUME IInv, NEW t \in Threads, PortsChanged(t) PROVE IInv'
<1> USE BoundsAssumption DEF IInv, PortsChanged, Attached, Goto, EndPorts, netVars, bridgeVars,
        hubVars, faults
<1>1. TypeOK'
  BY DEF TypeOK, Steps, Turns, Linked, Promiscuous, Charged, NoneComing
<1>2. Turns'
  BY DEF TypeOK, Turns
<1>3. Linked'
  BY DEF TypeOK, Turns, Linked, LinkStateTrue, Settled
<1>4. Following'
  BY DEF TypeOK, Turns, Linked, Following
<1>5. Promiscuous'
  BY DEF TypeOK, Turns, Linked, Promiscuous, Charged, NoneComing
<1> QED
  BY <1>1, <1>2, <1>3, <1>4, <1>5

LEMMA ReadDevInv == ASSUME IInv, NEW t \in Threads, ReadDev(t) PROVE IInv'
<1> USE BoundsAssumption DEF IInv, ReadDev, Attached, Goto, netVars, bridgeVars, hubVars, faults
<1>1. TypeOK'
  BY DEF TypeOK, Steps, Turns, Linked, Promiscuous, Charged, NoneComing
<1>2. Turns'
  BY DEF TypeOK, Turns
<1>3. Linked'
  BY DEF TypeOK, Turns, Linked, LinkStateTrue, Settled
<1>4. Following'
  BY DEF TypeOK, Turns, Linked, Following
<1>5. Promiscuous'
  BY DEF TypeOK, Turns, Linked, Promiscuous, Charged, NoneComing
<1> QED
  BY <1>1, <1>2, <1>3, <1>4, <1>5

LEMMA ApplyPromiscInv == ASSUME IInv, NEW t \in Threads, ApplyPromisc(t) PROVE IInv'
<1> USE BoundsAssumption DEF IInv, ApplyPromisc, Attached, Goto, Rtnl, StartPromisc,
        StopPromisc, EndPorts, netVars, hubVars, faults
<1>1. TypeOK'
  <2>1. pc' \in [Threads -> Steps]
    BY DEF TypeOK, Steps
  <2>2. promisc' \in [Nets -> 0 .. MaxPromisc]
    <3>1. NoneComing
      BY DEF TypeOK, Turns, NoneComing
    <3>2. ptr[t] # NULL => Charged(ptr[t])
      BY <3>1 DEF Promiscuous
    <3>3. promisc' # promisc => ptr[t] # NULL /\ ptr[t] \in Nets
      BY DEF TypeOK
    <3>4. \A n \in Nets : promisc[n] \in 0 .. MaxPromisc
      BY DEF TypeOK
    <3>5. \/ promisc' = promisc
          \/ ~enabledPromisc /\ promisc' = [promisc EXCEPT ![ptr[t]] = promisc[ptr[t]] + 1]
          \/ enabledPromisc /\ promisc' = [promisc EXCEPT ![ptr[t]] = promisc[ptr[t]] - 1]
      OBVIOUS
    <3>6. ptr[t] # NULL => promisc[ptr[t]] \in 0 .. MaxPromisc
      BY <3>4 DEF TypeOK
    <3>7. promisc' # promisc =>
            \E k \in 0 .. MaxPromisc : promisc' = [promisc EXCEPT ![ptr[t]] = k]
      BY <3>2, <3>3, <3>5, <3>6 DEF Charged
    <3> QED
      BY <3>3, <3>4, <3>7 DEF TypeOK
  <2>3. dev' \in Nets \cup {NULL} /\ handler' \in Nat
    BY DEF TypeOK, Turns, Linked
  <2> QED
    BY <2>1, <2>2, <2>3, ZenonT(60) DEF TypeOK, Turns, Linked
<1>2. Turns'
  BY DEF TypeOK, Turns
<1>3. Linked'
  BY DEF TypeOK, Turns, Linked, LinkStateTrue, Settled
<1>4. Following'
  BY DEF TypeOK, Turns, Linked, Following
<1>5. Promiscuous'
  BY SMTT(40) DEF TypeOK, Turns, Linked, Promiscuous, Charged, NoneComing
<1> QED
  BY <1>1, <1>2, <1>3, <1>4, <1>5

-----------------------------------------------------------------------------
(* The theorems.                                                             *)

\* No bridge yet.
LEMMA InitInv == Init => IInv
<1> SUFFICES ASSUME Init PROVE IInv
  OBVIOUS
<1> USE BoundsAssumption DEF Init
<1>1. TypeOK
  <2>1. net \in Nets \cup {NULL} /\ made = net /\ made \in 0 .. MaxNets
    OBVIOUS
  <2>2. isUp \in BOOLEAN
    <3>1. (net # NULL) \in BOOLEAN
      OBVIOUS
    <3>2. isUp \in {FALSE, net # NULL}
      OBVIOUS
    <3> QED
      BY ONLY <3>1, <3>2
  <2>3. /\ promisc \in [Nets -> 0 .. MaxPromisc] /\ pc \in [Threads -> Steps]
        /\ ptr \in [Threads -> Nets \cup {NULL}]
    BY DEF Steps
  <2> QED
    BY <2>1, <2>2, <2>3 DEF TypeOK
<1>2. Turns
  BY DEF Turns
<1>3. Linked
  <2>1. isUp => net # NULL
    OBVIOUS
  <2>2. \A t \in Threads : pc[t] = "idle"
    OBVIOUS
  <2>3. dev = NULL /\ sent = "none" /\ handler = 0 /\ failed = "no"
    OBVIOUS
  <2> QED
    BY ONLY <2>1, <2>2, <2>3 DEF Linked, LinkStateTrue, Settled
<1>4. Following
  BY DEF Following
<1>5. Promiscuous
  BY DEF Promiscuous, Charged, NoneComing
<1> QED
  BY <1>1, <1>2, <1>3, <1>4, <1>5 DEF IInv

\* Every step of the specification keeps the invariant.
LEMMA NextInv == IInv /\ [Next]_vars => IInv'
<1> SUFFICES ASSUME IInv, [Next]_vars PROVE IInv'
  OBVIOUS
<1>1. CASE \/ Create \/ RegisterNotifier \/ Plug \/ PlugRefused \/ Unplug
           \/ UnregisterNotifier \/ Free
  BY <1>1, CreateInv, RegisterNotifierInv, PlugInv, PlugRefusedInv, UnplugInv,
     UnregisterNotifierInv, FreeInv
<1>2. CASE Register \/ NetUp \/ NetDown \/ Unregister
  BY <1>2, RegisterInv, NetUpInv, NetDownInv, UnregisterInv
<1>3. CASE (others < MaxPorts /\ OtherPort(1)) \/ (others > 0 /\ OtherPort(-1))
  <2>1. others \in 0 .. MaxPorts
    BY DEF IInv, TypeOK
  <2>2. CASE others < MaxPorts /\ OtherPort(1)
    <3>1. others + 1 \in 0 .. MaxPorts
      BY <2>1, <2>2, BoundsAssumption
    <3> QED
      BY <2>2, <3>1, OtherPortInv
  <2>3. CASE others > 0 /\ OtherPort(-1)
    <3>1. others + -1 \in 0 .. MaxPorts
      BY <2>1, <2>3, BoundsAssumption
    <3> QED
      BY <2>3, <3>1, OtherPortInv
  <2> QED
    BY <1>3, <2>2, <2>3
<1>4. ASSUME NEW t \in Threads, Going(t) PROVE IInv'
  <2> HIDE DEF Threads
  <2> QED
    BY <1>4, UpMutexInv, UpPromiscInv, UpEventInv, DownEventInv, DownPromiscInv, DownClearInv,
       PortsChangedInv, ReadDevInv, ApplyPromiscInv DEF Going
<1>5. CASE UNCHANGED vars
  <2> USE <1>5 DEF vars, netVars, bridgeVars, hubVars, faults
  <2>1. TypeOK' /\ Turns'
    BY DEF IInv, TypeOK, Turns
  <2>2. Linked'
    BY DEF IInv, Linked, LinkStateTrue, Settled
  <2>3. Following'
    BY DEF IInv, Following
  <2>4. Promiscuous'
    BY DEF IInv, Promiscuous, Charged, NoneComing, Attached
  <2> QED
    BY <2>1, <2>2, <2>3, <2>4 DEF IInv
<1> QED
  BY <1>1, <1>2, <1>3, <1>4, <1>5 DEF Next

\* The invariant holds in every behaviour.
THEOREM Invariance == Spec => []IInv
BY InitInv, NextInv, PTL DEF Spec

\* The variables keep their types; so the bridge withdraws no promiscuity it has not asked for.
THEOREM TypeCorrect == Spec => []TypeOK
<1>1. IInv => TypeOK
  BY DEF IInv
<1> QED
  BY <1>1, Invariance, PTL

\* In whatever order interface, bridge and ports come and go: once nobody is bringing the
\* bridge up or down, the last link event says whether it has an interface, its packet handler
\* is on the kernel's list once while it has, and once more if the event ever failed, it is
\* promiscuous exactly while other ports are attached, and the interface that is up is the one
\* it has, but for a shortage of memory and for an interface that went before the notifier came.
THEOREM BridgeTrueHolds == Spec => []BridgeTrue
<1>1. IInv => BridgeTrue
  <2> SUFFICES ASSUME IInv PROVE BridgeTrue
    OBVIOUS
  <2>1. LinkStateTrue
    BY DEF IInv, Linked
  <2>2. HandlerMatches
    BY DEF IInv, Linked, HandlerMatches
  <2>3. PromiscWhenUp
    <3> SUFFICES ASSUME Settled, dev # NULL, \A t \in Threads : pc[t] \notin PortsSteps
                 PROVE  enabledPromisc = Attached /\ (Attached => promisc[dev] > 0)
      BY DEF PromiscWhenUp
    <3>1. enabledPromisc <=> Attached
      BY DEF IInv, Promiscuous, Settled
    <3>2. enabledPromisc \in BOOLEAN /\ Attached \in BOOLEAN
      BY DEF IInv, TypeOK, Attached
    <3> QED
      BY <3>1, <3>2 DEF IInv, Promiscuous, Charged
  <2>4. BridgedWhenUp
    <3> SUFFICES ASSUME Settled, notifier, isUp
                 PROVE  CASE excuse = "none"   -> dev = net
                          [] excuse = "memory" -> dev = NULL
                          [] excuse = "stale"  -> dev \in 1 .. net - 1
      BY DEF BridgedWhenUp
    <3>1. pc["kernel"] \notin DownSteps
      BY DEF Settled
    <3>2. net = made /\ net \in Nat /\ dev \in Nat /\ dev <= made
      BY BoundsAssumption DEF IInv, TypeOK, Linked, Following
    <3>3. excuse = "none" => dev = net
      BY <3>1 DEF IInv, Following
    <3>4. excuse = "memory" => dev = NULL
      BY DEF IInv, Following
    <3>5. excuse = "stale" => dev \in 1 .. net - 1
      BY <3>2 DEF IInv, Following
    <3>6. excuse \in {"none", "memory", "stale"}
      BY DEF IInv, TypeOK
    <3> QED
      BY <3>3, <3>4, <3>5, <3>6
  <2> QED
    BY <2>1, <2>2, <2>3, <2>4 DEF BridgeTrue
<1> QED
  BY <1>1, Invariance, PTL

\* A thread of the bridge faults only when the bridge has no interface: it read it before it
\* had RTNL, and the interface went down meanwhile.
THEOREM FaultWithoutDevice == Spec => [](\A t \in Threads : pc[t] = "fault" => dev = NULL)
<1>1. IInv => \A t \in Threads : pc[t] = "fault" => dev = NULL
  BY DEF IInv, Promiscuous
<1> QED
  BY <1>1, Invariance, PTL

-----------------------------------------------------------------------------
(* The packets a bridge passes on.                                           *)

\* The slots of the history a packet is in, and the threads that have it to free.
SlotsOf(p) == {s \in Bridge!Slots : history[s] = p}
FreersOf(p) == {q \in Bridge!Packets : freeing[q] = p}

\* A packet gets into the history, and to those that free what they find there, only with its
\* clone; it is handed to the host's stack last; and until the stack has delivered it, it is
\* in the history or was flushed from it.
Passing ==
  \A p \in Bridge!Packets :
    /\ current[p] # "clone"
    /\ packetPc[p] = "freeing" <=> freeing[p] # None
    /\ packetPc[p] \in {"idle", "transmit", "insert"} => SlotsOf(p) = {} /\ FreersOf(p) = {}
    /\ packetPc[p] # "done" => p \notin backlog
    /\ p \in backlog \/ packetPc[p] \in {"freeing", "flush", "netif"} =>
         SlotsOf(p) # {} \/ p \in flushed

PacketsInv ==
  Bridge!TypeOK /\ Bridge!ReferencesExact /\ Bridge!EchoOnlyFlushed /\ Passing

\* A nonempty set of numbers has a least one.
LEMMA LeastExists ==
  ASSUME NEW S \in SUBSET Nat, S # {}
  PROVE  \E m \in S : \A n \in S : m <= n
<1>1. PICK m \in S : \A n \in S : ~(<<n, m>> \in OpToRel(<, Nat))
  BY NatLessThanWellFounded, WFMin, Zenon
<1>2. \A n \in S : ~(n < m)
  BY <1>1 DEF OpToRel
<1> QED
  BY <1>2

\* The numbers of elements of two sets that differ at most in one.
LEMMA CountUpdated ==
  ASSUME NEW F, NEW G, NEW a, IsFiniteSet(F), IsFiniteSet(G), F \ {a} = G \ {a}
  PROVE  /\ Cardinality(F) \in Nat /\ Cardinality(G) \in Nat
         /\ Cardinality(G) + Bridge!Holds(a \in F) = Cardinality(F) + Bridge!Holds(a \in G)
<1>1. PICK A : A = F \ {a}
  OBVIOUS
<1>2. IsFiniteSet(A) /\ Cardinality(A) \in Nat /\ a \notin A
  BY <1>1, FS_Subset, FS_CardinalityType
<1>3. Cardinality(A \cup {a}) = Cardinality(A) + 1
  BY <1>2, FS_AddElement
<1>4. /\ F = IF a \in F THEN A \cup {a} ELSE A
      /\ G = IF a \in G THEN A \cup {a} ELSE A
  BY <1>1
<1> QED
  BY <1>2, <1>3, <1>4 DEF Bridge!Holds

\* What is counted is finite.
LEMMA PacketsFinite ==
  /\ IsFiniteSet(Bridge!Slots) /\ IsFiniteSet(Bridge!Packets) /\ None \notin Bridge!Packets
  /\ 0 \in Bridge!Slots /\ Bridge!Slots \subseteq Nat
  /\ \A s \in Bridge!Slots : s + 1 \in 0 .. VNET_BRIDGE_HISTORY
BY PacketsAssumption, FS_Interval DEF Bridge!HistoryAssumption, Bridge!Slots, Bridge!Packets

\* The numbers of slots and of threads that have a packet, in the next state as in this one.
LEMMA Counted ==
  \A p : /\ Cardinality(SlotsOf(p)) \in Nat /\ Cardinality(FreersOf(p)) \in Nat
         /\ SlotsOf(p) = {} => Cardinality(SlotsOf(p)) = 0
         /\ FreersOf(p) = {} => Cardinality(FreersOf(p)) = 0
<1> TAKE p
<1>1. SlotsOf(p) \subseteq Bridge!Slots /\ FreersOf(p) \subseteq Bridge!Packets
  BY DEF SlotsOf, FreersOf
<1> QED
  BY <1>1, PacketsFinite, FS_Subset, FS_CardinalityType, FS_EmptySet

\* The packets' module counts as this one does.
LEMMA SameCount ==
  ASSUME NEW S
  PROVE  Bridge!Cardinality(S) = Cardinality(S)
BY Zenon DEF Bridge!Cardinality, Cardinality

\* The references there are to be to a packet's clone.
ClonesOf(q) ==
  Cardinality(SlotsOf(q)) + Cardinality(FreersOf(q)) + Bridge!Holds(q \in backlog)
  + Bridge!Holds(packetPc[q] \in {"freeing", "flush", "netif"})
  + 2 * Bridge!Holds(packetPc[q] = "insert")

LEMMA References ==
  Bridge!ReferencesExact <=> \A q \in Bridge!Packets : refs[q]["clone"] = ClonesOf(q)
<1>1. \A q : /\ Bridge!Cardinality({s \in Bridge!Slots : history[s] = q}) = Cardinality(SlotsOf(q))
             /\ Bridge!Cardinality({f \in Bridge!Packets : freeing[f] = q}) = Cardinality(FreersOf(q))
  BY SameCount, Zenon DEF SlotsOf, FreersOf
<1> QED
  BY <1>1, Zenon DEF Bridge!ReferencesExact, ClonesOf

LEMMA NextReferences ==
  Bridge!ReferencesExact' <=> \A q \in Bridge!Packets : refs'[q]["clone"] = ClonesOf(q)'
<1>1. (Bridge!ReferencesExact <=> \A q \in Bridge!Packets : refs[q]["clone"] = ClonesOf(q))'
  BY References, PTL
<1> QED
  BY <1>1, Zenon DEF Bridge!Packets

LEMMA ReceiveKeeps ==
  ASSUME PacketsInv, NEW p \in Bridge!Packets, Bridge!Receive(p)
  PROVE  PacketsInv'
<1> USE DEF PacketsInv
<1>1. Bridge!TypeOK'
  BY SMTT(40) DEF Bridge!TypeOK, Bridge!Receive, Bridge!Goto, Bridge!kernel, Bridge!Buffers
<1>2. /\ \A q \in Bridge!Packets : /\ SlotsOf(q)' = SlotsOf(q) /\ FreersOf(q)' = FreersOf(q)
                                   /\ refs'[q]["clone"] = refs[q]["clone"]
      /\ \A q \in Bridge!Packets \ {p} : packetPc'[q] = packetPc[q]
      /\ packetPc[p] = "idle" /\ packetPc'[p] \in {"done", "transmit"}
      /\ \A q \in Bridge!Packets : current'[q] # "clone"
      /\ UNCHANGED <<history, freeing, backlog, flushed, echoed>>
  BY DEF Bridge!TypeOK, Bridge!Receive, Bridge!Goto, Bridge!kernel, Bridge!Buffers, SlotsOf,
         FreersOf, Passing
<1>3. Bridge!ReferencesExact'
  <2>1. ASSUME NEW q \in Bridge!Packets PROVE ClonesOf(q)' = ClonesOf(q)
    BY <1>2 DEF ClonesOf, Bridge!Holds
  <2> QED
    BY <1>2, <2>1, References, NextReferences
<1>4. Bridge!EchoOnlyFlushed' /\ Passing'
  BY <1>2 DEF Bridge!EchoOnlyFlushed, Passing
<1> QED
  BY <1>1, <1>3, <1>4

LEMMA TransmitKeeps ==
  ASSUME PacketsInv, NEW p \in Bridge!Packets, Bridge!Transmit(p)
  PROVE  PacketsInv'
<1> USE DEF PacketsInv
<1>1. Bridge!TypeOK'
  <2>1. "clone" \in Bridge!Buffers /\ current[p] \in Bridge!Buffers
    BY DEF Bridge!TypeOK, Bridge!Buffers
  <2>2. refs' \in [Bridge!Packets -> [Bridge!Buffers -> Int]]
    BY <2>1 DEF Bridge!TypeOK, Bridge!Transmit
  <2>3. packetPc' \in [Bridge!Packets -> {"idle", "transmit", "insert", "freeing", "flush",
                                          "netif", "done", "fault"}]
    BY DEF Bridge!TypeOK, Bridge!Transmit, Bridge!Goto
  <2> QED
    BY <2>2, <2>3 DEF Bridge!TypeOK, Bridge!Transmit, Bridge!kernel, Bridge!locals
<1>2. /\ \A q \in Bridge!Packets : SlotsOf(q)' = SlotsOf(q) /\ FreersOf(q)' = FreersOf(q)
      /\ \A q \in Bridge!Packets \ {p} : packetPc'[q] = packetPc[q] /\ refs'[q] = refs[q]
      /\ packetPc[p] = "transmit"
      /\ \/ packetPc'[p] = "insert" /\ refs'[p]["clone"] = 2
         \/ packetPc'[p] \in {"done", "fault"} /\ refs'[p]["clone"] = refs[p]["clone"]
      /\ UNCHANGED <<history, freeing, current, backlog, flushed, echoed>>
  BY DEF Bridge!TypeOK, Bridge!Transmit, Bridge!Goto, Bridge!kernel, Bridge!locals,
         Bridge!Buffers, SlotsOf, FreersOf, Passing
<1>3. SlotsOf(p) = {} /\ FreersOf(p) = {} /\ p \notin backlog
  BY <1>2 DEF Passing
<1>4. Bridge!ReferencesExact'
  <2>1. ASSUME NEW q \in Bridge!Packets PROVE refs'[q]["clone"] = ClonesOf(q)'
    <3>1. refs[q]["clone"] = ClonesOf(q)
      BY References
    <3>2. CASE q # p
      BY <1>2, <3>1, <3>2 DEF ClonesOf, Bridge!Holds
    <3>3. CASE q = p
      BY <1>2, <1>3, <3>1, <3>3, Counted DEF ClonesOf, Bridge!Holds
    <3> QED
      BY <3>2, <3>3
  <2> QED
    BY <2>1, NextReferences
<1>5. Bridge!EchoOnlyFlushed' /\ Passing'
  BY <1>2 DEF Bridge!EchoOnlyFlushed, Passing
<1> QED
  BY <1>1, <1>4, <1>5


\* A thread gets another packet to free, or a slot of the history another packet.
LEMMA FreersUpdated ==
  ASSUME NEW p \in Bridge!Packets, NEW x, NEW q, freeing'[p] = x,
         \A f \in Bridge!Packets \ {p} : freeing'[f] = freeing[f]
  PROVE  /\ Cardinality(FreersOf(q)) \in Nat /\ Cardinality(FreersOf(q)') \in Nat
         /\ Cardinality(FreersOf(q)') + Bridge!Holds(freeing[p] = q)
              = Cardinality(FreersOf(q)) + Bridge!Holds(x = q)
<1>1. PICK F, G : F = FreersOf(q) /\ G = FreersOf(q)'
  OBVIOUS
<1>2. F \subseteq Bridge!Packets /\ G \subseteq Bridge!Packets /\ F \ {p} = G \ {p}
  BY <1>1 DEF FreersOf
<1>3. IsFiniteSet(F) /\ IsFiniteSet(G)
  BY <1>2, PacketsFinite, FS_Subset
<1>4. (p \in F <=> freeing[p] = q) /\ (p \in G <=> x = q)
  BY <1>1 DEF FreersOf
<1>5. /\ Cardinality(F) \in Nat /\ Cardinality(G) \in Nat
      /\ Cardinality(G) + Bridge!Holds(p \in F) = Cardinality(F) + Bridge!Holds(p \in G)
  BY <1>2, <1>3, CountUpdated
<1> QED
  BY <1>1, <1>4, <1>5 DEF Bridge!Holds

LEMMA SlotsUpdated ==
  ASSUME NEW a \in Bridge!Slots, NEW x, NEW q, history'[a] = x,
         \A s \in Bridge!Slots \ {a} : history'[s] = history[s]
  PROVE  /\ Cardinality(SlotsOf(q)) \in Nat /\ Cardinality(SlotsOf(q)') \in Nat
         /\ Cardinality(SlotsOf(q)') + Bridge!Holds(history[a] = q)
              = Cardinality(SlotsOf(q)) + Bridge!Holds(x = q)
<1>1. PICK F, G : F = SlotsOf(q) /\ G = SlotsOf(q)'
  OBVIOUS
<1>2. F \subseteq Bridge!Slots /\ G \subseteq Bridge!Slots /\ F \ {a} = G \ {a}
  BY <1>1 DEF SlotsOf
<1>3. IsFiniteSet(F) /\ IsFiniteSet(G)
  BY <1>2, PacketsFinite, FS_Subset
<1>4. (a \in F <=> history[a] = q) /\ (a \in G <=> x = q)
  BY <1>1 DEF SlotsOf
<1>5. /\ Cardinality(F) \in Nat /\ Cardinality(G) \in Nat
      /\ Cardinality(G) + Bridge!Holds(a \in F) = Cardinality(F) + Bridge!Holds(a \in G)
  BY <1>2, <1>3, CountUpdated
<1> QED
  BY <1>1, <1>4, <1>5 DEF Bridge!Holds

LEMMA FreeingKeeps ==
  ASSUME PacketsInv, NEW p \in Bridge!Packets, Bridge!Freeing(p)
  PROVE  PacketsInv'
<1> USE DEF PacketsInv
<1>1. PICK h \in Bridge!Packets : freeing[p] = h
  BY DEF Bridge!Freeing, Bridge!TypeOK, Passing
<1>2. /\ packetPc[p] = "freeing" /\ packetPc'[p] = "flush"
      /\ freeing'[p] = None /\ refs'[h]["clone"] = refs[h]["clone"] - 1
      /\ \A q \in Bridge!Packets \ {p} : packetPc'[q] = packetPc[q] /\ freeing'[q] = freeing[q]
      /\ \A q \in Bridge!Packets \ {h} : refs'[q] = refs[q]
      /\ \A q \in Bridge!Packets : SlotsOf(q)' = SlotsOf(q)
      /\ UNCHANGED <<history, current, backlog, flushed, echoed>>
  BY <1>1 DEF Bridge!TypeOK, Bridge!Freeing, Bridge!Goto, Bridge!kernel, Bridge!Buffers, SlotsOf
<1>3. Bridge!TypeOK'
  BY <1>1 DEF Bridge!TypeOK, Bridge!Freeing, Bridge!Goto, Bridge!kernel, Bridge!Buffers
<1>4. ASSUME NEW q \in Bridge!Packets
      PROVE  /\ Cardinality(FreersOf(q)') + Bridge!Holds(h = q) = Cardinality(FreersOf(q))
             /\ Cardinality(FreersOf(q)') \in Nat /\ Cardinality(FreersOf(q)) \in Nat
  BY <1>1, <1>2, PacketsFinite, FreersUpdated DEF Bridge!Holds
<1>5. ASSUME NEW q \in Bridge!Packets
      PROVE  refs'[q]["clone"] = ClonesOf(q)'
  <2>1. refs[q]["clone"] = ClonesOf(q) /\ Cardinality(SlotsOf(q)) \in Nat
    BY References, Counted
  <2>2. refs'[q]["clone"] = refs[q]["clone"] - Bridge!Holds(h = q)
    BY <1>2, <2>1, <1>4 DEF Bridge!Holds, Bridge!TypeOK, Bridge!Buffers
  <2>3. ClonesOf(q)' = ClonesOf(q) - Bridge!Holds(h = q)
    BY <1>2, <1>4, <2>1 DEF ClonesOf, Bridge!Holds
  <2> QED
    BY <2>1, <2>2, <2>3
<1>6. ASSUME NEW q \in Bridge!Packets, FreersOf(q) = {} PROVE FreersOf(q)' = {}
  BY <1>2, <1>6, PacketsFinite DEF FreersOf
<1>7. Bridge!EchoOnlyFlushed' /\ Passing'
  BY <1>2, <1>6 DEF Bridge!EchoOnlyFlushed, Passing
<1> QED
  BY <1>3, <1>5, <1>7, NextReferences

\* A packet is taken out of a slot to be freed; the slot is empty then, or holds the packet that
\* is inserted.
LEMMA TakenOut ==
  ASSUME PacketsInv, NEW p \in Bridge!Packets, NEW a \in Bridge!Slots, NEW x, NEW h \in Bridge!Packets,
         history[a] = h, history' = [history EXCEPT ![a] = x],
         freeing' = [freeing EXCEPT ![p] = h], flushed' = flushed \cup {h},
         packetPc' = [packetPc EXCEPT ![p] = "freeing"],
         \/ packetPc[p] = "insert" /\ x = p
         \/ packetPc[p] = "flush" /\ x = None,
         UNCHANGED <<current, refs, backlog, echoed>>
  PROVE  Bridge!ReferencesExact' /\ Bridge!EchoOnlyFlushed' /\ Passing'
<1> USE DEF PacketsInv
<1>1. freeing[p] = None /\ None \notin Bridge!Packets
  BY PacketsFinite DEF Passing
<1>2. /\ freeing'[p] = h /\ \A f \in Bridge!Packets \ {p} : freeing'[f] = freeing[f]
      /\ history'[a] = x /\ \A s \in Bridge!Slots \ {a} : history'[s] = history[s]
      /\ packetPc'[p] = "freeing"
      /\ \A f \in Bridge!Packets \ {p} : packetPc'[f] = packetPc[f]
  BY DEF Bridge!TypeOK
<1>3. ASSUME NEW q \in Bridge!Packets
      PROVE  /\ Cardinality(SlotsOf(q)) \in Nat /\ Cardinality(SlotsOf(q)') \in Nat
             /\ Cardinality(SlotsOf(q)') + Bridge!Holds(h = q)
                  = Cardinality(SlotsOf(q)) + Bridge!Holds(x = q)
             /\ Cardinality(FreersOf(q)) \in Nat /\ Cardinality(FreersOf(q)') \in Nat
             /\ Cardinality(FreersOf(q)') = Cardinality(FreersOf(q)) + Bridge!Holds(h = q)
  <2>1. /\ Cardinality(FreersOf(q)) \in Nat /\ Cardinality(FreersOf(q)') \in Nat
        /\ Cardinality(FreersOf(q)') + Bridge!Holds(None = q)
             = Cardinality(FreersOf(q)) + Bridge!Holds(h = q)
    BY <1>1, <1>2, FreersUpdated
  <2>2. Bridge!Holds(None = q) = 0
    BY <1>1 DEF Bridge!Holds
  <2> QED
    BY <1>2, <2>1, <2>2, SlotsUpdated
<1>4. ASSUME NEW q \in Bridge!Packets PROVE refs'[q]["clone"] = ClonesOf(q)'
  <2>1. refs[q]["clone"] = ClonesOf(q)
    BY References
  <2>2. CASE q # p
    BY <1>1, <1>2, <1>3, <2>1, <2>2 DEF ClonesOf, Bridge!Holds
  <2>3. CASE q = p
    BY <1>1, <1>2, <1>3, <2>1, <2>3 DEF ClonesOf, Bridge!Holds
  <2> QED
    BY <2>2, <2>3
<1>5. h # p => packetPc[h] \notin {"idle", "transmit", "insert"}
  BY DEF SlotsOf, Passing
<1>6. ASSUME NEW q \in Bridge!Packets, q # p, q # h
      PROVE  SlotsOf(q)' = SlotsOf(q) /\ FreersOf(q)' = FreersOf(q)
  <2>1. SlotsOf(q)' = SlotsOf(q)
    BY <1>1, <1>2, <1>6 DEF SlotsOf
  <2>2. FreersOf(q)' = FreersOf(q)
    BY <1>1, <1>2, <1>6 DEF FreersOf
  <2> QED
    BY <2>1, <2>2
<1>7. x = p => SlotsOf(p)' # {}
  BY <1>2 DEF SlotsOf
<1>8. packetPc[p] = "flush" /\ p # h => SlotsOf(p)' = SlotsOf(p)
  BY <1>1, <1>2 DEF SlotsOf
<1>9. Passing'
  <2> SUFFICES ASSUME NEW q \in Bridge!Packets
               PROVE  /\ current'[q] # "clone"
                      /\ packetPc'[q] = "freeing" <=> freeing'[q] # None
                      /\ packetPc'[q] \in {"idle", "transmit", "insert"} =>
                           SlotsOf(q)' = {} /\ FreersOf(q)' = {}
                      /\ packetPc'[q] # "done" => q \notin backlog'
                      /\ q \in backlog' \/ packetPc'[q] \in {"freeing", "flush", "netif"} =>
                           SlotsOf(q)' # {} \/ q \in flushed'
    BY DEF Passing, Bridge!Packets
  <2>1. CASE q = p
    BY <1>1, <1>2, <1>7, <1>8, <2>1 DEF Passing
  <2>2. CASE q # p
    BY <1>1, <1>2, <1>5, <1>6, <2>2 DEF Passing
  <2> QED
    BY <2>1, <2>2
<1>10. Bridge!EchoOnlyFlushed'
  BY DEF Bridge!EchoOnlyFlushed
<1> QED
  BY <1>4, <1>9, <1>10, NextReferences

LEMMA InsertKeeps ==
  ASSUME PacketsInv, NEW p \in Bridge!Packets, Bridge!Insert(p)
  PROVE  PacketsInv'
<1> USE DEF PacketsInv
<1>0. 0 \in Bridge!Slots /\ 1 \in 0 .. VNET_BRIDGE_HISTORY /\ None \notin Bridge!Packets
  BY PacketsFinite
<1>1. CASE Bridge!Free = {}
  <2>1. PICK h \in Bridge!Packets : history[0] = h
    BY <1>0, <1>1 DEF Bridge!Free, Bridge!TypeOK
  <2>2. /\ packetPc[p] = "insert" /\ history' = [history EXCEPT ![0] = p]
        /\ freeing' = [freeing EXCEPT ![p] = h] /\ flushed' = flushed \cup {h}
        /\ i' = [i EXCEPT ![p] = 1] /\ packetPc' = [packetPc EXCEPT ![p] = "freeing"]
        /\ UNCHANGED <<bridgeDev, smac, current, refs, backlog, echoed>>
    BY <1>1, <2>1 DEF Bridge!Insert, Bridge!Goto
  <2>3. Bridge!TypeOK'
    BY <1>0, <2>1, <2>2 DEF Bridge!TypeOK
  <2> QED
    BY <1>0, <2>1, <2>2, <2>3, TakenOut
<1>2. CASE Bridge!Free # {}
  <2>1. Bridge!Free \subseteq Nat
    BY PacketsFinite DEF Bridge!Free
  <2>2. PICK a : a = CHOOSE s \in Bridge!Free : \A f \in Bridge!Free : s <= f
    OBVIOUS
  <2>3. a \in Bridge!Slots /\ history[a] = None
    BY <1>2, <2>1, <2>2, LeastExists DEF Bridge!Free
  <2>4. /\ packetPc[p] = "insert" /\ history' = [history EXCEPT ![a] = p]
        /\ packetPc' = [packetPc EXCEPT ![p] = "netif"]
        /\ UNCHANGED <<bridgeDev, smac, i, freeing, flushed, current, refs, backlog, echoed>>
    BY <1>2, <2>2 DEF Bridge!Insert, Bridge!Goto
  <2>5. Bridge!TypeOK'
    BY <2>3, <2>4 DEF Bridge!TypeOK
  <2>6. /\ history'[a] = p /\ \A s \in Bridge!Slots \ {a} : history'[s] = history[s]
        /\ packetPc'[p] = "netif"
        /\ \A q \in Bridge!Packets \ {p} : packetPc'[q] = packetPc[q]
        /\ \A q \in Bridge!Packets : FreersOf(q)' = FreersOf(q)
        /\ SlotsOf(p)' # {}
    BY <2>3, <2>4 DEF Bridge!TypeOK, SlotsOf, FreersOf
  <2>7. ASSUME NEW q \in Bridge!Packets \ {p} PROVE SlotsOf(q)' = SlotsOf(q)
    BY <1>0, <2>3, <2>6 DEF SlotsOf
  <2>8. ASSUME NEW q \in Bridge!Packets PROVE refs'[q]["clone"] = ClonesOf(q)'
    <3>1. refs[q]["clone"] = ClonesOf(q) /\ Cardinality(FreersOf(q)) \in Nat
      BY References, Counted
    <3>2. CASE q # p
      BY <2>4, <2>6, <2>7, <3>1, <3>2 DEF ClonesOf, Bridge!Holds
    <3>3. CASE q = p
      <4>1. Bridge!Holds(None = p) = 0 /\ Bridge!Holds(p = p) = 1
        BY <1>0 DEF Bridge!Holds
      <4>2. /\ Cardinality(SlotsOf(p)) \in Nat /\ Cardinality(SlotsOf(p)') \in Nat
            /\ Cardinality(SlotsOf(p)') + Bridge!Holds(None = p)
                 = Cardinality(SlotsOf(p)) + Bridge!Holds(p = p)
        BY <2>3, <2>6, SlotsUpdated
      <4> QED
        BY <2>4, <2>6, <3>1, <3>3, <4>1, <4>2 DEF ClonesOf, Bridge!Holds
    <3> QED
      BY <3>2, <3>3
  <2>9. Bridge!EchoOnlyFlushed' /\ Passing'
    BY <2>4, <2>6, <2>7 DEF Bridge!EchoOnlyFlushed, Passing
  <2> QED
    BY <2>5, <2>8, <2>9, NextReferences
<1> QED
  BY <1>1, <1>2

LEMMA FlushKeeps ==
  ASSUME PacketsInv, NEW p \in Bridge!Packets, Bridge!Flush(p)
  PROVE  PacketsInv'
<1> USE DEF PacketsInv
<1>1. PICK full : full = {s \in Bridge!Slots : s >= i[p] /\ history[s] # None}
  OBVIOUS
<1>2. PICK a : a = CHOOSE s \in full : \A f \in full : s <= f
  OBVIOUS
<1>3. /\ packetPc[p] = "flush" /\ UNCHANGED <<bridgeDev, smac, current, refs, backlog, echoed>>
      /\ \/ full = {} /\ Bridge!Goto(p, "netif") /\ UNCHANGED <<history, i, freeing, flushed>>
         \/ /\ full # {} /\ history' = [history EXCEPT ![a] = None]
            /\ freeing' = [freeing EXCEPT ![p] = history[a]]
            /\ flushed' = flushed \cup {history[a]}
            /\ i' = [i EXCEPT ![p] = a + 1] /\ Bridge!Goto(p, "freeing")
  BY <1>1, <1>2 DEF Bridge!Flush
<1>4. CASE full = {}
  <2>1. /\ packetPc' = [packetPc EXCEPT ![p] = "netif"]
        /\ UNCHANGED <<history, i, freeing, flushed>>
        /\ \A q \in Bridge!Packets : SlotsOf(q)' = SlotsOf(q) /\ FreersOf(q)' = FreersOf(q)
    BY <1>3, <1>4 DEF Bridge!Goto, SlotsOf, FreersOf
  <2>2. /\ Bridge!TypeOK' /\ packetPc'[p] = "netif"
        /\ \A q \in Bridge!Packets \ {p} : packetPc'[q] = packetPc[q]
    BY <1>3, <2>1 DEF Bridge!TypeOK
  <2>3. ASSUME NEW q \in Bridge!Packets PROVE ClonesOf(q)' = ClonesOf(q)
    BY <1>3, <2>1, <2>2 DEF ClonesOf, Bridge!Holds
  <2>4. Bridge!EchoOnlyFlushed' /\ Passing'
    BY <1>3, <2>1, <2>2 DEF Bridge!EchoOnlyFlushed, Passing
  <2> QED
    BY <1>3, <2>2, <2>3, <2>4, References, NextReferences
<1>5. CASE full # {}
  <2>1. full \subseteq Nat
    BY <1>1, PacketsFinite
  <2>2. a \in full
    BY <1>2, <1>5, <2>1, LeastExists
  <2>3. a \in Bridge!Slots /\ a + 1 \in 0 .. VNET_BRIDGE_HISTORY /\ history[a] # None
    BY <1>1, <2>2, PacketsFinite
  <2>4. PICK h \in Bridge!Packets : history[a] = h
    BY <2>3 DEF Bridge!TypeOK
  <2>5. /\ history' = [history EXCEPT ![a] = None] /\ freeing' = [freeing EXCEPT ![p] = h]
        /\ flushed' = flushed \cup {h} /\ i' = [i EXCEPT ![p] = a + 1]
        /\ packetPc' = [packetPc EXCEPT ![p] = "freeing"]
    BY <1>3, <1>5, <2>4 DEF Bridge!Goto
  <2>6. Bridge!TypeOK'
    BY <1>3, <2>3, <2>5 DEF Bridge!TypeOK
  <2>7. Bridge!ReferencesExact' /\ Bridge!EchoOnlyFlushed' /\ Passing'
    BY <1>3, <2>3, <2>4, <2>5, TakenOut
  <2> QED
    BY <2>6, <2>7
<1> QED
  BY <1>4, <1>5

LEMMA NetifRxKeeps ==
  ASSUME PacketsInv, NEW p \in Bridge!Packets, Bridge!NetifRx(p)
  PROVE  PacketsInv'
<1> USE DEF PacketsInv
<1>1. PICK c \in Bridge!Buffers : current[p] = c
  BY DEF Bridge!TypeOK
<1>2. /\ packetPc[p] = "netif" /\ packetPc' = [packetPc EXCEPT ![p] = "done"]
      /\ backlog' = backlog \cup {p} /\ refs' = [refs EXCEPT ![p][c] = 0]
      /\ UNCHANGED <<bridgeDev, smac, history, i, freeing, current, flushed, echoed>>
  BY <1>1 DEF Bridge!NetifRx, Bridge!Goto, Bridge!locals
<1>3. c # "clone" /\ p \notin backlog /\ "clone" \in Bridge!Buffers
  BY <1>1, <1>2 DEF Passing, Bridge!Buffers
<1>4. /\ packetPc'[p] = "done" /\ \A q \in Bridge!Packets \ {p} : packetPc'[q] = packetPc[q]
      /\ \A q \in Bridge!Packets : refs'[q]["clone"] = refs[q]["clone"]
      /\ \A q \in Bridge!Packets : SlotsOf(q)' = SlotsOf(q) /\ FreersOf(q)' = FreersOf(q)
  BY <1>2, <1>3 DEF Bridge!TypeOK, SlotsOf, FreersOf
<1>5. Bridge!TypeOK'
  <2>1. refs' \in [Bridge!Packets -> [Bridge!Buffers -> Int]]
    BY <1>2 DEF Bridge!TypeOK
  <2> QED
    BY <1>2, <2>1 DEF Bridge!TypeOK
<1>6. ASSUME NEW q \in Bridge!Packets PROVE refs'[q]["clone"] = ClonesOf(q)'
  <2>1. /\ refs[q]["clone"] = ClonesOf(q)
        /\ Cardinality(SlotsOf(q)) \in Nat /\ Cardinality(FreersOf(q)) \in Nat
    BY References, Counted
  <2>2. ClonesOf(q)' = ClonesOf(q)
    BY <1>2, <1>3, <1>4, <2>1 DEF ClonesOf, Bridge!Holds
  <2> QED
    BY <1>4, <2>1, <2>2
<1>7. Bridge!EchoOnlyFlushed' /\ Passing'
  BY <1>2, <1>4 DEF Bridge!EchoOnlyFlushed, Passing
<1> QED
  BY <1>5, <1>6, <1>7, NextReferences

LEMMA ReceiveFromDevKeeps ==
  ASSUME PacketsInv, NEW p \in Bridge!Packets, Bridge!ReceiveFromDev(p)
  PROVE  PacketsInv'
<1> USE DEF PacketsInv
<1>1. PICK a : a = CHOOSE s \in Bridge!Slots : history[s] = p
  OBVIOUS
<1>2. /\ p \in backlog /\ packetPc[p] = "done" /\ backlog' = backlog \ {p}
      /\ "clone" \in Bridge!Buffers /\ None \notin Bridge!Packets
      /\ UNCHANGED <<bridgeDev, smac, i, freeing, current, packetPc, flushed>>
      /\ \A q \in Bridge!Packets : FreersOf(q)' = FreersOf(q)
  BY PacketsFinite DEF Bridge!ReceiveFromDev, Bridge!locals, Passing, FreersOf, Bridge!Buffers
<1>3. CASE bridgeDev /\ \E s \in Bridge!Slots : history[s] = p
  <2>1. a \in Bridge!Slots /\ history[a] = p
    BY <1>1, <1>3
  <2>2. /\ history' = [history EXCEPT ![a] = None] /\ UNCHANGED echoed
        /\ refs' = [refs EXCEPT ![p]["clone"] = @ - 2]
    BY <1>1, <1>3 DEF Bridge!ReceiveFromDev
  <2>3. /\ history'[a] = None /\ \A s \in Bridge!Slots \ {a} : history'[s] = history[s]
        /\ refs'[p]["clone"] = refs[p]["clone"] - 2
        /\ \A q \in Bridge!Packets \ {p} : refs'[q] = refs[q]
    BY <1>2, <2>1, <2>2 DEF Bridge!TypeOK
  <2>4. Bridge!TypeOK'
    BY <1>2, <2>1, <2>2 DEF Bridge!TypeOK
  <2>5. ASSUME NEW q \in Bridge!Packets \ {p} PROVE SlotsOf(q)' = SlotsOf(q)
    BY <1>2, <2>1, <2>3 DEF SlotsOf
  <2>6. ASSUME NEW q \in Bridge!Packets PROVE refs'[q]["clone"] = ClonesOf(q)'
    <3>1. refs[q]["clone"] = ClonesOf(q) /\ Cardinality(FreersOf(q)) \in Nat
      BY References, Counted
    <3>2. CASE q # p
      BY <1>2, <2>3, <2>5, <3>1, <3>2 DEF ClonesOf, Bridge!Holds
    <3>3. CASE q = p
      <4>1. Bridge!Holds(None = p) = 0 /\ Bridge!Holds(history[a] = p) = 1
        BY <1>2, <2>1 DEF Bridge!Holds
      <4>2. /\ Cardinality(SlotsOf(p)) \in Nat /\ Cardinality(SlotsOf(p)') \in Nat
            /\ Cardinality(SlotsOf(p)') + Bridge!Holds(history[a] = p)
                 = Cardinality(SlotsOf(p)) + Bridge!Holds(None = p)
        BY <2>1, <2>3, SlotsUpdated
      <4> QED
        BY <1>2, <2>3, <3>1, <3>3, <4>1, <4>2 DEF ClonesOf, Bridge!Holds
    <3> QED
      BY <3>2, <3>3
  <2>7. Bridge!EchoOnlyFlushed' /\ Passing'
    BY <1>2, <2>2, <2>5 DEF Bridge!EchoOnlyFlushed, Passing
  <2> QED
    BY <2>4, <2>6, <2>7, NextReferences
<1>4. CASE ~(bridgeDev /\ \E s \in Bridge!Slots : history[s] = p)
  <2>1. /\ UNCHANGED history
        /\ echoed' = IF bridgeDev THEN echoed \cup {p} ELSE echoed
        /\ refs' = [refs EXCEPT ![p]["clone"] = @ - 1]
    BY <1>4 DEF Bridge!ReceiveFromDev
  <2>2. /\ refs'[p]["clone"] = refs[p]["clone"] - 1
        /\ \A q \in Bridge!Packets \ {p} : refs'[q] = refs[q]
        /\ \A q \in Bridge!Packets : SlotsOf(q)' = SlotsOf(q)
    BY <1>2, <2>1 DEF Bridge!TypeOK, SlotsOf
  <2>3. Bridge!TypeOK'
    BY <1>2, <2>1 DEF Bridge!TypeOK
  <2>4. ASSUME NEW q \in Bridge!Packets PROVE refs'[q]["clone"] = ClonesOf(q)'
    <3>1. /\ refs[q]["clone"] = ClonesOf(q)
          /\ Cardinality(FreersOf(q)) \in Nat /\ Cardinality(SlotsOf(q)) \in Nat
      BY References, Counted
    <3>2. CASE q # p
      BY <1>2, <2>1, <2>2, <3>1, <3>2 DEF ClonesOf, Bridge!Holds
    <3>3. CASE q = p
      BY <1>2, <2>1, <2>2, <3>1, <3>3 DEF ClonesOf, Bridge!Holds
    <3> QED
      BY <3>2, <3>3
  <2>5. bridgeDev => p \in flushed
    BY <1>2, <1>4 DEF Passing, SlotsOf
  <2>6. Bridge!EchoOnlyFlushed' /\ Passing'
    BY <1>2, <2>1, <2>2, <2>5 DEF Bridge!EchoOnlyFlushed, Passing
  <2> QED
    BY <2>3, <2>4, <2>6, NextReferences
<1> QED
  BY <1>3, <1>4

LEMMA PacketsKept ==
  ASSUME PacketsInv, Bridge!Next \/ UNCHANGED packetVars
  PROVE  PacketsInv'
<1>1. CASE Bridge!UpDown \/ UNCHANGED packetVars
  <2>1. UNCHANGED <<smac, history, packetPc, i, freeing, current, refs, backlog, flushed,
  echoed>>
    BY <1>1 DEF Bridge!UpDown, Bridge!locals, Bridge!kernel, packetVars
  <2>2. bridgeDev' \in BOOLEAN
    BY <1>1 DEF Bridge!UpDown, packetVars, PacketsInv, Bridge!TypeOK
  <2>3. Bridge!TypeOK'
    BY <2>1, <2>2 DEF Bridge!TypeOK, PacketsInv
  <2>4. Bridge!ReferencesExact' <=> Bridge!ReferencesExact
    BY <2>1 DEF Bridge!ReferencesExact
  <2>5. Passing' <=> Passing
    BY <2>1 DEF Passing, SlotsOf, FreersOf
  <2> QED
    BY <2>1, <2>3, <2>4, <2>5 DEF PacketsInv, Bridge!EchoOnlyFlushed
<1>2. ASSUME NEW p \in Bridge!Packets, Bridge!Step(p) \/ Bridge!ReceiveFromDev(p)
      PROVE  PacketsInv'
  BY <1>2, ReceiveKeeps, TransmitKeeps, InsertKeeps, FreeingKeeps, FlushKeeps, NetifRxKeeps,
     ReceiveFromDevKeeps DEF Bridge!Step
<1> QED
  BY <1>1, <1>2 DEF Bridge!Next

LEMMA PacketsStart ==
  ASSUME Bridge!Init
  PROVE  PacketsInv
<1>1. Bridge!TypeOK
  <2>1. 0 \in 0 .. VNET_BRIDGE_HISTORY
    BY PacketsAssumption DEF Bridge!HistoryAssumption
  <2>2. refs \in [Bridge!Packets -> [Bridge!Buffers -> Int]]
    BY DEF Bridge!Init
  <2> QED
    BY <2>1, <2>2, Zenon DEF Bridge!Init, Bridge!TypeOK, Bridge!Buffers
<1>2. \A q \in Bridge!Packets : SlotsOf(q) = {} /\ FreersOf(q) = {}
  BY PacketsFinite DEF Bridge!Init, SlotsOf, FreersOf
<1>3. \A q \in Bridge!Packets : refs[q]["clone"] = ClonesOf(q)
  BY <1>2, FS_EmptySet, SMTT(40) DEF Bridge!Init, Bridge!Buffers, ClonesOf, Bridge!Holds
<1> QED
  BY <1>1, <1>2, <1>3, References DEF Bridge!Init, PacketsInv, Bridge!EchoOnlyFlushed, Passing

\* A packet's buffers are all accounted for, however many packets pass at a time and however
\* often the bridge goes up and down; one that comes back to the bridge is sent to the hub it
\* came from only if the history had no room for it (VNetBridgeReceiveFromVNet and FromDev).
THEOREM PacketsExactHolds == MCSpec => []PacketsExact
<1>1. MCInit => PacketsInv
  BY PacketsStart DEF MCInit
<1>2. PacketsInv /\ [MCNext]_<<part, vars, smacVars, rewriteVars, packetVars>> => PacketsInv'
  BY PacketsKept DEF MCNext
<1>3. PacketsInv => PacketsExact
  BY DEF PacketsInv, PacketsExact
<1> QED
  BY <1>1, <1>2, <1>3, PTL DEF MCSpec


-----------------------------------------------------------------------------
(* The table of the guests' addresses.                                       *)

\* One thread at a time is between the two parts of SetCacheEntry, and what it adds is in
\* the table; there is room for it until it has trimmed the table.
Adding ==
  \A t \in Senders :
    /\ smacPc[t] # "idle" => op[t].ip \in IPs /\ op[t].mac \in Guests
    /\ smacPc[t] = "set" =>
         /\ \A u \in Senders \ {t} : smacPc[u] # "set"
         /\ lastIPadded = op[t].ip /\ op[t].ip \in Smac!Known
         /\ Cardinality(Smac!Known) <= MaxEntries + (IF op[t].new THEN 1 ELSE 0)

\* The types of what is kept of the use of the addresses.
UsageTyped ==
  users \in [IPs -> SUBSET Guests] /\ torn \subseteq Senders /\ overtaken \subseteq Senders

TableInv == Smac!TypeOK /\ Smac!CachedInTable /\ Adding

LEMMA SameCountInTable ==
  ASSUME NEW S
  PROVE  Smac!Cardinality(S) = Cardinality(S)
BY Zenon DEF Smac!Cardinality, Cardinality

LEMMA KnownFinite ==
  /\ IsFiniteSet(Smac!Known) /\ Cardinality(Smac!Known) \in Nat
  /\ IsFiniteSet(IPs) /\ Cardinality(Smac!Known) <= Cardinality(IPs) /\ Cardinality(IPs) \in Nat
<1>1. Smac!Known \subseteq IPs /\ IsFiniteSet(IPs)
  <2>1. IsFiniteSet(IPs)
    BY SmacAssumption, Zenon DEF Smac!TableAssumption, Smac!IsFiniteSet, IsFiniteSet
  <2> QED
    BY <2>1 DEF Smac!Known
<1> QED
  BY <1>1, FS_Subset, FS_CardinalityType

\* The uptime has its top bit set.
LEMMA UptimeRange ==
  ASSUME Smac!TypeOK
  PROVE  Smac!Uptime \in Period .. 2 * Period - 1 /\ Smac!Uptime \in 0 .. 2 * Period - 1
BY SmacAssumption DEF Smac!TypeOK, Smac!Uptime, Smac!TableAssumption

LEMMA AgedType ==
  ASSUME Smac!TypeOK, NEW access \in [IPs -> 0 .. 2 * Period - 1]
  PROVE  Smac!Aged(access) \in [IPs -> 0 .. 2 * Period - 1]
<1>1. \A n \in 0 .. 2 * Period - 1 : n \div 2 \in 0 .. 2 * Period - 1
  BY SmacAssumption DEF Smac!TableAssumption
<1> QED
  BY <1>1 DEF Smac!Aged

\* What CachedInTable says, with this module's Cardinality.
Cached ==
  /\ numberOfIPandMACEntries = Cardinality(Smac!Known)
  /\ lastEntryAdded \in Smac!Known \cup {None}
  /\ ~Smac!Locked => /\ lastEntryAdded = lastIPadded
                     /\ lastIPadded # None => mac[lastIPadded] = lastMACadded
                     /\ numberOfIPandMACEntries <= MaxEntries

LEMMA CachedSame == Smac!CachedInTable <=> Cached
BY SameCountInTable, Zenon DEF Smac!CachedInTable, Cached

LEMMA NextCachedSame == Smac!CachedInTable' <=> Cached'
BY CachedSame, PTL

\* A step that does not change the table, nor which thread works on it.
LEMMA TableUnchanged ==
  ASSUME TableInv, UNCHANGED <<Smac!table, Smac!cached>>,
         Smac!TypeOK', NEW t \in Senders,
         \A u \in Senders \ {t} : smacPc'[u] = smacPc[u] /\ op'[u] = op[u],
         smacPc[t] # "set", smacPc'[t] # "set",
         smacPc'[t] # "idle" => op'[t].ip \in IPs /\ op'[t].mac \in Guests
  PROVE  TableInv'
<1>1. /\ UNCHANGED <<mac, numberOfIPandMACEntries, lastIPadded, lastMACadded, lastEntryAdded>>
      /\ Smac!Known' = Smac!Known
  BY DEF Smac!table, Smac!cached, Smac!Known
<1>2. Smac!Locked' <=> Smac!Locked
  BY DEF Smac!Locked
<1>3. Cached'
  BY <1>1, <1>2, CachedSame DEF Cached, TableInv
<1>4. Adding'
  BY <1>1 DEF Adding, TableInv
<1> QED
  BY <1>3, <1>4, NextCachedSame DEF TableInv

LEMMA CallKeeps ==
  ASSUME TableInv, NEW t \in Senders, NEW ip \in IPs, NEW m \in Guests, Smac!Call(t, ip, m)
  PROVE  TableInv'
<1>1. /\ smacPc' = [smacPc EXCEPT ![t] = "cachedIP"] /\ smacPc[t] = "idle"
      /\ op' = [op EXCEPT ![t] = [ip |-> ip, mac |-> m, new |-> FALSE]]
      /\ UNCHANGED <<Smac!table, Smac!cached, Smac!time, macAddress, used, Smac!usage>>
  BY DEF Smac!Call, Smac!Goto
<1>2. Smac!TypeOK'
  BY <1>1 DEF TableInv, Smac!TypeOK, Smac!table, Smac!cached, Smac!time, Smac!usage
<1>3. /\ \A u \in Senders \ {t} : smacPc'[u] = smacPc[u] /\ op'[u] = op[u]
      /\ smacPc'[t] = "cachedIP" /\ op'[t].ip \in IPs /\ op'[t].mac \in Guests
  BY <1>1 DEF TableInv, Smac!TypeOK
<1> QED
  BY <1>1, <1>2, <1>3, TableUnchanged

LEMMA CompareKeeps ==
  ASSUME TableInv, NEW t \in Senders, Smac!CompareIP(t) \/ Smac!CompareMAC(t)
  PROVE  TableInv'
<1>1. PICK step \in {"cachedMAC", "lock", "return"} : smacPc' = [smacPc EXCEPT ![t] = step]
  BY DEF Smac!CompareIP, Smac!CompareMAC, Smac!Goto
<1>2. /\ smacPc[t] \in {"cachedIP", "cachedMAC"}
      /\ UNCHANGED <<Smac!table, Smac!cached, Smac!time, macAddress, used, op, users, overtaken>>
      /\ torn' \in {torn, torn \cup {t}, torn \ {t}}
  BY DEF Smac!CompareIP, Smac!CompareMAC
<1>3. Smac!TypeOK'
  BY <1>1, <1>2 DEF TableInv, Smac!TypeOK, Smac!table, Smac!cached, Smac!time
<1>4. /\ \A u \in Senders \ {t} : smacPc'[u] = smacPc[u] /\ op'[u] = op[u]
      /\ smacPc'[t] \in {"cachedMAC", "lock", "return"}
      /\ op'[t].ip \in IPs /\ op'[t].mac \in Guests
  BY <1>1, <1>2 DEF TableInv, Smac!TypeOK, Adding
<1> QED
  BY <1>2, <1>3, <1>4, TableUnchanged

LEMMA ReturnKeeps ==
  ASSUME TableInv, NEW t \in Senders, Smac!NoMemory(t) \/ Smac!Return(t)
  PROVE  TableInv'
<1>1. /\ smacPc' = [smacPc EXCEPT ![t] = "idle"] /\ op' = [op EXCEPT ![t] = Smac!NoOp]
      /\ smacPc[t] \in {"lock", "return"}
      /\ UNCHANGED <<Smac!table, Smac!cached, Smac!time, macAddress, used>>
  BY DEF Smac!NoMemory, Smac!Return, Smac!Goto
<1>2. Smac!TypeOK'
  <2>1. op[t].mac \in Guests
    BY <1>1 DEF TableInv, Adding
  <2>2. UsageTyped
    BY DEF TableInv, Smac!TypeOK, UsageTyped
  <2>3. ASSUME Smac!NoMemory(t) PROVE UsageTyped'
    BY <2>2, <2>3 DEF Smac!NoMemory, Smac!usage, UsageTyped
  <2>4. ASSUME Smac!Return(t) PROVE UsageTyped'
    <3>1. PICK new \in SUBSET Guests : users' = [users EXCEPT ![op[t].ip] = new]
      <4>1. op[t].ip \in IPs
        BY <1>1 DEF TableInv, Adding
      <4> QED
        BY <2>1, <2>2, <2>4, <4>1 DEF Smac!Return, UsageTyped
    <3>2. torn' \subseteq Senders /\ overtaken' \subseteq Senders
      BY <2>2, <2>4, Zenon DEF Smac!Return, Smac!Adders, UsageTyped
    <3> QED
      BY <2>2, <3>1, <3>2 DEF UsageTyped
  <2>5. UsageTyped'
    BY <2>3, <2>4
  <2> QED
    BY <1>1, <2>5 DEF TableInv, Smac!TypeOK, Smac!table, Smac!cached, Smac!time, Smac!NoOp,
                      UsageTyped
<1>3. /\ \A u \in Senders \ {t} : smacPc'[u] = smacPc[u] /\ op'[u] = op[u]
      /\ smacPc'[t] = "idle"
  BY <1>1 DEF TableInv, Smac!TypeOK
<1> QED
  BY <1>1, <1>2, <1>3, TableUnchanged

\* Nothing but the time or the interface's address changes.
LEMMA TimeKeeps ==
  ASSUME TableInv, \/ Smac!Tick
                   \/ Smac!SetMac(HostMac)
                   \/ Smac!SetMac(None)
                   \/ UNCHANGED smacVars
  PROVE  TableInv'
<1>1. /\ UNCHANGED <<mac, lastAccess, numberOfIPandMACEntries, lastIPadded, lastMACadded,
                     lastEntryAdded, lastUptimeRead, looked, used, smacPc, op, users, torn,
                     overtaken>>
      /\ Smac!Known' = Smac!Known /\ Smac!Locked' = Smac!Locked
  BY DEF Smac!Tick, Smac!SetMac, Smac!table, Smac!cached, Smac!time, Smac!threads, Smac!usage,
         smacVars, Smac!Known, Smac!Locked
<1>2. clock' \in 0 .. MaxClock /\ macAddress' \in {HostMac, None}
  BY SmacAssumption DEF Smac!Tick, Smac!SetMac, Smac!time, TableInv, Smac!TypeOK, smacVars,
         Smac!TableAssumption
<1>3. Smac!TypeOK'
  BY <1>1, <1>2 DEF TableInv, Smac!TypeOK
<1>4. Cached' /\ Adding'
  BY <1>1, CachedSame DEF TableInv, Cached, Adding
<1> QED
  BY <1>3, <1>4, NextCachedSame DEF TableInv


\* The look-up and the first part of SetCacheEntry.
LEMMA ChangeKeeps ==
  ASSUME TableInv, NEW t \in Senders, Smac!Change(t)
  PROVE  TableInv'
<1>1. PICK ip, m, new : ip = op[t].ip /\ m = op[t].mac /\ new = (ip \notin Smac!Known)
  OBVIOUS
<1>2. PICK access : access = [lastAccess EXCEPT ![ip] = IF ip \in Smac!Known THEN @ ELSE 0]
  OBVIOUS
<1>3. /\ smacPc[t] = "lock" /\ ~Smac!Locked /\ mac' = [mac EXCEPT ![ip] = m]
      /\ numberOfIPandMACEntries' = numberOfIPandMACEntries + (IF ip \in Smac!Known THEN 0 ELSE 1)
      /\ op' = [op EXCEPT ![t].new = new] /\ lastIPadded' = ip
      /\ smacPc' = [smacPc EXCEPT ![t] = "set"]
      /\ UNCHANGED <<lastMACadded, lastEntryAdded, macAddress, users, overtaken>>
      /\ torn' = torn \cup Smac!Comparing
  BY <1>1, Zenon DEF Smac!Change, Smac!Goto
<1>4. \/ /\ lastAccess' = access /\ UNCHANGED <<lastUptimeRead, looked, clock, used>>
      \/ /\ lastAccess' = [Smac!Aged(access) EXCEPT ![lastEntryAdded] = Smac!Uptime]
         /\ used' = [used EXCEPT ![lastEntryAdded] = clock]
         /\ lastUptimeRead' = Smac!Uptime /\ looked' = clock /\ UNCHANGED clock
  BY <1>1, <1>2, Zenon DEF Smac!Change, Smac!time
<1>5. ip \in IPs /\ m \in Guests /\ m # None /\ new \in BOOLEAN
  BY <1>1, <1>3, SmacAssumption DEF TableInv, Adding, Smac!TableAssumption
<1>6. /\ Smac!Known' = Smac!Known \cup {ip} /\ mac' \in [IPs -> Guests \cup {None}]
      /\ IsFiniteSet(Smac!Known)
  BY <1>3, <1>5, KnownFinite DEF TableInv, Smac!TypeOK, Smac!Known
<1>7. /\ numberOfIPandMACEntries = Cardinality(Smac!Known)
      /\ numberOfIPandMACEntries <= MaxEntries
      /\ lastEntryAdded \in Smac!Known \cup {None}
  BY <1>3, CachedSame DEF TableInv, Cached
<1>8. Cardinality(Smac!Known') = Cardinality(Smac!Known) + (IF ip \in Smac!Known THEN 0 ELSE 1)
  <2>1. CASE ip \in Smac!Known
    BY <1>6, <2>1, KnownFinite
  <2>2. CASE ip \notin Smac!Known
    BY <1>6, <2>2, FS_AddElement
  <2> QED
    BY <2>1, <2>2
<1>9. Smac!TypeOK'
  <2>1. access \in [IPs -> 0 .. 2 * Period - 1] /\ 0 \in 0 .. 2 * Period - 1
    BY <1>2, <1>5, SmacAssumption DEF TableInv, Smac!TypeOK, Smac!TableAssumption
  <2>2. lastAccess' \in [IPs -> 0 .. 2 * Period - 1]
    BY <1>4, <2>1, AgedType, UptimeRange DEF TableInv
  <2>3. used' \in [IPs -> 0 .. MaxClock] /\ {looked, clock}' \subseteq 0 .. MaxClock
    BY <1>4 DEF TableInv, Smac!TypeOK
  <2>4. lastUptimeRead' \in 0 .. 2 * Period - 1
    BY <1>4, UptimeRange DEF TableInv, Smac!TypeOK
  <2>5. Smac!Known' \subseteq IPs
    BY <1>5, <1>6 DEF Smac!Known
  <2>6. numberOfIPandMACEntries' \in 0 .. Smac!Cardinality(IPs)
    <3>1. Cardinality(Smac!Known') <= Cardinality(IPs)
      BY <2>5, KnownFinite, FS_Subset
    <3> QED
      BY <1>3, <1>7, <1>8, <3>1, KnownFinite, SameCountInTable
  <2>7. op' \in [Senders -> [ip : IPs \cup {None}, mac : Guests \cup {None}, new : BOOLEAN]]
    BY <1>3, <1>5 DEF TableInv, Smac!TypeOK
  <2>8. /\ lastIPadded' \in IPs \cup {None} /\ lastMACadded' \in Guests \cup {None}
        /\ lastEntryAdded' \in IPs \cup {None} /\ macAddress' \in {HostMac, None}
        /\ smacPc' \in [Senders -> {"idle", "cachedIP", "cachedMAC", "lock", "set", "return"}]
    BY <1>3, <1>5 DEF TableInv, Smac!TypeOK
  <2>9. UsageTyped'
    BY <1>3 DEF TableInv, Smac!TypeOK, UsageTyped, Smac!Comparing
  <2> QED
    BY <1>6, <2>2, <2>3, <2>4, <2>6, <2>7, <2>8, <2>9 DEF Smac!TypeOK, UsageTyped
<1>10. /\ \A u \in Senders \ {t} : smacPc'[u] = smacPc[u] /\ op'[u] = op[u]
       /\ smacPc'[t] = "set" /\ op'[t].ip = ip /\ op'[t].mac = m /\ op'[t].new = new
  BY <1>1, <1>3 DEF TableInv, Smac!TypeOK
<1>11. Cached'
  <2>1. Smac!Locked'
    BY <1>10 DEF Smac!Locked
  <2> QED
    BY <1>3, <1>6, <1>7, <1>8, <2>1 DEF Cached
<1>12. Adding'
  <2>1. Cardinality(Smac!Known') <= MaxEntries + (IF op'[t].new THEN 1 ELSE 0)
    <3>1. CASE ip \in Smac!Known
      BY <1>5, <1>7, <1>8, <1>10, <3>1, KnownFinite, SmacAssumption DEF Smac!TableAssumption
    <3>2. CASE ip \notin Smac!Known
      <4>1. op'[t].new
        BY <1>1, <1>10, <3>2
      <4> QED
        BY <1>7, <1>8, <3>2, <4>1, KnownFinite, SmacAssumption DEF Smac!TableAssumption
    <3> QED
      BY <3>1, <3>2
  <2>2. \A u \in Senders : smacPc[u] # "set"
    BY <1>3 DEF Smac!Locked
  <2> QED
    BY <1>3, <1>5, <1>6, <1>10, <2>1, <2>2 DEF Adding, TableInv
<1> QED
  BY <1>9, <1>11, <1>12, NextCachedSame DEF TableInv

\* There is a least recently used entry, as long as there is one besides the newest.
LEMMA OldestExists ==
  ASSUME NEW access, NEW ip, \A known \in Smac!Known : access[known] \in Nat,
         Smac!Known \ {ip} # {}
  PROVE  Smac!Oldest(access, ip) # {}
<1>1. PICK rest : rest = Smac!Known \ {ip}
  OBVIOUS
<1>2. PICK ages \in SUBSET Nat : ages = {access[other] : other \in rest}
  BY <1>1
<1>3. PICK least \in ages : \A n \in ages : least <= n
  <2>1. ages # {}
    BY <1>1, <1>2
  <2> QED
    BY <2>1, LeastExists
<1>4. PICK victim \in rest : access[victim] = least
  BY <1>2, <1>3
<1>5. \A other \in rest : access[victim] <= access[other]
  BY <1>2, <1>3, <1>4
<1> QED
  BY <1>1, <1>4, <1>5 DEF Smac!Oldest

\* The rest of it, and the trimming.
LEMMA CacheKeeps ==
  ASSUME TableInv, NEW t \in Senders, Smac!Cache(t)
  PROVE  TableInv'
<1>1. PICK ip, access, oldest :
        /\ ip = op[t].ip /\ access = [Smac!Aged(lastAccess) EXCEPT ![ip] = Smac!Uptime]
        /\ oldest = Smac!Oldest(access, ip)
  OBVIOUS
<1>2. /\ smacPc[t] = "set" /\ lastMACadded' = mac[ip] /\ lastEntryAdded' = ip
      /\ lastAccess' = access /\ used' = [used EXCEPT ![ip] = clock]
      /\ lastUptimeRead' = Smac!Uptime /\ looked' = clock
      /\ smacPc' = [smacPc EXCEPT ![t] = "return"]
      /\ UNCHANGED <<clock, lastIPadded, macAddress, op, overtaken>>
      /\ torn' = torn \cup Smac!Comparing
  BY <1>1, Zenon DEF Smac!Cache, Smac!Goto
<1>3. IF op[t].new /\ numberOfIPandMACEntries > MaxEntries /\ oldest # {}
        THEN \E victim \in oldest : Smac!Remove(victim)
        ELSE UNCHANGED <<mac, numberOfIPandMACEntries, users>>
  BY <1>1, Zenon DEF Smac!Cache
<1>4. /\ ip \in IPs /\ lastIPadded = ip /\ ip \in Smac!Known
      /\ \A u \in Senders \ {t} : smacPc[u] # "set"
      /\ Cardinality(Smac!Known) <= MaxEntries + (IF op[t].new THEN 1 ELSE 0)
      /\ numberOfIPandMACEntries = Cardinality(Smac!Known)
  BY <1>1, <1>2, CachedSame DEF TableInv, Adding, Cached
<1>5. access \in [IPs -> 0 .. 2 * Period - 1]
  BY <1>1, <1>4, AgedType, UptimeRange DEF TableInv, Smac!TypeOK
<1>6. /\ ip \in Smac!Known' /\ mac'[ip] = mac[ip] /\ Smac!Known' \subseteq Smac!Known
      /\ mac' \in [IPs -> Guests \cup {None}]
      /\ numberOfIPandMACEntries' = Cardinality(Smac!Known')
      /\ Cardinality(Smac!Known') <= MaxEntries
  <2>1. CASE op[t].new /\ numberOfIPandMACEntries > MaxEntries /\ oldest # {}
    <3>1. PICK victim \in oldest : Smac!Remove(victim)
      BY <1>3, <2>1
    <3>2. victim \in Smac!Known \ {ip} /\ victim \in IPs
      BY <1>1, <3>1 DEF Smac!Oldest, Smac!Known
    <3>3. mac' = [mac EXCEPT ![victim] = None] /\ Smac!Known' = Smac!Known \ {victim}
      BY <3>1, <3>2 DEF Smac!Remove, Smac!Known, TableInv, Smac!TypeOK
    <3>4. Cardinality(Smac!Known') = Cardinality(Smac!Known) - 1
      BY <3>2, <3>3, KnownFinite, FS_RemoveElement
    <3>5. ip \in Smac!Known' /\ mac'[ip] = mac[ip] /\ mac' \in [IPs -> Guests \cup {None}]
      BY <1>4, <3>2, <3>3 DEF TableInv, Smac!TypeOK
    <3> QED
      BY <1>4, <3>1, <3>3, <3>4, <3>5, KnownFinite, SmacAssumption
         DEF Smac!Remove, Smac!TableAssumption
  <2>2. CASE ~(op[t].new /\ numberOfIPandMACEntries > MaxEntries /\ oldest # {})
    <3>1. UNCHANGED <<mac, numberOfIPandMACEntries>> /\ Smac!Known' = Smac!Known
      BY <1>3, <2>2 DEF Smac!Known
    <3>2. Cardinality(Smac!Known) <= MaxEntries
      <4>1. CASE oldest # {}
        BY <1>4, <2>2, <4>1, KnownFinite, SmacAssumption DEF Smac!TableAssumption
      <4>2. CASE oldest = {}
        <5>1. \A known \in Smac!Known : access[known] \in Nat
          BY <1>5, SmacAssumption DEF Smac!Known, Smac!TableAssumption
        <5>2. Smac!Known \ {ip} = {}
          BY <1>1, <4>2, <5>1, OldestExists
        <5>3. Smac!Known = {ip}
          BY <1>4, <5>2
        <5>4. Cardinality(Smac!Known) = 1
          BY <5>3, FS_Singleton
        <5> QED
          BY <5>4, SmacAssumption DEF Smac!TableAssumption
      <4> QED
        BY <4>1, <4>2
    <3> QED
      BY <1>4, <3>1, <3>2 DEF TableInv, Smac!TypeOK
  <2> QED
    BY <2>1, <2>2
<1>7. Smac!TypeOK'
  <2>1. used' \in [IPs -> 0 .. MaxClock] /\ {looked, clock}' \subseteq 0 .. MaxClock
    BY <1>2 DEF TableInv, Smac!TypeOK
  <2>2. lastUptimeRead' \in 0 .. 2 * Period - 1
    BY <1>2, UptimeRange DEF TableInv
  <2>3. numberOfIPandMACEntries' \in 0 .. Smac!Cardinality(IPs)
    <3>1. Smac!Known' \subseteq IPs
      BY <1>6 DEF Smac!Known
    <3>2. Cardinality(Smac!Known') <= Cardinality(IPs) /\ Cardinality(Smac!Known') \in Nat
      BY <3>1, KnownFinite, FS_Subset, FS_CardinalityType
    <3> QED
      BY <1>6, <3>2, KnownFinite, SameCountInTable
  <2>4. /\ lastIPadded' \in IPs \cup {None} /\ lastMACadded' \in Guests \cup {None}
        /\ lastEntryAdded' \in IPs \cup {None} /\ macAddress' \in {HostMac, None}
        /\ smacPc' \in [Senders -> {"idle", "cachedIP", "cachedMAC", "lock", "set", "return"}]
        /\ op' \in [Senders -> [ip : IPs \cup {None}, mac : Guests \cup {None}, new : BOOLEAN]]
    BY <1>2, <1>4 DEF TableInv, Smac!TypeOK
  <2>5. UsageTyped'
    <3>1. users' \in [IPs -> SUBSET Guests]
      BY <1>3 DEF Smac!Remove, TableInv, Smac!TypeOK
    <3> QED
      BY <1>2, <3>1 DEF TableInv, Smac!TypeOK, UsageTyped, Smac!Comparing
  <2> QED
    BY <1>2, <1>5, <1>6, <2>1, <2>2, <2>3, <2>4, <2>5 DEF Smac!TypeOK, UsageTyped
<1>8. \A u \in Senders \ {t} : smacPc'[u] = smacPc[u]
  BY <1>2 DEF TableInv, Smac!TypeOK
<1>9. smacPc'[t] = "return" /\ \A u \in Senders : smacPc'[u] # "set"
  BY <1>2, <1>4, <1>8 DEF TableInv, Smac!TypeOK
<1>10. Cached' /\ Adding'
  BY <1>2, <1>4, <1>6, <1>8, <1>9 DEF Cached, Adding, TableInv
<1> QED
  BY <1>7, <1>10, NextCachedSame DEF TableInv

LEMMA CleanupKeeps ==
  ASSUME TableInv, Smac!CleanupState
  PROVE  TableInv'
<1>1. /\ \A t \in Senders : smacPc[t] = "idle"
      /\ mac' = [ip \in IPs |-> None] /\ lastAccess' = [ip \in IPs |-> 0]
      /\ numberOfIPandMACEntries' = numberOfIPandMACEntries - Cardinality(Smac!Known)
      /\ lastIPadded' = None /\ lastMACadded' = None /\ lastEntryAdded' = None
      /\ lastUptimeRead' = 0 /\ used' = [ip \in IPs |-> 0] /\ users' = [ip \in IPs |-> {}]
      /\ UNCHANGED <<looked, clock, macAddress, smacPc, op, torn, overtaken>>
  BY SameCountInTable, Zenon DEF Smac!CleanupState, Smac!threads
<1>2. Smac!Known' = {} /\ Cardinality(Smac!Known') = 0
  BY <1>1, FS_EmptySet DEF Smac!Known
<1>3. numberOfIPandMACEntries' = 0
  BY <1>1, KnownFinite, CachedSame DEF TableInv, Cached
<1>4. Smac!TypeOK'
  <2>1. 0 \in 0 .. 2 * Period - 1 /\ 0 \in 0 .. MaxClock /\ 0 \in 0 .. Smac!Cardinality(IPs)
    BY KnownFinite, SameCountInTable, SmacAssumption DEF Smac!TableAssumption
  <2>2. /\ mac' \in [IPs -> Guests \cup {None}] /\ lastAccess' \in [IPs -> 0 .. 2 * Period - 1]
        /\ used' \in [IPs -> 0 .. MaxClock]
    BY <1>1, <2>1
  <2> QED
    BY <1>1, <1>3, <2>1, <2>2 DEF TableInv, Smac!TypeOK
<1>5. Cached' /\ Adding'
  BY <1>1, <1>2, <1>3, SmacAssumption DEF Cached, Adding, Smac!TableAssumption
<1> QED
  BY <1>4, <1>5, NextCachedSame DEF TableInv

LEMMA TableStart ==
  ASSUME Smac!Init
  PROVE  TableInv
<1>1. Smac!Known = {} /\ Cardinality(Smac!Known) = 0
  BY FS_EmptySet DEF Smac!Init, Smac!Known
<1>2. Smac!TypeOK
  <2>1. 0 \in 0 .. 2 * Period - 1 /\ 0 \in 0 .. MaxClock /\ 0 \in 0 .. Smac!Cardinality(IPs)
    BY KnownFinite, SameCountInTable, SmacAssumption DEF Smac!TableAssumption
  <2>2. /\ mac \in [IPs -> Guests \cup {None}] /\ lastAccess \in [IPs -> 0 .. 2 * Period - 1]
        /\ used \in [IPs -> 0 .. MaxClock]
    BY <2>1 DEF Smac!Init
  <2> QED
    BY <2>1, <2>2 DEF Smac!Init, Smac!TypeOK, Smac!NoOp
<1>3. Cached /\ Adding
  BY <1>1, SmacAssumption DEF Smac!Init, Cached, Adding, Smac!TableAssumption
<1> QED
  BY <1>2, <1>3, CachedSame DEF TableInv

LEMMA TableKept ==
  ASSUME TableInv, Smac!Next \/ UNCHANGED smacVars
  PROVE  TableInv'
<1>1. ASSUME NEW t \in Senders, Smac!Step(t) PROVE TableInv'
  BY <1>1, CallKeeps, CompareKeeps, ReturnKeeps, ChangeKeeps, CacheKeeps DEF Smac!Step
<1> QED
  BY <1>1, TimeKeeps, CleanupKeeps DEF Smac!Next


\* One of the threads that add ip, or found it added, did so for the guest its entry is of.
Added(ip) ==
  \E u \in Senders :
    smacPc[u] \in {"set", "return"} /\ op[u].ip = ip /\ op[u].mac = mac[ip]

\* The address of an entry is one of a guest that used it last.  When a thread that adds one
\* comes to its end, it or one that does the same is the one of which the entry is; unless
\* another has come to its end meanwhile, or the thread has not looked at the entry but at a
\* half-written copy.
Used ==
  /\ \A ip \in Smac!Known : mac[ip] \in users[ip] \/ Added(ip)
  /\ \A t \in Senders :
       /\ smacPc[t] \in {"set", "return"} /\ t \notin torn \cup overtaken =>
            mac[op[t].ip] = None \/ Added(op[t].ip)
       /\ smacPc[t] = "cachedMAC" /\ t \notin torn => lastIPadded = op[t].ip /\ ~Smac!Locked

LEMMA UsedLast ==
  ASSUME Used, NEW ip \in Smac!Known
  PROVE  mac[ip] \in Smac!LastUsers(ip)
BY DEF Used, Added, Smac!LastUsers, Smac!Adders

\* No thread comes to add an address, nor from adding one.
LEMMA UsedUnchanged ==
  ASSUME TableInv, Used, UNCHANGED <<mac, lastIPadded, users>>, NEW t \in Senders,
         smacPc[t] \notin {"set", "return"}, smacPc'[t] \notin {"set", "return"},
         \A u \in Senders \ {t} : smacPc'[u] = smacPc[u] /\ op'[u] = op[u],
         \A u \in Senders \ {t} : u \in torn' <=> u \in torn,
         \A u \in Senders \ {t} : u \in overtaken' <=> u \in overtaken,
         smacPc'[t] = "cachedMAC" /\ t \notin torn' => lastIPadded = op'[t].ip /\ ~Smac!Locked
  PROVE  Used'
<1>1. Smac!Locked' <=> Smac!Locked
  BY DEF Smac!Locked
<1>2. \A ip \in Smac!Known' : mac'[ip] \in users'[ip] \/ Added(ip)'
  BY DEF Used, Added, Smac!Known
<1>3. ASSUME NEW u \in Senders
      PROVE  /\ smacPc'[u] \in {"set", "return"} /\ u \notin torn' \cup overtaken' =>
                  mac'[op'[u].ip] = None \/ Added(op[u].ip)'
             /\ smacPc'[u] = "cachedMAC" /\ u \notin torn' =>
                  lastIPadded' = op'[u].ip /\ ~Smac!Locked'
  <2>1. CASE u = t
    BY <1>1, <2>1
  <2>2. CASE u # t
    BY <1>1, <2>2 DEF Used, Added
  <2> QED
    BY <2>1, <2>2
<1> QED
  BY <1>2, <1>3 DEF Used

LEMMA CompareMACUsed ==
  ASSUME TableInv, Used, NEW t \in Senders, Smac!CompareMAC(t)
  PROVE  Used'
<1>1. /\ smacPc[t] = "cachedMAC" /\ UNCHANGED <<mac, lastIPadded, users, op, overtaken>>
      /\ \/ smacPc' = [smacPc EXCEPT ![t] = "return"] /\ lastMACadded = op[t].mac /\ torn' = torn
         \/ smacPc' = [smacPc EXCEPT ![t] = "lock"] /\ torn' = torn \ {t}
  BY DEF Smac!CompareMAC, Smac!Goto, Smac!table, Smac!cached
<1>2. CASE smacPc' = [smacPc EXCEPT ![t] = "lock"] /\ torn' = torn \ {t}
  <2>1. smacPc'[t] = "lock" /\ \A u \in Senders \ {t} : smacPc'[u] = smacPc[u]
    BY <1>2 DEF TableInv, Smac!TypeOK
  <2> QED
    BY <1>1, <1>2, <2>1, UsedUnchanged
<1>3. CASE smacPc' = [smacPc EXCEPT ![t] = "return"] /\ lastMACadded = op[t].mac /\ torn' = torn
  <2>1. smacPc'[t] = "return" /\ \A u \in Senders \ {t} : smacPc'[u] = smacPc[u]
    BY <1>3 DEF TableInv, Smac!TypeOK
  <2>2. Smac!Locked' <=> Smac!Locked
    BY <1>1, <2>1 DEF Smac!Locked
  <2>3. \A ip : Added(ip) => Added(ip)'
    BY <1>1, <2>1 DEF Added
  <2>4. \A ip \in Smac!Known' : mac'[ip] \in users'[ip] \/ Added(ip)'
    BY <1>1, <2>3 DEF Used, Smac!Known
  <2>5. ASSUME t \notin torn PROVE Added(op[t].ip)'
    <3>1. lastIPadded = op[t].ip /\ ~Smac!Locked /\ op[t].ip \in IPs
      BY <1>1, <2>5 DEF Used, TableInv, Adding
    <3>2. lastIPadded # None => mac[lastIPadded] = lastMACadded
      BY <3>1, CachedSame DEF TableInv, Cached
    <3>3. mac[op[t].ip] = op[t].mac
      BY <1>3, <3>1, <3>2, SmacAssumption DEF Smac!TableAssumption
    <3> QED
      BY <1>1, <2>1, <3>3 DEF Added
  <2>6. ASSUME NEW u \in Senders
        PROVE  /\ smacPc'[u] \in {"set", "return"} /\ u \notin torn' \cup overtaken' =>
                    mac'[op'[u].ip] = None \/ Added(op[u].ip)'
               /\ smacPc'[u] = "cachedMAC" /\ u \notin torn' =>
                    lastIPadded' = op'[u].ip /\ ~Smac!Locked'
    <3>1. CASE u = t
      BY <1>1, <1>3, <2>1, <2>5, <3>1
    <3>2. CASE u # t
      BY <1>1, <1>3, <2>1, <2>2, <3>2 DEF Used, Added
    <3> QED
      BY <3>1, <3>2
  <2> QED
    BY <2>4, <2>6 DEF Used
<1> QED
  BY <1>1, <1>2, <1>3

LEMMA ChangeUsed ==
  ASSUME TableInv, Used, NEW t \in Senders, Smac!Change(t)
  PROVE  Used'
<1>1. /\ smacPc[t] = "lock" /\ mac' = [mac EXCEPT ![op[t].ip] = op[t].mac]
      /\ op' = [op EXCEPT ![t].new = op[t].ip \notin Smac!Known]
      /\ torn' = torn \cup Smac!Comparing /\ smacPc' = [smacPc EXCEPT ![t] = "set"]
      /\ UNCHANGED <<users, overtaken>>
  BY Zenon DEF Smac!Change, Smac!Goto
<1>2. /\ \A u \in Senders : op'[u].ip = op[u].ip /\ op'[u].mac = op[u].mac
      /\ smacPc'[t] = "set" /\ \A u \in Senders \ {t} : smacPc'[u] = smacPc[u]
  BY <1>1 DEF TableInv, Smac!TypeOK
<1>3. op[t].ip \in IPs
  BY <1>1 DEF TableInv, Adding
<1>4. mac'[op[t].ip] = op[t].mac /\ \A ip \in IPs \ {op[t].ip} : mac'[ip] = mac[ip]
  BY <1>1, <1>3 DEF TableInv, Smac!TypeOK
<1>5. ASSUME NEW ip \in Smac!Known' PROVE mac'[ip] \in users'[ip] \/ Added(ip)'
  <2>1. CASE ip = op[t].ip
    BY <1>2, <1>4, <2>1 DEF Added
  <2>2. CASE ip # op[t].ip
    BY <1>1, <1>2, <1>4, <2>2 DEF Used, Added, Smac!Known
  <2> QED
    BY <2>1, <2>2
<1>6. ASSUME NEW u \in Senders, smacPc'[u] \in {"set", "return"}, u \notin torn' \cup overtaken'
      PROVE  mac'[op'[u].ip] = None \/ Added(op[u].ip)'
  <2>1. CASE op[u].ip = op[t].ip
    BY <1>2, <1>4, <2>1 DEF Added
  <2>2. CASE op[u].ip # op[t].ip
    <3>1. u # t /\ smacPc[u] \in {"set", "return"} /\ u \notin torn \cup overtaken
      BY <1>1, <1>2, <1>6, <2>2
    <3>2. op[u].ip \in IPs
      BY <3>1 DEF TableInv, Adding
    <3>3. mac[op[u].ip] = None \/ Added(op[u].ip)
      BY <3>1 DEF Used
    <3> QED
      BY <1>1, <1>2, <1>4, <2>2, <3>2, <3>3 DEF Added
  <2> QED
    BY <2>1, <2>2
<1>7. \A u \in Senders : smacPc'[u] = "cachedMAC" => u \in torn'
  BY <1>1, <1>2 DEF Smac!Comparing
<1> QED
  BY <1>5, <1>6, <1>7 DEF Used

LEMMA CacheUsed ==
  ASSUME TableInv, Used, NEW t \in Senders, Smac!Cache(t)
  PROVE  Used'
<1>1. /\ smacPc[t] = "set" /\ smacPc' = [smacPc EXCEPT ![t] = "return"]
      /\ torn' = torn \cup Smac!Comparing /\ UNCHANGED <<op, overtaken>>
  BY Zenon DEF Smac!Cache, Smac!Goto
<1>2. \A ip \in IPs : mac'[ip] = None \/ (mac'[ip] = mac[ip] /\ users'[ip] = users[ip])
  <2>1. \/ UNCHANGED <<mac, users>>
        \/ \E victim \in Smac!Known : /\ mac' = [mac EXCEPT ![victim] = None]
                                      /\ users' = [users EXCEPT ![victim] = {}]
    BY DEF Smac!Cache, Smac!Remove, Smac!Oldest
  <2>2. mac \in [IPs -> Guests \cup {None}]
    BY DEF TableInv, Smac!TypeOK
  <2>3. CASE UNCHANGED <<mac, users>>
    BY <2>3
  <2>4. ASSUME NEW victim, mac' = [mac EXCEPT ![victim] = None],
               users' = [users EXCEPT ![victim] = {}], NEW ip \in IPs
        PROVE  mac'[ip] = None \/ (mac'[ip] = mac[ip] /\ users'[ip] = users[ip])
    <3>1. CASE ip = victim
      <4>1. mac'[ip] = None
        BY <2>2, <2>4, <3>1
      <4> QED
        BY <4>1
    <3>2. CASE ip # victim
      <4>1. mac'[ip] = mac[ip]
        BY <2>2, <2>4, <3>2
      <4>2. users'[ip] = users[ip]
        BY <2>4, <3>2 DEF TableInv, Smac!TypeOK
      <4> QED
        BY <4>1, <4>2
    <3> QED
      BY <3>1, <3>2
  <2> QED
    BY <2>1, <2>3, <2>4
<1>3. smacPc'[t] = "return" /\ \A u \in Senders \ {t} : smacPc'[u] = smacPc[u]
  BY <1>1 DEF TableInv, Smac!TypeOK
<1>4. ASSUME NEW ip \in Smac!Known' PROVE mac'[ip] \in users'[ip] \/ Added(ip)'
  <2>1. ip \in IPs /\ ip \in Smac!Known /\ mac'[ip] = mac[ip] /\ users'[ip] = users[ip]
    BY <1>2 DEF Smac!Known
  <2> QED
    BY <1>1, <1>3, <2>1 DEF Used, Added
<1>5. ASSUME NEW u \in Senders, smacPc'[u] \in {"set", "return"}, u \notin torn' \cup overtaken'
      PROVE  mac'[op'[u].ip] = None \/ Added(op[u].ip)'
  <2>1. smacPc[u] \in {"set", "return"} /\ u \notin torn \cup overtaken
    BY <1>1, <1>3, <1>5
  <2>2. op[u].ip \in IPs
    BY <2>1 DEF TableInv, Adding
  <2>3. mac[op[u].ip] = None \/ Added(op[u].ip)
    BY <2>1 DEF Used
  <2>4. mac'[op[u].ip] \in {None, mac[op[u].ip]}
    BY <1>2, <2>2
  <2> QED
    BY <1>1, <1>3, <2>3, <2>4 DEF Added
<1>6. \A u \in Senders : smacPc'[u] = "cachedMAC" => u \in torn'
  BY <1>1, <1>3 DEF Smac!Comparing
<1> QED
  BY <1>4, <1>5, <1>6 DEF Used

LEMMA ReturnUsed ==
  ASSUME TableInv, Used, NEW t \in Senders, Smac!Return(t)
  PROVE  Used'
<1>1. PICK ip : ip = op[t].ip
  OBVIOUS
<1>2. /\ smacPc[t] = "return" /\ smacPc' = [smacPc EXCEPT ![t] = "idle"]
      /\ op' = [op EXCEPT ![t] = Smac!NoOp]
      /\ users' = [users EXCEPT ![ip] =
           IF ip \notin Smac!Known THEN {}
           ELSE {op[t].mac} \cup IF t \in torn \cup overtaken THEN @ ELSE {}]
      /\ torn' = torn \ {t} /\ overtaken' = (overtaken \cup Smac!Adders(ip)) \ {t}
      /\ UNCHANGED <<mac, lastIPadded>>
  BY <1>1 DEF Smac!Return, Smac!Goto, Smac!table, Smac!cached
<1>3. /\ smacPc'[t] = "idle" /\ \A u \in Senders \ {t} : smacPc'[u] = smacPc[u] /\ op'[u] = op[u]
      /\ ip \in IPs
  BY <1>1, <1>2 DEF TableInv, Smac!TypeOK, Adding
<1>4. ASSUME NEW other \in Smac!Known' PROVE mac'[other] \in users'[other] \/ Added(other)'
  <2>1. other \in Smac!Known /\ other \in IPs /\ (mac[other] \in users[other] \/ Added(other))
    BY <1>2, <1>4 DEF Smac!Known, Used
  <2>2. CASE other # ip
    <3>1. users'[other] = users[other]
      BY <1>2, <2>1, <2>2 DEF TableInv, Smac!TypeOK
    <3> QED
      BY <1>1, <1>2, <1>3, <2>1, <2>2, <3>1 DEF Added
  <2>3. CASE other = ip
    <3>1. users'[ip] = {op[t].mac} \cup IF t \in torn \cup overtaken THEN users[ip] ELSE {}
      BY <1>2, <1>3, <2>1, <2>3 DEF TableInv, Smac!TypeOK
    <3>2. mac[ip] \in users'[ip] \/ Added(ip)
      <4>1. CASE t \in torn \cup overtaken
        BY <2>1, <2>3, <3>1, <4>1
      <4>2. CASE t \notin torn \cup overtaken
        BY <1>1, <1>2, <2>1, <2>3, <4>2 DEF Used, Smac!Known
      <4> QED
        BY <4>1, <4>2
    <3>3. ASSUME Added(ip) PROVE mac[ip] = op[t].mac \/ Added(ip)'
      BY <1>2, <1>3, <3>3 DEF Added
    <3> QED
      BY <1>2, <2>3, <3>1, <3>2, <3>3
  <2> QED
    BY <2>2, <2>3
<1>5. ASSUME NEW u \in Senders, smacPc'[u] \in {"set", "return"}, u \notin torn' \cup overtaken'
      PROVE  mac'[op'[u].ip] = None \/ Added(op[u].ip)'
  <2>1. /\ u # t /\ smacPc[u] \in {"set", "return"} /\ u \notin torn \cup overtaken
        /\ op'[u] = op[u] /\ op[u].ip # ip
    BY <1>2, <1>3, <1>5 DEF Smac!Adders
  <2>2. mac[op[u].ip] = None \/ Added(op[u].ip)
    BY <2>1 DEF Used
  <2> QED
    BY <1>1, <1>2, <1>3, <2>1, <2>2 DEF Added
<1>6. ASSUME NEW u \in Senders, smacPc'[u] = "cachedMAC", u \notin torn'
      PROVE  lastIPadded' = op'[u].ip /\ ~Smac!Locked'
  <2>1. u # t /\ smacPc[u] = "cachedMAC" /\ u \notin torn /\ op'[u] = op[u]
    BY <1>2, <1>3, <1>6
  <2>2. Smac!Locked' <=> Smac!Locked
    BY <1>2, <1>3 DEF Smac!Locked
  <2> QED
    BY <1>2, <2>1, <2>2 DEF Used
<1> QED
  BY <1>4, <1>5, <1>6 DEF Used

LEMMA UsedKept ==
  ASSUME TableInv, Used, Smac!Next \/ UNCHANGED smacVars
  PROVE  Used'
<1>1. ASSUME NEW t \in Senders, Smac!Step(t) PROVE Used'
  <2>1. CASE \E ip \in IPs, m \in Guests : Smac!Call(t, ip, m)
    <3>1. PICK ip \in IPs, m \in Guests : Smac!Call(t, ip, m)
      BY <2>1
    <3>2. /\ smacPc[t] = "idle" /\ smacPc' = [smacPc EXCEPT ![t] = "cachedIP"]
          /\ op' = [op EXCEPT ![t] = [ip |-> ip, mac |-> m, new |-> FALSE]]
          /\ UNCHANGED <<mac, lastIPadded, users, torn, overtaken>>
      BY <3>1 DEF Smac!Call, Smac!Goto, Smac!table, Smac!cached, Smac!usage
    <3>3. smacPc'[t] = "cachedIP" /\ \A u \in Senders \ {t} : smacPc'[u] = smacPc[u] /\ op'[u] = op[u]
      BY <3>2 DEF TableInv, Smac!TypeOK
    <3> QED
      BY <3>2, <3>3, UsedUnchanged
  <2>2. CASE Smac!CompareIP(t)
    <3>1. /\ smacPc[t] = "cachedIP" /\ UNCHANGED <<mac, lastIPadded, users, op, overtaken>>
          /\ \/ /\ smacPc' = [smacPc EXCEPT ![t] = "cachedMAC"] /\ lastIPadded = op[t].ip
                /\ torn' = IF Smac!Locked THEN torn \cup {t} ELSE torn
             \/ smacPc' = [smacPc EXCEPT ![t] = "lock"] /\ torn' = torn
      BY <2>2 DEF Smac!CompareIP, Smac!Goto, Smac!table, Smac!cached
    <3>2. smacPc'[t] \in {"cachedMAC", "lock"} /\ \A u \in Senders \ {t} : smacPc'[u] = smacPc[u]
      BY <3>1 DEF TableInv, Smac!TypeOK
    <3>3. smacPc'[t] = "cachedMAC" /\ t \notin torn' => lastIPadded = op'[t].ip /\ ~Smac!Locked
      BY <3>1, <3>2 DEF TableInv, Smac!TypeOK
    <3>4. \A u \in Senders \ {t} : u \in torn' <=> u \in torn
      BY <3>1
    <3> QED
      BY <3>1, <3>2, <3>3, <3>4, UsedUnchanged
  <2>3. CASE Smac!NoMemory(t)
    <3>1. /\ smacPc[t] = "lock" /\ smacPc' = [smacPc EXCEPT ![t] = "idle"]
          /\ op' = [op EXCEPT ![t] = Smac!NoOp]
          /\ UNCHANGED <<mac, lastIPadded, users, torn, overtaken>>
      BY <2>3 DEF Smac!NoMemory, Smac!Goto, Smac!table, Smac!cached, Smac!usage
    <3>2. smacPc'[t] = "idle" /\ \A u \in Senders \ {t} : smacPc'[u] = smacPc[u] /\ op'[u] = op[u]
      BY <3>1 DEF TableInv, Smac!TypeOK
    <3> QED
      BY <3>1, <3>2, UsedUnchanged
  <2> QED
    BY <1>1, <2>1, <2>2, <2>3, CompareMACUsed, ChangeUsed, CacheUsed, ReturnUsed DEF Smac!Step
<1>2. CASE Smac!Tick \/ Smac!SetMac(HostMac) \/ Smac!SetMac(None) \/ UNCHANGED smacVars
  <2>1. UNCHANGED <<mac, lastIPadded, users, smacPc, op, torn, overtaken>>
    BY <1>2 DEF Smac!Tick, Smac!SetMac, Smac!table, Smac!cached, Smac!threads, Smac!usage, smacVars
  <2> QED
    BY <2>1 DEF Used, Added, Smac!Known, Smac!Locked
<1>3. CASE Smac!CleanupState
  <2>1. /\ \A t \in Senders : smacPc[t] = "idle" /\ smacPc' = smacPc
        /\ mac' = [ip \in IPs |-> None]
    BY <1>3 DEF Smac!CleanupState, Smac!threads
  <2> QED
    BY <2>1 DEF Used, Smac!Known
<1> QED
  BY <1>1, <1>2, <1>3 DEF Smac!Next

LEMMA UsedStart ==
  ASSUME Smac!Init
  PROVE  Used
BY DEF Smac!Init, Used, Smac!Known

\* What a guest sends over IP, and the answer to it.
LEMMA AnswerArrives ==
  ASSUME TableInv, macAddress # None, NEW ip \in Smac!Known, NEW m \in Guests,
         NEW type \in {"IPv4", "IPv6"}
  PROVE  LET r == Smac!Returned([Smac!Asks(ip, m) EXCEPT !.type = type])
         IN  r.status = "forward" /\ r.frame.dst = mac[ip]
<1>1. /\ macAddress = HostMac /\ ip \in IPs /\ mac[ip] \in Guests /\ mac[ip] # None
      /\ HostMac \notin {Peer, Group, None} /\ Peer # None
  BY SmacAssumption DEF TableInv, Smac!TypeOK, Smac!Known, Smac!TableAssumption
<1>2. PICK f : f = [Smac!Asks(ip, m) EXCEPT !.type = type]
  OBVIOUS
<1>3. f = [type |-> type, tagged |-> FALSE, src |-> m, dst |-> Group,
           from |-> ip, to |-> Smac!Unspecified, op |-> "none",
           sender |-> None, target |-> None, dhcp |-> "no"]
  BY <1>2 DEF Smac!Asks, Smac!Frame
<1>4. PICK g : g = [type |-> type, tagged |-> FALSE, src |-> HostMac, dst |-> Group,
                    from |-> ip, to |-> Smac!Unspecified, op |-> "none",
                    sender |-> None, target |-> None, dhcp |-> "no"]
  OBVIOUS
<1>5. Smac!CheckPacketToHost(f).frame = g
  BY <1>1, <1>3, <1>4 DEF Smac!CheckPacketToHost, Smac!ToHostIP, Smac!OutgoingIPv4, Smac!Forward
<1>6. PICK h : h = [type |-> type, tagged |-> FALSE, src |-> Peer, dst |-> HostMac,
                    from |-> Smac!Unspecified, to |-> ip, op |-> "none",
                    sender |-> None, target |-> None, dhcp |-> "no"]
  OBVIOUS
<1>7. Smac!Answer(g) = h
  BY <1>4, <1>6 DEF Smac!Answer
<1>8. Smac!CheckPacketFromHost(h) = Smac!FromHostIP(h)
  BY <1>1, <1>6 DEF Smac!CheckPacketFromHost
<1>9. PICK k : k = [h EXCEPT !.dst = mac[ip]]
  OBVIOUS
<1>10. Smac!FromHostIP(h) = Smac!Forward(k)
  BY <1>1, <1>6, <1>9 DEF Smac!FromHostIP, Smac!LookupByIP
<1>11. k.dst = mac[ip]
  BY <1>6, <1>9
<1> QED
  BY <1>2, <1>5, <1>7, <1>8, <1>10, <1>11 DEF Smac!Returned, Smac!Forward

\* The question for an address, and the answer to it.
LEMMA ReplyArrives ==
  ASSUME TableInv, macAddress # None, NEW ip \in Smac!Known, NEW m \in Guests
  PROVE  LET r == Smac!Returned(Smac!ArpAsks(ip, m))
         IN  r.status = "forward" /\ r.frame.dst = mac[ip] /\ r.frame.target = mac[ip]
<1>1. /\ macAddress = HostMac /\ ip \in IPs /\ mac[ip] \in Guests /\ mac[ip] # None
      /\ HostMac \notin {Peer, Group, None} /\ Peer # None
  BY SmacAssumption DEF TableInv, Smac!TypeOK, Smac!Known, Smac!TableAssumption
<1>2. PICK f : f = Smac!ArpAsks(ip, m)
  OBVIOUS
<1>3. f = [type |-> "ARP", tagged |-> FALSE, src |-> m, dst |-> Group,
           from |-> ip, to |-> Smac!Unspecified, op |-> "request",
           sender |-> m, target |-> None, dhcp |-> "no"]
  BY <1>2 DEF Smac!ArpAsks, Smac!Asks, Smac!Frame
<1>4. PICK g : g = [type |-> "ARP", tagged |-> FALSE, src |-> HostMac, dst |-> Group,
                    from |-> ip, to |-> Smac!Unspecified, op |-> "request",
                    sender |-> HostMac, target |-> None, dhcp |-> "no"]
  OBVIOUS
<1>5. Smac!CheckPacketToHost(f).frame = g
  BY <1>1, <1>3, <1>4 DEF Smac!CheckPacketToHost, Smac!ToHostARP, Smac!Forward
<1>6. PICK h : h = [type |-> "ARP", tagged |-> FALSE, src |-> Peer, dst |-> HostMac,
                    from |-> Smac!Unspecified, to |-> ip, op |-> "reply",
                    sender |-> Peer, target |-> HostMac, dhcp |-> "no"]
  OBVIOUS
<1>7. Smac!Answer(g) = h
  BY <1>4, <1>6 DEF Smac!Answer
<1>8. Smac!CheckPacketFromHost(h) = Smac!FromHostReply(h)
  BY <1>1, <1>6 DEF Smac!CheckPacketFromHost
<1>9. PICK k : k = [h EXCEPT !.dst = mac[ip], !.target = mac[ip]]
  OBVIOUS
<1>10. Smac!FromHostReply(h) = Smac!Forward(k)
  BY <1>1, <1>6, <1>9 DEF Smac!FromHostReply, Smac!LookupByIP
<1>11. k.dst = mac[ip] /\ k.target = mac[ip]
  BY <1>6, <1>9
<1> QED
  BY <1>2, <1>5, <1>7, <1>8, <1>10, <1>11 DEF Smac!Returned, Smac!Forward

\* The offer of an address, by broadcast.
LEMMA OfferArrives ==
  ASSUME TableInv, macAddress # None, NEW m \in Guests
  PROVE  LET r == Smac!Returned(Smac!Discover(m))
         IN  r.status = "forward" /\ r.frame.dst = Group
<1>1. /\ macAddress = HostMac /\ HostMac \notin {Peer, Group, None} /\ Peer # None
      /\ Smac!Broadcast \notin IPs
  BY SmacAssumption DEF TableInv, Smac!TypeOK, Smac!TableAssumption
<1>2. PICK f : f = Smac!Discover(m)
  OBVIOUS
<1>3. f = [type |-> "IPv4", tagged |-> FALSE, src |-> m, dst |-> Group,
           from |-> Smac!Unspecified, to |-> Smac!Unspecified, op |-> "none",
           sender |-> None, target |-> None, dhcp |-> "unicast"]
  BY <1>2 DEF Smac!Discover, Smac!Frame
<1>4. PICK g : g = [type |-> "IPv4", tagged |-> FALSE, src |-> HostMac, dst |-> Group,
                    from |-> Smac!Unspecified, to |-> Smac!Unspecified, op |-> "none",
                    sender |-> None, target |-> None, dhcp |-> "broadcast"]
  OBVIOUS
<1>5. Smac!CheckPacketToHost(f).frame = g
  BY <1>1, <1>3, <1>4 DEF Smac!CheckPacketToHost, Smac!ToHostIP, Smac!OutgoingIPv4, Smac!Forward
<1>6. PICK h : h = [type |-> "IPv4", tagged |-> FALSE, src |-> Peer, dst |-> HostMac,
                    from |-> Smac!Unspecified, to |-> Smac!Broadcast, op |-> "none",
                    sender |-> None, target |-> None, dhcp |-> "broadcast"]
  OBVIOUS
<1>7. Smac!Answer(g) = h
  BY <1>4, <1>6 DEF Smac!Answer
<1>8. Smac!CheckPacketFromHost(h) = Smac!FromHostIP(h)
  BY <1>1, <1>6 DEF Smac!CheckPacketFromHost
<1>9. PICK k : k = [h EXCEPT !.dst = Group]
  OBVIOUS
<1>10. Smac!FromHostIP(h) = Smac!Forward(k)
  BY <1>1, <1>6, <1>9 DEF Smac!FromHostIP, Smac!LookupByIP
<1>11. k.dst = Group
  BY <1>6, <1>9
<1> QED
  BY <1>2, <1>5, <1>7, <1>8, <1>10, <1>11 DEF Smac!Returned, Smac!Forward

\* A question that the network repeats, and one for an address the guest does not have yet.
LEMMA EchoDropped ==
  ASSUME TableInv, macAddress # None, NEW m,
         NEW from, from = Smac!Unspecified \/ from \in Smac!Known,
         NEW f, f = [type |-> "ARP", tagged |-> FALSE, src |-> m, dst |-> Group,
                     from |-> from, to |-> Smac!Unspecified, op |-> "request",
                     sender |-> m, target |-> None, dhcp |-> "no"]
  PROVE  Smac!Echo(f).status = "drop"
<1>1. /\ macAddress = HostMac /\ HostMac \notin {Peer, Group, None} /\ Peer # None
  BY SmacAssumption DEF TableInv, Smac!TypeOK, Smac!TableAssumption
<1>2. from = Smac!Unspecified \/ Smac!LookupByIP(from) # None
  BY DEF Smac!Known, Smac!LookupByIP
<1>3. PICK g : g = [type |-> "ARP", tagged |-> FALSE, src |-> HostMac, dst |-> Group,
                    from |-> from, to |-> Smac!Unspecified, op |-> "request",
                    sender |-> HostMac, target |-> None, dhcp |-> "no"]
  OBVIOUS
<1>4. Smac!CheckPacketToHost(f).frame = g
  BY <1>1, <1>3 DEF Smac!CheckPacketToHost, Smac!ToHostARP, Smac!Forward
<1>5. Smac!CheckPacketFromHost(g) = Smac!FromHostRequest(g)
  BY <1>1, <1>3 DEF Smac!CheckPacketFromHost
<1>6. Smac!FromHostRequest(g) = Smac!Drop
  BY <1>1, <1>2, <1>3 DEF Smac!FromHostRequest
<1> QED
  BY <1>4, <1>5, <1>6 DEF Smac!Echo, Smac!Drop

LEMMA QuestionDropped ==
  ASSUME TableInv, macAddress # None, NEW ip \in Smac!Known, NEW m \in Guests
  PROVE  Smac!Echo(Smac!ArpAsks(ip, m)).status = "drop"
<1>1. PICK f : f = Smac!ArpAsks(ip, m)
  OBVIOUS
<1>2. f = [type |-> "ARP", tagged |-> FALSE, src |-> m, dst |-> Group,
           from |-> ip, to |-> Smac!Unspecified, op |-> "request",
           sender |-> m, target |-> None, dhcp |-> "no"]
  BY <1>1 DEF Smac!ArpAsks, Smac!Asks, Smac!Frame
<1> QED
  BY <1>1, <1>2, EchoDropped, Zenon

LEMMA ProbeDropped ==
  ASSUME TableInv, macAddress # None, NEW m \in Guests
  PROVE  Smac!Echo(Smac!Probe(m)).status = "drop"
<1>1. PICK f : f = Smac!Probe(m)
  OBVIOUS
<1>2. f = [type |-> "ARP", tagged |-> FALSE, src |-> m, dst |-> Group,
           from |-> Smac!Unspecified, to |-> Smac!Unspecified, op |-> "request",
           sender |-> m, target |-> None, dhcp |-> "no"]
  BY <1>1 DEF Smac!Probe, Smac!Frame
<1> QED
  BY <1>1, <1>2, EchoDropped, Zenon

\* However many threads send frames of however many guests: the copies of the entry added last
\* are true of the table, which holds no more than it should; answers come back to the guest
\* that used the address last, also when two guests use it by turns, and echoes do not
\* (AddIPandMACcombo, SMAC_CheckPacketToHost and FromHost).  The guest is known from what was
\* sent and not from the table: that the two agree is Used.
THEOREM FramesAnsweredHolds == MCSpec => []FramesAnswered
<1>1. MCInit => TableInv /\ Used
  BY TableStart, UsedStart DEF MCInit
<1>2. /\ TableInv /\ Used
      /\ [MCNext]_<<part, vars, smacVars, rewriteVars, packetVars>>
      => TableInv' /\ Used'
  BY TableKept, UsedKept DEF MCNext
<1>3. TableInv /\ Used => FramesAnswered
  <2> SUFFICES ASSUME TableInv, Used PROVE FramesAnswered
    OBVIOUS
  <2>1. Smac!AnswersArrive
    <3>1. \A ip \in Smac!Known : mac[ip] \in Smac!LastUsers(ip)
      BY UsedLast
    <3>2. ASSUME macAddress # None, NEW ip \in Smac!Known, NEW m \in Guests,
                 NEW type \in {"IPv4", "IPv6"}
          PROVE  LET r == Smac!Returned([Smac!Asks(ip, m) EXCEPT !.type = type])
                 IN  r.status = "forward" /\ r.frame.dst \in Smac!LastUsers(ip)
      BY <3>1, <3>2, AnswerArrives, Zenon
    <3>3. ASSUME macAddress # None, NEW ip \in Smac!Known, NEW m \in Guests
          PROVE  LET r == Smac!Returned(Smac!ArpAsks(ip, m))
                 IN  /\ r.status = "forward" /\ r.frame.dst \in Smac!LastUsers(ip)
                     /\ r.frame.target = r.frame.dst
      BY <3>1, <3>3, ReplyArrives, Zenon
    <3> QED
      BY <3>2, <3>3, OfferArrives, Zenon DEF Smac!AnswersArrive
  <2>2. Smac!EchoesDropped
    BY QuestionDropped, ProbeDropped, Zenon DEF Smac!EchoesDropped
  <2> QED
    BY <2>1, <2>2 DEF TableInv, FramesAnswered
<1> QED
  BY <1>1, <1>2, <1>3, PTL DEF MCSpec


\* The uptime at which an entry was last the newest, as it is kept: halved once the uptime has
\* wrapped since, if what has been looked at last is a time after that.
Stamp(time, now) ==
  IF (time < Period) = (now < Period) THEN Period + (time % Period) ELSE (Period + time) \div 2

\* The entry is not one that is just being made the newest.
Ready(ip) == ~\E t \in Senders : smacPc[t] = "set" /\ op[t].ip = ip

AgesInv ==
  /\ clock < 2 * Period /\ looked <= clock /\ clock < looked + Period
  /\ lastUptimeRead \in {0, Stamp(looked, looked)}
  /\ \A ip \in IPs : used[ip] <= looked
  /\ \A ip \in Smac!Known :
       Ready(ip) => lastUptimeRead # 0 /\ lastAccess[ip] = Stamp(used[ip], looked)

LEMMA Remainder ==
  ASSUME NEW n \in Nat, n < 2 * Period
  PROVE  n % Period = (IF n < Period THEN n ELSE n - Period)
BY SmacAssumption DEF Smac!TableAssumption

\* What was kept of the time when an entry was the newest is brought up to date by a look at
\* the uptime.
LEMMA AgedStamp ==
  ASSUME TableInv, AgesInv, lastUptimeRead # 0, NEW access, NEW ip \in IPs,
         access[ip] = Stamp(used[ip], looked)
  PROVE  Smac!Aged(access)[ip] = Stamp(used[ip], clock)
<1>1. /\ Period \in Nat \ {0} /\ clock \in Nat /\ looked \in Nat /\ used[ip] \in Nat
      /\ used[ip] <= looked /\ looked <= clock /\ clock < looked + Period /\ clock < 2 * Period
      /\ lastUptimeRead = Stamp(looked, looked)
  BY SmacAssumption DEF TableInv, Smac!TypeOK, Smac!TableAssumption, AgesInv
<1>2. /\ Smac!Uptime = Period + (IF clock < Period THEN clock ELSE clock - Period)
      /\ lastUptimeRead = Period + (IF looked < Period THEN looked ELSE looked - Period)
  BY <1>1, Remainder DEF Smac!Uptime, Stamp
<1>3. CASE (looked < Period) = (clock < Period)
  <2>1. ~(Smac!Uptime < lastUptimeRead)
    BY <1>1, <1>2, <1>3
  <2>2. Smac!Aged(access) = access
    BY <2>1 DEF Smac!Aged
  <2> QED
    BY <1>3, <2>2 DEF Stamp
<1>4. CASE (looked < Period) # (clock < Period)
  <2>1. looked < Period /\ ~(clock < Period) /\ used[ip] < Period
    BY <1>1, <1>4
  <2>2. Smac!Uptime < lastUptimeRead
    BY <1>1, <1>2, <2>1
  <2>3. Smac!Aged(access)[ip] = access[ip] \div 2
    BY <2>2 DEF Smac!Aged
  <2>4. access[ip] = Period + used[ip]
    BY <1>1, <2>1, Remainder DEF Stamp
  <2> QED
    BY <2>1, <2>3, <2>4 DEF Stamp
<1> QED
  BY <1>3, <1>4

\* Of two entries, the one with the lesser stamp was not the newest much later.
LEMMA StampsOrdered ==
  ASSUME NEW a \in Nat, NEW b \in Nat, NEW now \in Nat, a <= now, b <= now, now < 2 * Period,
         Stamp(a, now) <= Stamp(b, now)
  PROVE  a <= b + 1
<1>1. Period \in Nat \ {0}
  BY SmacAssumption DEF Smac!TableAssumption
<1>2. /\ a % Period = (IF a < Period THEN a ELSE a - Period)
      /\ b % Period = (IF b < Period THEN b ELSE b - Period)
  <2>1. a < 2 * Period /\ b < 2 * Period
    BY <1>1
  <2> QED
    BY <2>1, Remainder
<1>3. CASE (a < Period) = (b < Period)
  BY <1>1, <1>2, <1>3 DEF Stamp
<1>4. CASE a < Period /\ ~(b < Period)
  BY <1>1, <1>4
<1>5. CASE ~(a < Period) /\ b < Period
  <2>1. ~(now < Period)
    BY <1>1, <1>5
  <2>2. Stamp(a, now) = a /\ Stamp(b, now) = (Period + b) \div 2
    BY <1>1, <1>2, <1>5, <2>1 DEF Stamp
  <2>3. (Period + b) \div 2 < Period
    BY <1>1, <1>5
  <2> QED
    BY <1>1, <1>5, <2>2, <2>3
<1> QED
  BY <1>1, <1>3, <1>4, <1>5

LEMMA AgesKept ==
  ASSUME TableInv, AgesInv, MaxClock < 2 * Period, Smac!Next \/ UNCHANGED smacVars
  PROVE  AgesInv'
<1>1. CASE Smac!Tick
  <2>1. /\ clock' = clock + 1 /\ clock < MaxClock /\ clock + 1 < looked + Period
        /\ UNCHANGED <<mac, lastAccess, lastUptimeRead, looked, used, smacPc, op>>
    BY <1>1 DEF Smac!Tick, Smac!table, Smac!threads
  <2> QED
    BY <2>1, SmacAssumption
       DEF AgesInv, Stamp, Smac!Known, Ready, TableInv, Smac!TypeOK, Smac!TableAssumption
<1>2. ASSUME UNCHANGED <<mac, lastAccess, lastUptimeRead, looked, clock, used>>,
             \A ip \in Smac!Known : Ready(ip)' => Ready(ip)
      PROVE  AgesInv'
  BY <1>2 DEF AgesInv, Stamp, Smac!Known
<1>3. CASE Smac!SetMac(HostMac) \/ Smac!SetMac(None) \/ UNCHANGED smacVars
  <2>1. UNCHANGED <<mac, lastAccess, lastUptimeRead, looked, clock, used, smacPc, op>>
    BY <1>3 DEF Smac!SetMac, Smac!table, Smac!time, Smac!threads, smacVars
  <2> QED
    BY <1>2, <2>1 DEF Ready
<1>4. CASE Smac!CleanupState
  <2>1. /\ mac' = [ip \in IPs |-> None] /\ lastUptimeRead' = 0 /\ used' = [ip \in IPs |-> 0]
        /\ UNCHANGED <<looked, clock>>
    BY <1>4 DEF Smac!CleanupState
  <2> QED
    BY <2>1 DEF AgesInv, TableInv, Smac!TypeOK, Smac!Known
<1>5. ASSUME NEW t \in Senders,
             \/ \E ip \in IPs, m \in Guests : Smac!Call(t, ip, m)
             \/ Smac!CompareIP(t)
             \/ Smac!CompareMAC(t)
             \/ Smac!NoMemory(t)
             \/ Smac!Return(t)
      PROVE  AgesInv'
  <2>1. /\ UNCHANGED <<mac, lastAccess, lastUptimeRead, looked, clock, used>>
        /\ smacPc[t] # "set"
        /\ \A u \in Senders \ {t} : smacPc'[u] = smacPc[u] /\ op'[u] = op[u]
    BY <1>5 DEF Smac!Call, Smac!CompareIP, Smac!CompareMAC, Smac!NoMemory, Smac!Return,
                Smac!Goto, Smac!table, Smac!time, TableInv, Smac!TypeOK
  <2> QED
    BY <1>2, <2>1 DEF Ready
<1>6. ASSUME NEW t \in Senders, Smac!Change(t)
      PROVE  AgesInv'
  <2>1. PICK ip, access :
          /\ ip = op[t].ip
          /\ access = [lastAccess EXCEPT ![ip] = IF ip \in Smac!Known THEN @ ELSE 0]
    OBVIOUS
  <2>2. /\ smacPc[t] = "lock" /\ ~Smac!Locked /\ mac' = [mac EXCEPT ![ip] = op[t].mac]
        /\ op' = [op EXCEPT ![t].new = ip \notin Smac!Known]
        /\ smacPc' = [smacPc EXCEPT ![t] = "set"]
    BY <1>6, <2>1, Zenon DEF Smac!Change, Smac!Goto
  <2>3. \/ /\ lastAccess' = access /\ UNCHANGED <<lastUptimeRead, looked, clock, used>>
        \/ /\ lastEntryAdded # None
           /\ lastAccess' = [Smac!Aged(access) EXCEPT ![lastEntryAdded] = Smac!Uptime]
           /\ used' = [used EXCEPT ![lastEntryAdded] = clock]
           /\ lastUptimeRead' = Smac!Uptime /\ looked' = clock /\ UNCHANGED clock
    BY <1>6, <2>1, Zenon DEF Smac!Change, Smac!time
  <2>4. ip \in IPs /\ Smac!Known' \subseteq Smac!Known \cup {ip}
    BY <2>1, <2>2 DEF TableInv, Adding, Smac!TypeOK, Smac!Known
  <2>5. \A x \in IPs : Ready(x) /\ (Ready(x)' => x # ip)
    <3>1. smacPc'[t] = "set" /\ op'[t].ip = ip
      BY <2>1, <2>2 DEF TableInv, Smac!TypeOK
    <3> QED
      BY <2>2, <3>1 DEF Ready, Smac!Locked
  <2>6. CASE lastAccess' = access /\ UNCHANGED <<lastUptimeRead, looked, clock, used>>
    <3>1. ASSUME NEW x \in Smac!Known', Ready(x)'
          PROVE  lastUptimeRead' # 0 /\ lastAccess'[x] = Stamp(used[x], looked)
      <4>1. x \in Smac!Known /\ x \in IPs /\ x # ip /\ Ready(x)
        BY <2>4, <2>5, <3>1 DEF Smac!Known
      <4>2. access[x] = lastAccess[x]
        BY <2>1, <4>1 DEF TableInv, Smac!TypeOK
      <4> QED
        BY <2>6, <4>1, <4>2 DEF AgesInv
    <3> QED
      BY <2>6, <3>1 DEF AgesInv, Stamp
  <2>7. CASE /\ lastEntryAdded # None
             /\ lastAccess' = [Smac!Aged(access) EXCEPT ![lastEntryAdded] = Smac!Uptime]
             /\ used' = [used EXCEPT ![lastEntryAdded] = clock]
             /\ lastUptimeRead' = Smac!Uptime /\ looked' = clock /\ UNCHANGED clock
    <3>1. access \in [IPs -> 0 .. 2 * Period - 1]
      BY <2>1, <2>4, SmacAssumption DEF TableInv, Smac!TypeOK, Smac!TableAssumption
    <3>2. Smac!Aged(access) \in [IPs -> 0 .. 2 * Period - 1] /\ lastEntryAdded \in IPs
      BY <2>7, <3>1, AgedType DEF TableInv, Smac!TypeOK
    <3>3. Smac!Uptime = Stamp(clock, clock) /\ Smac!Uptime # 0
      BY UptimeRange, SmacAssumption DEF Smac!Uptime, Stamp, TableInv, Smac!TableAssumption
    <3>4. ASSUME NEW x \in Smac!Known', Ready(x)'
          PROVE  lastAccess'[x] = Stamp(used'[x], clock)
      <4>1. x \in Smac!Known /\ x \in IPs /\ x # ip /\ Ready(x)
        BY <2>4, <2>5, <3>4 DEF Smac!Known
      <4>2. CASE x = lastEntryAdded
        BY <2>7, <3>2, <3>3, <4>2 DEF TableInv, Smac!TypeOK
      <4>3. CASE x # lastEntryAdded
        <5>1. access[x] = lastAccess[x]
          BY <2>1, <4>1 DEF TableInv, Smac!TypeOK
        <5>2. lastUptimeRead # 0 /\ access[x] = Stamp(used[x], looked)
          BY <4>1, <5>1 DEF AgesInv
        <5>3. Smac!Aged(access)[x] = Stamp(used[x], clock)
          BY <4>1, <5>2, AgedStamp
        <5>4. lastAccess'[x] = Smac!Aged(access)[x] /\ used'[x] = used[x]
          BY <2>7, <3>2, <4>1, <4>3 DEF TableInv, Smac!TypeOK
        <5> QED
          BY <5>3, <5>4
      <4> QED
        BY <4>2, <4>3
    <3>5. \A x \in IPs : used'[x] <= clock
      BY <2>7, <3>2 DEF AgesInv, TableInv, Smac!TypeOK
    <3> QED
      BY <2>7, <3>3, <3>4, <3>5, SmacAssumption
         DEF AgesInv, Stamp, TableInv, Smac!TypeOK, Smac!TableAssumption
  <2> QED
    BY <2>3, <2>6, <2>7
<1>7. ASSUME NEW t \in Senders, Smac!Cache(t)
      PROVE  AgesInv'
  <2>1. PICK ip : ip = op[t].ip
    OBVIOUS
  <2>2. /\ smacPc[t] = "set"
        /\ lastAccess' = [Smac!Aged(lastAccess) EXCEPT ![ip] = Smac!Uptime]
        /\ used' = [used EXCEPT ![ip] = clock]
        /\ lastUptimeRead' = Smac!Uptime /\ looked' = clock /\ UNCHANGED clock
    BY <1>7, <2>1, Zenon DEF Smac!Cache
  <2>3. ip \in IPs /\ \A x \in IPs \ {ip} : Ready(x)
    BY <2>1, <2>2 DEF TableInv, Adding, Ready
  <2>4. Smac!Known' \subseteq Smac!Known
    <3>1. \/ UNCHANGED mac
          \/ \E victim \in IPs : mac' = [mac EXCEPT ![victim] = None]
      BY <1>7 DEF Smac!Cache, Smac!Remove, Smac!Oldest, Smac!Known
    <3> QED
      BY <3>1 DEF Smac!Known, TableInv, Smac!TypeOK
  <2>5. Smac!Aged(lastAccess) \in [IPs -> 0 .. 2 * Period - 1]
    BY AgedType DEF TableInv, Smac!TypeOK
  <2>6. Smac!Uptime = Stamp(clock, clock) /\ Smac!Uptime # 0
    BY UptimeRange, SmacAssumption DEF Smac!Uptime, Stamp, TableInv, Smac!TableAssumption
  <2>7. ASSUME NEW x \in Smac!Known'
        PROVE  lastAccess'[x] = Stamp(used'[x], clock)
    <3>1. x \in Smac!Known /\ x \in IPs
      BY <2>4, <2>7 DEF Smac!Known
    <3>2. CASE x = ip
      BY <2>2, <2>3, <2>5, <2>6, <3>2 DEF TableInv, Smac!TypeOK
    <3>3. CASE x # ip
      <4>1. lastUptimeRead # 0 /\ lastAccess[x] = Stamp(used[x], looked)
        BY <2>3, <3>1, <3>3 DEF AgesInv
      <4>2. Smac!Aged(lastAccess)[x] = Stamp(used[x], clock)
        BY <3>1, <4>1, AgedStamp
      <4>3. lastAccess'[x] = Smac!Aged(lastAccess)[x] /\ used'[x] = used[x]
        BY <2>2, <2>3, <2>5, <3>1, <3>3 DEF TableInv, Smac!TypeOK
      <4> QED
        BY <4>2, <4>3
    <3> QED
      BY <3>2, <3>3
  <2>8. \A x \in IPs : used'[x] <= clock
    BY <2>2, <2>3 DEF AgesInv, TableInv, Smac!TypeOK
  <2> QED
    BY <2>2, <2>6, <2>7, <2>8, SmacAssumption
       DEF AgesInv, Stamp, TableInv, Smac!TypeOK, Smac!TableAssumption
<1> QED
  BY <1>1, <1>3, <1>4, <1>5, <1>6, <1>7 DEF Smac!Next, Smac!Step

\* A step that frees an entry and keeps another.
LEMMA OldestFreed ==
  ASSUME TableInv, AgesInv, Smac!Next \/ UNCHANGED smacVars,
         NEW ip \in Smac!Known, NEW other \in Smac!Known, mac'[ip] = None, mac'[other] # None
  PROVE  used'[ip] <= used'[other] + 1
<1>1. ip \in IPs /\ other \in IPs /\ mac[ip] # None /\ mac[other] # None
  BY DEF Smac!Known
<1>2. PICK t \in Senders : Smac!Cache(t)
  <2>1. ~(UNCHANGED mac)
    BY <1>1
  <2>2. ~Smac!CleanupState
    BY <1>1 DEF Smac!CleanupState
  <2>3. ASSUME NEW t \in Senders, Smac!Change(t) PROVE FALSE
    <3>1. mac' = [mac EXCEPT ![op[t].ip] = op[t].mac] /\ smacPc[t] = "lock"
      BY <2>3, Zenon DEF Smac!Change
    <3>2. op[t].mac \in Guests /\ op[t].mac # None
      BY <3>1, SmacAssumption DEF TableInv, Adding, Smac!TableAssumption
    <3> QED
      BY <1>1, <3>1, <3>2 DEF TableInv, Smac!TypeOK
  <2> QED
    BY <2>1, <2>2, <2>3 DEF Smac!Next, Smac!Step, Smac!Tick, Smac!SetMac, Smac!Call,
       Smac!CompareIP, Smac!CompareMAC, Smac!NoMemory, Smac!Return, Smac!table, smacVars
<1>3. PICK new, access, oldest :
        /\ new = op[t].ip /\ access = [Smac!Aged(lastAccess) EXCEPT ![new] = Smac!Uptime]
        /\ oldest = Smac!Oldest(access, new)
  OBVIOUS
<1>4. /\ smacPc[t] = "set" /\ used' = [used EXCEPT ![new] = clock]
      /\ (\E victim \in oldest : Smac!Remove(victim)) \/ UNCHANGED mac
  BY <1>2, <1>3, Zenon DEF Smac!Cache
<1>5. ip \in oldest
  <2>1. PICK victim \in oldest : mac' = [mac EXCEPT ![victim] = None]
    BY <1>1, <1>4 DEF Smac!Remove
  <2> QED
    BY <1>1, <2>1 DEF TableInv, Smac!TypeOK
<1>6. ip # new /\ (other # new => access[ip] <= access[other])
  BY <1>3, <1>5 DEF Smac!Oldest
<1>7. new \in IPs /\ \A x \in IPs \ {new} : Ready(x)
  BY <1>3, <1>4 DEF TableInv, Adding, Ready
<1>8. /\ used'[ip] = used[ip] /\ used[ip] \in Nat /\ used[ip] <= clock
      /\ used'[other] = (IF other = new THEN clock ELSE used[other])
      /\ used[other] \in Nat /\ used[other] <= clock
      /\ clock \in Nat /\ clock < 2 * Period
  BY <1>1, <1>4, <1>6, <1>7 DEF AgesInv, TableInv, Smac!TypeOK
<1>9. CASE other = new
  BY <1>8, <1>9
<1>10. CASE other # new
  <2>1. ASSUME NEW x \in {ip, other} PROVE access[x] = Stamp(used[x], clock)
    <3>1. x \in IPs /\ x \in Smac!Known /\ x # new /\ Ready(x)
      BY <1>1, <1>6, <1>7, <1>10, <2>1
    <3>2. lastUptimeRead # 0 /\ lastAccess[x] = Stamp(used[x], looked)
      BY <3>1 DEF AgesInv
    <3>3. Smac!Aged(lastAccess)[x] = Stamp(used[x], clock)
      BY <3>1, <3>2, AgedStamp
    <3>4. Smac!Aged(lastAccess) \in [IPs -> 0 .. 2 * Period - 1]
      BY AgedType DEF TableInv, Smac!TypeOK
    <3> QED
      BY <1>3, <3>1, <3>3, <3>4
  <2>2. Stamp(used[ip], clock) <= Stamp(used[other], clock)
    BY <1>6, <1>10, <2>1
  <2> QED
    BY <1>8, <1>10, <2>2, StampsOrdered
<1> QED
  BY <1>9, <1>10

\* As long as the uptime wraps but once, an entry is freed only if none that stays was last the
\* newest much earlier (TrimLookupTableIfNecessary, with the aging in GetSystemUptime).
THEOREM EvictsOldestHolds ==
  ASSUME MaxClock < 2 * Period
  PROVE  MCSpec => EvictsOldest
<1>1. MCInit => TableInv /\ AgesInv
  BY TableStart, SmacAssumption
     DEF MCInit, Smac!Init, AgesInv, Smac!Known, Smac!TableAssumption
<1>2. /\ TableInv /\ AgesInv
      /\ [MCNext]_<<part, vars, smacVars, rewriteVars, packetVars>>
      => TableInv' /\ AgesInv'
  BY TableKept, AgesKept DEF MCNext
<1>3. /\ TableInv /\ AgesInv
      /\ [MCNext]_<<part, vars, smacVars, rewriteVars, packetVars>>
      => [\A ip, other \in Smac!Known :
            mac'[ip] = None /\ mac'[other] # None => used'[ip] <= used'[other] + 1]_(Smac!vars)
  BY OldestFreed DEF MCNext
<1> QED
  BY <1>1, <1>2, <1>3, PTL DEF MCSpec, EvictsOldest, Smac!EvictsOldest

-----------------------------------------------------------------------------
(* Where the headers and options of a frame are.                            *)

\* A set of sets that is not empty has one that is a least one in it.
LEMMA LeastIn ==
  ASSUME NEW D, IsFiniteSet(D), NEW bad \in SUBSET (SUBSET D), bad # {}
  PROVE  \E d \in bad : \A x \in d : d \ {x} \notin bad
<1> DEFINE sizes == {n \in Nat : \E d \in bad : Cardinality(d) = n}
<1>1. \A d \in bad : IsFiniteSet(d) /\ Cardinality(d) \in Nat
  BY FS_Subset, FS_CardinalityType
<1>2. sizes # {} /\ sizes \in SUBSET Nat
  BY <1>1
<1>3. PICK m \in sizes : \A n \in sizes : m <= n
  BY <1>2, LeastExists
<1>4. PICK d \in bad : Cardinality(d) = m
  OBVIOUS
<1>5. ASSUME NEW x \in d, d \ {x} \in bad PROVE FALSE
  <2>1. Cardinality(d \ {x}) = m - 1 /\ Cardinality(d \ {x}) \in Nat
    BY <1>1, <1>4, <1>5, FS_RemoveElement
  <2>2. m - 1 \in sizes
    BY <1>5, <2>1
  <2> QED
    BY <1>3, <2>2
<1> QED
  BY <1>4, <1>5

\* Two functions on the sets of indices that a fold goes through agree if they agree at first and
\* keep agreeing.
LEMMA SameFold ==
  ASSUME NEW D, IsFiniteSet(D), NEW g, NEW h, g[{}] = h[{}],
         \A d \in SUBSET D : d # {} => \E x \in d : g[d \ {x}] = h[d \ {x}] => g[d] = h[d]
  PROVE  g[D] = h[D]
<1> DEFINE bad == {d \in SUBSET D : g[d] # h[d]}
<1>1. SUFFICES ASSUME bad # {} PROVE FALSE
  OBVIOUS
<1>2. PICK d \in bad : \A x \in d : d \ {x} \notin bad
  BY <1>1, LeastIn
<1>3. d # {}
  OBVIOUS
<1>4. PICK x \in d : g[d \ {x}] = h[d \ {x}] => g[d] = h[d]
  BY <1>3
<1>5. d \ {x} \in SUBSET D
  OBVIOUS
<1> QED
  BY <1>2, <1>4, <1>5

\* The sums of what size gives for the elements of a set, added up in the order of the fold.
Chosen(d) == CHOOSE x \in d : TRUE

Sums(D, size, g) ==
  [d \in SUBSET D |-> IF d = {} THEN 0 ELSE g[d \ {Chosen(d)}] + size[Chosen(d)]]

SumOf(D, size) == CHOOSE g : g = Sums(D, size, g)

\* There are such sums: those of the sets with fewer elements give those of the sets with one more.
LEMMA SumsExist ==
  ASSUME NEW D, IsFiniteSet(D), NEW size \in [D -> Nat]
  PROVE  \E g : g = Sums(D, size, g) /\ g \in [SUBSET D -> Nat]
<1> DEFINE right(g, n) ==
      /\ g \in [SUBSET D -> Nat]
      /\ \A d \in SUBSET D : Cardinality(d) <= n =>
           g[d] = IF d = {} THEN 0 ELSE g[d \ {Chosen(d)}] + size[Chosen(d)]
           bad == {n \in Nat : ~\E g : right(g, n)}
<1>1. \A d \in SUBSET D : IsFiniteSet(d) /\ Cardinality(d) \in Nat /\ (Cardinality(d) = 0 <=> d = {})
  BY FS_Subset, FS_CardinalityType, FS_EmptySet
<1>2. \A d \in SUBSET D : d # {} =>
        Chosen(d) \in d /\ d \ {Chosen(d)} \in SUBSET D /\ Cardinality(d \ {Chosen(d)}) = Cardinality(d) - 1
  BY <1>1, FS_RemoveElement DEF Chosen
<1>3. \E g : right(g, 0)
  <2> DEFINE g == [d \in SUBSET D |-> 0]
  <2>1. right(g, 0)
    BY <1>1
  <2> QED
    BY <2>1
<1>4. ASSUME NEW n \in Nat, NEW g, right(g, n) PROVE \E h : right(h, n + 1)
  <2> DEFINE h == [d \in SUBSET D |-> IF d = {} THEN 0 ELSE g[d \ {Chosen(d)}] + size[Chosen(d)]]
  <2>1. g \in [SUBSET D -> Nat]
    BY <1>4
  <2>2. \A d \in SUBSET D : d # {} => g[d \ {Chosen(d)}] \in Nat /\ size[Chosen(d)] \in Nat
    BY <1>2, <2>1
  <2>3. h \in [SUBSET D -> Nat]
    BY <2>2
  <2>4. \A d \in SUBSET D : Cardinality(d) <= n => h[d] = g[d]
    BY <1>4
  <2>5. ASSUME NEW d \in SUBSET D, Cardinality(d) <= n + 1, d # {}
        PROVE  h[d] = h[d \ {Chosen(d)}] + size[Chosen(d)]
    <3>1. d \ {Chosen(d)} \in SUBSET D /\ Cardinality(d \ {Chosen(d)}) <= n
      BY <1>1, <1>2, <2>5
    <3>2. h[d \ {Chosen(d)}] = g[d \ {Chosen(d)}]
      BY <2>4, <3>1
    <3>3. h[d] = g[d \ {Chosen(d)}] + size[Chosen(d)]
      BY <2>5
    <3> QED
      BY <3>2, <3>3
  <2>6. \A d \in SUBSET D : d = {} => h[d] = 0
    OBVIOUS
  <2> HIDE DEF h
  <2>7. right(h, n + 1)
    BY <2>3, <2>5, <2>6
  <2> QED
    BY <2>7
<1> HIDE DEF right
<1>5. bad = {}
  <2> SUFFICES ASSUME bad # {} PROVE FALSE
    OBVIOUS
  <2>1. PICK n \in bad : \A k \in bad : n <= k
    BY LeastExists
  <2>2. n # 0
    BY <1>3
  <2>3. n - 1 \in Nat /\ n - 1 \notin bad
    BY <2>1, <2>2
  <2>4. PICK g : right(g, n - 1)
    BY <2>3
  <2>5. \E h : right(h, n)
    BY <1>4, <2>3, <2>4
  <2> QED
    BY <2>5
<1>6. Cardinality(D) \in Nat /\ \A d \in SUBSET D : Cardinality(d) <= Cardinality(D)
  BY FS_Subset, FS_CardinalityType
<1>7. PICK g : right(g, Cardinality(D))
  BY <1>5, <1>6
<1>8. g \in [SUBSET D -> Nat] /\ \A d \in SUBSET D :
        g[d] = IF d = {} THEN 0 ELSE g[d \ {Chosen(d)}] + size[Chosen(d)]
  BY <1>6, <1>7 DEF right
<1>9. g = Sums(D, size, g)
  BY <1>8 DEF Sums
<1> QED
  BY <1>8, <1>9

\* What SumOf is.
LEMMA SumFacts ==
  ASSUME NEW D, IsFiniteSet(D), NEW size \in [D -> Nat]
  PROVE  /\ SumOf(D, size) \in [SUBSET D -> Nat] /\ SumOf(D, size)[{}] = 0
         /\ \A d \in SUBSET D : d # {} =>
              /\ Chosen(d) \in d
              /\ SumOf(D, size)[d] = SumOf(D, size)[d \ {Chosen(d)}] + size[Chosen(d)]
<1>1. PICK h : h = Sums(D, size, h) /\ h \in [SUBSET D -> Nat]
  BY SumsExist
<1>2. PICK g : g = SumOf(D, size)
  OBVIOUS
<1>3. g = Sums(D, size, g)
  BY <1>1, <1>2, Zenon DEF SumOf
<1>4. /\ g[{}] = 0
      /\ \A d \in SUBSET D : d # {} => g[d] = g[d \ {Chosen(d)}] + size[Chosen(d)]
  <2>1. \A d \in SUBSET D : Sums(D, size, g)[d] = IF d = {} THEN 0 ELSE g[d \ {Chosen(d)}] + size[Chosen(d)]
    BY DEF Sums
  <2>2. \A d \in SUBSET D : g[d] = IF d = {} THEN 0 ELSE g[d \ {Chosen(d)}] + size[Chosen(d)]
    BY <1>3, <2>1
  <2> QED
    BY <2>2
<1>5. /\ h[{}] = 0
      /\ \A d \in SUBSET D : d # {} => h[d] = h[d \ {Chosen(d)}] + size[Chosen(d)]
  <2>1. \A d \in SUBSET D : Sums(D, size, h)[d] = IF d = {} THEN 0 ELSE h[d \ {Chosen(d)}] + size[Chosen(d)]
    BY DEF Sums
  <2>2. \A d \in SUBSET D : h[d] = IF d = {} THEN 0 ELSE h[d \ {Chosen(d)}] + size[Chosen(d)]
    BY <1>1, <2>1
  <2> QED
    BY <2>2
<1>6. \A d \in SUBSET D : d # {} => Chosen(d) \in d
  BY DEF Chosen
<1>7. ASSUME NEW e \in SUBSET D PROVE g[e] = h[e]
  <2>1. \A d \in SUBSET e : d # {} => \E x \in d : g[d \ {x}] = h[d \ {x}] => g[d] = h[d]
    <3> SUFFICES ASSUME NEW d \in SUBSET e, d # {}
                 PROVE  \E x \in d : g[d \ {x}] = h[d \ {x}] => g[d] = h[d]
      OBVIOUS
    <3>1. Chosen(d) \in d /\ d \in SUBSET D
      BY <1>6
    <3> QED
      BY <1>4, <1>5, <3>1
  <2>2. IsFiniteSet(e)
    BY FS_Subset
  <2>3. g[{}] = h[{}]
    BY <1>4, <1>5
  <2> QED
    BY <2>1, <2>2, <2>3, SameFold
<1>8. g \in [SUBSET D -> Nat]
  <2>1. g = [d \in SUBSET D |-> g[d]]
    BY <1>3 DEF Sums
  <2>2. \A d \in SUBSET D : g[d] \in Nat
    BY <1>1, <1>7
  <2> QED
    BY <2>1, <2>2
<1> QED
  BY <1>2, <1>4, <1>6, <1>8

\* Whatever element is taken last.
LEMMA SumWithout ==
  ASSUME NEW D, IsFiniteSet(D), NEW size \in [D -> Nat], NEW e \in SUBSET D, NEW n \in e
  PROVE  SumOf(D, size)[e] = SumOf(D, size)[e \ {n}] + size[n]
<1>1. PICK g \in [SUBSET D -> Nat] : g = SumOf(D, size)
  BY SumFacts
<1> DEFINE bad == {d \in SUBSET D : \E x \in d : g[d] # g[d \ {x}] + size[x]}
<1>2. \A d \in SUBSET D : d # {} => Chosen(d) \in d /\ g[d] = g[d \ {Chosen(d)}] + size[Chosen(d)]
  BY <1>1, SumFacts
<1>3. bad = {}
  <2> SUFFICES ASSUME bad # {} PROVE FALSE
    OBVIOUS
  <2>1. PICK d \in bad : \A x \in d : d \ {x} \notin bad
    BY LeastIn
  <2>2. PICK x \in d : g[d] # g[d \ {x}] + size[x]
    OBVIOUS
  <2>3. PICK y \in d : y = Chosen(d) /\ g[d] = g[d \ {y}] + size[y]
    BY <1>2
  <2>4. x # y
    BY <2>2, <2>3
  <2>5. g[d \ {y}] = g[(d \ {y}) \ {x}] + size[x]
    BY <2>1, <2>4
  <2>6. g[d \ {x}] = g[(d \ {x}) \ {y}] + size[y]
    BY <2>1, <2>4
  <2>7. (d \ {x}) \ {y} = (d \ {y}) \ {x} /\ (d \ {x}) \ {y} \in SUBSET D
    OBVIOUS
  <2>8. PICK r \in Nat : r = g[(d \ {x}) \ {y}]
    BY <2>7
  <2>9. PICK a \in Nat, b \in Nat : a = size[x] /\ b = size[y]
    OBVIOUS
  <2>10. g[d \ {y}] = r + a /\ g[d \ {x}] = r + b
    BY <2>5, <2>6, <2>7, <2>8, <2>9, Zenon
  <2>11. g[d] = (r + a) + b
    BY <2>3, <2>9, <2>10
  <2>12. g[d] # (r + b) + a
    BY <2>2, <2>9, <2>10
  <2>13. (r + a) + b = (r + b) + a
    BY <2>8, <2>9
  <2> QED
    BY <2>11, <2>12, <2>13
<1> QED
  BY <1>1, <1>3

\* The sum of a part does not depend on what it is a part of.
LEMMA SumOfPart ==
  ASSUME NEW D, IsFiniteSet(D), NEW size \in [D -> Nat],
         NEW e \in SUBSET D, NEW small \in [e -> Nat], \A x \in e : small[x] = size[x]
  PROVE  SumOf(e, small)[e] = SumOf(D, size)[e]
<1>1. IsFiniteSet(e)
  BY FS_Subset
<1>2. PICK g : g = SumOf(D, size)
  OBVIOUS
<1>3. PICK h : h = SumOf(e, small)
  OBVIOUS
<1>4. g[{}] = 0 /\ \A d \in SUBSET D : d # {} => Chosen(d) \in d /\ g[d] = g[d \ {Chosen(d)}] + size[Chosen(d)]
  BY <1>2, SumFacts
<1>5. h[{}] = 0 /\ \A d \in SUBSET e : d # {} => Chosen(d) \in d /\ h[d] = h[d \ {Chosen(d)}] + small[Chosen(d)]
  BY <1>1, <1>3, SumFacts
<1>6. \A d \in SUBSET e : d # {} => \E x \in d : h[d \ {x}] = g[d \ {x}] => h[d] = g[d]
  <2> SUFFICES ASSUME NEW d \in SUBSET e, d # {}
               PROVE  \E x \in d : h[d \ {x}] = g[d \ {x}] => h[d] = g[d]
    OBVIOUS
  <2>1. d \in SUBSET D /\ Chosen(d) \in d /\ small[Chosen(d)] = size[Chosen(d)]
    BY <1>5
  <2> QED
    BY <1>4, <1>5, <2>1
<1>7. h[{}] = g[{}]
  BY <1>4, <1>5
<1>8. h[e] = g[e]
  BY <1>1, <1>6, <1>7, SameFold
<1> QED
  BY <1>2, <1>3, <1>8

\* The sum of a set is that of any one of its elements and of the rest.
Additive(D, size) == \A e \in SUBSET D : \A x \in e : SumOf(D, size)[e] = SumOf(D, size)[e \ {x}] + size[x]

\* The sums of a finite set's subsets are natural numbers, and additive.
LEMMA SumTo ==
  ASSUME NEW D, IsFiniteSet(D), NEW size \in [D -> Nat]
  PROVE  Additive(D, size)
<1> SUFFICES ASSUME NEW e \in SUBSET D, NEW x \in e
             PROVE  SumOf(D, size)[e] = SumOf(D, size)[e \ {x}] + size[x]
  BY DEF Additive
<1> QED
  BY SumWithout, SMT

\* Where the k-th begins of things that have these sizes and follow each other.
Position(size, k) == SumOf(DOMAIN size, size)[1 .. k - 1]

\* The first is at 0, and each behind the one before it.
LEMMA PositionFacts ==
  ASSUME NEW n \in Nat, NEW size \in [1 .. n -> Nat]
  PROVE  /\ \A k \in 1 .. n + 1 : Position(size, k) \in Nat
         /\ Position(size, 1) = 0
         /\ \A k \in 1 .. n : Position(size, k + 1) = Position(size, k) + size[k]
<1>1. IsFiniteSet(1 .. n) /\ DOMAIN size = 1 .. n
  BY FS_Interval
<1>2. PICK g \in [SUBSET (1 .. n) -> Nat] : g = SumOf(1 .. n, size) /\ g[{}] = 0
  BY <1>1, SumFacts
<1>3. \A k \in 1 .. n + 1 : 1 .. k - 1 \in SUBSET (1 .. n)
  OBVIOUS
<1>4. 1 .. 1 - 1 = {}
  OBVIOUS
<1>5. ASSUME NEW k \in 1 .. n PROVE g[1 .. k] = g[1 .. k - 1] + size[k]
  <2>1. 1 .. k \in SUBSET (1 .. n) /\ k \in 1 .. k /\ (1 .. k) \ {k} = 1 .. k - 1
    OBVIOUS
  <2>2. ASSUME NEW D, D = 1 .. n PROVE SumOf(D, size)[1 .. k] = SumOf(D, size)[(1 .. k) \ {k}] + size[k]
    <3>1. PICK e \in SUBSET D : e = 1 .. k
      BY <2>1, <2>2
    <3>2. k \in e /\ IsFiniteSet(D)
      BY <1>1, <2>1, <2>2, <3>1
    <3>3. size \in [D -> Nat]
      BY <2>2
    <3>4. SumOf(D, size)[e] = SumOf(D, size)[e \ {k}] + size[k]
      <4>1. Additive(D, size)
        BY <3>2, <3>3, SumTo
      <4> QED
        BY <3>2, <4>1, Zenon DEF Additive
    <3> QED
      BY <3>1, <3>4
  <2>3. SumOf(1 .. n, size)[1 .. k] = SumOf(1 .. n, size)[(1 .. k) \ {k}] + size[k]
    BY <2>2
  <2> QED
    BY <1>2, <2>1, <2>3
<1>6. \A k \in 1 .. n : (k + 1) - 1 = k
  OBVIOUS
<1>7. \A k : Position(size, k) = g[1 .. k - 1]
  BY <1>1, <1>2 DEF Position
<1>8. \A k \in 1 .. n + 1 : Position(size, k) \in Nat
  BY <1>3, <1>7
<1>9. Position(size, 1) = 0
  BY <1>2, <1>4, <1>7
<1>10. ASSUME NEW k \in 1 .. n PROVE Position(size, k + 1) = Position(size, k) + size[k]
  <2>1. Position(size, k + 1) = g[1 .. k]
    BY <1>6, <1>7
  <2> QED
    BY <1>5, <1>7, <2>1
<1> QED
  BY <1>8, <1>9, <1>10

\* No place is before that of one that comes earlier.
LEMMA PositionsOrdered ==
  ASSUME NEW n \in Nat, NEW size \in [1 .. n -> Nat], NEW k \in 1 .. n + 1, NEW m \in 1 .. n + 1, k <= m
  PROVE  Position(size, k) <= Position(size, m)
<1> DEFINE bad == {j \in Nat : k + j <= n + 1 /\ ~(Position(size, k) <= Position(size, k + j))}
<1>1. SUFFICES bad = {}
  <2>1. m - k \in Nat /\ k + (m - k) = m /\ k + (m - k) <= n + 1
    OBVIOUS
  <2> QED
    BY <1>1, <2>1
<1>2. SUFFICES ASSUME bad # {} PROVE FALSE
  OBVIOUS
<1>3. PICK j \in bad : \A at \in bad : j <= at
  <2>1. bad \in SUBSET Nat
    OBVIOUS
  <2> HIDE DEF bad
  <2> QED
    BY <1>2, <2>1, LeastExists
<1>4. j # 0
  <2>1. Position(size, k) \in Nat
    BY PositionFacts
  <2>2. k + 0 = k
    OBVIOUS
  <2> QED
    BY <2>1, <2>2
<1>5. j - 1 \in Nat /\ j - 1 \notin bad /\ k + (j - 1) \in 1 .. n /\ (k + (j - 1)) + 1 = k + j
  BY <1>3, <1>4
<1>6. Position(size, k) <= Position(size, k + (j - 1))
  BY <1>5
<1>7. PICK at \in 1 .. n : at = k + (j - 1)
  BY <1>5
<1>8. Position(size, at + 1) = Position(size, at) + size[at] /\ size[at] \in Nat /\ Position(size, at) \in Nat
      /\ Position(size, k) \in Nat
  <2> HIDE DEF bad
  <2>1. /\ \A x \in 1 .. n + 1 : Position(size, x) \in Nat
        /\ \A x \in 1 .. n : Position(size, x + 1) = Position(size, x) + size[x]
    BY PositionFacts
  <2>2. at \in 1 .. n + 1 /\ k \in 1 .. n + 1
    OBVIOUS
  <2>3. size[at] \in Nat
    BY <1>7
  <2> QED
    BY <2>1, <2>2, <2>3, Zenon
<1>9. Position(size, k) <= Position(size, at + 1)
  BY <1>6, <1>7, <1>8
<1>10. at + 1 = k + j
  BY <1>5, <1>7
<1> QED
  BY <1>9, <1>10

\* Of the first of these things the sum is where the next begins.
LEMMA PrefixSum ==
  ASSUME NEW n \in Nat, NEW size \in [1 .. n -> Nat], NEW k \in 1 .. n + 1,
         NEW small \in [1 .. k - 1 -> Nat], \A at \in 1 .. k - 1 : small[at] = size[at]
  PROVE  SumOf(1 .. k - 1, small)[1 .. k - 1] = Position(size, k)
<1>1. PICK e : e = 1 .. k - 1
  OBVIOUS
<1>2. PICK D : D = 1 .. n
  OBVIOUS
<1>3. e \in SUBSET D
  BY <1>1, <1>2
<1>4. IsFiniteSet(D) /\ size \in [D -> Nat]
  <2>1. IsFiniteSet(1 .. n)
    BY FS_Interval
  <2> QED
    BY <1>2, <2>1
<1>5. small \in [e -> Nat] /\ \A x \in e : small[x] = size[x]
  BY <1>1
<1>6. SumOf(e, small)[e] = SumOf(D, size)[e]
  BY <1>3, <1>4, <1>5, SumOfPart, SMTT(40)
<1>7. DOMAIN size = D
  BY <1>4
<1> QED
  BY <1>1, <1>6, <1>7, Zenon DEF Position

\* The headers and options there are, and how many bytes those of a frame take.
HeaderStates == [kind : {"dest", "auth"}, len : 0 .. 255]
OptionStates == [type : {"source", "target"}, len : 0 .. 255]
HeaderSizes(f) == [at \in DOMAIN f.headers |-> Rewrite!HeaderSize(f.headers[at])]
OptionSize(o)  == IF o.len = 0 THEN 8 ELSE 8 * o.len
OptionSizes(f) == [at \in DOMAIN f.options |-> OptionSize(f.options[at])]

\* A header or an option takes 8 bytes or more.
LEMMA SizesFacts ==
  ASSUME NEW f, f.headers \in Seq(HeaderStates), f.options \in Seq(OptionStates)
  PROVE  /\ HeaderSizes(f) \in [1 .. Len(f.headers) -> Nat]
         /\ \A at \in 1 .. Len(f.headers) :
              HeaderSizes(f)[at] = Rewrite!HeaderSize(f.headers[at]) /\ HeaderSizes(f)[at] >= 8
         /\ OptionSizes(f) \in [1 .. Len(f.options) -> Nat]
         /\ \A at \in 1 .. Len(f.options) :
              OptionSizes(f)[at] = OptionSize(f.options[at]) /\ OptionSizes(f)[at] >= 8
<1>1. PICK h : h = f.headers
  OBVIOUS
<1>2. PICK o : o = f.options
  OBVIOUS
<1>3. /\ h \in Seq(HeaderStates) /\ DOMAIN h = 1 .. Len(h) /\ Len(h) \in Nat
      /\ o \in Seq(OptionStates) /\ DOMAIN o = 1 .. Len(o) /\ Len(o) \in Nat
  BY <1>1, <1>2
<1>4. ASSUME NEW at \in 1 .. Len(h) PROVE Rewrite!HeaderSize(h[at]) \in Nat /\ Rewrite!HeaderSize(h[at]) >= 8
  <2>1. h[at] \in HeaderStates
    BY <1>3
  <2>2. PICK n \in 0 .. 255 : n = h[at].len
    BY <2>1 DEF HeaderStates
  <2>3. (n + 2) * 4 \in Nat /\ (n + 1) * 8 \in Nat /\ (n + 2) * 4 >= 8 /\ (n + 1) * 8 >= 8
    OBVIOUS
  <2> QED
    BY <2>2, <2>3 DEF Rewrite!HeaderSize
<1>5. ASSUME NEW at \in 1 .. Len(o) PROVE OptionSize(o[at]) \in Nat /\ OptionSize(o[at]) >= 8
  <2>1. o[at] \in OptionStates
    BY <1>3
  <2>2. PICK n \in 0 .. 255 : n = o[at].len
    BY <2>1 DEF OptionStates
  <2>3. 8 * n \in Nat /\ (n # 0 => 8 * n >= 8)
    OBVIOUS
  <2> QED
    BY <2>2, <2>3 DEF OptionSize
<1>6. HeaderSizes(f) = [at \in 1 .. Len(h) |-> Rewrite!HeaderSize(h[at])]
  BY <1>1, <1>3 DEF HeaderSizes
<1>7. OptionSizes(f) = [at \in 1 .. Len(o) |-> OptionSize(o[at])]
  BY <1>2, <1>3 DEF OptionSizes
<1>8. /\ HeaderSizes(f) \in [1 .. Len(h) -> Nat]
      /\ \A at \in 1 .. Len(h) : HeaderSizes(f)[at] = Rewrite!HeaderSize(h[at]) /\ HeaderSizes(f)[at] >= 8
  BY <1>4, <1>6
<1>9. /\ OptionSizes(f) \in [1 .. Len(o) -> Nat]
      /\ \A at \in 1 .. Len(o) : OptionSizes(f)[at] = OptionSize(o[at]) /\ OptionSizes(f)[at] >= 8
  BY <1>5, <1>7
<1> QED
  BY <1>1, <1>2, <1>8, <1>9, Zenon

\* The folds over the headers and the options give these places.
LEMMA HeaderPosition ==
  ASSUME NEW f, f.headers \in Seq(HeaderStates), f.options \in Seq(OptionStates),
         NEW k \in 1 .. Len(f.headers) + 1
  PROVE  Rewrite!HeaderAt(f, k) = Position(HeaderSizes(f), k)
<1> DEFINE s == SubSeq(f.headers, 1, k - 1)
           F(g) == [d \in SUBSET (DOMAIN s) |-> IF d = {} THEN 0
                      ELSE g[d \ {Chosen(d)}] + Rewrite!HeaderSize(s[Chosen(d)])]
           small == [at \in DOMAIN s |-> Rewrite!HeaderSize(s[at])]
<1>1. Rewrite!HeaderAt(f, k) = (CHOOSE g : g = F(g))[DOMAIN s]
  BY Zenon DEF Rewrite!HeaderAt, Rewrite!FoldSeq, Rewrite!FoldFunction,
     Rewrite!FoldFunctionOnSet,
               Rewrite!MapThenFoldSet, Chosen
<1>2. \A g : F(g) = Sums(DOMAIN s, small, g)
  <2>1. \A d \in SUBSET (DOMAIN s) : d # {} => Chosen(d) \in DOMAIN s
    BY DEF Chosen
  <2> HIDE DEF s
  <2> QED
    BY <2>1 DEF Sums
<1>3. /\ DOMAIN f.headers = 1 .. Len(f.headers) /\ Len(f.headers) \in Nat /\ k - 1 \in 0 .. Len(f.headers)
      /\ DOMAIN s = 1 .. k - 1 /\ \A at \in 1 .. k - 1 : s[at] = f.headers[at]
  OBVIOUS
<1>4. HeaderSizes(f) \in [1 .. Len(f.headers) -> Nat]
  BY SizesFacts
<1>5. \A at \in 1 .. k - 1 : at \in 1 .. Len(f.headers) /\ small[at] = HeaderSizes(f)[at]
  BY <1>3 DEF HeaderSizes
<1>6. small \in [1 .. k - 1 -> Nat]
  <2>1. small = [at \in 1 .. k - 1 |-> small[at]]
    BY <1>3
  <2> HIDE DEF small
  <2> QED
    BY <1>4, <1>5, <2>1
<1>7. (CHOOSE g : g = F(g)) = SumOf(DOMAIN s, small)
  <2> HIDE DEF F, small, s
  <2> QED
    BY <1>2, Zenon DEF SumOf
<1> HIDE DEF F, small, s
<1>8. SumOf(1 .. k - 1, small)[1 .. k - 1] = Position(HeaderSizes(f), k)
  BY <1>3, <1>4, <1>5, <1>6, PrefixSum
<1> QED
  BY <1>1, <1>3, <1>7, <1>8, Zenon

\* The same of the options.
LEMMA OptionPosition ==
  ASSUME NEW f, f.headers \in Seq(HeaderStates), f.options \in Seq(OptionStates),
         NEW k \in 1 .. Len(f.options) + 1
  PROVE  Rewrite!OptionAt(f, k) = Rewrite!MessageAt(f) + Rewrite!Body(f) + Position(OptionSizes(f), k)
<1> DEFINE s == SubSeq(f.options, 1, k - 1)
           F(g) == [d \in SUBSET (DOMAIN s) |-> IF d = {} THEN 0
                      ELSE g[d \ {Chosen(d)}] + OptionSize(s[Chosen(d)])]
           small == [at \in DOMAIN s |-> OptionSize(s[at])]
<1>1. Rewrite!OptionAt(f, k) = Rewrite!MessageAt(f) + Rewrite!Body(f) + (CHOOSE g : g = F(g))[DOMAIN s]
  BY Zenon DEF Rewrite!OptionAt, Rewrite!FoldSeq, Rewrite!FoldFunction,
     Rewrite!FoldFunctionOnSet,
               Rewrite!MapThenFoldSet, Chosen, OptionSize
<1>2. \A g : F(g) = Sums(DOMAIN s, small, g)
  <2>1. \A d \in SUBSET (DOMAIN s) : d # {} => Chosen(d) \in DOMAIN s
    BY DEF Chosen
  <2> HIDE DEF s
  <2> QED
    BY <2>1 DEF Sums
<1>3. /\ DOMAIN f.options = 1 .. Len(f.options) /\ Len(f.options) \in Nat /\ k - 1 \in 0 .. Len(f.options)
      /\ DOMAIN s = 1 .. k - 1 /\ \A at \in 1 .. k - 1 : s[at] = f.options[at]
  OBVIOUS
<1>4. OptionSizes(f) \in [1 .. Len(f.options) -> Nat]
  BY SizesFacts
<1>5. \A at \in 1 .. k - 1 : at \in 1 .. Len(f.options) /\ small[at] = OptionSizes(f)[at]
  BY <1>3 DEF OptionSizes
<1>6. small \in [1 .. k - 1 -> Nat]
  <2>1. small = [at \in 1 .. k - 1 |-> small[at]]
    BY <1>3
  <2> HIDE DEF small
  <2> QED
    BY <1>4, <1>5, <2>1
<1>7. (CHOOSE g : g = F(g)) = SumOf(DOMAIN s, small)
  <2> HIDE DEF F, small, s
  <2> QED
    BY <1>2, Zenon DEF SumOf
<1> HIDE DEF F, small, s
<1>8. SumOf(1 .. k - 1, small)[1 .. k - 1] = Position(OptionSizes(f), k)
  BY <1>3, <1>4, <1>5, <1>6, PrefixSum
<1> QED
  BY <1>1, <1>3, <1>7, <1>8, Zenon

-----------------------------------------------------------------------------
(* Sums of words.                                                            *)

\* A number is a multiple, and what is left.
LEMMA DivMod ==
  ASSUME NEW a \in Nat, NEW c \in Nat, c # 0
  PROVE  /\ a \div c \in Nat /\ a % c \in 0 .. c - 1
         /\ a = c * (a \div c) + (a % c)
<1> DEFINE d == a \div c
           m == a % c
<1>1. d \in Nat /\ c * d <= a /\ a < c * d + c
  OBVIOUS
<1>2. m = a - c * d
  OBVIOUS
<1> HIDE DEF d, m
<1>3. PICK e \in Nat : e = c * d
  BY <1>1
<1>4. m \in 0 .. c - 1 /\ a = c * d + m
  BY <1>1, <1>2, <1>3
<1> QED
  BY <1>1, <1>4 DEF d, m

\* Nothing else is its quotient and rest.
LEMMA DivModIs ==
  ASSUME NEW c \in Nat, c # 0, NEW q \in Nat, NEW r \in 0 .. c - 1
  PROVE  (c * q + r) \div c = q /\ (c * q + r) % c = r
<1> DEFINE d == (c * q + r) \div c
<1>1. d \in Nat /\ c * d <= c * q + r /\ c * q + r < c * d + c
  OBVIOUS
<1>2. (c * q + r) % c = (c * q + r) - c * d
  OBVIOUS
<1> HIDE DEF d
<1>3. c * d < c * (q + 1) /\ c * q < c * (d + 1)
  BY <1>1
<1>4. CASE d < q
  <2>1. PICK k \in Nat : q = d + 1 + k
    BY <1>1, <1>4
  <2>2. c * q = c * (d + 1) + c * k /\ c * k >= 0
    BY <1>1, <2>1
  <2> QED
    BY <1>1, <1>3, <2>2
<1>5. CASE d > q
  <2>1. PICK k \in Nat : d = q + 1 + k
    BY <1>1, <1>5
  <2>2. c * d = c * (q + 1) + c * k /\ c * k >= 0
    BY <1>1, <2>1
  <2> QED
    BY <1>1, <1>3, <2>2
<1>6. d = q
  BY <1>1, <1>4, <1>5
<1> QED
  BY <1>2, <1>6 DEF d

\* Numbers that differ by a multiple are both multiples or neither is.
LEMMA SameMultiple ==
  ASSUME NEW c \in Nat, c # 0, NEW a \in Nat, NEW b \in Nat, NEW j \in Int, b = a + j * c
  PROVE  a % c = 0 <=> b % c = 0
<1>1. ASSUME NEW x \in Nat, NEW y \in Nat, NEW k \in Int, y = x + k * c, x % c = 0 PROVE y % c = 0
  <2>1. PICK q \in Nat : x = c * q
    BY <1>1, DivMod
  <2>2. y = c * (q + k)
    BY <1>1, <2>1
  <2>3. q + k \in Nat
    <3> SUFFICES ASSUME q + k < 0 PROVE FALSE
      OBVIOUS
    <3>1. PICK n \in Nat : q + k = -1 - n
      OBVIOUS
    <3>2. y = c * (-1 - n) /\ c * (-1 - n) = -c - c * n /\ c * n >= 0
      BY <2>2, <3>1
    <3> QED
      BY <3>2
  <2>4. PICK p \in Nat : p = q + k
    BY <2>3
  <2>5. y = c * p + 0
    BY <2>2, <2>4
  <2> QED
    BY <2>5, DivModIs
<1>2. a = b + (-j) * c
  OBVIOUS
<1> QED
  <2>1. a % c = 0 => b % c = 0
    BY <1>1
  <2>2. b % c = 0 => a % c = 0
    <3>1. PICK l \in Int : l = -j
      OBVIOUS
    <3>2. a = b + l * c
      BY <1>2, <3>1
    <3> QED
      BY <1>1, <3>2
  <2> QED
    BY <2>1, <2>2

\* One addition of the upper to the lower word.
LEMMA SumOnce ==
  ASSUME W \in Nat, W > 3, NEW x \in 0 .. W * W - 1
  PROVE  /\ Rewrite!SUM32(x) \in 0 .. 2 * (W - 1)
         /\ \E q \in Nat : x = Rewrite!SUM32(x) + q * (W - 1)
<1>1. PICK q \in Nat, r \in 0 .. W - 1 : q = x \div W /\ r = x % W /\ x = W * q + r
  <2>1. x \in Nat /\ W # 0
    OBVIOUS
  <2> QED
    BY <2>1, DivMod
<1>2. q <= W - 1
  <2> SUFFICES ASSUME q >= W PROVE FALSE
    BY <1>1
  <2>1. PICK k \in Nat : q = W + k
    BY <1>1
  <2>2. W * q = W * W + W * k /\ W * k >= 0
    BY <2>1
  <2>3. PICK z \in Nat : z = W * W
    OBVIOUS
  <2> QED
    BY <1>1, <2>2, <2>3
<1>3. Rewrite!SUM32(x) = r + q
  BY <1>1 DEF Rewrite!SUM32
<1>4. x = (r + q) + q * (W - 1)
  <2>1. q * (W - 1) = W * q - q
    OBVIOUS
  <2>2. PICK z \in Nat : z = W * q
    OBVIOUS
  <2> QED
    BY <1>1, <2>1, <2>2
<1>5. r + q \in 0 .. 2 * (W - 1)
  BY <1>1, <1>2
<1> QED
  BY <1>3, <1>4, <1>5

\* The second addition leaves a word.
LEMMA SumTwice ==
  ASSUME W \in Nat, W > 3, NEW x \in 0 .. 2 * (W - 1)
  PROVE  Rewrite!SUM32(x) = (IF x < W THEN x ELSE x - (W - 1)) /\ Rewrite!SUM32(x) \in 0 .. W - 1
<1>1. CASE x < W
  <2>1. x = W * 0 + x /\ x \in 0 .. W - 1
    BY <1>1
  <2>2. (W * 0 + x) \div W = 0 /\ (W * 0 + x) % W = x
    BY <2>1, DivModIs
  <2>3. x \div W = 0 /\ x % W = x
    BY <2>1, <2>2, Zenon
  <2> QED
    BY <1>1, <2>3 DEF Rewrite!SUM32
<1>2. CASE ~(x < W)
  <2>1. PICK r \in 0 .. W - 1 : r = x - W
    BY <1>2
  <2>2. x = W * 1 + r
    BY <2>1
  <2>3. (W * 1 + r) \div W = 1 /\ (W * 1 + r) % W = r
    BY <2>1, DivModIs
  <2>4. x \div W = 1 /\ x % W = r
    BY <2>2, <2>3, Zenon
  <2> QED
    BY <1>2, <2>1, <2>4 DEF Rewrite!SUM32
<1> QED
  BY <1>1, <1>2

\* The words of W values.
LEMMA WordSum ==
  ASSUME W \in Nat, W > 3, NEW x \in 0 .. W - 1
  PROVE  Rewrite!SUM32(x) = x
BY SumTwice

\* The difference of two sums, as it is added to a checksum.
LEMMA DiffIs ==
  ASSUME W \in Nat, W > 3, NEW before \in 0 .. 2 * (W - 1), NEW after \in 0 .. 2 * (W - 1)
  PROVE  LET diff == Rewrite!CalcChecksumDiff(before, after) IN
         /\ diff \in 0 .. 2 * (W - 1) - 1
         /\ \E j \in Int : diff = (after - before) + j * (W - 1)
<1> DEFINE diff == Rewrite!CalcChecksumDiff(before, after)
<1>0. SUFFICES diff \in 0 .. 2 * (W - 1) - 1 /\ \E j \in Int : diff = (after - before) + j * (W - 1)
  OBVIOUS
<1>1. PICK b \in 0 .. W - 1 : b = Rewrite!SUM32(Rewrite!SUM32(before))
                              /\ (b = before \/ b = before - (W - 1))
  BY SumTwice, WordSum
<1>2. PICK a \in 0 .. W - 1 : a = Rewrite!SUM32(Rewrite!SUM32(after))
                              /\ (a = after \/ a = after - (W - 1))
  BY SumTwice, WordSum
<1>3. diff = Rewrite!SUM32(((IF b > a THEN a - 1 ELSE a) - b) % (W * W))
  BY <1>1, <1>2, Zenon DEF Rewrite!CalcChecksumDiff
<1>4. PICK z \in Nat : z = W * W /\ z > 4 * (W - 1) /\ z # 0
  <2>1. PICK k \in Nat : W = k + 4
    OBVIOUS
  <2>2. W * W = (k + 4) * W /\ (k + 4) * W = k * W + 4 * W /\ k * W >= 0
    BY <2>1
  <2> QED
    BY <2>2
<1>5. CASE b > a
  <2>1. PICK r \in 0 .. W - 1 : r = (W + a) - (1 + b)
    BY <1>5
  <2>2. (W - 1) * W + r = (a - 1 - b) + z
    BY <1>4, <2>1
  <2>3. ((a - 1) - b) % z = (W - 1) * W + r
    <3>1. PICK y \in Nat : y = (W - 1) * W + r
      <4>1. (W - 1) * W \in Nat
        OBVIOUS
      <4> QED
        BY <2>1, <4>1
    <3>2. y < z /\ (a - 1) - b = y - z
      BY <1>4, <1>5, <2>2, <3>1
    <3> QED
      BY <1>4, <3>1, <3>2
  <2>4. (W * (W - 1) + r) \div W = W - 1 /\ (W * (W - 1) + r) % W = r
    <3>1. W # 0 /\ W - 1 \in Nat
      OBVIOUS
    <3> QED
      BY <2>1, <3>1, DivModIs
  <2>5. W * (W - 1) + r = (W - 1) * W + r
    OBVIOUS
  <2>6. diff = r + (W - 1)
    <3>1. diff = Rewrite!SUM32(W * (W - 1) + r)
      BY <1>3, <1>4, <1>5, <2>3, <2>5
    <3> HIDE DEF diff
    <3> QED
      BY <2>4, <3>1 DEF Rewrite!SUM32
  <2>7. diff = (a - b) + 2 * (W - 1)
    BY <2>1, <2>6
  <2>8. \E j \in Int : diff = (after - before) + j * (W - 1)
    <3> HIDE DEF diff
    <3>1. PICK m \in Nat : m = W - 1
      OBVIOUS
    <3>2. \E j \in {1, 2, 3} : diff = (after - before) + j * m
      BY <1>1, <1>2, <2>7, <3>1
    <3> QED
      BY <3>1, <3>2
  <2>9. diff \in 0 .. 2 * (W - 1) - 1
    <3> HIDE DEF diff
    <3> QED
      BY <1>5, <2>7
  <2> QED
    BY <2>8, <2>9
<1>6. CASE ~(b > a)
  <2>1. PICK y \in 0 .. W - 1 : y = a - b
    BY <1>6
  <2>2. y % z = y
    BY <1>4, <2>1
  <2>3. diff = y
    <3> HIDE DEF diff
    <3> QED
      BY <1>3, <1>4, <1>6, <2>1, <2>2, WordSum
  <2>4. \E j \in Int : diff = (after - before) + j * (W - 1)
    <3> HIDE DEF diff
    <3>1. PICK m \in Nat : m = W - 1
      OBVIOUS
    <3>2. \E j \in {-1, 0, 1} : diff = (after - before) + j * m
      BY <1>1, <1>2, <2>1, <2>3, <3>1
    <3> QED
      BY <3>1, <3>2
  <2>5. diff \in 0 .. 2 * (W - 1) - 1
    <3> HIDE DEF diff
    <3> QED
      BY <2>1, <2>3
  <2> QED
    BY <2>4, <2>5
<1> QED
  BY <1>5, <1>6

\* The corrected checksum.
LEMMA UpdateIs ==
  ASSUME W \in Nat, W > 3, NEW check \in 0 .. W - 1, NEW diff \in 0 .. 2 * (W - 1) - 1
  PROVE  /\ Rewrite!UpdateSum(check, diff) \in 0 .. W - 1
         /\ \E j \in Int : Rewrite!UpdateSum(check, diff) = (check - diff) + j * (W - 1)
<1> DEFINE new == Rewrite!UpdateSum(check, diff)
<1>1. CASE diff = 0
  <2>1. new = check /\ check = (check - diff) + 0 * (W - 1)
    BY <1>1 DEF Rewrite!UpdateSum
  <2> HIDE DEF new
  <2>2. \E j \in Int : new = (check - diff) + j * (W - 1)
    BY <2>1
  <2>3. new \in 0 .. W - 1
    BY <2>1
  <2> QED
    BY <2>2, <2>3 DEF new
<1>2. CASE diff # 0
  <2>1. PICK y \in 0 .. 3 * (W - 1) : y = W - 1 - check + diff
    OBVIOUS
  <2>2. PICK s \in Nat, at \in {0, 1, 2} :
          s = Rewrite!SUM32(y) /\ s = y - at * (W - 1) /\ s <= W + 1
    <3>1. CASE y < W
      <4>1. Rewrite!SUM32(y) = y
        BY <3>1, WordSum
      <4> QED
        BY <3>1, <4>1
    <3>2. CASE y >= W /\ y < 2 * W
      <4>1. PICK r \in 0 .. W - 1 : y = W * 1 + r /\ r = y - W
        BY <3>2
      <4>2. y \div W = 1 /\ y % W = r
        <5>1. (W * 1 + r) \div W = 1 /\ (W * 1 + r) % W = r
          BY <4>1, DivModIs
        <5> QED
          BY <4>1, <5>1, Zenon
      <4>3. Rewrite!SUM32(y) = y - (W - 1)
        BY <4>1, <4>2 DEF Rewrite!SUM32
      <4> QED
        BY <3>2, <4>3
    <3>3. CASE y >= 2 * W
      <4>1. PICK r \in 0 .. W - 1 : y = W * 2 + r /\ r = y - 2 * W /\ r <= W - 3
        BY <3>3, <2>1
      <4>2. y \div W = 2 /\ y % W = r
        <5>1. (W * 2 + r) \div W = 2 /\ (W * 2 + r) % W = r
          BY <4>1, DivModIs
        <5> QED
          BY <4>1, <5>1, Zenon
      <4>3. Rewrite!SUM32(y) = y - 2 * (W - 1)
        BY <4>1, <4>2 DEF Rewrite!SUM32
      <4> QED
        BY <3>3, <4>1, <4>3
    <3> QED
      BY <3>1, <3>2, <3>3
  <2>3. PICK t \in 0 .. W - 1 : t = Rewrite!SUM32(s) /\ (t = s \/ t = s - (W - 1))
    <3>1. s \in 0 .. 2 * (W - 1)
      BY <2>2
    <3> QED
      BY <3>1, SumTwice
  <2>4. t % W = t
    <3>1. t = W * 0 + t
      OBVIOUS
    <3>2. (W * 0 + t) % W = t
      BY <2>3, DivModIs
    <3> QED
      BY <3>1, <3>2, Zenon
  <2>5. new = W - 1 - (Rewrite!SUM32(Rewrite!SUM32(W - 1 - check + diff)) % W)
    BY <1>2 DEF Rewrite!UpdateSum
  <2>6. Rewrite!SUM32(Rewrite!SUM32(W - 1 - check + diff)) = t
    BY <2>1, <2>2, <2>3
  <2>7. new = W - 1 - t
    BY <2>4, <2>5, <2>6, Zenon
  <2> HIDE DEF new
  <2>8. PICK m \in Nat : m = W - 1
    OBVIOUS
  <2>9. \E j \in {0, 1, 2, 3} : new = (check - diff) + j * m
    <3>1. new = m - t /\ y = m - check + diff /\ (t = s \/ t = s - m) /\ s = y - at * m
      BY <2>1, <2>2, <2>3, <2>7, <2>8
    <3>2. CASE t = s
      <4>1. new = (check - diff) + at * m
        BY <2>2, <2>3, <3>1, <3>2
      <4> QED
        BY <2>2, <4>1
    <3>3. CASE t = s - m
      <4>1. new = (check - diff) + (at + 1) * m
        BY <2>2, <2>3, <3>1, <3>3
      <4>2. at + 1 \in {0, 1, 2, 3}
        BY <2>2
      <4> QED
        BY <4>1, <4>2
    <3> QED
      BY <3>1, <3>2, <3>3
  <2>10. \E j \in Int : new = (check - diff) + j * (W - 1)
    BY <2>8, <2>9
  <2>11. new \in 0 .. W - 1
    BY <2>7
  <2> QED
    BY <2>10, <2>11 DEF new
<1> QED
  BY <1>1, <1>2

-----------------------------------------------------------------------------
(* The rewriting of the frames.                                              *)

\* Where the headers and the options are: each behind the one before it.
LEMMA HeadersAt ==
  ASSUME NEW f \in Rewrite!Ndp
  PROVE  /\ Len(f.headers) \in Nat /\ DOMAIN f.headers = 1 .. Len(f.headers)
         /\ \A k \in 1 .. Len(f.headers) + 1 : Rewrite!HeaderAt(f, k) \in Nat
         /\ Rewrite!HeaderAt(f, 1) = 0
         /\ \A k \in 1 .. Len(f.headers) :
              /\ Rewrite!HeaderAt(f, k + 1) = Rewrite!HeaderAt(f, k) + Rewrite!HeaderSize(f.headers[k])
              /\ Rewrite!HeaderAt(f, k) + 8 <= Rewrite!MessageAt(f)
              /\ f.headers[k].kind \in {"dest", "auth"} /\ f.headers[k].len \in 0 .. 255
         /\ \A j, k \in 1 .. Len(f.headers) : Rewrite!HeaderAt(f, j) = Rewrite!HeaderAt(f, k) => j = k
         /\ Rewrite!MessageAt(f) \in Nat
<1>1. f.headers \in Seq(HeaderStates) /\ f.options \in Seq(OptionStates)
  BY DEF Rewrite!Ndp, HeaderStates, OptionStates
<1>2. PICK n \in Nat : n = Len(f.headers)
  BY <1>1
<1>3. DOMAIN f.headers = 1 .. n
  BY <1>1, <1>2
<1>4. PICK size \in [1 .. n -> Nat] :
        /\ \A at \in 1 .. n : size[at] = Rewrite!HeaderSize(f.headers[at]) /\ size[at] >= 8
        /\ \A k \in 1 .. n + 1 : Rewrite!HeaderAt(f, k) = Position(size, k)
  BY <1>1, <1>2, SizesFacts, HeaderPosition
<1>5. /\ \A k \in 1 .. n + 1 : Position(size, k) \in Nat
      /\ Position(size, 1) = 0
      /\ \A k \in 1 .. n : Position(size, k + 1) = Position(size, k) + size[k]
  BY PositionFacts
<1>6. ASSUME NEW k \in 1 .. n, NEW m \in k + 1 .. n + 1 PROVE Position(size, k) + 8 <= Position(size, m)
  <2>1. Position(size, k + 1) <= Position(size, m)
    BY PositionsOrdered
  <2>2. Position(size, k + 1) = Position(size, k) + size[k] /\ size[k] >= 8
    BY <1>4, <1>5
  <2> QED
    BY <1>5, <2>1, <2>2, SMTT(40)
<1>7. Rewrite!MessageAt(f) = Position(size, n + 1)
  BY <1>2, <1>4 DEF Rewrite!MessageAt
<1>8. \A k \in 1 .. n : k \in 1 .. n + 1 /\ k + 1 \in 1 .. n + 1 /\ n + 1 \in k + 1 .. n + 1
  OBVIOUS
<1>9. \A k \in 1 .. n :
        /\ Rewrite!HeaderAt(f, k + 1) = Rewrite!HeaderAt(f, k) + Rewrite!HeaderSize(f.headers[k])
        /\ Rewrite!HeaderAt(f, k) + 8 <= Rewrite!MessageAt(f)
  BY <1>4, <1>5, <1>6, <1>7, <1>8
<1>10. ASSUME NEW j \in 1 .. n, NEW k \in 1 .. n, Rewrite!HeaderAt(f, j) = Rewrite!HeaderAt(f, k)
       PROVE  j = k
  <2>1. Position(size, j) = Position(size, k) /\ Position(size, k) \in Nat
    BY <1>4, <1>5, <1>8, <1>10
  <2>2. ASSUME j < k PROVE FALSE
    <3>1. k \in j + 1 .. n + 1
      BY <2>2
    <3> QED
      BY <1>6, <2>1, <3>1
  <2>3. ASSUME k < j PROVE FALSE
    <3>1. j \in k + 1 .. n + 1
      BY <2>3
    <3> QED
      BY <1>6, <2>1, <3>1
  <2> QED
    BY <2>2, <2>3
<1>11. \A k \in 1 .. n : f.headers[k].kind \in {"dest", "auth"} /\ f.headers[k].len \in 0 .. 255
  <2> SUFFICES ASSUME NEW k \in 1 .. n
               PROVE  f.headers[k].kind \in {"dest", "auth"} /\ f.headers[k].len \in 0 .. 255
    OBVIOUS
  <2>1. PICK h : h = f.headers
    OBVIOUS
  <2>2. h[k] \in HeaderStates
    BY <1>1, <1>2, <2>1
  <2> QED
    BY <2>1, <2>2 DEF HeaderStates
<1>12. \A k \in 1 .. n + 1 : Rewrite!HeaderAt(f, k) \in Nat
  BY <1>4, <1>5
<1>13. 1 \in 1 .. n + 1 /\ n + 1 \in 1 .. n + 1
  OBVIOUS
<1>14. Rewrite!HeaderAt(f, 1) = 0 /\ Rewrite!MessageAt(f) \in Nat
  BY <1>4, <1>5, <1>7, <1>13
<1> QED
  BY <1>2, <1>3, <1>9, <1>10, <1>11, <1>12, <1>14

\* The options of a message.
LEMMA OptionsAt ==
  ASSUME NEW f \in Rewrite!Ndp
  PROVE  /\ Len(f.options) \in Nat /\ DOMAIN f.options = 1 .. Len(f.options)
         /\ Rewrite!PacketLen(f) \in Int
         /\ \A k \in 1 .. Len(f.options) : Rewrite!OptionAt(f, k) \in Nat
         /\ f.cut < 8 => /\ Rewrite!PacketLen(f) > Rewrite!MessageAt(f)
                         /\ \A k \in 1 .. Len(f.options) : Rewrite!OptionAt(f, k) < Rewrite!PacketLen(f)
<1>1. f.headers \in Seq(HeaderStates) /\ f.options \in Seq(OptionStates) /\ f.cut \in Nat
  BY DEF Rewrite!Ndp, HeaderStates, OptionStates
<1>2. PICK n \in Nat : n = Len(f.options)
  BY <1>1
<1>3. DOMAIN f.options = 1 .. n
  BY <1>1, <1>2
<1>4. PICK body \in Nat : body = Rewrite!Body(f) /\ body >= 8
  BY DEF Rewrite!Ndp, Rewrite!Body, Rewrite!MessageLen, Rewrite!Messages
<1>5. PICK message \in Nat : message = Rewrite!MessageAt(f)
  BY HeadersAt
<1>6. PICK size \in [1 .. n -> Nat] :
        /\ \A at \in 1 .. n : size[at] >= 8
        /\ \A k \in 1 .. n + 1 : Rewrite!OptionAt(f, k) = message + body + Position(size, k)
  BY <1>1, <1>2, <1>4, <1>5, SizesFacts, OptionPosition, ZenonT(60)
<1>7. /\ \A k \in 1 .. n + 1 : Position(size, k) \in Nat
      /\ \A k \in 1 .. n : Position(size, k + 1) = Position(size, k) + size[k]
  BY PositionFacts
<1>8. PICK end \in Nat : end = Position(size, n + 1)
  BY <1>7
<1>9. Rewrite!PacketLen(f) = message + body + end - f.cut
  <2>1. n + 1 \in 1 .. n + 1
    OBVIOUS
  <2>2. Rewrite!OptionAt(f, n + 1) = message + body + end
    BY <1>6, <1>8, <2>1
  <2>3. Rewrite!PacketLen(f) = Rewrite!OptionAt(f, n + 1) - f.cut
    BY <1>2, Zenon DEF Rewrite!PacketLen
  <2> QED
    BY <1>1, <1>4, <1>5, <1>8, <2>2, <2>3, SMTT(40)
<1>10. ASSUME NEW k \in 1 .. n, f.cut < 8 PROVE Rewrite!OptionAt(f, k) < Rewrite!PacketLen(f)
  <2>1. k + 1 \in 1 .. n + 1 /\ n + 1 \in 1 .. n + 1 /\ k + 1 <= n + 1 /\ k \in 1 .. n + 1
    OBVIOUS
  <2>2. Position(size, k + 1) <= end
    BY <1>8, <2>1, PositionsOrdered
  <2>3. PICK here \in Nat : here = Position(size, k) /\ Position(size, k + 1) = here + size[k]
    BY <1>7, <2>1
  <2>4. size[k] \in Nat /\ size[k] >= 8
    BY <1>6
  <2>5. here + 8 <= end
    BY <2>2, <2>3, <2>4
  <2>6. Rewrite!OptionAt(f, k) = message + body + here
    BY <1>6, <2>1, <2>3
  <2> QED
    BY <1>1, <1>9, <1>10, <2>5, <2>6
<1>11. f.cut < 8 => Rewrite!PacketLen(f) > message
  BY <1>1, <1>4, <1>9
<1>12. Rewrite!PacketLen(f) \in Int
  BY <1>1, <1>9
<1>13. \A k \in 1 .. n : Rewrite!OptionAt(f, k) \in Nat
  <2>1. \A k \in 1 .. n : k \in 1 .. n + 1
    OBVIOUS
  <2> QED
    BY <1>6, <1>7, <2>1
<1> QED
  BY <1>2, <1>3, <1>5, <1>10, <1>11, <1>12, <1>13

\* The checksum of a frame is corrected for a change of the upper words.
LEMMA UpperUpdated ==
  ASSUME W \in Nat, W > 3, NEW check \in 0 .. W - 1,
         NEW before \in 0 .. W * W - 1, NEW after \in 0 .. W * W - 1
  PROVE  LET diff == Rewrite!CalcChecksumDiff(Rewrite!SUM32(before), Rewrite!SUM32(after))
             new == Rewrite!UpdateSum(check, diff)
         IN  new \in 0 .. W - 1 /\ \E j \in Int : new + after = check + before + j * (W - 1)
<1>1. PICK b \in 0 .. 2 * (W - 1), p \in Nat : b = Rewrite!SUM32(before) /\ before = b + p * (W - 1)
  BY SumOnce
<1>2. PICK a \in 0 .. 2 * (W - 1), q \in Nat : a = Rewrite!SUM32(after) /\ after = a + q * (W - 1)
  BY SumOnce
<1>3. PICK diff \in 0 .. 2 * (W - 1) - 1, j \in Int :
        diff = Rewrite!CalcChecksumDiff(b, a) /\ diff = (a - b) + j * (W - 1)
  BY DiffIs
<1>4. PICK new \in 0 .. W - 1, l \in Int :
        new = Rewrite!UpdateSum(check, diff) /\ new = (check - diff) + l * (W - 1)
  BY UpdateIs
<1>5. PICK m \in Nat : m = W - 1
  OBVIOUS
<1>6. new + after = check + before + (((l - j) + q) - p) * m
  <2>1. /\ before = b + p * m /\ after = a + q * m /\ diff = (a - b) + j * m
        /\ new = (check - diff) + l * m
    BY <1>1, <1>2, <1>3, <1>4, <1>5
  <2>2. PICK pm \in Int, qm \in Int, jm \in Int, lm \in Int :
          pm = p * m /\ qm = q * m /\ jm = j * m /\ lm = l * m
    OBVIOUS
  <2>3. (((l - j) + q) - p) * m = ((lm - jm) + qm) - pm
    BY <2>2
  <2> QED
    BY <2>1, <2>2, <2>3
<1>7. ((l - j) + q) - p \in Int
  OBVIOUS
<1>8. \E x \in Int : new + after = check + before + x * (W - 1)
  BY <1>5, <1>6, <1>7
<1> QED
  BY <1>1, <1>2, <1>3, <1>4, <1>8

\* A frame with its checksum corrected verifies if it did before.
LEMMA PatchedIs ==
  ASSUME W \in Nat, W > 3, NEW f, f.check \in 0 .. W - 1, f.rest \in Nat,
         f.hi \in 0 .. W * W - 1, f.lo \in 0 .. W - 1,
         NEW hi \in 0 .. W * W - 1, NEW lo \in 0 .. W - 1
  PROVE  /\ Rewrite!PatchedSum(f, hi, lo) \in 0 .. W - 1
         /\ (f.rest + f.hi + f.lo + f.check) % (W - 1) = 0
              <=> (f.rest + hi + lo + Rewrite!PatchedSum(f, hi, lo)) % (W - 1) = 0
<1>1. PICK half \in 0 .. W - 1, j \in Int :
        /\ half = Rewrite!UpdateSum(f.check,
                    Rewrite!CalcChecksumDiff(Rewrite!SUM32(f.hi), Rewrite!SUM32(hi)))
        /\ half + hi = f.check + f.hi + j * (W - 1)
  BY UpperUpdated, ZenonT(60)
<1>2. f.lo \in 0 .. 2 * (W - 1) /\ lo \in 0 .. 2 * (W - 1)
  OBVIOUS
<1>3. PICK diff \in 0 .. 2 * (W - 1) - 1, k \in Int :
        diff = Rewrite!CalcChecksumDiff(f.lo, lo) /\ diff = (lo - f.lo) + k * (W - 1)
  BY <1>2, DiffIs
<1>4. PICK new \in 0 .. W - 1, l \in Int :
        new = Rewrite!UpdateSum(half, diff) /\ new = (half - diff) + l * (W - 1)
  BY UpdateIs
<1>5. Rewrite!PatchedSum(f, hi, lo) = new
  BY <1>1, <1>3, <1>4, Zenon DEF Rewrite!PatchedSum
<1>6. new + hi + lo = f.check + f.hi + f.lo + ((l - k) + j) * (W - 1)
  <2>1. PICK m \in Nat : m = W - 1
    OBVIOUS
  <2>2. PICK jm \in Int, km \in Int, lm \in Int : jm = j * m /\ km = k * m /\ lm = l * m
    OBVIOUS
  <2>3. ((l - k) + j) * m = (lm - km) + jm
    BY <2>2
  <2>4. half + hi = f.check + f.hi + jm /\ diff = (lo - f.lo) + km /\ new = (half - diff) + lm
    BY <1>1, <1>3, <1>4, <2>1, <2>2
  <2>5. PICK c0 \in Int, h0 \in Int, l0 \in Int : c0 = f.check /\ h0 = f.hi /\ l0 = f.lo
    OBVIOUS
  <2>6. half + hi = c0 + h0 + jm /\ diff = (lo - l0) + km
    BY <2>4, <2>5, Zenon
  <2>7. new + hi + lo = c0 + h0 + l0 + ((lm - km) + jm)
    <3>1. /\ new \in Int /\ half \in Int /\ diff \in Int /\ hi \in Int /\ lo \in Int
          /\ c0 \in Int /\ h0 \in Int /\ l0 \in Int /\ jm \in Int /\ km \in Int /\ lm \in Int
          /\ new = (half - diff) + lm
      BY <2>2, <2>4, <2>5
    <3> QED
      BY ONLY <2>6, <3>1
  <2> QED
    BY <2>1, <2>3, <2>5, <2>7, Zenon
<1>7. (l - k) + j \in Int
  OBVIOUS
<1>8. /\ f.hi \in Nat /\ f.lo \in Nat /\ f.check \in Nat /\ hi \in Nat /\ lo \in Nat /\ new \in Nat
  OBVIOUS
<1>9. (f.rest + f.hi + f.lo + f.check) % (W - 1) = 0 <=> (f.rest + hi + lo + new) % (W - 1) = 0
  <2>1. PICK c0 \in Nat, h0 \in Nat, l0 \in Nat, r0 \in Nat, n \in Int :
          c0 = f.check /\ h0 = f.hi /\ l0 = f.lo /\ r0 = f.rest /\ n = (l - k) + j
    BY <1>8
  <2>2. new + hi + lo = c0 + h0 + l0 + n * (W - 1)
    BY <1>6, <2>1, Zenon
  <2>3. (r0 + h0 + l0 + c0) % (W - 1) = 0 <=> (r0 + hi + lo + new) % (W - 1) = 0
    <3>1. hi \in Nat /\ lo \in Nat /\ new \in Nat
      BY <1>8
    <3>2. PICK a \in Nat, b \in Nat : a = r0 + h0 + l0 + c0 /\ b = r0 + hi + lo + new
      BY <3>1
    <3>3. PICK c \in Nat : c = W - 1 /\ c # 0
      OBVIOUS
    <3>4. b = a + n * c
      <4>1. PICK nc \in Int : nc = n * c
        OBVIOUS
      <4>2. new + hi + lo = c0 + h0 + l0 + nc
        BY <2>2, <3>3, <4>1, Zenon
      <4>3. /\ c0 \in Int /\ h0 \in Int /\ l0 \in Int /\ r0 \in Int /\ nc \in Int /\ a \in Int
            /\ b \in Int
        OBVIOUS
      <4> QED
        BY ONLY <3>1, <3>2, <4>1, <4>2, <4>3
    <3>5. a % c = 0 <=> b % c = 0
      BY <3>3, <3>4, SameMultiple
    <3> QED
      BY <3>2, <3>3, <3>5, Zenon
  <2> QED
    BY <2>1, <2>3, Zenon
<1> QED
  BY <1>5, <1>9, Zenon

\* What W is.
LEMMA Width == W \in Nat /\ W > 3
BY RewriteAssumption DEF Rewrite!FramesAssumption

\* What the parts of a frame are.
LEMMA FrameParts ==
  ASSUME NEW f \in Rewrite!Ndp \cup Rewrite!Dhcp
  PROVE  /\ f.check \in 0 .. W - 1 /\ f.rest \in Nat /\ f.hi \in 0 .. W * W - 1 /\ f.lo \in 0 .. W - 1
         /\ f.proto = "icmp" <=> f \in Rewrite!Ndp
         /\ f.proto = "dhcp" <=> f \in Rewrite!Dhcp
<1> USE Width DEF Rewrite!Word, Rewrite!Dword
<1>1. CASE f \in Rewrite!Ndp
  BY <1>1 DEF Rewrite!Ndp, Rewrite!Dhcp
<1>2. CASE f \in Rewrite!Dhcp
  BY <1>2 DEF Rewrite!Ndp, Rewrite!Dhcp
<1> QED
  BY <1>1, <1>2

\* A message with another address and checksum.
RightlyPatched(f, g, hi, lo) ==
  /\ g \in Rewrite!Ndp /\ g.headers = f.headers /\ g.options = f.options
  /\ g.type = f.type /\ g.cut = f.cut /\ g.proto = "icmp" /\ g.hi = hi /\ g.lo = lo
  /\ Rewrite!Verifies(g) <=> Rewrite!Verifies(f)

\* So is the one that is patched.
LEMMA MessagePatched ==
  ASSUME NEW f \in Rewrite!Ndp, NEW hi \in 0 .. W * W - 1, NEW lo \in 0 .. W - 1
  PROVE  RightlyPatched(f, [f EXCEPT !.hi = hi, !.lo = lo,
                                     !.check = Rewrite!PatchedSum(f, hi, lo)], hi, lo)
<1>1. PICK sum \in 0 .. W - 1 :
        /\ sum = Rewrite!PatchedSum(f, hi, lo)
        /\ (f.rest + f.hi + f.lo + f.check) % (W - 1) = 0
             <=> (f.rest + hi + lo + sum) % (W - 1) = 0
  BY Width, FrameParts, PatchedIs
<1>2. PICK g : g = [f EXCEPT !.hi = hi, !.lo = lo, !.check = sum]
  OBVIOUS
<1>3. g \in Rewrite!Ndp
  BY <1>2, ZenonT(60) DEF Rewrite!Ndp, Rewrite!Word, Rewrite!Dword
<1>4. /\ g.headers = f.headers /\ g.options = f.options /\ g.rest = f.rest
      /\ g.type = f.type /\ g.cut = f.cut /\ g.proto = "icmp" /\ g.hi = hi /\ g.lo = lo
      /\ g.check = sum
  BY <1>2 DEF Rewrite!Ndp
<1>5. Rewrite!Verifies(g) <=> Rewrite!Verifies(f)
  BY <1>1, <1>4, Zenon DEF Rewrite!Verifies
<1>6. RightlyPatched(f, g, hi, lo)
  BY <1>3, <1>4, <1>5, Zenon DEF RightlyPatched
<1> QED
  BY <1>1, <1>2, <1>6, Zenon

\* A request that asks for a broadcast answer.
RightlyFlagged(f, g) ==
  /\ g \in Rewrite!Dhcp /\ g.lo = f.lo /\ g.proto = "dhcp"
  /\ Rewrite!IsBroadcast(g)
  /\ g.check = 0 <=> f.check = 0
  /\ f.check # 0 => (Rewrite!Verifies(g) <=> Rewrite!Verifies(f))

\* So is the one whose flags are set.
LEMMA RequestFlagged ==
  ASSUME NEW f \in Rewrite!Dhcp
  PROVE  LET hi == IF Rewrite!IsBroadcast(f) THEN f.hi ELSE f.hi + W \div 2
             sum == Rewrite!UpdateSum(f.check,
                      Rewrite!CalcChecksumDiff(Rewrite!SUM32(f.hi), Rewrite!SUM32(hi)))
         IN  RightlyFlagged(f,
               [f EXCEPT !.hi = hi,
                         !.check = IF @ = 0 THEN 0 ELSE IF sum = 0 THEN W - 1 ELSE sum])
<1>1. W \in Nat /\ W > 3 /\ W # 0
  BY Width
<1> USE <1>1
<1>2. PICK check \in 0 .. W - 1, rest \in Nat, old \in 0 .. W * W - 1 :
        check = f.check /\ rest = f.rest /\ old = f.hi /\ f.lo = 0 /\ rest \in Rewrite!Word \ {0}
  BY Width DEF Rewrite!Dhcp, Rewrite!Word, Rewrite!Dword
<1>3. PICK q \in Nat, r \in 0 .. W - 1 : old = W * q + r /\ r = old % W /\ q = old \div W
  <2>1. old \in Nat
    OBVIOUS
  <2> QED
    BY <1>1, <2>1, DivMod
<1>4. PICK half \in Nat : half = W \div 2 /\ 2 * half <= W /\ W < 2 * half + 2
  BY <1>1
<1>5. Rewrite!IsBroadcast(f) <=> r >= half
  BY <1>2, <1>3, <1>4, Zenon DEF Rewrite!IsBroadcast
<1>6. PICK hi : hi = IF Rewrite!IsBroadcast(f) THEN f.hi ELSE f.hi + W \div 2
  OBVIOUS
<1>7. hi \in 0 .. W * W - 1 /\ hi % W >= half
  <2>1. CASE r >= half
    BY <1>2, <1>3, <1>5, <1>6, <2>1
  <2>2. CASE ~(r >= half)
    <3>1. PICK s \in 0 .. W - 1 : s = r + half /\ s >= half
      BY <1>4, <2>2
    <3>2. hi = W * q + s
      <4>1. hi = (W * q + r) + half
        BY <1>2, <1>3, <1>4, <1>5, <1>6, <2>2
      <4>2. PICK z \in Nat : z = W * q
        BY <1>1
      <4> QED
        BY <3>1, <4>1, <4>2
    <3>3. hi % W = s
      BY <1>1, <3>1, <3>2, DivModIs
    <3>4. W * q + s < W * W
      <4>1. q <= W - 1
        <5> SUFFICES ASSUME q >= W PROVE FALSE
          BY <1>1, <1>3
        <5>1. PICK k \in Nat : q = W + k
          BY <1>1
        <5>2. W * q = W * W + W * k /\ W * k >= 0
          BY <1>1, <5>1
        <5>3. PICK z \in Nat : z = W * W
          BY <1>1
        <5> QED
          BY <1>3, <5>2, <5>3
      <4>2. PICK k \in Nat : W - 1 = q + k
        BY <1>1, <4>1
      <4>3. W * (W - 1) = W * q + W * k /\ W * k >= 0 /\ W * (W - 1) = W * W - W
        BY <1>1, <4>2
      <4>4. PICK z \in Nat, y \in Nat : z = W * W /\ y = W * q
        BY <1>1
      <4> QED
        BY <3>1, <4>3, <4>4
    <3>5. W * q + s \in Nat
      BY <1>1, <3>1
    <3> QED
      BY <3>1, <3>2, <3>3, <3>4, <3>5
  <2> QED
    BY <2>1, <2>2
<1>8. PICK sum \in 0 .. W - 1, j \in Int :
        /\ sum = Rewrite!UpdateSum(f.check,
                   Rewrite!CalcChecksumDiff(Rewrite!SUM32(f.hi), Rewrite!SUM32(hi)))
        /\ sum + hi = check + old + j * (W - 1)
  <2>1. PICK sum \in 0 .. W - 1, j \in Int :
          /\ sum = Rewrite!UpdateSum(check,
                     Rewrite!CalcChecksumDiff(Rewrite!SUM32(old), Rewrite!SUM32(hi)))
          /\ sum + hi = check + old + j * (W - 1)
    BY <1>7, UpperUpdated
  <2> QED
    BY <1>2, <2>1, Zenon
<1>9. PICK new \in 0 .. W - 1 : new = IF f.check = 0 THEN 0 ELSE IF sum = 0 THEN W - 1 ELSE sum
  BY <1>1
<1>10. PICK g : g = [f EXCEPT !.hi = hi, !.check = new]
  OBVIOUS
<1>11. /\ g \in Rewrite!Dhcp /\ g.lo = f.lo /\ g.proto = "dhcp" /\ g.hi = hi /\ g.check = new
       /\ g.rest = f.rest
  BY <1>7, <1>10 DEF Rewrite!Dhcp, Rewrite!Word, Rewrite!Dword
<1>12. Rewrite!IsBroadcast(g)
  BY <1>4, <1>7, <1>11, Zenon DEF Rewrite!IsBroadcast
<1>13. new = 0 <=> f.check = 0
  BY <1>1, <1>9
<1>14. ASSUME f.check # 0 PROVE Rewrite!Verifies(g) <=> Rewrite!Verifies(f)
  <2>1. PICK c \in Nat : c = W - 1 /\ c # 0
    BY <1>1
  <2>2. PICK n \in Int : new + hi = check + old + n * c
    <3>1. CASE sum = 0
      <4>1. new = sum + c
        BY <1>9, <1>14, <2>1, <3>1
      <4>2. new + hi = check + old + (j + 1) * c
        <5>1. PICK jc \in Int : jc = j * c
          BY <2>1
        <5>2. (j + 1) * c = jc + c
          BY <2>1, <5>1
        <5>3. sum + hi = check + old + jc
          BY <1>8, <2>1, <5>1, Zenon
        <5>4. hi \in Int /\ sum \in Int /\ check \in Int /\ old \in Int /\ c \in Int /\ jc \in Int
          BY <1>1, <1>7
        <5> QED
          BY ONLY <4>1, <5>2, <5>3, <5>4
      <4> QED
        BY <4>2
    <3>2. CASE sum # 0
      <4>1. new = sum
        BY <1>9, <1>14, <3>2
      <4> QED
        BY <1>8, <2>1, <4>1
    <3> QED
      BY <3>1, <3>2
  <2>3. PICK a \in Nat, b \in Nat : a = rest + old + 0 + check /\ b = rest + hi + 0 + new
    BY <1>7
  <2>4. b = a + n * c
    <3>1. PICK nc \in Int : nc = n * c
      BY <2>1
    <3>2. /\ hi \in Int /\ new \in Int /\ check \in Int /\ old \in Int /\ nc \in Int /\ rest \in Int
          /\ new + hi = check + old + nc
      BY <1>1, <1>7, <2>2, <3>1
    <3> QED
      BY ONLY <2>3, <3>1, <3>2
  <2>5. a % c = 0 <=> b % c = 0
    BY <2>1, <2>4, SameMultiple
  <2>6. Rewrite!Verifies(f) <=> a % c = 0
    BY <1>2, <2>1, <2>3, Zenon DEF Rewrite!Verifies
  <2>7. Rewrite!Verifies(g) <=> b % c = 0
    BY <1>2, <1>11, <2>1, <2>3, Zenon DEF Rewrite!Verifies
  <2> QED
    BY <2>5, <2>6, <2>7
<1> QED
  <2>1. g = [f EXCEPT !.hi = hi, !.check = IF @ = 0 THEN 0 ELSE IF sum = 0 THEN W - 1 ELSE sum]
    BY <1>9, <1>10
  <2>2. g.check = 0 <=> f.check = 0
    BY <1>11, <1>13
  <2> DEFINE hi2 == IF Rewrite!IsBroadcast(f) THEN f.hi ELSE f.hi + W \div 2
             sum2 == Rewrite!UpdateSum(f.check,
                       Rewrite!CalcChecksumDiff(Rewrite!SUM32(f.hi), Rewrite!SUM32(hi2)))
             g2 == [f EXCEPT !.hi = hi2,
                             !.check = IF @ = 0 THEN 0 ELSE IF sum2 = 0 THEN W - 1 ELSE sum2]
  <2>3. hi2 = hi
    BY <1>6, Zenon
  <2> HIDE DEF hi2
  <2>4. sum2 = sum
    BY <1>8, <2>3, Zenon
  <2> HIDE DEF sum2
  <2>5. g2 = g
    BY <2>1, <2>3, <2>4, Zenon
  <2> HIDE DEF g2
  <2>6. RightlyFlagged(f, g2)
    BY <1>11, <1>12, <1>14, <2>2, <2>5, Zenon DEF RightlyFlagged
  <2> QED
    BY <2>6, Zenon DEF g2, sum2, hi2

\* The types, and which frames are on which way.
RewriteTyped ==
  /\ Rewrite!TypeOK
  /\ rewritePc = "flags" => frame \in Rewrite!Dhcp
  /\ rewritePc \in {"walk", "type", "search"} => frame \in Rewrite!Ndp

\* A turn of the walk, with the header it finds.
Turn(k) ==
  /\ Rewrite!HeaderAt(frame, k) = offset
  /\ headerLen' = Rewrite!Walked(nextHeader, frame.headers[k].len)
  /\ offset' = offset + headerLen'
  /\ nextHeader' = Rewrite!Kind(frame, k + 1) /\ turns' = turns + 1
  /\ UNCHANGED <<rewritePc, option>>

Onward == nextHeader \in {"dest", "auth"} /\ offset < Rewrite!PacketLen(frame) - 1

\* A step of the walk is a turn with some header, or the walk is over.
LEMMA WalkIs ==
  ASSUME Rewrite!Walk
  PROVE  /\ rewritePc = "walk" /\ frame' = frame /\ guestSent' = guestSent /\ smacAddress' = smacAddress
         /\ \/ Onward /\ \E k \in DOMAIN frame.headers : Turn(k)
            \/ /\ Onward /\ ~\E k \in DOMAIN frame.headers : Rewrite!HeaderAt(frame, k) = offset
               /\ Rewrite!Finish("misread")
            \/ ~Onward /\ Rewrite!Finish("type")
<1>1. /\ rewritePc = "walk" /\ frame' = frame /\ guestSent' = guestSent /\ smacAddress' = smacAddress
  BY DEF Rewrite!Walk
<1>2. CASE ~Onward
  BY <1>1, <1>2 DEF Rewrite!Walk, Onward
<1>3. CASE Onward /\ ~\E k \in DOMAIN frame.headers : Rewrite!HeaderAt(frame, k) = offset
  BY <1>1, <1>3 DEF Rewrite!Walk, Onward
<1>4. CASE Onward /\ \E k \in DOMAIN frame.headers : Rewrite!HeaderAt(frame, k) = offset
  <2>1. PICK k \in DOMAIN frame.headers :
          /\ k = CHOOSE n \in DOMAIN frame.headers : Rewrite!HeaderAt(frame, n) = offset
          /\ Rewrite!HeaderAt(frame, k) = offset
    BY <1>4
  <2>2. Turn(k)
    BY <1>4, <2>1, Zenon DEF Rewrite!Walk, Onward, Turn
  <2> QED
    BY <1>1, <1>4, <2>2
<1> QED
  BY <1>2, <1>3, <1>4

\* The length of a header as the walk reads it.
LEMMA WalkedIs ==
  ASSUME headerLen \in Nat, NEW h, h.kind \in {"dest", "auth"}, h.len \in 0 .. 255
  PROVE  /\ Rewrite!Walked(h.kind, h.len) \in Nat
         /\ headerLen < 256 => Rewrite!Walked(h.kind, h.len) = Rewrite!HeaderSize(h)
<1>1. PICK n \in 0 .. 255 : n = h.len
  OBVIOUS
<1>2. headerLen - (headerLen % 256) \in Nat /\ (headerLen < 256 => headerLen - (headerLen % 256) = 0)
  OBVIOUS
<1>3. PICK base \in Nat : base = headerLen - (headerLen % 256) /\ (headerLen < 256 => base = 0)
  BY <1>2
<1>4. Rewrite!Walked(h.kind, n) = IF h.kind = "auth" THEN (base + n + 2) * 4 ELSE (base + n + 1) * 8
  BY <1>3 DEF Rewrite!Walked
<1> QED
  BY <1>1, <1>3, <1>4 DEF Rewrite!HeaderSize

\* Every step keeps the types.
LEMMA TypedKept ==
  ASSUME RewriteTyped, Rewrite!Next \/ UNCHANGED rewriteVars
  PROVE  RewriteTyped'
<1>1. CASE UNCHANGED rewriteVars
  BY <1>1 DEF RewriteTyped, Rewrite!TypeOK, rewriteVars
<1>2. CASE Rewrite!Walk
  <2>1. frame \in Rewrite!Ndp /\ rewritePc = "walk"
    BY WalkIs, <1>2 DEF RewriteTyped
  <2>2. ASSUME NEW k \in DOMAIN frame.headers, Onward, Turn(k) PROVE RewriteTyped'
    <3>1. frame.headers[k].len \in 0 .. 255
      BY <2>1, HeadersAt
    <3>2. Rewrite!Walked(nextHeader, frame.headers[k].len) \in Nat
      <4>1. PICK h : h = [kind |-> nextHeader, len |-> frame.headers[k].len]
        OBVIOUS
      <4>2. headerLen \in Nat /\ h.kind = nextHeader /\ h.kind \in {"dest", "auth"}
            /\ h.len = frame.headers[k].len /\ h.len \in 0 .. 255
        BY <2>2, <3>1, <4>1 DEF Onward, RewriteTyped, Rewrite!TypeOK
      <4>3. Rewrite!Walked(h.kind, h.len) \in Nat
        BY <4>2, WalkedIs
      <4> QED
        BY <4>2, <4>3
    <3>3. headerLen' \in Nat /\ offset' \in Nat /\ turns' \in Nat /\ option' = option
          /\ rewritePc' = rewritePc
      BY <2>2, <3>2 DEF Turn, RewriteTyped, Rewrite!TypeOK
    <3> QED
      BY <1>2, <2>1, <3>3, WalkIs DEF RewriteTyped, Rewrite!TypeOK
  <2>3. ASSUME NEW v \in {"misread", "type"}, Rewrite!Finish(v) PROVE RewriteTyped'
    BY <1>2, <2>1, <2>3, WalkIs DEF RewriteTyped, Rewrite!TypeOK, Rewrite!Finish
  <2> QED
    BY <1>2, <2>2, <2>3, WalkIs
<1>3. CASE Rewrite!Type
  BY <1>3 DEF Rewrite!Type, Rewrite!Finish, RewriteTyped, Rewrite!TypeOK
<1>4. CASE Rewrite!Skip
  BY <1>4 DEF Rewrite!Skip, Rewrite!Finish, RewriteTyped, Rewrite!TypeOK
<1>5. CASE Rewrite!NoOption
  BY <1>5 DEF Rewrite!NoOption, Rewrite!Finish, RewriteTyped, Rewrite!TypeOK
<1>6. CASE Rewrite!Patch
  <2>1. frame \in Rewrite!Ndp
    BY <1>6 DEF Rewrite!Patch, RewriteTyped
  <2>2. PICK hi \in 0 .. W * W - 1, lo \in 0 .. W - 1 : hi = smacAddress[1] /\ lo = smacAddress[2]
    BY DEF RewriteTyped, Rewrite!TypeOK, Rewrite!Word, Rewrite!Dword
  <2>3. frame' = frame \/ frame' = [frame EXCEPT !.hi = hi, !.lo = lo,
                                                 !.check = Rewrite!PatchedSum(frame, hi, lo)]
    BY <1>6, <2>2, Zenon DEF Rewrite!Patch
  <2>4. frame' \in Rewrite!Ndp
    <3>1. [frame EXCEPT !.hi = hi, !.lo = lo, !.check = Rewrite!PatchedSum(frame, hi, lo)] \in Rewrite!Ndp
      BY <2>1, MessagePatched DEF RightlyPatched
    <3> QED
      BY <2>1, <2>3, <3>1, Zenon
  <2>5. rewritePc' \in {"forward", "drop"} /\ UNCHANGED <<guestSent, smacAddress, headerLen,
                                                          offset, option, turns>>
    BY <1>6 DEF Rewrite!Patch, Rewrite!Finish
  <2> QED
    BY <2>4, <2>5 DEF RewriteTyped, Rewrite!TypeOK
<1>7. CASE Rewrite!DhcpFlags
  <2>1. frame \in Rewrite!Dhcp
    BY <1>7 DEF Rewrite!DhcpFlags, RewriteTyped
  <2>2. frame' \in Rewrite!Dhcp
    BY <1>7, <2>1, RequestFlagged, Zenon DEF Rewrite!DhcpFlags, RightlyFlagged
  <2>3. rewritePc' = "forward" /\ UNCHANGED <<guestSent, smacAddress, headerLen, offset, option,
                                              turns>>
    BY <1>7 DEF Rewrite!DhcpFlags, Rewrite!Finish
  <2> QED
    BY <2>2, <2>3 DEF RewriteTyped, Rewrite!TypeOK
<1> QED
  BY <1>1, <1>2, <1>3, <1>4, <1>5, <1>6, <1>7 DEF Rewrite!Next

\* They hold at first.
LEMMA TypedStart ==
  ASSUME Rewrite!Init
  PROVE  RewriteTyped
<1>1. frame \in Rewrite!Ndp \cup Rewrite!Dhcp /\ smacAddress \in Rewrite!Dword \X Rewrite!Word
  BY RewriteAssumption DEF Rewrite!FramesAssumption, Rewrite!Init
<1>2. frame.proto = "dhcp" <=> frame \in Rewrite!Dhcp
  BY <1>1, FrameParts
<1> QED
  BY <1>1, <1>2 DEF Rewrite!Init, RewriteTyped, Rewrite!TypeOK

\* No more of a frame is missing than of its last option, or of what is in front of options, and
\* no extension header that another follows is as long as 256 bytes.
Ordinary(f) ==
  f.proto = "icmp" =>
    f.cut < 8 /\ \A k \in 1 .. Len(f.headers) - 1 : Rewrite!HeaderSize(f.headers[k]) < 256

\* The walk is at the k-th header, or at the message.
WalkAt(k) ==
  /\ offset = Rewrite!HeaderAt(frame, k) /\ nextHeader = Rewrite!Kind(frame, k)
  /\ turns = k - 1 /\ option = 1
  /\ k <= Len(frame.headers) => headerLen < 256

\* The search is at an option, and none of those before it is the one it looks for.
Searching ==
  /\ frame.type \in Rewrite!Messages
  /\ offset = Rewrite!MessageAt(frame)
  /\ option \in 1 .. Len(frame.options) + 1 /\ turns = Len(frame.headers) + option - 1
  /\ \A k \in 1 .. option - 1 : frame.options[k].type # Rewrite!Wanted(frame)

\* A message has been found where it is, in no more turns than there are headers and options.
MessageFound ==
  frame.proto = "icmp" =>
    offset = Rewrite!MessageAt(frame) /\ turns <= Len(frame.headers) + Len(frame.options)

\* The invariant: where the walk and the search are, and what has been patched.
RewriteInv ==
  /\ RewriteTyped
  /\ rewritePc # "misread"
  /\ rewritePc # "forward" => frame = guestSent /\ Ordinary(frame)
  /\ rewritePc = "walk" => \E k \in 1 .. Len(frame.headers) + 1 : WalkAt(k)
  /\ rewritePc = "type" => WalkAt(Len(frame.headers) + 1)
  /\ rewritePc = "search" => Searching
  /\ rewritePc \in {"forward", "drop"} => MessageFound
  /\ Rewrite!ChecksumKept /\ Rewrite!AddressWritten

\* A turn of the walk leaves it at the next header, or at the message.
LEMMA WalkKeeps ==
  ASSUME RewriteInv, Rewrite!Walk
  PROVE  RewriteInv'
<1>1. /\ RewriteTyped' /\ rewritePc = "walk" /\ frame' = frame /\ guestSent' = guestSent
      /\ smacAddress' = smacAddress
      /\ frame \in Rewrite!Ndp /\ frame = guestSent /\ Ordinary(frame)
  BY TypedKept, WalkIs DEF RewriteInv, RewriteTyped, Rewrite!Next
<1>2. PICK n \in Nat : n = Len(frame.headers) /\ DOMAIN frame.headers = 1 .. n
  BY <1>1, HeadersAt
<1>3. PICK k \in 1 .. n + 1 : WalkAt(k)
  BY <1>1, <1>2 DEF RewriteInv
<1>4. /\ frame.proto = "icmp" /\ frame.cut < 8
      /\ \A j \in 1 .. n - 1 : Rewrite!HeaderSize(frame.headers[j]) < 256
  BY <1>1, <1>2, FrameParts DEF Ordinary
<1>5. /\ \A j \in 1 .. n :
           /\ Rewrite!HeaderAt(frame, j + 1) = Rewrite!HeaderAt(frame, j) + Rewrite!HeaderSize(frame.headers[j])
           /\ Rewrite!HeaderAt(frame, j) + 8 <= Rewrite!MessageAt(frame)
           /\ Rewrite!HeaderAt(frame, j) \in Nat
           /\ frame.headers[j].kind \in {"dest", "auth"} /\ frame.headers[j].len \in 0 .. 255
      /\ \A j, m \in 1 .. n : Rewrite!HeaderAt(frame, j) = Rewrite!HeaderAt(frame, m) => j = m
      /\ Rewrite!MessageAt(frame) \in Nat
  <2>1. \A j \in 1 .. n : j \in 1 .. n + 1
    OBVIOUS
  <2>2. \A j \in 1 .. n : Rewrite!HeaderAt(frame, j) \in Nat
    BY <1>1, <1>2, <2>1, HeadersAt
  <2>3. \A j \in 1 .. n :
          /\ Rewrite!HeaderAt(frame, j + 1) = Rewrite!HeaderAt(frame, j) + Rewrite!HeaderSize(frame.headers[j])
          /\ Rewrite!HeaderAt(frame, j) + 8 <= Rewrite!MessageAt(frame)
          /\ frame.headers[j].kind \in {"dest", "auth"} /\ frame.headers[j].len \in 0 .. 255
    BY <1>1, <1>2, HeadersAt
  <2>4. \A j, m \in 1 .. n : Rewrite!HeaderAt(frame, j) = Rewrite!HeaderAt(frame, m) => j = m
    BY <1>1, <1>2, HeadersAt
  <2>5. Rewrite!MessageAt(frame) \in Nat
    BY <1>1, HeadersAt
  <2> QED
    BY <2>2, <2>3, <2>4, <2>5
<1>6. Rewrite!PacketLen(frame) \in Int /\ Rewrite!PacketLen(frame) > Rewrite!MessageAt(frame)
  BY <1>1, <1>4, OptionsAt
<1>7. CASE k = n + 1
  <2>1. nextHeader = "icmp"
    BY <1>2, <1>3, <1>4, <1>7 DEF WalkAt, Rewrite!Kind
  <2>2. Rewrite!Finish("type")
    BY <2>1, WalkIs DEF Onward
  <2>3. rewritePc' = "type" /\ UNCHANGED <<nextHeader, headerLen, offset, option, turns>>
    BY <2>2 DEF Rewrite!Finish
  <2>4. WalkAt(n + 1)'
    BY <1>1, <1>3, <1>7, <2>3 DEF WalkAt
  <2> QED
    BY <1>1, <1>2, <2>3, <2>4 DEF RewriteInv, Rewrite!ChecksumKept, Rewrite!AddressWritten
<1>8. CASE k \in 1 .. n
  <2>1. /\ nextHeader = frame.headers[k].kind /\ offset = Rewrite!HeaderAt(frame, k) /\ headerLen < 256
        /\ turns = k - 1 /\ option = 1
    BY <1>2, <1>3, <1>8 DEF WalkAt, Rewrite!Kind
  <2>2. Onward
    <3>1. offset + 8 <= Rewrite!MessageAt(frame) /\ offset \in Nat
      BY <1>5, <1>8, <2>1
    <3>2. offset < Rewrite!PacketLen(frame) - 1
      BY <1>5, <1>6, <3>1
    <3> QED
      BY <1>5, <1>8, <2>1, <3>2 DEF Onward
  <2>3. PICK m \in 1 .. n : Turn(m)
    BY <1>2, <1>8, <2>1, <2>2, WalkIs
  <2>4. m = k
    BY <1>5, <1>8, <2>1, <2>3 DEF Turn
  <2>5. headerLen' = Rewrite!HeaderSize(frame.headers[k])
    <3>1. headerLen \in Nat
      BY DEF RewriteInv, RewriteTyped, Rewrite!TypeOK
    <3>2. Rewrite!Walked(frame.headers[k].kind, frame.headers[k].len) = Rewrite!HeaderSize(frame.headers[k])
      <4>1. PICK h : h = frame.headers[k]
        OBVIOUS
      <4>2. h.kind \in {"dest", "auth"} /\ h.len \in 0 .. 255
        BY <1>5, <1>8, <4>1
      <4>3. Rewrite!Walked(h.kind, h.len) = Rewrite!HeaderSize(h)
        BY <2>1, <3>1, <4>2, WalkedIs
      <4> QED
        BY <4>1, <4>3, Zenon
    <3> QED
      BY <2>1, <2>3, <2>4, <3>2, Zenon DEF Turn
  <2>6. /\ offset' = offset + headerLen' /\ nextHeader' = Rewrite!Kind(frame, k + 1)
        /\ turns' = turns + 1 /\ rewritePc' = rewritePc /\ option' = option
    BY <2>3, <2>4 DEF Turn
  <2>7. offset' = Rewrite!HeaderAt(frame, k + 1)
    BY <1>5, <1>8, <2>1, <2>5, <2>6
  <2>8. k + 1 <= n => headerLen' < 256
    BY <1>4, <1>8, <2>5
  <2>9. WalkAt(k + 1)'
    BY <1>1, <1>2, <1>8, <2>1, <2>6, <2>7, <2>8 DEF WalkAt
  <2>10. k + 1 \in 1 .. n + 1
    BY <1>8
  <2> QED
    BY <1>1, <1>2, <2>6, <2>9, <2>10 DEF RewriteInv, Rewrite!ChecksumKept,
       Rewrite!AddressWritten
<1> QED
  BY <1>3, <1>7, <1>8

\* The type of the message is read where the message is.
LEMMA TypeKeeps ==
  ASSUME RewriteInv, Rewrite!Type
  PROVE  RewriteInv'
<1>1. /\ RewriteTyped' /\ rewritePc = "type" /\ frame' = frame /\ guestSent' = guestSent
      /\ smacAddress' = smacAddress
      /\ frame \in Rewrite!Ndp /\ frame = guestSent /\ Ordinary(frame)
  BY TypedKept DEF RewriteInv, RewriteTyped, Rewrite!Next, Rewrite!Type
<1>2. PICK n \in Nat, o \in Nat :
        /\ n = Len(frame.headers) /\ o = Len(frame.options)
        /\ DOMAIN frame.headers = 1 .. n /\ DOMAIN frame.options = 1 .. o
  BY <1>1, HeadersAt, OptionsAt
<1>3. frame.proto = "icmp" /\ frame.cut < 8
  BY <1>1, FrameParts DEF Ordinary
<1>4. WalkAt(n + 1)
  BY <1>1, <1>2 DEF RewriteInv
<1>5. nextHeader = "icmp" /\ offset = Rewrite!MessageAt(frame) /\ turns = n /\ option = 1
  BY <1>2, <1>3, <1>4 DEF WalkAt, Rewrite!Kind, Rewrite!MessageAt
<1>6. offset < Rewrite!PacketLen(frame)
  BY <1>1, <1>3, <1>5, OptionsAt, HeadersAt
<1>7. Rewrite!Finish(IF frame.type \in Rewrite!Messages THEN "search" ELSE "forward")
  <2>1. ~(offset >= Rewrite!PacketLen(frame))
    BY <1>1, <1>5, <1>6, OptionsAt, HeadersAt
  <2>2. Rewrite!Finish(CASE nextHeader # "icmp" -> "forward"
                         [] offset >= Rewrite!PacketLen(frame) -> "drop"
                         [] offset # Rewrite!MessageAt(frame) -> "misread"
                         [] frame.type \in Rewrite!Messages -> "search"
                         [] OTHER -> "forward")
    BY Zenon DEF Rewrite!Type
  <2>3. (CASE nextHeader # "icmp" -> "forward"
            [] offset >= Rewrite!PacketLen(frame) -> "drop"
            [] offset # Rewrite!MessageAt(frame) -> "misread"
            [] frame.type \in Rewrite!Messages -> "search"
            [] OTHER -> "forward") = IF frame.type \in Rewrite!Messages THEN "search" ELSE "forward"
    BY <1>5, <2>1
  <2> QED
    BY <2>2, <2>3, Zenon
<1>8. /\ rewritePc' = IF frame.type \in Rewrite!Messages THEN "search" ELSE "forward"
      /\ UNCHANGED <<nextHeader, headerLen, offset, option, turns>>
  BY <1>7 DEF Rewrite!Finish
<1>9. CASE frame.type \in Rewrite!Messages
  <2>1. Searching'
    BY <1>1, <1>2, <1>5, <1>8, <1>9 DEF Searching
  <2> QED
    BY <1>1, <1>8, <1>9, <2>1 DEF RewriteInv, Rewrite!ChecksumKept, Rewrite!AddressWritten
<1>10. CASE frame.type \notin Rewrite!Messages
  <2>1. MessageFound'
    <3>1. offset' = Rewrite!MessageAt(frame') /\ turns' = n
      BY <1>1, <1>5, <1>8
    <3>2. Len(frame'.headers) = n /\ Len(frame'.options) = o
      BY <1>1, <1>2, Zenon
    <3>3. n <= n + o
      OBVIOUS
    <3> QED
      BY <3>1, <3>2, <3>3, Zenon DEF MessageFound
  <2>2. Rewrite!ChecksumKept'
    BY <1>1, <1>3 DEF Rewrite!ChecksumKept, Rewrite!Verifies
  <2>3. Rewrite!AddressWritten'
    BY <1>1, <1>3, <1>10 DEF Rewrite!AddressWritten
  <2> QED
    BY <1>1, <1>8, <1>10, <2>1, <2>2, <2>3 DEF RewriteInv
<1> QED
  BY <1>9, <1>10

\* What a step of the search begins with.
LEMMA SearchIs ==
  ASSUME RewriteInv, rewritePc = "search"
  PROVE  /\ frame \in Rewrite!Ndp /\ frame = guestSent /\ Ordinary(frame) /\ frame.proto = "icmp"
         /\ Len(frame.headers) \in Nat /\ Len(frame.options) \in Nat
         /\ DOMAIN frame.options = 1 .. Len(frame.options)
         /\ Searching
         /\ option <= Len(frame.options) => Rewrite!Has(frame, option, 0)
<1>1. /\ frame \in Rewrite!Ndp /\ frame = guestSent /\ Ordinary(frame) /\ frame.proto = "icmp"
      /\ Searching
  BY FrameParts DEF RewriteInv, RewriteTyped
<1>2. PICK n \in Nat, o \in Nat :
        /\ n = Len(frame.headers) /\ o = Len(frame.options)
        /\ DOMAIN frame.headers = 1 .. n /\ DOMAIN frame.options = 1 .. o
  BY <1>1, HeadersAt, OptionsAt
<1>3. ASSUME option <= o PROVE Rewrite!Has(frame, option, 0)
  <2>1. option \in 1 .. o
    BY <1>1, <1>2, <1>3 DEF Searching
  <2>2. frame.cut < 8
    BY <1>1 DEF Ordinary
  <2>3. Rewrite!OptionAt(frame, option) < Rewrite!PacketLen(frame)
    BY <1>1, <1>2, <2>1, <2>2, OptionsAt
  <2>4. PICK at \in Nat : at = Rewrite!OptionAt(frame, option)
    BY <1>1, <1>2, <2>1, OptionsAt
  <2>5. at + 0 < Rewrite!PacketLen(frame)
    BY <2>3, <2>4
  <2> QED
    BY <1>2, <2>1, <2>4, <2>5 DEF Rewrite!Has
<1> QED
  BY <1>1, <1>2, <1>3

\* An option that is not the one looked for is passed.
LEMMA SkipKeeps ==
  ASSUME RewriteInv, Rewrite!Skip
  PROVE  RewriteInv'
<1>1. /\ RewriteTyped' /\ rewritePc = "search" /\ frame' = frame /\ guestSent' = guestSent
      /\ smacAddress' = smacAddress /\ frame.options[option].type # Rewrite!Wanted(frame)
      /\ Rewrite!Has(frame, option, 0)
  BY TypedKept DEF RewriteInv, Rewrite!Next, Rewrite!Skip
<1>2. frame = guestSent /\ Ordinary(frame) /\ Searching /\ frame.proto = "icmp"
  BY <1>1, SearchIs
<1>3. PICK n \in Nat, o \in Nat : n = Len(frame.headers) /\ o = Len(frame.options)
  BY <1>1, SearchIs
<1>4. option \in 1 .. o /\ turns = n + option - 1
  BY <1>1, <1>2, <1>3 DEF Rewrite!Has, Searching
<1>5. CASE /\ option' = option + 1 /\ turns' = turns + 1
           /\ UNCHANGED <<rewritePc, nextHeader, headerLen, offset>>
  <2>1. Searching'
    <3>1. \A k \in 1 .. (option + 1) - 1 : frame.options[k].type # Rewrite!Wanted(frame)
      BY <1>1, <1>2, <1>4 DEF Searching
    <3>2. option + 1 \in 1 .. o + 1 /\ turns + 1 = n + (option + 1) - 1
      BY <1>4
    <3> QED
      BY <1>1, <1>2, <1>3, <1>5, <3>1, <3>2 DEF Searching
  <2> QED
    BY <1>1, <1>2, <1>5, <2>1 DEF RewriteInv, Rewrite!ChecksumKept, Rewrite!AddressWritten
<1>6. CASE Rewrite!Finish("drop")
  <2>1. rewritePc' = "drop" /\ offset' = offset /\ turns' = turns
    BY <1>6 DEF Rewrite!Finish
  <2>2. MessageFound'
    <3>1. offset' = Rewrite!MessageAt(frame') /\ turns' <= n + o
      BY <1>1, <1>2, <1>4, <2>1 DEF Searching
    <3>2. Len(frame'.headers) = n /\ Len(frame'.options) = o
      BY <1>1, <1>3, Zenon
    <3> QED
      BY <3>1, <3>2, Zenon DEF MessageFound
  <2> QED
    BY <1>1, <1>2, <2>1, <2>2 DEF RewriteInv, Rewrite!ChecksumKept, Rewrite!AddressWritten
<1> QED
  BY <1>5, <1>6 DEF Rewrite!Skip

\* The search ends without an option only where there is none to be found.
LEMMA NoOptionKeeps ==
  ASSUME RewriteInv, Rewrite!NoOption
  PROVE  RewriteInv'
<1>1. /\ RewriteTyped' /\ rewritePc = "search" /\ frame' = frame /\ guestSent' = guestSent
      /\ smacAddress' = smacAddress /\ ~Rewrite!Has(frame, option, 0) /\ Rewrite!Finish("forward")
  BY TypedKept DEF RewriteInv, Rewrite!Next, Rewrite!NoOption
<1>2. frame = guestSent /\ Ordinary(frame) /\ Searching /\ frame.proto = "icmp"
  BY <1>1, SearchIs
<1>3. PICK n \in Nat, o \in Nat :
        n = Len(frame.headers) /\ o = Len(frame.options) /\ DOMAIN frame.options = 1 .. o
  BY <1>1, SearchIs
<1>4. option = o + 1 /\ turns = n + o
  <2>1. ~(option <= o)
    BY <1>1, <1>3, SearchIs
  <2> QED
    <3>1. option \in 1 .. o + 1 /\ turns = n + option - 1
      BY <1>2, <1>3 DEF Searching
    <3>2. option = o + 1
      BY <2>1, <3>1
    <3> QED
      BY <3>1, <3>2
<1>5. rewritePc' = "forward" /\ offset' = offset /\ turns' = turns
  BY <1>1 DEF Rewrite!Finish
<1>6. MessageFound'
  <2>1. offset' = Rewrite!MessageAt(frame') /\ turns' <= n + o
    BY <1>1, <1>2, <1>4, <1>5 DEF Searching
  <2>2. Len(frame'.headers) = n /\ Len(frame'.options) = o
    BY <1>1, <1>3, Zenon
  <2> QED
    BY <2>1, <2>2, Zenon DEF MessageFound
<1>7. Rewrite!ChecksumKept'
  BY <1>1, <1>2 DEF Rewrite!ChecksumKept, Rewrite!Verifies
<1>8. Rewrite!AddressWritten'
  <2>1. \A k \in DOMAIN frame.options : frame.options[k].type # Rewrite!Wanted(frame)
    BY <1>2, <1>3, <1>4 DEF Searching
  <2> QED
    BY <1>1, <1>2, <2>1 DEF Rewrite!AddressWritten, Rewrite!Wanted
<1> QED
  BY <1>1, <1>5, <1>6, <1>7, <1>8 DEF RewriteInv

\* The option found gets the address of the interface, and the checksum is corrected for it.
LEMMA PatchKeeps ==
  ASSUME RewriteInv, Rewrite!Patch
  PROVE  RewriteInv'
<1>1. /\ RewriteTyped' /\ rewritePc = "search" /\ guestSent' = guestSent
      /\ smacAddress' = smacAddress /\ frame.options[option].type = Rewrite!Wanted(frame)
      /\ Rewrite!Has(frame, option, 0)
  BY TypedKept DEF RewriteInv, Rewrite!Next, Rewrite!Patch
<1>2. frame = guestSent /\ Ordinary(frame) /\ Searching /\ frame.proto = "icmp" /\ frame \in Rewrite!Ndp
  BY <1>1, SearchIs
<1>3. PICK n \in Nat, o \in Nat :
        n = Len(frame.headers) /\ o = Len(frame.options) /\ DOMAIN frame.options = 1 .. o
  BY <1>1, SearchIs
<1>4. option \in 1 .. o /\ turns = n + option - 1
  BY <1>1, <1>2, <1>3 DEF Rewrite!Has, Searching
<1>5. offset = Rewrite!MessageAt(frame) /\ turns <= n + o
  BY <1>2, <1>4 DEF Searching
<1>6. CASE Rewrite!Has(frame, option, 7)
  <2>1. PICK hi \in 0 .. W * W - 1, lo \in 0 .. W - 1 : smacAddress = <<hi, lo>>
    BY DEF RewriteInv, RewriteTyped, Rewrite!TypeOK, Rewrite!Word, Rewrite!Dword
  <2>2. smacAddress[1] = hi /\ smacAddress[2] = lo
    BY <2>1
  <2>3. /\ frame' = [frame EXCEPT !.hi = hi, !.lo = lo, !.check = Rewrite!PatchedSum(frame, hi, lo)]
        /\ Rewrite!Finish("forward")
    BY <1>6, <2>2, Zenon DEF Rewrite!Patch
  <2>4. PICK g : g = [frame EXCEPT !.hi = hi, !.lo = lo, !.check = Rewrite!PatchedSum(frame, hi, lo)]
    OBVIOUS
  <2>5. /\ g \in Rewrite!Ndp /\ g.headers = frame.headers /\ g.options = frame.options
        /\ g.type = frame.type /\ g.cut = frame.cut /\ g.proto = "icmp" /\ g.hi = hi /\ g.lo = lo
        /\ Rewrite!Verifies(g) <=> Rewrite!Verifies(frame)
    <3>1. RightlyPatched(frame, g, hi, lo)
      BY <1>2, <2>4, MessagePatched
    <3> QED
      BY <3>1, Zenon DEF RightlyPatched
  <2>6. frame' = g
    BY <2>3, <2>4
  <2>7. rewritePc' = "forward" /\ offset' = offset /\ turns' = turns
    BY <2>3 DEF Rewrite!Finish
  <2>8. MessageFound'
    <3>1. Rewrite!MessageAt(g) = Rewrite!MessageAt(frame)
      BY <2>5, Zenon DEF Rewrite!MessageAt, Rewrite!HeaderAt
    <3>2. offset' = Rewrite!MessageAt(frame') /\ turns' <= n + o
      BY <1>5, <2>6, <2>7, <3>1
    <3>3. Len(frame'.headers) = n /\ Len(frame'.options) = o
      BY <1>3, <2>5, <2>6, Zenon
    <3> QED
      BY <3>2, <3>3, Zenon DEF MessageFound
  <2>9. Rewrite!ChecksumKept'
    <3>1. Rewrite!Verifies(frame') <=> Rewrite!Verifies(guestSent)
      BY <1>2, <2>5, <2>6, Zenon
    <3>2. frame'.proto = "icmp"
      BY <2>5, <2>6
    <3> QED
      BY <1>1, <3>1, <3>2 DEF Rewrite!ChecksumKept, Rewrite!Verifies
  <2>10. Rewrite!AddressWritten'
    <3>1. option \in DOMAIN g.options /\ g.options[option].type = Rewrite!Wanted(g)
          /\ g.type \in Rewrite!Messages
      BY <1>1, <1>2, <1>3, <1>4, <2>5 DEF Rewrite!Wanted, Searching
    <3> QED
      BY <1>1, <2>1, <2>5, <2>6, <3>1 DEF Rewrite!AddressWritten, Rewrite!Wanted
  <2> QED
    BY <1>1, <2>7, <2>8, <2>9, <2>10 DEF RewriteInv
<1>7. CASE ~Rewrite!Has(frame, option, 7)
  <2>1. frame' = frame /\ Rewrite!Finish("drop")
    BY <1>7, Zenon DEF Rewrite!Patch
  <2>2. rewritePc' = "drop" /\ offset' = offset /\ turns' = turns
    BY <2>1 DEF Rewrite!Finish
  <2>3. MessageFound'
    <3>1. offset' = Rewrite!MessageAt(frame') /\ turns' <= n + o
      BY <1>5, <2>1, <2>2
    <3>2. Len(frame'.headers) = n /\ Len(frame'.options) = o
      BY <1>3, <2>1, Zenon
    <3> QED
      BY <3>1, <3>2, Zenon DEF MessageFound
  <2> QED
    BY <1>1, <1>2, <2>1, <2>2, <2>3 DEF RewriteInv, Rewrite!ChecksumKept, Rewrite!AddressWritten
<1> QED
  BY <1>6, <1>7

\* The flags of a request are set, and the checksum is corrected for it.
LEMMA DhcpFlagsKeeps ==
  ASSUME RewriteInv, Rewrite!DhcpFlags
  PROVE  RewriteInv'
<1>1. /\ RewriteTyped' /\ rewritePc = "flags" /\ guestSent' = guestSent
      /\ smacAddress' = smacAddress /\ frame = guestSent /\ frame \in Rewrite!Dhcp
  BY TypedKept DEF RewriteInv, RewriteTyped, Rewrite!Next, Rewrite!DhcpFlags
<1>2. PICK g : frame' = g /\ RightlyFlagged(frame, g)
  <2> DEFINE hi == IF Rewrite!IsBroadcast(frame) THEN frame.hi ELSE frame.hi + W \div 2
             sum == Rewrite!UpdateSum(frame.check,
                      Rewrite!CalcChecksumDiff(Rewrite!SUM32(frame.hi), Rewrite!SUM32(hi)))
             g == [frame EXCEPT !.hi = hi,
                                !.check = IF @ = 0 THEN 0 ELSE IF sum = 0 THEN W - 1 ELSE sum]
  <2>1. frame' = g
    BY Zenon DEF Rewrite!DhcpFlags
  <2>2. RightlyFlagged(frame, g)
    BY <1>1, RequestFlagged, Zenon
  <2> HIDE DEF g
  <2> QED
    BY <2>1, <2>2, Zenon
<1>3. rewritePc' = "forward"
  BY DEF Rewrite!DhcpFlags, Rewrite!Finish
<1>4. MessageFound'
  BY <1>2 DEF MessageFound, RightlyFlagged
<1>5. Rewrite!ChecksumKept'
  <2>1. frame'.proto = "dhcp" /\ (frame'.check = 0 <=> guestSent'.check = 0)
        /\ (guestSent'.check # 0 => (Rewrite!Verifies(frame') <=> Rewrite!Verifies(guestSent')))
    BY <1>1, <1>2, Zenon DEF RightlyFlagged
  <2> QED
    BY <2>1, Zenon DEF Rewrite!ChecksumKept, Rewrite!Verifies
<1>6. Rewrite!AddressWritten'
  <2>1. frame'.proto = "dhcp" /\ Rewrite!IsBroadcast(frame') /\ frame'.lo = guestSent'.lo
    BY <1>1, <1>2, Zenon DEF RightlyFlagged
  <2> QED
    BY <2>1, Zenon DEF Rewrite!AddressWritten, Rewrite!IsBroadcast
<1> QED
  BY <1>1, <1>3, <1>4, <1>5, <1>6 DEF RewriteInv

\* Ordinary frames begin with the invariant, and every step keeps it.
LEMMA RewriteStart ==
  ASSUME Rewrite!Init, \A f \in Frames : Ordinary(f)
  PROVE  RewriteInv
<1>1. RewriteTyped /\ frame = guestSent /\ Ordinary(frame) /\ rewritePc \in {"walk", "flags"}
  BY TypedStart DEF Rewrite!Init
<1>2. ASSUME rewritePc = "walk"
      PROVE  /\ 1 \in 1 .. Len(frame.headers) + 1
             /\ WalkAt(1)
  <2>1. frame \in Rewrite!Ndp
    BY <1>1, <1>2 DEF RewriteTyped
  <2>2. Rewrite!HeaderAt(frame, 1) = 0 /\ Len(frame.headers) \in Nat
    BY <2>1, HeadersAt
  <2>3. nextHeader = Rewrite!Kind(frame, 1) /\ headerLen = 40 /\ offset = 0 /\ option = 1 /\ turns = 0
    BY <1>2 DEF Rewrite!Init
  <2> QED
    BY <2>2, <2>3 DEF WalkAt
<1> QED
  BY <1>1, <1>2 DEF RewriteInv, Rewrite!ChecksumKept, Rewrite!AddressWritten

LEMMA RewriteKept ==
  ASSUME RewriteInv, Rewrite!Next \/ UNCHANGED rewriteVars
  PROVE  RewriteInv'
<1>1. CASE UNCHANGED rewriteVars
  <2>1. /\ frame' = frame /\ guestSent' = guestSent /\ smacAddress' = smacAddress
        /\ rewritePc' = rewritePc /\ nextHeader' = nextHeader /\ headerLen' = headerLen
        /\ offset' = offset /\ option' = option /\ turns' = turns
    BY <1>1 DEF rewriteVars
  <2>2. RewriteTyped'
    BY <1>1, TypedKept DEF RewriteInv
  <2>3. \A k : WalkAt(k) => WalkAt(k)'
    BY <2>1 DEF WalkAt
  <2>4. (Searching => Searching') /\ (MessageFound => MessageFound')
    BY <2>1 DEF Searching, MessageFound
  <2>5. Rewrite!ChecksumKept' /\ Rewrite!AddressWritten'
    BY <2>1 DEF RewriteInv, Rewrite!ChecksumKept, Rewrite!Verifies, Rewrite!AddressWritten,
                Rewrite!IsBroadcast
  <2> QED
    BY <2>1, <2>2, <2>3, <2>4, <2>5 DEF RewriteInv
<1> QED
  BY <1>1, WalkKeeps, TypeKeeps, SkipKeeps, PatchKeeps, NoOptionKeeps, DhcpFlagsKeeps
     DEF Rewrite!Next

\* What is rewritten is right, whatever guests send: of any number of headers and options, of any
\* length, the walk finds the message and the search the option, each in as many turns as there
\* are headers and options; the checksum is as right as it was (SmacWalkIPv6ExtensionHeaders,
\* ProcessOutgoingIPv6Packet, PatchMacAddrFixChecksum, UpdateChecksum).
THEOREM RewriteExactHolds ==
  ASSUME \A f \in Frames : Ordinary(f)
  PROVE  MCSpec => []RewriteExact
<1>1. MCInit => RewriteInv
  BY RewriteStart DEF MCInit
<1>2. RewriteInv /\ [MCNext]_<<part, vars, smacVars, rewriteVars, packetVars>> => RewriteInv'
  BY RewriteKept DEF MCNext
<1>3. RewriteInv => RewriteExact
  <2> SUFFICES ASSUME RewriteInv PROVE RewriteExact
    OBVIOUS
  <2>1. ASSUME frame.proto = "icmp"
        PROVE  /\ rewritePc \in {"walk", "type", "search", "forward", "drop"}
               /\ Len(frame.headers) \in Nat /\ Len(frame.options) \in Nat
    <3>1. frame \in Rewrite!Ndp /\ frame \notin Rewrite!Dhcp
      BY <2>1, FrameParts DEF RewriteInv, RewriteTyped, Rewrite!TypeOK
    <3>2. rewritePc \in {"walk", "type", "search", "forward", "drop"}
      BY <3>1 DEF RewriteInv, RewriteTyped, Rewrite!TypeOK
    <3> QED
      BY <3>1, <3>2, HeadersAt, OptionsAt
  <2>2. Rewrite!PduFound
    BY DEF RewriteInv, Rewrite!PduFound, Searching, MessageFound
  <2>3. Rewrite!SearchEnds
    <3> SUFFICES ASSUME frame.proto = "icmp"
                 PROVE  turns <= Len(frame.headers) + Len(frame.options)
      BY DEF Rewrite!SearchEnds
    <3>1. PICK n \in Nat, o \in Nat : n = Len(frame.headers) /\ o = Len(frame.options)
      BY <2>1
    <3>2. CASE rewritePc = "walk"
      <4>1. PICK k \in 1 .. n + 1 : turns = k - 1
        BY <3>1, <3>2, Zenon DEF RewriteInv, WalkAt
      <4>2. turns <= n + o
        BY <4>1
      <4> QED
        BY <3>1, <4>2, Zenon
    <3>3. CASE rewritePc = "type"
      <4>1. turns = (n + 1) - 1
        BY <3>1, <3>3, Zenon DEF RewriteInv, WalkAt
      <4>2. turns <= n + o
        BY <4>1
      <4> QED
        BY <3>1, <4>2, Zenon
    <3>4. CASE rewritePc = "search"
      <4>1. turns = n + option - 1 /\ option \in 1 .. o + 1
        BY <3>1, <3>4, Zenon DEF RewriteInv, Searching
      <4>2. turns <= n + o
        BY <4>1
      <4> QED
        BY <3>1, <4>2, Zenon
    <3>5. CASE rewritePc \in {"forward", "drop"}
      BY <3>5 DEF RewriteInv, MessageFound
    <3> QED
      BY <2>1, <3>2, <3>3, <3>4, <3>5
  <2> QED
    BY <2>2, <2>3 DEF RewriteInv, RewriteExact, PduFound
<1> QED
  BY <1>1, <1>2, <1>3, PTL DEF MCSpec

-----------------------------------------------------------------------------
(* The types of the four modules.                                            *)

\* The variables keep their types, whichever of the four a behaviour is about.
THEOREM TypesHold == MCSpec => []TypesOK
<1>1. MCInit => IInv /\ TableInv /\ RewriteTyped /\ PacketsInv
  BY InitInv, TableStart, TypedStart, PacketsStart DEF MCInit
<1>2. /\ IInv /\ TableInv /\ RewriteTyped /\ PacketsInv
      /\ [MCNext]_<<part, vars, smacVars, rewriteVars, packetVars>>
      => IInv' /\ TableInv' /\ RewriteTyped' /\ PacketsInv'
  <2> SUFFICES ASSUME IInv, TableInv, RewriteTyped, PacketsInv,
                      [MCNext]_<<part, vars, smacVars, rewriteVars, packetVars>>
               PROVE  IInv' /\ TableInv' /\ RewriteTyped' /\ PacketsInv'
    OBVIOUS
  <2>1. IInv'
    <3>1. [Next]_vars
      BY DEF MCNext
    <3> QED
      BY <3>1, NextInv
  <2>2. TableInv'
    BY TableKept DEF MCNext
  <2>3. RewriteTyped'
    BY TypedKept DEF MCNext
  <2>4. PacketsInv'
    BY PacketsKept DEF MCNext
  <2> QED
    BY <2>1, <2>2, <2>3, <2>4
<1>3. IInv /\ TableInv /\ RewriteTyped /\ PacketsInv => TypesOK
  BY DEF IInv, TableInv, RewriteTyped, PacketsInv, TypesOK
<1> QED
  BY <1>1, <1>2, <1>3, PTL DEF MCSpec

=============================================================================
