-------------------------- MODULE VNetBridgePackets --------------------------
(***************************************************************************)
(* The packets a bridge passes on from its hub (bridge.c).  One that is    *)
(* for the host, too, is handed to the host's network stack as if it had   *)
(* come from the interface; so it comes back to the bridge's own packet    *)
(* handler, which knows it by the history it is kept in.                   *)
(*                                                                         *)
(* Any number of threads send at a time; a packet stands for the thread    *)
(* that sends it.  historyLock is held within a step, and is free between  *)
(* steps.  refs counts the references to a buffer, whoever holds them.     *)
(***************************************************************************)
EXTENDS Integers, FiniteSets

CONSTANTS
  MaxPackets,           \* bound on the packets
  VNET_BRIDGE_HISTORY,  \* slots of the history (48 in the code)
  None

VARIABLES
  dev,      \* bridge->dev is set; so is bridge->sk, and the handler is listed
  smac,     \* bridge->smac is set: the interface is wireless
  history,  \* bridge->history: a slot's packet, or None
  pc,       \* the next step of the packet's thread
  i,        \* its local: the slot it is at
  freeing,  \* its local s
  current,  \* which buffer its local skb is: the packet's or the copy of it
  refs,     \* references to each buffer of each packet
  backlog,  \* packets handed to the host's stack, which it has yet to deliver
  flushed,  \* packets that were removed from the history for want of room (history)
  echoed    \* packets from the hub that were sent to the hub (history)

locals == <<i, freeing, current>>
vars   == <<dev, smac, history, pc, locals, refs, backlog, flushed, echoed>>

\* In the order in which they come.
Packets == 1 .. MaxPackets
Slots   == 0 .. VNET_BRIDGE_HISTORY - 1
\* The packet itself, the copy of it the single MAC code makes, the clone for the host.
Buffers == {"skb", "copy", "clone"}

HistoryAssumption ==
  MaxPackets \in Nat /\ VNET_BRIDGE_HISTORY \in Nat \ {0} /\ None \notin Packets

Init ==
  /\ dev = TRUE /\ smac \in BOOLEAN
  /\ history = [s \in Slots |-> None]
  /\ pc = [p \in Packets |-> "idle"]
  /\ i = [p \in Packets |-> 0] /\ freeing = [p \in Packets |-> None]
  /\ current = [p \in Packets |-> "skb"]
  /\ refs = [p \in Packets |-> [b \in Buffers |-> 0]]
  /\ backlog = {} /\ flushed = {} /\ echoed = {}

Goto(p, step) == pc' = [pc EXCEPT ![p] = step]

kernel == <<backlog, flushed, echoed>>

-----------------------------------------------------------------------------
(* VNetBridgeReceiveFromVNet.                                                *)

\* The packet comes with a reference the function is to drop; with the bridge down it does.
\* Otherwise the single MAC code looks at it first: it cannot be made linear for want of
\* memory and is not freed; it is dropped and freed, before a copy was made, or after; or
\* the copy takes its place.
Receive(p) ==
  /\ pc[p] = "idle" /\ \A q \in 1 .. p - 1 : pc[q] # "idle"
  /\ \/ ~dev /\ Goto(p, "done") /\ UNCHANGED <<refs, current>>
     \/ /\ dev /\ ~smac
        /\ refs' = [refs EXCEPT ![p]["skb"] = 1] /\ Goto(p, "transmit") /\ UNCHANGED current
     \/ /\ dev /\ smac
        /\ refs' = [refs EXCEPT ![p]["skb"] = 1] /\ Goto(p, "done") /\ UNCHANGED current
     \/ /\ dev /\ smac
        /\ \E copies \in {0, 1} : refs' = [refs EXCEPT ![p]["copy"] = copies]
        /\ Goto(p, "done") /\ UNCHANGED current
     \/ /\ dev /\ smac
        /\ refs' = [refs EXCEPT ![p]["copy"] = 1] /\ current' = [current EXCEPT ![p] = "copy"]
        /\ Goto(p, "transmit")
  /\ UNCHANGED <<dev, smac, history, i, freeing, kernel>>

\* Another clone goes to the interface, if the packet is not for the host alone and there is
\* memory; it is to belong to bridge->sk, which is gone once the bridge is down.  Then, if
\* the host would receive the packet and there is memory, a clone is made for it, with a
\* reference for its stack and one for the history; if not, the packet is freed.
Transmit(p) ==
  /\ pc[p] = "transmit"
  /\ \/ Goto(p, "insert") /\ refs' = [refs EXCEPT ![p]["clone"] = 2]
     \/ Goto(p, "done") /\ refs' = [refs EXCEPT ![p][current[p]] = 0]
     \/ ~dev /\ Goto(p, "fault") /\ UNCHANGED refs
  /\ UNCHANGED <<dev, smac, history, locals, kernel>>

Free == {s \in Slots : history[s] = None}

\* Mutant: slot 0 is emptied like the others.
InsertLast(p) ==
  /\ pc[p] = "insert"
  /\ IF Free # {}
       THEN /\ history' = [history EXCEPT ![CHOOSE s \in Free : \A f \in Free : s <= f] = p]
            /\ Goto(p, "netif")
            /\ UNCHANGED <<i, freeing, flushed>>
       ELSE /\ history' = [history EXCEPT ![0] = None]
            /\ freeing' = [freeing EXCEPT ![p] = history[0]]
            /\ flushed' = flushed \cup {history[0]}
            /\ i' = [i EXCEPT ![p] = 1] /\ Goto(p, "freeing")
  /\ UNCHANGED <<dev, smac, current, refs, backlog, echoed>>

\* The clone goes to the first free slot.  If there is none, all packets of the history are
\* freed, and it takes the first slot at once.
Insert(p) ==
  /\ pc[p] = "insert"
  /\ IF Free # {}
       THEN /\ history' = [history EXCEPT ![CHOOSE s \in Free : \A f \in Free : s <= f] = p]
            /\ Goto(p, "netif")
            /\ UNCHANGED <<i, freeing, flushed>>
       ELSE /\ history' = [history EXCEPT ![0] = p]
            /\ freeing' = [freeing EXCEPT ![p] = history[0]]
            /\ flushed' = flushed \cup {history[0]}
            /\ i' = [i EXCEPT ![p] = 1] /\ Goto(p, "freeing")
  /\ UNCHANGED <<dev, smac, current, refs, backlog, echoed>>

\* A packet is freed without the lock.
Freeing(p) ==
  /\ pc[p] = "freeing"
  /\ refs' = [refs EXCEPT ![freeing[p]]["clone"] = @ - 1]
  /\ freeing' = [freeing EXCEPT ![p] = None]
  /\ Goto(p, "flush")
  /\ UNCHANGED <<dev, smac, history, i, current, kernel>>

\* Mutant: a slot is not emptied before the lock is released to free its packet.
FlushFull(p) ==
  /\ pc[p] = "flush"
  /\ LET full == {s \in Slots : s >= i[p] /\ history[s] # None}
     IN  IF full = {}
           THEN Goto(p, "netif") /\ UNCHANGED <<history, i, freeing, flushed>>
           ELSE LET s == CHOOSE s \in full : \A f \in full : s <= f
                IN  /\ UNCHANGED history
                    /\ freeing' = [freeing EXCEPT ![p] = history[s]]
                    /\ flushed' = flushed \cup {history[s]}
                    /\ i' = [i EXCEPT ![p] = s + 1] /\ Goto(p, "freeing")
  /\ UNCHANGED <<dev, smac, current, refs, backlog, echoed>>

\* On to the next slot that holds a packet.
Flush(p) ==
  /\ pc[p] = "flush"
  /\ LET full == {s \in Slots : s >= i[p] /\ history[s] # None}
     IN  IF full = {}
           THEN Goto(p, "netif") /\ UNCHANGED <<history, i, freeing, flushed>>
           ELSE LET s == CHOOSE s \in full : \A f \in full : s <= f
                IN  /\ history' = [history EXCEPT ![s] = None]
                    /\ freeing' = [freeing EXCEPT ![p] = history[s]]
                    /\ flushed' = flushed \cup {history[s]}
                    /\ i' = [i EXCEPT ![p] = s + 1] /\ Goto(p, "freeing")
  /\ UNCHANGED <<dev, smac, current, refs, backlog, echoed>>

\* netif_rx, and the packet is freed.
NetifRx(p) ==
  /\ pc[p] = "netif"
  /\ backlog' = backlog \cup {p}
  /\ refs' = [refs EXCEPT ![p][current[p]] = 0]
  /\ Goto(p, "done")
  /\ UNCHANGED <<dev, smac, history, locals, flushed, echoed>>

-----------------------------------------------------------------------------
(* The host's stack, and the interface.                                     *)

\* VNetBridgeReceiveFromDev.  A packet that is in the history is freed, with the reference
\* of the history; one that is not goes to the hub.  With the bridge down it is freed.
ReceiveFromDev(p) ==
  /\ p \in backlog /\ backlog' = backlog \ {p}
  /\ IF dev /\ \E s \in Slots : history[s] = p
       THEN /\ history' = [history EXCEPT ![CHOOSE s \in Slots : history[s] = p] = None]
            /\ refs' = [refs EXCEPT ![p]["clone"] = @ - 2]
            /\ UNCHANGED echoed
       ELSE /\ refs' = [refs EXCEPT ![p]["clone"] = @ - 1]
            /\ echoed' = IF dev THEN echoed \cup {p} ELSE echoed
            /\ UNCHANGED history
  /\ UNCHANGED <<dev, smac, pc, locals, flushed>>

\* VNetBridgeUp and VNetBridgeDown.
UpDown ==
  /\ dev' = ~dev
  /\ UNCHANGED <<smac, history, pc, locals, refs, kernel>>

Step(p) ==
  Receive(p) \/ Transmit(p) \/ Insert(p) \/ Freeing(p) \/ Flush(p) \/ NetifRx(p)

Next ==
  \/ UpDown
  \/ \E p \in Packets : Step(p) \/ ReceiveFromDev(p)

Spec == Init /\ [][Next]_vars
-----------------------------------------------------------------------------
(* Properties.                                                               *)

TypeOK ==
  /\ dev \in BOOLEAN /\ smac \in BOOLEAN /\ history \in [Slots -> Packets \cup {None}]
  /\ pc \in [Packets -> {"idle", "transmit", "insert", "freeing", "flush", "netif", "done", "fault"}]
  /\ i \in [Packets -> 0 .. VNET_BRIDGE_HISTORY] /\ freeing \in [Packets -> Packets \cup {None}]
  /\ current \in [Packets -> Buffers] /\ refs \in [Packets -> [Buffers -> Int]]
  /\ backlog \subseteq Packets /\ flushed \subseteq Packets /\ echoed \subseteq Packets

Holds(b) == IF b THEN 1 ELSE 0

\* The clone for the host has a reference for its slot of the history, or for the thread that
\* has taken it from there to free it, and one for who is to deliver it, as long as there
\* is one: nothing is freed twice, used after it is freed, or lost.
ReferencesExact ==
  \A p \in Packets :
    refs[p]["clone"] =
        Cardinality({s \in Slots : history[s] = p}) + Cardinality({q \in Packets : freeing[q] = p})
        + Holds(p \in backlog) + Holds(pc[p] \in {"freeing", "flush", "netif"})
        + 2 * Holds(pc[p] = "insert")

\* A packet from the hub comes back to it only if the history had no room for it until then.
EchoOnlyFlushed == echoed \subseteq flushed
=============================================================================
