------------------------------- MODULE VNetSend -------------------------------
(***************************************************************************)
(* Packets crossing a hub while its structure changes (VNetSend in         *)
(* driver.c, VNetHubReceive in hub.c).                                     *)
(*                                                                         *)
(* A sender is a thread or a softirq that carries one packet from a port   *)
(* to the hub and from there to the ports at the other jacks.  VNetSend    *)
(* takes vnetPeerLock for read only to read jack->peer and to take a       *)
(* reference; rcv runs, and the reference is dropped, without any lock.    *)
(***************************************************************************)
EXTENDS VNetStructure

CONSTANT Senders    \* packets on their way (bound)

VARIABLES
  at,      \* the sender's next step
  outer,   \* the hub jack VNetSend of the port has a reference to
  via,     \* the hub jack VNetHubReceive is sending through
  inner    \* the port VNetSend of that jack has a reference to

sendVars == <<at, outer, via, inner>>
allVars  == <<vars, sendVars>>

SendSteps == {"idle", "hub", "send", "rcv", "hubfree"}

SendTypeOK ==
  /\ TypeOK
  /\ at \in [Senders -> SendSteps]
  /\ outer \in [Senders -> HubJacks \cup {None}]
  /\ via \in [Senders -> HubJacks \cup {None}]
  /\ inner \in [Senders -> Ports \cup {None}]

SendInit ==
  /\ Init
  /\ at = [s \in Senders |-> "idle"]
  /\ outer = [s \in Senders |-> None]
  /\ via = [s \in Senders |-> None]
  /\ inner = [s \in Senders |-> None]

\* kref_get; a zero or garbage count is left as it is (refcount_t saturates).
Counted(j) == [kref EXCEPT ![j] = IF @ > 0 THEN @ + 1 ELSE @]

\* VNetSend of a listed port: under the lock, take a reference to its peer.
SendFromPort(s, p) ==
  /\ at[s] = "idle"
  /\ p \in allPorts /\ peer[p] # None
  /\ kref' = Counted(peer[p])
  /\ outer' = [outer EXCEPT ![s] = peer[p]]
  /\ at' = [at EXCEPT ![s] = "hub"]
  /\ UNCHANGED <<memVars, hubVars, peer, state, numPorts, totalPorts, fileVars,
                 ioctlMutex, oom, localVars, via, inner>>

\* VNetHubReceive, the loop's test: without a lock, is the jack k allocated,
\* connected and enabled, and does its peer receive?
HubReceive(s, k) ==
  /\ at[s] = "hub"
  /\ k \in Siblings(outer[s]) \cap private
  /\ Attached(peer, state, k) /\ kind[peer[k]] # "listener"
  /\ via' = [via EXCEPT ![s] = k]
  /\ at' = [at EXCEPT ![s] = "send"]
  /\ UNCHANGED <<vars, outer, inner>>

\* VNetSend of that hub jack: nothing, or a reference to the port.  The state
\* of the jack is not looked at again.
SendToPort(s) ==
  /\ at[s] = "send"
  /\ LET q == peer[via[s]] IN
     IF q = None
       THEN /\ at' = [at EXCEPT ![s] = "hub"]
            /\ UNCHANGED <<kref, inner>>
       ELSE /\ kref' = Counted(q)
            /\ inner' = [inner EXCEPT ![s] = q]
            /\ at' = [at EXCEPT ![s] = "rcv"]
  /\ via' = [via EXCEPT ![s] = None]
  /\ UNCHANGED <<memVars, hubVars, peer, state, numPorts, totalPorts, fileVars,
                 ioctlMutex, oom, localVars, outer>>

\* The port's rcv returns and the reference to the port is put.
PortReceived(s) ==
  /\ at[s] = "rcv"
  /\ \/ PutReleases(inner[s]) /\ ReleasePort(inner[s])
     \/ PutKeeps(inner[s])
  /\ inner' = [inner EXCEPT ![s] = None]
  /\ at' = [at EXCEPT ![s] = "hub"]
  /\ UNCHANGED <<hubs, hubNum, used, numPorts, totalPorts, fileVars, ioctlMutex, oom,
                 localVars, outer, via>>

\* VNetHubReceive returns and the reference to the hub jack is put.
HubReceived(s) ==
  /\ at[s] = "hub"
  /\ \/ /\ PutReleases(outer[s]) /\ ReleaseHubJack(outer[s])
        /\ at' = [at EXCEPT ![s] = "hubfree"]
        /\ UNCHANGED outer
     \/ /\ PutKeeps(outer[s])
        /\ at' = [at EXCEPT ![s] = "idle"]
        /\ outer' = [outer EXCEPT ![s] = None]
  /\ UNCHANGED <<hubs, hubNum, used, numPorts, totalPorts, fileVars, ioctlMutex, oom,
                 localVars, via, inner>>

SendHubFree(s) ==
  /\ at[s] = "hubfree"
  /\ FreeHubJack(outer[s])
  /\ outer' = [outer EXCEPT ![s] = None]
  /\ at' = [at EXCEPT ![s] = "idle"]
  /\ UNCHANGED <<memVars, private, peer, state, fileVars, ioctlMutex, oom, localVars,
                 via, inner>>

SendNext ==
  \/ Next /\ UNCHANGED sendVars
  \/ \E s \in Senders :
       \/ \E p \in Ports : SendFromPort(s, p)
       \/ \E k \in HubJacks : HubReceive(s, k)
       \/ SendToPort(s) \/ PortReceived(s) \/ HubReceived(s) \/ SendHubFree(s)

SendSpec == SendInit /\ [][SendNext]_allVars

-----------------------------------------------------------------------------
\* The jacks sender s has a reference to.
Held(s) == {outer[s], inner[s]} \ {None}

Allocated(j) == IF j \in Ports THEN kind[j] # "free" ELSE j \in private

\* "Free the VNetJack if no reference" (VNetKrefRelease): no step frees a jack
\* while a sender keeps a reference to it.
NoReleaseWhileHeld ==
  [][\A s \in Senders : \A j \in Held(s) :
       (Allocated(j) /\ at'[s] # "hubfree" /\ j \in Held(s)') => Allocated(j)']_allVars
=============================================================================
