-------------------------------- MODULE SMac --------------------------------
(***************************************************************************)
(* The single MAC code of a bridge to a wireless interface (smac.c): the   *)
(* table of the guests' addresses, and what happens to a frame on its way  *)
(* to the host's network and back.                                         *)
(*                                                                         *)
(* Frames may be sent by several threads.  AddIPandMACcombo looks at the   *)
(* address added last without the lock, and SetCacheEntry writes that      *)
(* address in two steps with the lock held; these are actions of their     *)
(* own.  A lookup is one section under the lock, so the verdict on a frame *)
(* is an operator on the table.                                            *)
(*                                                                         *)
(* A frame is a record of what the code looks at or changes.  The table's  *)
(* buckets are not modelled: of several oldest entries any may be the one  *)
(* that is found first.                                                    *)
(***************************************************************************)
EXTENDS Integers, FiniteSets

CONSTANTS
  Threads,     \* threads that send frames from guests
  IPs,         \* addresses guests may have
  Guests,      \* the guests' MAC addresses
  HostMac,     \* the MAC address of the wireless interface
  Peer,        \* the MAC address of a machine on its network
  Group,       \* any multicast or broadcast MAC address
  None,
  MaxEntries,  \* entries that are kept (20 in the code)
  Period,      \* the uptime has Period values; with its top bit set they are
               \* Period .. 2 * Period - 1
  MaxClock     \* bound on the time

Unspecified == "0.0.0.0"
Broadcast   == "255.255.255.255"

\* A table that keeps an entry, and addresses that are none of the special ones.
TableAssumption ==
  /\ IsFiniteSet(IPs) /\ {Unspecified, Broadcast, None} \cap IPs = {}
  /\ MaxEntries \in Nat \ {0} /\ Period \in Nat \ {0} /\ MaxClock \in Nat
  /\ {HostMac, Peer, Group, None} \cap Guests = {}
  /\ HostMac \notin {Peer, Group, None} /\ Peer \notin {Group, None} /\ Group # None

VARIABLES
  mac,         \* IPlookupTable: the MAC address of an IP address, or None
  lastAccess,  \* when the entry was last the newest, by the uptime
  numberOfIPandMACEntries,
  lastIPadded, lastMACadded,
  lastEntryAdded,  \* the IP address of that entry
  lastUptimeRead,
  looked,      \* when that was, by the clock (history)
  macAddress,  \* of the interface, None if the bridge is down
  clock,       \* time
  used,        \* when an entry was last the newest, by the clock (history)
  pc, op,      \* the step of AddIPandMACcombo a thread is at, and its locals
  users,       \* of each address in the table, the guests of which one used it last,
  torn,        \* threads that compare, or compared, with an address half of which
               \* was written meanwhile, and
  overtaken    \* threads that have added an address another has used since (history)

table   == <<mac, lastAccess, numberOfIPandMACEntries>>
cached  == <<lastIPadded, lastMACadded, lastEntryAdded>>
time    == <<lastUptimeRead, looked, clock>>
threads == <<pc, op>>
usage   == <<users, torn, overtaken>>
vars    == <<table, cached, time, macAddress, used, threads, usage>>

NoOp == [ip |-> None, mac |-> None, new |-> FALSE]

Init ==
  /\ mac = [ip \in IPs |-> None]
  /\ lastAccess = [ip \in IPs |-> 0] /\ used = [ip \in IPs |-> 0]
  /\ numberOfIPandMACEntries = 0
  /\ lastIPadded = None /\ lastMACadded = None /\ lastEntryAdded = None
  /\ lastUptimeRead = 0 /\ looked = 0 /\ clock = 0
  /\ macAddress = None
  /\ pc = [t \in Threads |-> "idle"] /\ op = [t \in Threads |-> NoOp]
  /\ users = [ip \in IPs |-> {}] /\ torn = {} /\ overtaken = {}

Known == {ip \in IPs : mac[ip] # None}

-----------------------------------------------------------------------------
(* The clock.                                                                *)

\* GetSystemUptime: the top bit is set.
Uptime == Period + (clock % Period)

\* Mutant: what was used before the uptime wrapped keeps its time.
NeverAged(access) == access

\* GetSystemUptime, when it finds that the uptime has wrapped: what was used
\* before is older than what is used from now on.
Aged(access) ==
  IF Uptime < lastUptimeRead THEN [ip \in IPs |-> access[ip] \div 2] ELSE access

\* Time passes; not a whole period without a look at it.
Tick ==
  /\ clock < MaxClock /\ clock + 1 < looked + Period
  /\ clock' = clock + 1
  /\ UNCHANGED <<table, cached, lastUptimeRead, looked, macAddress, used, threads, usage>>

-----------------------------------------------------------------------------
(* Adding an address of a guest: AddIPandMACcombo by thread t.               *)

Goto(t, step) == pc' = [pc EXCEPT ![t] = step]

\* A frame from ip and m is to be sent, or an ARP packet says that ip is at m.
\* The unspecified and the broadcast address are never added.
Call(t, ip, m) ==
  /\ pc[t] = "idle" /\ macAddress # None
  /\ op' = [op EXCEPT ![t] = [ip |-> ip, mac |-> m, new |-> FALSE]]
  /\ Goto(t, "cachedIP")
  /\ UNCHANGED <<table, cached, time, macAddress, used, usage>>

Locked == \E t \in Threads : pc[t] = "set"

\* The comparison with what was added last, without the lock.
CompareIP(t) ==
  /\ pc[t] = "cachedIP"
  /\ IF lastIPadded = op[t].ip
       THEN Goto(t, "cachedMAC") /\ torn' = IF Locked THEN torn \cup {t} ELSE torn
       ELSE Goto(t, "lock") /\ UNCHANGED torn
  /\ UNCHANGED <<table, cached, time, macAddress, used, op, users, overtaken>>

\* Mutant: the address is enough to be taken for the one added last.
CompareIPOnly(t) ==
  /\ pc[t] = "cachedMAC"
  /\ Goto(t, "return")
  /\ UNCHANGED <<table, cached, time, macAddress, used, op, usage>>

CompareMAC(t) ==
  /\ pc[t] = "cachedMAC"
  /\ IF lastMACadded = op[t].mac
       THEN Goto(t, "return") /\ UNCHANGED torn
       ELSE Goto(t, "lock") /\ torn' = torn \ {t}
  /\ UNCHANGED <<table, cached, time, macAddress, used, op, users, overtaken>>

\* Those that are between the two comparisons while a half is written.
Comparing == {t \in Threads : pc[t] = "cachedMAC"}

\* The look-up, the change of the table, and SetCacheEntry up to the address.
Change(t) ==
  LET ip == op[t].ip
  IN  /\ pc[t] = "lock" /\ ~Locked
      /\ mac' = [mac EXCEPT ![ip] = op[t].mac]
      /\ numberOfIPandMACEntries' = numberOfIPandMACEntries + (IF ip \in Known THEN 0 ELSE 1)
      /\ op' = [op EXCEPT ![t].new = ip \notin Known]
      /\ IF lastEntryAdded = None
           THEN /\ lastAccess' = [lastAccess EXCEPT ![ip] = IF ip \in Known THEN @ ELSE 0]
                /\ UNCHANGED <<time, used>>
           ELSE /\ lastAccess' = [Aged([lastAccess EXCEPT ![ip] = IF ip \in Known THEN @ ELSE 0])
                                    EXCEPT ![lastEntryAdded] = Uptime]
                /\ used' = [used EXCEPT ![lastEntryAdded] = clock]
                /\ lastUptimeRead' = Uptime /\ looked' = clock /\ UNCHANGED clock
      /\ lastIPadded' = ip
      /\ torn' = torn \cup Comparing
      /\ Goto(t, "set")
      /\ UNCHANGED <<lastMACadded, lastEntryAdded, macAddress, users, overtaken>>

\* Without memory for a new entry the frame is dropped.
NoMemory(t) ==
  /\ pc[t] = "lock" /\ ~Locked /\ op[t].ip \notin Known
  /\ Goto(t, "idle") /\ op' = [op EXCEPT ![t] = NoOp]
  /\ UNCHANGED <<table, cached, time, macAddress, used, usage>>

\* Mutant: the newest entry may be the oldest.
OldestOfAll(access, newest) ==
  {ip \in Known : \A other \in Known : access[ip] <= access[other]}

\* TrimLookupTableIfNecessary: the oldest entry, if it is not the newest.
Oldest(access, newest) ==
  LET others == Known \ {newest}
  IN  {ip \in others : \A other \in others : access[ip] <= access[other]}

\* RemoveIPfromHashTable, and the entry is freed.
Remove(ip) ==
  /\ mac' = [mac EXCEPT ![ip] = None]
  /\ numberOfIPandMACEntries' = numberOfIPandMACEntries - 1
  /\ users' = [users EXCEPT ![ip] = {}]

\* The rest of SetCacheEntry, and the trimming after a new entry.
Cache(t) ==
  LET ip == op[t].ip
      access == [Aged(lastAccess) EXCEPT ![ip] = Uptime]
      oldest == Oldest(access, ip)
  IN  /\ pc[t] = "set"
      /\ lastMACadded' = mac[ip] /\ lastEntryAdded' = ip
      /\ lastAccess' = access
      /\ used' = [used EXCEPT ![ip] = clock]
      /\ lastUptimeRead' = Uptime /\ looked' = clock
      /\ IF op[t].new /\ numberOfIPandMACEntries > MaxEntries /\ oldest # {}
           THEN \E victim \in oldest : Remove(victim)
           ELSE UNCHANGED <<mac, numberOfIPandMACEntries, users>>
      /\ torn' = torn \cup Comparing
      /\ Goto(t, "return")
      /\ UNCHANGED <<clock, lastIPadded, macAddress, op, overtaken>>

\* The threads that have added ip, or found it added, and not returned.
Adders(ip) == {t \in Threads : pc[t] \in {"set", "return"} /\ op[t].ip = ip}

\* The frame goes out: its guest is the last to use the address, unless another used
\* it since it was added, or it was not added for a torn comparison.
Return(t) ==
  LET ip == op[t].ip
  IN  /\ pc[t] = "return"
      /\ Goto(t, "idle") /\ op' = [op EXCEPT ![t] = NoOp]
      /\ users' = [users EXCEPT ![ip] =
           IF ip \notin Known THEN {}
           ELSE {op[t].mac} \cup IF t \in torn \cup overtaken THEN @ ELSE {}]
      /\ torn' = torn \ {t}
      /\ overtaken' = (overtaken \cup Adders(ip)) \ {t}
      /\ UNCHANGED <<table, cached, time, macAddress, used>>

\* SMAC_SetMac, when the bridge goes up and down.
SetMac(m) ==
  /\ macAddress # m
  /\ macAddress' = m
  /\ UNCHANGED <<table, cached, time, used, threads, usage>>

\* SMAC_CleanupState, when the bridge is freed; the next one starts anew.
CleanupState ==
  /\ \A t \in Threads : pc[t] = "idle"
  /\ macAddress = None
  /\ mac' = [ip \in IPs |-> None] /\ lastAccess' = [ip \in IPs |-> 0]
  /\ numberOfIPandMACEntries' = numberOfIPandMACEntries - Cardinality(Known)
  /\ lastIPadded' = None /\ lastMACadded' = None /\ lastEntryAdded' = None
  /\ lastUptimeRead' = 0 /\ used' = [ip \in IPs |-> 0]
  /\ users' = [ip \in IPs |-> {}]
  /\ UNCHANGED <<looked, clock, macAddress, threads, torn, overtaken>>

Step(t) ==
  \/ \E ip \in IPs, m \in Guests : Call(t, ip, m)
  \/ CompareIP(t) \/ CompareMAC(t) \/ Change(t) \/ NoMemory(t) \/ Cache(t) \/ Return(t)

Next ==
  \/ Tick \/ CleanupState
  \/ SetMac(HostMac) \/ SetMac(None)
  \/ \E t \in Threads : Step(t)

Spec == Init /\ [][Next]_vars
-----------------------------------------------------------------------------
(* Frames.  type is the class of the frame's type; tagged frames have a VLAN *)
(* header.  from and to are the IP addresses (of the sender and the target   *)
(* in an ARP packet), sender and target the MAC addresses in an ARP packet,  *)
(* dhcp says what a DHCP client asks for.                                    *)

Frame == [type |-> "IPv4", tagged |-> FALSE, src |-> Peer, dst |-> Group,
          from |-> Unspecified, to |-> Unspecified, op |-> "none",
          sender |-> None, target |-> None, dhcp |-> "no"]

Forward(f) == [status |-> "forward", frame |-> f]
Drop       == [status |-> "drop", frame |-> Frame]

\* LookupByIP
LookupByIP(ip) == IF ip \in IPs THEN mac[ip] ELSE None

\* Mutant: the flag is left as the guest set it.
OutgoingIPv4Asis(f) == f

\* ProcessOutgoingIPv4Packet: a DHCP server is made to answer by broadcast.
\* (Fragments and other protocols are left alone.)
OutgoingIPv4(f) == [f EXCEPT !.dhcp = IF @ = "unicast" THEN "broadcast" ELSE @]

ToHostIP(f) == Forward([OutgoingIPv4(f) EXCEPT !.src = macAddress])

\* Mutant: the sender in an ARP packet stays the guest.
ToHostARPSender(f) ==
  IF f.op \in {"request", "reply"} THEN Forward([f EXCEPT !.src = macAddress]) ELSE Drop

ToHostARP(f) ==
  IF f.op \in {"request", "reply"}
    THEN Forward([f EXCEPT !.src = macAddress, !.sender = macAddress])
    ELSE Drop

\* Neither IP, ARP nor EAPOL.
ToHostOther(f) ==
  IF f.dst = Group THEN Forward([f EXCEPT !.src = macAddress]) ELSE Drop

\* SMAC_CheckPacketToHost of a frame whose addresses could be added and of which a
\* copy could be made.
CheckPacketToHost(f) ==
  CASE f.type \in {"IPv4", "IPv6"} -> ToHostIP(f)
    [] f.type = "ARP"   -> ToHostARP(f)
    [] f.type = "EAPOL" -> Forward([f EXCEPT !.src = macAddress])
    [] OTHER            -> ToHostOther(f)

FromHostIP(f) ==
  LET found == LookupByIP(f.to)
  IN  IF f.dst = Group THEN Forward(f)
      ELSE IF found # None THEN Forward([f EXCEPT !.dst = found])
      ELSE IF f.to = Broadcast THEN Forward([f EXCEPT !.dst = Group])
      ELSE Drop

\* Mutant: a probe, which has no sender's address, is not taken for an echo.
FromHostRequestProbe(f) ==
  LET found == LookupByIP(f.to)
  IN  IF LookupByIP(f.from) # None /\ f.sender = macAddress THEN Drop
      ELSE IF f.dst = Group THEN Forward(f)
      ELSE IF f.dst = macAddress /\ found # None THEN Forward([f EXCEPT !.dst = found])
      ELSE Drop

FromHostRequest(f) ==
  LET found == LookupByIP(f.to)
  IN  IF (f.from = Unspecified \/ LookupByIP(f.from) # None) /\ f.sender = macAddress THEN Drop
      ELSE IF f.dst = Group THEN Forward(f)
      ELSE IF f.dst = macAddress /\ found # None THEN Forward([f EXCEPT !.dst = found])
      ELSE Drop

FromHostReply(f) ==
  LET found == LookupByIP(f.to)
  IN  IF found # None
        THEN Forward([f EXCEPT !.dst = IF @ = Group THEN @ ELSE found, !.target = found])
      ELSE IF f.dst = Group THEN Forward(f)
      ELSE Drop

\* SMAC_CheckPacketFromHost; frames that are tagged are of no type it knows, and
\* unknown packets are not forwarded (smacForwardUnknownPackets is never set).
CheckPacketFromHost(f) ==
  CASE f.dst = macAddress /\ f.src = macAddress -> Drop
    [] f.tagged \/ f.type = "other" -> IF f.dst = Group THEN Forward(f) ELSE Drop
    [] f.type \in {"IPv4", "IPv6"}  -> FromHostIP(f)
    [] f.type = "ARP" -> CASE f.op = "request" -> FromHostRequest(f)
                           [] f.op = "reply"   -> FromHostReply(f)
                           [] OTHER            -> Drop
    [] OTHER -> IF f.dst = macAddress THEN Forward(f) ELSE Drop

-----------------------------------------------------------------------------
(* Properties.                                                              *)

TypeOK ==
  /\ mac \in [IPs -> Guests \cup {None}]
  /\ lastAccess \in [IPs -> 0 .. 2 * Period - 1] /\ used \in [IPs -> 0 .. MaxClock]
  /\ numberOfIPandMACEntries \in 0 .. Cardinality(IPs)
  /\ lastIPadded \in IPs \cup {None} /\ lastMACadded \in Guests \cup {None}
  /\ lastEntryAdded \in IPs \cup {None}
  /\ lastUptimeRead \in 0 .. 2 * Period - 1 /\ {looked, clock} \subseteq 0 .. MaxClock
  /\ macAddress \in {HostMac, None}
  /\ pc \in [Threads -> {"idle", "cachedIP", "cachedMAC", "lock", "set", "return"}]
  /\ op \in [Threads -> [ip : IPs \cup {None}, mac : Guests \cup {None}, new : BOOLEAN]]
  /\ users \in [IPs -> SUBSET Guests] /\ torn \subseteq Threads /\ overtaken \subseteq Threads

\* The entry added last is never freed, it is what the copies of its addresses say, and
\* the table holds as many entries as are counted and no more than are kept: when
\* nobody is at work on it.
CachedInTable ==
  /\ numberOfIPandMACEntries = Cardinality(Known)
  /\ lastEntryAdded \in Known \cup {None}
  /\ ~Locked => /\ lastEntryAdded = lastIPadded
                /\ lastIPadded # None => mac[lastIPadded] = lastMACadded
                /\ numberOfIPandMACEntries <= MaxEntries

\* "Ideally the entry which has been used least recently is removed": no entry is freed
\* while one is kept that was last the newest much earlier, also after the uptime
\* has wrapped.  Then times are halved, and what is next to each other becomes equal.
EvictsOldest ==
  [][\A ip, other \in Known :
       mac'[ip] = None /\ mac'[other] # None => used'[ip] <= used'[other] + 1]_vars

\* The guest that used ip last; any of those that use it at the same time.
LastUsers(ip) == users[ip] \cup {op[t].mac : t \in Adders(ip)}

\* What guest m sends from ip, and the answers a machine on the network gives to what it
\* gets of it.
Asks(ip, m)    == [Frame EXCEPT !.src = m, !.from = ip]
ArpAsks(ip, m) == [Asks(ip, m) EXCEPT !.type = "ARP", !.op = "request", !.sender = m]
Probe(m)    == [Frame EXCEPT !.src = m, !.type = "ARP", !.op = "request", !.sender = m]
Discover(m) == [Frame EXCEPT !.src = m, !.dhcp = "unicast"]

Answer(f) ==
  CASE f.type = "ARP"        -> [f EXCEPT !.src = Peer, !.dst = f.sender, !.from = f.to, !.to = f.from,
                                          !.op = "reply", !.sender = Peer, !.target = f.sender]
    [] f.dhcp = "broadcast"  -> [f EXCEPT !.src = Peer, !.dst = f.src, !.to = Broadcast]
    [] OTHER                 -> [f EXCEPT !.src = Peer, !.dst = f.src, !.from = f.to, !.to = f.from]

Returned(f) == CheckPacketFromHost(Answer(CheckPacketToHost(f).frame))
Echo(f)     == CheckPacketFromHost(CheckPacketToHost(f).frame)

\* The answer to what a guest sends comes back to the guest that used the address last,
\* with its own MAC address, also when the address has gone from one guest to another; an
\* answer to one that asks for an address comes to all.
AnswersArrive ==
  macAddress # None =>
    /\ \A ip \in Known, m \in Guests :
         /\ \A type \in {"IPv4", "IPv6"} :
              LET r == Returned([Asks(ip, m) EXCEPT !.type = type])
              IN  r.status = "forward" /\ r.frame.dst \in LastUsers(ip)
         /\ LET r == Returned(ArpAsks(ip, m))
            IN  /\ r.status = "forward" /\ r.frame.dst \in LastUsers(ip)
                /\ r.frame.target = r.frame.dst
    /\ \A m \in Guests : LET r == Returned(Discover(m)) IN r.status = "forward" /\ r.frame.dst = Group

\* A guest that asks whether an address is in use does not get its own question back
\* from a network that repeats it.
EchoesDropped ==
  macAddress # None =>
    \A m \in Guests : /\ \A ip \in Known : Echo(ArpAsks(ip, m)).status = "drop"
                      /\ Echo(Probe(m)).status = "drop"
=============================================================================
