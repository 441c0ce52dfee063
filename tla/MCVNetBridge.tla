---------------------------- MODULE MCVNetBridge ----------------------------
(***************************************************************************)
(* One model of the four modules about a bridge: its life, the packets it  *)
(* passes on, and the two parts of the single MAC code.  They share no     *)
(* state; part says which of them a behaviour is about, and the others     *)
(* stay where they start.                                                  *)
(***************************************************************************)
EXTENDS VNetBridge, TLC, FiniteSets

CONSTANTS
  Senders, IPs, Guests, HostMac, Peer, Group, None, MaxEntries, Period, MaxClock,
  W, HeaderLens, Frames, Addresses, MaxPackets, VNET_BRIDGE_HISTORY, Parts

VARIABLES
  part,
  mac, lastAccess, numberOfIPandMACEntries, lastIPadded, lastMACadded, lastEntryAdded,
  lastUptimeRead, looked, macAddress, clock, used, smacPc, op, users, torn, overtaken,
  frame, guestSent, smacAddress, rewritePc, nextHeader, headerLen, offset, option, turns,
  bridgeDev, smac, history, packetPc, i, freeing, current, refs, backlog, flushed, echoed

smacVars    == <<mac, lastAccess, numberOfIPandMACEntries, lastIPadded, lastMACadded,
                 lastEntryAdded, lastUptimeRead, looked, macAddress, clock, used, smacPc, op,
                 users, torn, overtaken>>
rewriteVars == <<frame, guestSent, smacAddress, rewritePc, nextHeader, headerLen, offset,
                 option, turns>>
packetVars  == <<bridgeDev, smac, history, packetPc, i, freeing, current, refs, backlog, flushed,
                 echoed>>

\* Frames for the rewriting: one neighbour discovery message with all values of the words;
\* DHCP requests; and all layouts of headers, of options, and of what is cut off.
Words == 0 .. W - 1
SeqsTo(S, n) == UNION {[1 .. k -> S] : k \in 0 .. n}
Message ==
  [proto |-> "icmp", type |-> "router", headers |-> <<>>, cut |-> 0,
   options |-> <<[type |-> "source", len |-> 1]>>, rest |-> 1, check |-> 1, hi |-> 3, lo |-> 2]
Kinds == {"router", "routerAdvert", "neighbor", "neighborAdvert", "echo"}
MCFrames ==
  {[Message EXCEPT !.rest = rest, !.check = check, !.hi = hi, !.lo = lo] :
      rest \in Words \ {0}, check \in Words, hi \in 0 .. W * W - 1, lo \in Words}
  \cup [proto : {"dhcp"}, rest : Words \ {0}, check : Words, hi : 0 .. W * W - 1, lo : {0}]
  \cup {[Message EXCEPT !.headers = headers, !.type = type] :
      headers \in SeqsTo([kind : {"dest", "auth"}, len : HeaderLens], 2), type \in Kinds}
  \cup {[Message EXCEPT !.options = options, !.type = type, !.cut = cut] :
      options \in SeqsTo([type : {"source", "target"}, len : {0, 1}], 2),
      type \in Kinds \ {"echo"}, cut \in {0, 4, 7}}
MCAddresses == {0, 1, W + 3, W * W - 1} \X {0, 2}

Smac    == INSTANCE SMac WITH Threads <- Senders, pc <- smacPc
Rewrite == INSTANCE SMacRewrite WITH pc <- rewritePc, sent <- guestSent
Bridge  == INSTANCE VNetBridgePackets WITH dev <- bridgeDev, pc <- packetPc

ASSUME PacketsAssumption == Bridge!HistoryAssumption
ASSUME SmacAssumption == Smac!TableAssumption
ASSUME RewriteAssumption == Rewrite!FramesAssumption

\* What a frame and an address are that no behaviour is about.
AnyFrame   == CHOOSE f \in Frames : TRUE
AnyAddress == CHOOSE a \in Addresses : TRUE

MCInit ==
  /\ part \in Parts
  /\ Init /\ (part # "life" => net = NULL /\ others = 0)
  /\ Smac!Init /\ Bridge!Init
  /\ Rewrite!Init /\ (part # "rewrite" => frame = AnyFrame /\ smacAddress = AnyAddress)

MCNext ==
  /\ UNCHANGED part
  /\ \/ part = "life"    /\ Next /\ UNCHANGED <<smacVars, rewriteVars, packetVars>>
     \/ part = "smac"    /\ Smac!Next /\ UNCHANGED <<vars, rewriteVars, packetVars>>
     \/ part = "rewrite" /\ Rewrite!Next /\ UNCHANGED <<vars, smacVars, packetVars>>
     \/ part = "packets" /\ Bridge!Next /\ UNCHANGED <<vars, smacVars, rewriteVars>>

MCSpec == MCInit /\ [][MCNext]_<<part, vars, smacVars, rewriteVars, packetVars>>

Symmetry == Permutations(Senders) \cup Permutations(IPs) \cup Permutations(Guests)

\* What is checked of the part a behaviour is about; the others do not change.
TypesOK ==
  /\ part = "life"    => TypeOK
  /\ part = "smac"    => Smac!TypeOK
  /\ part = "rewrite" => Rewrite!TypeOK
  /\ part = "packets" => Bridge!TypeOK

\* Of a wireless bridge: what is cached of the table of addresses is in it (CachedInTable), an
\* answer reaches the guest that used its address last (AnswersArrive), and what a guest sent
\* does not come back to it (EchoesDropped).
FramesAnswered ==
  part = "smac" => Smac!CachedInTable /\ Smac!AnswersArrive /\ Smac!EchoesDropped

\* When the table is full, no entry goes before an older one (smac.c: TrimLookupTable...).
EvictsOldest == Smac!EvictsOldest

\* The walk over extension headers ends at the message (smac.c:3557).  Violated for an
\* extension header of 256 bytes or more before another.
PduFound == part = "rewrite" => Rewrite!PduFound

\* The addresses of a message are found and rewritten, and its checksum with them.
RewriteExact ==
  /\ PduFound
  /\ part = "rewrite" => Rewrite!SearchEnds /\ Rewrite!ChecksumKept /\ Rewrite!AddressWritten

\* A packet's buffers are all accounted for, and it is not delivered to its sender.
PacketsExact == part = "packets" => Bridge!ReferencesExact /\ Bridge!EchoOnlyFlushed
=============================================================================
