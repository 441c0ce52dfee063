----------------------------- MODULE SMacRewrite -----------------------------
(***************************************************************************)
(* What the single MAC code of a wireless bridge writes into the data of a *)
(* frame a guest sends (smac.c): the MAC address in a neighbour discovery  *)
(* message, which it looks for behind the extension headers of an IPv6     *)
(* packet, the broadcast flag of a DHCP request, and the checksum of       *)
(* either, which is corrected and not computed anew.                       *)
(*                                                                         *)
(* Lengths and offsets are the code's, in bytes.  Words of the checksum    *)
(* have W values.  Of what a checksum covers only the words that change    *)
(* are kept, and the sum of the others, which is not zero.                 *)
(***************************************************************************)
EXTENDS Integers, SequencesExt

CONSTANTS
  W,             \* values of a 16 bit word
  Frames,        \* frames a guest may send
  Addresses      \* MAC addresses of the wireless interface, in two parts

VARIABLES
  frame,         \* as it is now
  sent,          \* as the guest sent it (history)
  smacAddress,   \* of the interface
  pc,
  nextHeader, headerLen, offset,  \* locals of the walk
  option,        \* local of the search: which option is next
  turns          \* turns of the two loops (history)

vars == <<frame, sent, smacAddress, pc, nextHeader, headerLen, offset, option, turns>>

Word  == 0 .. W - 1
Dword == 0 .. W * W - 1

-----------------------------------------------------------------------------
(* Frames.                                                                   *)

\* ICMPv6_NDP_..._LEN: length of the messages before their options.
MessageLen == [router |-> 8, routerAdvert |-> 16, neighbor |-> 24, neighborAdvert |-> 24]

Messages == DOMAIN MessageLen

Ndp == [proto : {"icmp"}, type : Messages \cup {"echo"},
        headers : Seq([kind : {"dest", "auth"}, len : 0 .. 255]),
        options : Seq([type : {"source", "target"}, len : 0 .. 255]),
        cut : Nat,  \* bytes missing at the end
        rest : Word \ {0}, check : Word, hi : Dword, lo : Word]

\* A whole, unfragmented DHCP request: hi is the word that ends in the flags, the
\* highest bit of which asks for a broadcast.  A checksum of 0 is none.
Dhcp == [proto : {"dhcp"}, rest : Word \ {0}, check : Word, hi : Dword, lo : {0}]

IsBroadcast(f) == (f.hi % W) >= W \div 2

HeaderSize(h) == IF h.kind = "auth" THEN (h.len + 2) * 4 ELSE (h.len + 1) * 8

\* Where the k-th header begins, behind the fixed header.
HeaderAt(f, k) == FoldSeq(LAMBDA h, at : at + HeaderSize(h), 0, SubSeq(f.headers, 1, k - 1))
MessageAt(f)   == HeaderAt(f, Len(f.headers) + 1)

Body(f) == IF f.type = "echo" THEN 8 ELSE MessageLen[f.type]

\* Where the k-th option begins; one whose length says 0 takes as much as one of 8 bytes.
OptionAt(f, k) ==
  MessageAt(f) + Body(f)
  + FoldSeq(LAMBDA o, n : n + (IF o.len = 0 THEN 8 ELSE 8 * o.len), 0, SubSeq(f.options, 1, k - 1))

PacketLen(f) == OptionAt(f, Len(f.options) + 1) - f.cut

\* Byte n of the option is in the packet.
Has(f, k, n) == k <= Len(f.options) /\ OptionAt(f, k) + n < PacketLen(f)

\* The one's complement sum is "all ones".
Verifies(f) == (f.rest + f.hi + f.lo + f.check) % (W - 1) = 0

FramesAssumption ==
  /\ W \in Nat /\ W > 3
  /\ Frames \subseteq Ndp \cup Dhcp /\ Addresses \subseteq Dword \X Word

-----------------------------------------------------------------------------
(* Checksums.                                                                *)

SUM32(x) == (x % W) + (x \div W)

\* Mutant: a difference that wraps is not corrected.
CalcPlainDiff(before, after) ==
  SUM32((SUM32(SUM32(after)) - SUM32(SUM32(before))) % (W * W))

CalcChecksumDiff(before, after) ==
  LET b == SUM32(SUM32(before))
      a == SUM32(SUM32(after))
  IN  SUM32(((IF b > a THEN a - 1 ELSE a) - b) % (W * W))

UpdateSum(check, diff) ==
  IF diff = 0 THEN check
  ELSE W - 1 - (SUM32(SUM32(W - 1 - check + diff)) % W)

\* The checksum PatchMacAddrFixChecksum writes with the new address.
PatchedSum(f, hi, lo) ==
  UpdateSum(UpdateSum(f.check, CalcChecksumDiff(SUM32(f.hi), SUM32(hi))),
            CalcChecksumDiff(f.lo, lo))

-----------------------------------------------------------------------------
Finish(verdict) == pc' = verdict /\ UNCHANGED <<nextHeader, headerLen, offset, option, turns>>

Kind(f, k) == IF k > Len(f.headers) THEN f.proto ELSE f.headers[k].kind

Init ==
  /\ frame \in Frames /\ sent = frame
  /\ smacAddress \in Addresses
  /\ IF frame.proto = "dhcp" THEN pc = "flags" /\ nextHeader = "dhcp"
                             ELSE pc = "walk" /\ nextHeader = Kind(frame, 1)
  /\ headerLen = 40 /\ offset = 0 /\ option = 1 /\ turns = 0

\* Mutant: a header's length does not depend on its kind.
WalkedSize(kind, byte) == (headerLen - (headerLen % 256) + byte + 1) * 8

\* The length byte is read into the lowest byte of headerLen.
Walked(kind, byte) ==
  LET read == headerLen - (headerLen % 256) + byte
  IN  IF kind = "auth" THEN (read + 2) * 4 ELSE (read + 1) * 8

\* SmacWalkIPv6ExtensionHeaders, a header at a time.  At an offset where no header
\* begins it reads what is there.
Walk ==
  /\ pc = "walk"
  /\ UNCHANGED <<frame, sent, smacAddress>>
  /\ IF nextHeader \in {"dest", "auth"} /\ offset < PacketLen(frame) - 1
       THEN IF \E k \in DOMAIN frame.headers : HeaderAt(frame, k) = offset
              THEN LET k == CHOOSE k \in DOMAIN frame.headers : HeaderAt(frame, k) = offset
                       size == Walked(nextHeader, frame.headers[k].len)
                   IN  /\ headerLen' = size /\ offset' = offset + size
                       /\ nextHeader' = Kind(frame, k + 1) /\ turns' = turns + 1
                       /\ UNCHANGED <<pc, option>>
              ELSE Finish("misread")
       ELSE Finish("type")

\* Mutant: an advertisement, too, has the address as its source's.
WantedSource(f) == "source"

\* ProcessOutgoingIPv6Packet: is it a message that may hold a MAC address?
Type ==
  /\ pc = "type"
  /\ UNCHANGED <<frame, sent, smacAddress>>
  /\ Finish(CASE nextHeader # "icmp"          -> "forward"
              [] offset >= PacketLen(frame)   -> "drop"
              [] offset # MessageAt(frame)    -> "misread"
              [] frame.type \in Messages      -> "search"
              [] OTHER                        -> "forward")

Wanted(f) == IF f.type = "neighborAdvert" THEN "target" ELSE "source"

\* Mutant: an option without a length does not end the search.
SkipAny ==
  /\ pc = "search"
  /\ Has(frame, option, 0)
  /\ frame.options[option].type # Wanted(frame)
  /\ UNCHANGED <<frame, sent, smacAddress, nextHeader, headerLen, offset, pc>>
  /\ option' = IF frame.options[option].len # 0 THEN option + 1 ELSE option
  /\ turns' = turns + 1

\* An option that is not the one looked for; one without a length ends the search.
Skip ==
  /\ pc = "search"
  /\ Has(frame, option, 0)
  /\ frame.options[option].type # Wanted(frame)
  /\ UNCHANGED <<frame, sent, smacAddress>>
  /\ IF Has(frame, option, 1) /\ frame.options[option].len # 0
       THEN /\ option' = option + 1 /\ turns' = turns + 1
            /\ UNCHANGED <<pc, nextHeader, headerLen, offset>>
       ELSE Finish("drop")

\* PatchMacAddrFixChecksum of the option; of an option that is cut off nothing is patched.
Patch ==
  /\ pc = "search"
  /\ Has(frame, option, 0)
  /\ frame.options[option].type = Wanted(frame)
  /\ UNCHANGED <<sent, smacAddress>>
  /\ IF Has(frame, option, 7)
       THEN /\ frame' = [frame EXCEPT !.hi = smacAddress[1], !.lo = smacAddress[2],
                                      !.check = PatchedSum(frame, smacAddress[1], smacAddress[2])]
            /\ Finish("forward")
       ELSE UNCHANGED frame /\ Finish("drop")

NoOption ==
  /\ pc = "search"
  /\ ~Has(frame, option, 0)
  /\ UNCHANGED <<frame, sent, smacAddress>>
  /\ Finish("forward")

\* ProcessOutgoingIPv4Packet of a DHCP request.
DhcpFlags ==
  /\ pc = "flags"
  /\ UNCHANGED <<sent, smacAddress>>
  /\ LET hi == IF IsBroadcast(frame) THEN frame.hi ELSE frame.hi + W \div 2
         sum == UpdateSum(frame.check, CalcChecksumDiff(SUM32(frame.hi), SUM32(hi)))
     IN  frame' = [frame EXCEPT !.hi = hi,
                                !.check = IF @ = 0 THEN 0 ELSE IF sum = 0 THEN W - 1 ELSE sum]
  /\ Finish("forward")

Next == Walk \/ Type \/ Skip \/ Patch \/ NoOption \/ DhcpFlags

Spec == Init /\ [][Next]_vars
-----------------------------------------------------------------------------
(* Properties.                                                               *)

TypeOK ==
  /\ pc \in {"walk", "type", "search", "flags", "misread", "forward", "drop"}
  /\ {frame, sent} \subseteq Ndp \cup Dhcp /\ smacAddress \in Dword \X Word
  /\ headerLen \in Nat /\ offset \in Nat /\ option \in Nat /\ turns \in Nat

\* "the offset of this PDU within the packet": the walk never reads an extension header
\* or a message where none begins, and it ends where the message does begin.
PduFound ==
  /\ pc # "misread"
  /\ frame.proto = "icmp" /\ pc \in {"search", "forward", "drop"} => offset = MessageAt(frame)

\* What is forwarded has a right checksum if and only if what the guest sent had, and a
\* DHCP request that has a checksum does not become one that has none.
ChecksumKept ==
  pc = "forward" =>
    /\ frame.proto = "icmp" \/ sent.check # 0 => (Verifies(frame) <=> Verifies(sent))
    /\ frame.proto = "dhcp" => (frame.check = 0 <=> sent.check = 0)

\* A message that is forwarded, and whose first option of the kind its receiver takes the
\* address from is behind options that have a length, holds the interface's address there;
\* any other frame is unchanged but for the broadcast flag.
AddressWritten ==
  pc = "forward" =>
    IF frame.proto = "dhcp" THEN IsBroadcast(frame) /\ frame.lo = sent.lo
    ELSE IF /\ frame.type \in Messages
            /\ \E k \in DOMAIN frame.options : frame.options[k].type =
                 IF frame.type = "neighborAdvert" THEN "target" ELSE "source"
      THEN <<frame.hi, frame.lo>> = smacAddress
      ELSE frame = sent

\* Whatever the lengths in a frame are, the two loops look at a header or an option once.
SearchEnds ==
  frame.proto = "icmp" => turns <= Len(frame.headers) + Len(frame.options)
=============================================================================
