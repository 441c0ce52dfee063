--------------------------- MODULE MCVNetStructure ---------------------------
(* VNetStructure for TLC: jacks are taken lowest first, so JackIds is a set  *)
(* of numbers; all the other sets hold model values and are symmetric.       *)
(*                                                                           *)
(* A behaviour of MCSpec is either about all the hub numbers, with bridges   *)
(* and listeners and memory enough for every cycle detection, or about one   *)
(* hub number, with bridges and host interfaces and a detection that fails.  *)
EXTENDS VNetStructure, TLC

VARIABLE nums    \* the hub numbers that are asked for

MCJackIds == 0 .. 1

Symmetry == Permutations(Filps) \cup Permutations(Ports) \cup Permutations(HubMem)
              \cup Permutations(HubNums)

MCInit == Init /\ nums \in {HubNums} \cup {{n} : n \in HubNums}

Allowed ==
  /\ \A f \in Filps : num'[f] \in nums \cup {None}
  /\ nums = HubNums => ~oom'
  /\ \A p \in Ports : kind'[p] # IF nums = HubNums THEN "netif" ELSE "listener"

MCSpec == MCInit /\ [][Next /\ Allowed /\ UNCHANGED nums]_<<vars, nums>>
=============================================================================
