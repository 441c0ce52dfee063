------------------------------ MODULE PhysTrack ------------------------------
(***************************************************************************)
(* The page tracker of vmmon (phystrack.c): a set of machine page numbers  *)
(* kept as a directory of directories of bit maps, which grow as pages are *)
(* added.  A bit map is the set of its bits that are set.  The VERIFYs are *)
(* guards: a caller that breaks one stops the host.  All operations run    *)
(* with the lock of the machine held.                                      *)
(***************************************************************************)
EXTENDS Integers, FiniteSets

CONSTANTS
  PHYSTRACK_L1_ENTRIES, PHYSTRACK_L2_ENTRIES, PHYSTRACK_L3_ENTRIES,
  NULL          \* no directory, and INVALID_MPN

VARIABLES
  dir,          \* PhysTracker.dir
  added         \* the pages added and not removed (history)

vars == <<dir, added>>

Idx1 == 0 .. PHYSTRACK_L1_ENTRIES - 1
Idx2 == 0 .. PHYSTRACK_L2_ENTRIES - 1
Idx3 == 0 .. PHYSTRACK_L3_ENTRIES - 1
MPNs == 0 .. PHYSTRACK_L1_ENTRIES * PHYSTRACK_L2_ENTRIES * PHYSTRACK_L3_ENTRIES - 1

\* NULL is none of what a directory holds.
TrackerAssumption ==
  /\ {PHYSTRACK_L1_ENTRIES, PHYSTRACK_L2_ENTRIES, PHYSTRACK_L3_ENTRIES} \subseteq Nat \ {0}
  /\ \A mpn \in MPNs : mpn # NULL
  /\ \A bits \in SUBSET Idx3 : bits # NULL
  /\ \A l2 \in [Idx2 -> {NULL} \cup SUBSET Idx3] : l2 # NULL

\* PHYSTRACK_MPN2IDX, one index each, and the way back in PhysTrack_GetNext.
P1(mpn) == (mpn \div PHYSTRACK_L3_ENTRIES) \div PHYSTRACK_L2_ENTRIES
P2(mpn) == (mpn \div PHYSTRACK_L3_ENTRIES) % PHYSTRACK_L2_ENTRIES
P3(mpn) == mpn % PHYSTRACK_L3_ENTRIES

ToMPN(pos) == (pos[1] * PHYSTRACK_L2_ENTRIES + pos[2]) * PHYSTRACK_L3_ENTRIES + pos[3]

EmptyL2 == [p2 \in Idx2 |-> NULL]

Init ==
  /\ dir = [p1 \in Idx1 |-> NULL]
  /\ added = {}

-----------------------------------------------------------------------------
\* PhysTrack_Test.
Test(mpn) ==
  /\ P1(mpn) \in Idx1
  /\ dir[P1(mpn)] # NULL
  /\ dir[P1(mpn)][P2(mpn)] # NULL
  /\ P3(mpn) \in dir[P1(mpn)][P2(mpn)]

\* The directories with the missing ones of mpn allocated.
Dir2(mpn) == IF dir[P1(mpn)] = NULL THEN EmptyL2 ELSE dir[P1(mpn)]
Dir3(mpn) == IF Dir2(mpn)[P2(mpn)] = NULL THEN {} ELSE Dir2(mpn)[P2(mpn)]

WithBits(mpn, bits) ==
  [dir EXCEPT ![P1(mpn)] = [Dir2(mpn) EXCEPT ![P2(mpn)] = bits]]

\* Mutant: the directory is allocated anew although there is one.
AddFresh(mpn) ==
  /\ ~Test(mpn)
  /\ dir' = [dir EXCEPT ![P1(mpn)] = [EmptyL2 EXCEPT ![P2(mpn)] = Dir3(mpn) \cup {P3(mpn)}]]
  /\ added' = added \cup {mpn}

\* PhysTrack_Add and PhysTrack_Remove.
Add(mpn) ==
  /\ ~Test(mpn)
  /\ dir' = WithBits(mpn, Dir3(mpn) \cup {P3(mpn)})
  /\ added' = added \cup {mpn}

Remove(mpn) ==
  /\ Test(mpn)
  /\ dir' = WithBits(mpn, Dir3(mpn) \ {P3(mpn)})
  /\ added' = added \ {mpn}

\* PhysTrack_Free, which panics if a bit is set, and another PhysTrack_Alloc.
Free ==
  /\ \A p1 \in Idx1 : dir[p1] # NULL =>
       \A p2 \in Idx2 : dir[p1][p2] # NULL => dir[p1][p2] = {}
  /\ dir' = [p1 \in Idx1 |-> NULL]
  /\ UNCHANGED added

-----------------------------------------------------------------------------
(* PhysTrack_GetNext.                                                        *)

\* Mutant: p3 is not reset for the next bit map.
VisitedFromP3(mpn) ==
  {pos \in Idx1 \X Idx2 \X Idx3 :
     \/ pos[1] = P1(mpn) /\ pos[2] >= P2(mpn) /\ pos[3] >= P3(mpn)
     \/ pos[1] > P1(mpn)}

\* The positions its loops go through when they start at mpn.
Visited(mpn) ==
  {pos \in Idx1 \X Idx2 \X Idx3 :
     \/ pos[1] = P1(mpn) /\ pos[2] = P2(mpn) /\ pos[3] >= P3(mpn)
     \/ pos[1] = P1(mpn) /\ pos[2] > P2(mpn)
     \/ pos[1] > P1(mpn)}

Before(a, b) ==
  \/ a[1] < b[1]
  \/ a[1] = b[1] /\ a[2] < b[2]
  \/ a[1] = b[1] /\ a[2] = b[2] /\ a[3] < b[3]

IsSet(pos) ==
  dir[pos[1]] # NULL /\ dir[pos[1]][pos[2]] # NULL /\ pos[3] \in dir[pos[1]][pos[2]]

\* The first of them whose bit is set.
GetNext(mpn) ==
  LET found == {pos \in Visited(IF mpn = NULL THEN 0 ELSE mpn + 1) : IsSet(pos)}
  IN  IF found = {} THEN NULL
      ELSE ToMPN(CHOOSE pos \in found : \A q \in found \ {pos} : Before(pos, q))

\* PhysTrack_GetNumTrackedPages: how often GetNext finds another page; Walk[k] is what
\* it finds at the k-th call.
Calls == 0 .. Cardinality(MPNs) + 1

Walk[k \in Calls] ==
  IF k = 0 THEN NULL
  ELSE IF k > 1 /\ Walk[k - 1] = NULL THEN NULL ELSE GetNext(Walk[k - 1])

NumTrackedPages == Cardinality({k \in Calls : Walk[k] # NULL})

-----------------------------------------------------------------------------
Next ==
  \/ \E mpn \in MPNs : Add(mpn) \/ Remove(mpn)
  \/ Free

Spec == Init /\ [][Next]_vars

-----------------------------------------------------------------------------
(* Properties.                                                              *)

\* The type of the directories; Test needs no more than the indices in range.
TypeOK ==
  /\ dir \in [Idx1 -> {NULL} \cup [Idx2 -> {NULL} \cup SUBSET Idx3]]
  /\ added \subseteq MPNs

Least(S) == CHOOSE m \in S : \A n \in S : m <= n

\* The tracker is the set of the pages added: PhysTrack_Test answers membership,
\* PhysTrack_GetNext the least member above, and the count is that of the members, however
\* the pages are spread over the directories.
TrackerExact ==
  /\ \A mpn \in MPNs : Test(mpn) <=> mpn \in added
  /\ \A mpn \in MPNs \cup {NULL} :
       LET above == {m \in added : mpn = NULL \/ m > mpn}
       IN  GetNext(mpn) = IF above = {} THEN NULL ELSE Least(above)
  /\ NumTrackedPages = Cardinality(added)
=============================================================================
