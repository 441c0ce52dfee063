------------------------------ MODULE HostPages ------------------------------
(***************************************************************************)
(* The pages the host holds for one virtual machine (vmmon, hostif.c and   *)
(* memtrack.c): pages of the process pinned by address or by page, pages   *)
(* allocated for the guest, and contiguous blocks.  Every operation runs   *)
(* with the lock of the machine held and is one action; the process remaps *)
(* its addresses at any time.                                              *)
(*                                                                         *)
(* The page trackers are sets (module PhysTrack).  The memory tracker is   *)
(* the sequence of its entries: they are looked up by address, which never *)
(* changes, and by page, through the hash chain the entry was put on when  *)
(* it was added.  Pages are positive numbers; 0 is no page.                *)
(***************************************************************************)
EXTENDS Integers, FiniteSets, Sequences

CONSTANTS
  VPNs,                 \* addresses of the process, by page
  MaxMPN,               \* machine pages are 1 .. MaxMPN
  MEMTRACK_HT_SIZE,     \* hash chains of a memory tracker
  MaxTracked,           \* entries its directories have room for
  MaxContig,            \* SVM_VMCB_IO_BITMAP_PAGES
  MaxNumPages           \* pages asked for at a time (bound)

MPNs == 1 .. MaxMPN

\* A block has up to SVM_VMCB_IO_BITMAP_PAGES pages, which are three.
PagesAssumption ==
  /\ MaxMPN \in Nat /\ MEMTRACK_HT_SIZE \in Nat \ {0}
  /\ MaxContig \in 1 .. 3

VARIABLES
  life,             \* "none", "live", or "stuck" in a failed HostIF_Init
  mapped,           \* the page of the process at an address, 0 if there is none
  refs,             \* references to a page that vmmon holds
  memtracker,       \* entries [vpn, mpn, chain]
  lockedPages,      \* pages pinned by page
  AWEPages,         \* pages allocated, contiguous ones included
  contigMappings    \* blocks [mpn, pages]

trackers == <<memtracker, lockedPages, AWEPages, contigMappings>>
vars     == <<life, mapped, refs, trackers>>

Init ==
  /\ life = "none"
  /\ mapped = [v \in VPNs |-> 0]
  /\ refs = [m \in MPNs |-> 0]
  /\ memtracker = <<>> /\ lockedPages = {} /\ AWEPages = {} /\ contigMappings = {}

-----------------------------------------------------------------------------
(* References, the memory tracker, and the allocator.                        *)

Plus(S)  == refs' = [m \in MPNs |-> IF m \in S THEN refs[m] + 1 ELSE refs[m]]
Minus(S) == refs' = [m \in MPNs |-> IF m \in S THEN refs[m] - 1 ELSE refs[m]]

Hash(mpn) == mpn % MEMTRACK_HT_SIZE

\* MemTrack_LookupVPN and MemTrack_LookupMPN: the entries they find.
LookupVPN(v) == {k \in DOMAIN memtracker : memtracker[k].vpn = v}
LookupMPN(m) == {k \in DOMAIN memtracker : memtracker[k].chain = Hash(m) /\ memtracker[k].mpn = m}

LockedAt(v) == {k \in LookupVPN(v) : memtracker[k].mpn # 0}

\* MemTrack_Add.
MemTrackAdd(v, m) ==
  /\ Len(memtracker) < MaxTracked
  /\ memtracker' = Append(memtracker, [vpn |-> v, mpn |-> m, chain |-> Hash(m)])

\* Pages the allocator may give out (external): neither the process nor vmmon has them.
Unused == {m \in MPNs : refs[m] = 0 /\ \A v \in VPNs : mapped[v] # m}

\* The pages of a contiguous block: as many as the next power of two.
Order(pages) == CHOOSE k \in 0 .. pages : 2^k >= pages /\ \A j \in 0 .. k - 1 : 2^j < pages
Block(map)   == map.mpn .. map.mpn + 2^Order(map.pages) - 1
Tracked(map) == map.mpn .. map.mpn + map.pages - 1

-----------------------------------------------------------------------------
(* HostIF_Init.                                                              *)

HostIFInit ==
  /\ life = "none" /\ life' = "live"
  /\ UNCHANGED <<mapped, refs, trackers>>

\* HostIFHostMemInit finds no memory: the cleanup takes vmMutex, which is not
\* initialised yet.  (Without memory for the tracker or the VMHost nothing is left behind.)
HostMemInitFails ==
  /\ life = "none" /\ life' = "stuck"
  /\ UNCHANGED <<mapped, refs, trackers>>

-----------------------------------------------------------------------------
(* Pages of the process.                                                     *)

\* HostIF_LockPage without allowMultipleMPNsPerVA.
LockPage(v) ==
  LET m == mapped[v]
  IN  /\ life = "live" /\ LockedAt(v) = {} /\ m # 0
      /\ IF LookupVPN(v) = {} THEN MemTrackAdd(v, m)
         ELSE \E k \in LookupVPN(v) : memtracker' = [memtracker EXCEPT ![k].mpn = m]
      /\ Plus({m})
      /\ UNCHANGED <<life, mapped, lockedPages, AWEPages, contigMappings>>

\* Mutant: a page that is locked already keeps the reference.
LockPageKeepsReference(v) ==
  LET m == mapped[v]
  IN  /\ life = "live" /\ m # 0
      /\ lockedPages' = lockedPages \cup {m}
      /\ Plus({m})
      /\ UNCHANGED <<life, mapped, memtracker, AWEPages, contigMappings>>

\* HostIF_LockPage with it: the reference of a page that is locked already is put.
LockPageByMPN(v) ==
  LET m == mapped[v]
  IN  /\ life = "live" /\ m # 0 /\ m \notin lockedPages
      /\ lockedPages' = lockedPages \cup {m}
      /\ Plus({m})
      /\ UNCHANGED <<life, mapped, memtracker, AWEPages, contigMappings>>

\* Mutant: the entry keeps its page.
UnlockPageKeepsEntry(v) ==
  /\ life = "live"
  /\ \E k \in LockedAt(v) : Minus({memtracker[k].mpn})
  /\ UNCHANGED <<life, mapped, trackers>>

\* HostIF_UnlockPage: the page of the entry, whatever is mapped there by now.
UnlockPage(v) ==
  /\ life = "live"
  /\ \E k \in LockedAt(v) :
       /\ Minus({memtracker[k].mpn})
       /\ memtracker' = [memtracker EXCEPT ![k].mpn = 0]
  /\ UNCHANGED <<life, mapped, lockedPages, AWEPages, contigMappings>>

\* HostIF_UnlockPageByMPN, without the checks of debug builds.
UnlockPageByMPN(m) ==
  /\ life = "live" /\ m \in lockedPages
  /\ lockedPages' = lockedPages \ {m}
  /\ Minus({m})
  /\ UNCHANGED <<life, mapped, memtracker, AWEPages, contigMappings>>

\* The process maps another page of its own, or none (external).
Remap(v, m) ==
  /\ m \in (MPNs \ AWEPages) \cup {0} /\ m # mapped[v]
  /\ \A map \in contigMappings : m \notin Block(map)
  /\ mapped' = [mapped EXCEPT ![v] = m]
  /\ UNCHANGED <<life, refs, trackers>>

-----------------------------------------------------------------------------
(* Pages that are allocated.                                                 *)

\* HostIF_AllocLockedPages and AllocLowPage: the pages S that the allocator gave out and
\* whose numbers could be handed back, which may be fewer than were asked for.
AllocLockedPages(S) ==
  /\ life = "live" /\ S # {} /\ S \subseteq Unused /\ Cardinality(S) <= MaxNumPages
  /\ AWEPages' = AWEPages \cup S
  /\ Plus(S)
  /\ UNCHANGED <<life, mapped, memtracker, lockedPages, contigMappings>>

\* HostIF_FreeLockedPages of pages that AllocLockedPages returned; with another page
\* among them it does nothing.
FreeLockedPages(S) ==
  /\ life = "live" /\ S # {} /\ Cardinality(S) <= MaxNumPages
  /\ S \subseteq AWEPages \ UNION {Tracked(map) : map \in contigMappings}
  /\ AWEPages' = AWEPages \ S
  /\ Minus(S)
  /\ UNCHANGED <<life, mapped, memtracker, lockedPages, contigMappings>>

\* HostIF_AllocContigPages; only the pages asked for are tracked.
AllocContigPages(map) ==
  /\ life = "live" /\ map.pages \in 1 .. MaxContig
  /\ Block(map) \subseteq Unused
  /\ AWEPages' = AWEPages \cup Tracked(map)
  /\ contigMappings' = contigMappings \cup {map}
  /\ Plus(Block(map))
  /\ UNCHANGED <<life, mapped, memtracker, lockedPages>>

-----------------------------------------------------------------------------
(* The end of the machine.                                                   *)

\* References to m that the cleanup gives back for one set of blocks, with the entries.
Blocks(m)  == {map \in contigMappings : m \in Block(map)}
Entries(m) == {k \in DOMAIN memtracker : memtracker[k].mpn = m}
Count(b)   == IF b THEN 1 ELSE 0

\* Mutant: the blocks are freed, but their pages stay in the tracker and are put again.
CleanupPutsBlocksTwice ==
  /\ life = "live" /\ life' = "none"
  /\ refs' = [m \in MPNs |->
       refs[m] - Cardinality(Blocks(m)) - Count(m \in lockedPages) - Count(m \in AWEPages)
               - Cardinality(Entries(m))]
  /\ memtracker' = <<>> /\ lockedPages' = {} /\ AWEPages' = {} /\ contigMappings' = {}
  /\ UNCHANGED mapped

\* Vmx86CleanupContigMappings, which frees the blocks and takes their pages from the
\* tracker, then HostIF_FreeAllResources: HostIFHostMemCleanup puts the pages of both
\* trackers, and MemTrack_Cleanup unlocks the entries.
FreeAllResources ==
  /\ life = "live" /\ life' = "none"
  /\ refs' = [m \in MPNs |->
       refs[m] - Cardinality(Blocks(m)) - Count(m \in lockedPages)
               - Count(m \in AWEPages /\ \A map \in contigMappings : m \notin Tracked(map))
               - Cardinality(Entries(m))]
  /\ memtracker' = <<>> /\ lockedPages' = {} /\ AWEPages' = {} /\ contigMappings' = {}
  /\ UNCHANGED mapped

-----------------------------------------------------------------------------
Maps == [mpn : MPNs, pages : 1 .. MaxContig]

Next ==
  \/ HostIFInit \/ HostMemInitFails \/ FreeAllResources
  \/ \E v \in VPNs : LockPage(v) \/ LockPageByMPN(v) \/ UnlockPage(v)
  \/ \E v \in VPNs, m \in 0 .. MaxMPN : Remap(v, m)
  \/ \E m \in MPNs : UnlockPageByMPN(m)
  \/ \E S \in SUBSET MPNs : AllocLockedPages(S) \/ FreeLockedPages(S)
  \/ \E map \in Maps : AllocContigPages(map)

Spec == Init /\ [][Next]_vars

-----------------------------------------------------------------------------
(* Properties.                                                              *)

\* The type of every variable.
TypeOK ==
  /\ life \in {"none", "live", "stuck"}
  /\ mapped \in [VPNs -> 0 .. MaxMPN]
  /\ refs \in [MPNs -> Int]
  /\ memtracker \in Seq([vpn : VPNs, mpn : 0 .. MaxMPN, chain : 0 .. MEMTRACK_HT_SIZE - 1])
  /\ lockedPages \subseteq MPNs /\ AWEPages \subseteq MPNs
  /\ contigMappings \subseteq Maps

\* The references vmmon holds are those its trackers account for, page by page, whatever
\* the process does with its addresses in between; a machine that is gone holds none.
PinsExact ==
  /\ \A m \in MPNs :
       refs[m] = Cardinality(Entries(m)) + Count(m \in lockedPages) + Count(m \in AWEPages)
                   + Count(\E map \in contigMappings : m \in Block(map) \ Tracked(map))
  /\ life = "none" => \A m \in MPNs : refs[m] = 0
  /\ \A v \in VPNs : Cardinality(LookupVPN(v)) <= 1
=============================================================================
