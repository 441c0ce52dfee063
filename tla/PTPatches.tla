------------------------------ MODULE PTPatches ------------------------------
(***************************************************************************)
(* The page table patches of the cross pages (vmmon, common/task.c:        *)
(* Task_InitCrosspage and what it calls): the pages that the switch runs   *)
(* on must be mapped by the monitor's page tables where the host has them. *)
(* For each of them the entry is found that the monitor's address space    *)
(* leaves empty highest up; tables are allocated below it, which pages     *)
(* that are near each other share; then the entries get the form of page   *)
(* table entries, are written into the monitor's tables, and what they map *)
(* is verified by walking them.                                            *)
(*                                                                         *)
(* An entry is its level and its global index at that level.  Tables have  *)
(* Radix entries.                                                          *)
(***************************************************************************)
EXTENDS Integers, Sequences, FiniteSets

CONSTANTS
  Radix,        \* 512
  NumVCPUs,
  Layouts,      \* [start, end, data, gdt, code]: the monitor's pages, and the host's
  Strays,       \* pages the monitor's tables map besides, or leave out
  Losses        \* sets of the monitor's tables that the machine's trackers lose, see GiveUp

PatchAssumption ==
  /\ Radix \in Nat \ {0} /\ NumVCPUs \in Nat \ {0}
  /\ \A l \in Layouts :
       /\ {l.start, l.end, l.gdt, l.code} \subseteq Nat /\ l.start <= l.end
       /\ l.data \in [1 .. NumVCPUs -> Nat]
  /\ \A s \in Strays : s \subseteq Nat

Levels == 1 .. 4
MAX_SWITCH_PT_PATCHES == 3

VARIABLES
  layout, stray, \* of the machine
  vcpu, pc,      \* of Task_InitCrosspage
  left,          \* pages of the VCPU that are still to be patched or verified
  patches,       \* vmmPTP, of a VCPU
  written,       \* how many of them are in the monitor's tables, of a VCPU
  numPTPPages, vmNumPTPPages, tracked, \* counted, stored, and in the tracker
  failed,        \* an allocation has failed (history)
  untracked      \* the monitor's tables, of a VCPU, that are in none of the machine's trackers

vars == <<layout, stray, vcpu, pc, left, patches, written, numPTPPages, vmNumPTPPages, tracked,
          failed, untracked>>

VcpuIDs == 1 .. NumVCPUs

Exp(n) == CASE n = 0 -> 1 [] n = 1 -> Radix [] n = 2 -> Radix * Radix
            [] OTHER -> Radix * Radix * Radix

PTE_GLOBAL_INDEX(lpn, level) == lpn \div Exp(level - 1)
Entry(lpn, level) == <<level, PTE_GLOBAL_INDEX(lpn, level)>>

\* The host's pages that VCPU v needs, in the order they are patched.
Wanted(v) == <<layout.data[v], layout.gdt, layout.code>>

\* The monitor's own mappings, the same for every VCPU, and the entries of its tables.
MonMapped == ((layout.start .. layout.end) \ stray) \cup (stray \ (layout.start .. layout.end))
MonEntries == {Entry(lpn, level) : lpn \in MonMapped, level \in Levels}

Init ==
  /\ layout \in Layouts /\ stray \in Strays
  /\ vcpu = 1 /\ pc = "create" /\ left = Wanted(1)
  /\ patches = [v \in VcpuIDs |-> <<>>] /\ written = [v \in VcpuIDs |-> 0]
  /\ numPTPPages = 0 /\ vmNumPTPPages = 0 /\ tracked = {} /\ failed = FALSE
  /\ untracked = {}

Fail == pc' = "failed"

-----------------------------------------------------------------------------
(* TaskCreatePTPatch.                                                       *)

\* Mutant: the last of the monitor's pages is forgotten.
OutsideStart(lpn, level) ==
  LET i == PTE_GLOBAL_INDEX(lpn, level)
  IN i < PTE_GLOBAL_INDEX(layout.start, level) \/ i >= PTE_GLOBAL_INDEX(layout.end, level)

Outside(lpn, level) ==
  LET i == PTE_GLOBAL_INDEX(lpn, level)
  IN i < PTE_GLOBAL_INDEX(layout.start, level) \/ i > PTE_GLOBAL_INDEX(layout.end, level)

\* The level of the highest entry on the page's path that is not the monitor's; 0: none.
Level(lpn) ==
  IF \E level \in Levels : Outside(lpn, level)
  THEN CHOOSE level \in Levels :
         Outside(lpn, level) /\ \A k \in Levels : Outside(lpn, k) => k <= level
  ELSE 0

\* Mutant: a patch is never used again.
SearchNone(v, lpn) == {}

\* TaskSearchPTPatch.
Search(v, lpn) ==
  {i \in DOMAIN patches[v] : patches[v][i].root = Entry(lpn, Level(lpn))}

\* TaskSavePTPatch: the patch that is there, or a new one.
Saved(v, lpn) ==
  IF Search(v, lpn) # {} THEN patches[v]
  ELSE Append(patches[v], [root |-> Entry(lpn, Level(lpn)), lpn |-> lpn, tables |-> {},
                           maps |-> {}, fixed |-> FALSE])

PatchOf(v, lpn) == IF Search(v, lpn) # {} THEN CHOOSE i \in Search(v, lpn) : TRUE
                   ELSE Len(patches[v]) + 1

\* The entries from the patch down to the last level, below which a table is needed.
Path(lpn) == {Entry(lpn, level) : level \in 2 .. Level(lpn)}

CreatePatch ==
  /\ pc = "create" /\ left # <<>>
  /\ LET lpn == Head(left) IN
       IF Level(lpn) = 0 THEN Fail /\ UNCHANGED <<left, patches, numPTPPages, tracked>>
       ELSE LET p == PatchOf(vcpu, lpn)
                new == Path(lpn) \ Saved(vcpu, lpn)[p].tables
            IN /\ patches' = [patches EXCEPT ![vcpu] =
                    [Saved(vcpu, lpn) EXCEPT ![p].tables = @ \cup new,
                                             ![p].maps = @ \cup {lpn}]]
               /\ numPTPPages' = numPTPPages + Cardinality(new)
               /\ tracked' = tracked \cup {<<vcpu, p, e>> : e \in new}
               /\ left' = Tail(left) /\ UNCHANGED pc
  /\ UNCHANGED <<layout, stray, vcpu, written, vmNumPTPPages, failed, untracked>>

\* No memory for one of the tables: those above it stay, and are freed with the machine.
NoMemory ==
  /\ pc = "create" /\ left # <<>> /\ Level(Head(left)) > 1
  /\ LET lpn == Head(left)
         p == PatchOf(vcpu, lpn)
         new == Path(lpn) \ Saved(vcpu, lpn)[p].tables
     IN \E level \in {e[1] : e \in new} :
          LET got == {e \in new : e[1] > level}
          IN /\ patches' = [patches EXCEPT ![vcpu] =
                  [Saved(vcpu, lpn) EXCEPT ![p].tables = @ \cup got]]
             /\ numPTPPages' = numPTPPages + Cardinality(got)
             /\ tracked' = tracked \cup {<<vcpu, p, e>> : e \in got}
  /\ Fail /\ failed' = TRUE
  /\ UNCHANGED <<layout, stray, vcpu, left, written, vmNumPTPPages, untracked>>

\* TaskFixupPTPatches.
Fixup ==
  /\ pc = "create" /\ left = <<>>
  /\ patches' = [patches EXCEPT ![vcpu] =
       [i \in DOMAIN @ |-> [@[i] EXCEPT !.fixed = TRUE]]]
  /\ pc' = "apply"
  /\ UNCHANGED <<layout, stray, vcpu, left, written, numPTPPages, vmNumPTPPages, tracked,
                 failed, untracked>>

-----------------------------------------------------------------------------
(* TaskApplyPTPatches and TaskVerifyPTPatches.                              *)

Applied(v) == {patches[v][i] : i \in 1 .. written[v]}
PatchRoots(v) == {p.root : p \in Applied(v)}

\* Mutant: an entry that the monitor uses is overwritten.
FreeAlways(v, p) ==
  /\ p.root[1] > 1
  /\ \A level \in p.root[1] + 1 .. 4 : Entry(p.lpn, level) \in MonEntries

\* The entry is not in the last table, those above it are present, and it is empty.
Free(v, p) ==
  /\ p.root[1] > 1
  /\ \A level \in p.root[1] + 1 .. 4 : Entry(p.lpn, level) \in MonEntries
  /\ p.root \notin MonEntries \cup PatchRoots(v)

\* The table that an entry is in, and whether the ones that are read on the way to the entry of a
\* page at a level are tracked: the machine's memory is read and written only where it is.
TableOf(e) == <<e[1], e[2] \div Radix>>
Readable(v, lpn, level) == \A k \in level .. 4 : <<v, TableOf(Entry(lpn, k))>> \notin untracked

ApplyPatch ==
  /\ pc = "apply" /\ written[vcpu] < Len(patches[vcpu])
  /\ IF LET p == patches[vcpu][written[vcpu] + 1]
        IN Free(vcpu, p) /\ Readable(vcpu, p.lpn, p.root[1])
     THEN written' = [written EXCEPT ![vcpu] = @ + 1] /\ UNCHANGED pc
     ELSE Fail /\ UNCHANGED written
  /\ UNCHANGED <<layout, stray, vcpu, left, patches, numPTPPages, vmNumPTPPages, tracked,
                 failed, untracked>>

\* What the walk of the tables of VCPU v finds for a page: itself, the monitor's page, or none.
Walk(v, lpn) ==
  LET on == {p \in Applied(v) : p.root = Entry(lpn, p.root[1])}
  IN IF on # {}
     THEN LET p == CHOOSE p \in on : TRUE
          IN IF p.fixed /\ lpn \in p.maps
                /\ \A level \in 2 .. p.root[1] : Entry(lpn, level) \in p.tables
             THEN "host" ELSE "none"
     ELSE IF lpn \in MonMapped THEN "monitor" ELSE "none"

\* The tables below the patched entry are the patch's, and tracked.
Verify ==
  /\ pc = "apply" /\ written[vcpu] = Len(patches[vcpu])
  /\ IF \A i \in 1 .. 3 : LET lpn == Wanted(vcpu)[i]
                         IN Walk(vcpu, lpn) = "host" /\ Readable(vcpu, lpn, Level(lpn))
     THEN pc' = "next" ELSE Fail
  /\ UNCHANGED <<layout, stray, vcpu, left, patches, written, numPTPPages, vmNumPTPPages, tracked,
                 failed, untracked>>

\* Another thread of the machine unlocks pages that hold the monitor's tables, or they never were
\* locked.  (That they are locked again makes no difference: the first refusal ends it.)
GiveUp ==
  /\ pc \in {"create", "apply", "next"}
  /\ \E tables \in Losses : untracked' = untracked \cup tables
  /\ UNCHANGED <<layout, stray, vcpu, pc, left, patches, written, numPTPPages, vmNumPTPPages,
                 tracked, failed>>

\* The next VCPU, or the count of pages is stored.
NextVCPU ==
  /\ pc = "next"
  /\ IF vcpu < NumVCPUs
     THEN /\ vcpu' = vcpu + 1 /\ left' = Wanted(vcpu + 1) /\ pc' = "create"
          /\ UNCHANGED vmNumPTPPages
     ELSE vmNumPTPPages' = numPTPPages /\ pc' = "done" /\ UNCHANGED <<vcpu, left>>
  /\ UNCHANGED <<layout, stray, patches, written, numPTPPages, tracked, failed, untracked>>

\* Task_SwitchPTPPageCleanup, when the machine is released.
Cleanup ==
  /\ pc \in {"done", "failed"} /\ pc' = "released"
  /\ tracked' = {}
  /\ UNCHANGED <<layout, stray, vcpu, left, patches, written, numPTPPages, vmNumPTPPages, failed,
                 untracked>>

Next == CreatePatch \/ NoMemory \/ Fixup \/ ApplyPatch \/ Verify \/ GiveUp \/ NextVCPU \/ Cleanup

Spec == Init /\ [][Next]_vars

-----------------------------------------------------------------------------
(* Properties.                                                              *)

LPNs == 0 .. Radix * Radix * Radix * Radix - 1

\* The type of every variable.
TypeOK ==
  /\ layout \in Layouts /\ stray \in Strays /\ vcpu \in VcpuIDs /\ failed \in BOOLEAN
  /\ pc \in {"create", "apply", "next", "done", "failed", "released"}
  /\ \A v \in VcpuIDs :
       /\ Len(patches[v]) <= MAX_SWITCH_PT_PATCHES /\ written[v] \in 0 .. Len(patches[v])
       /\ \A i \in DOMAIN patches[v] : patches[v][i].root[1] \in Levels
  /\ {numPTPPages, vmNumPTPPages} \subseteq Nat /\ untracked \subseteq UNION Losses

\* The entries on the path of a page that neither the monitor's address space nor its tables
\* use: a page can be patched if one of them is above the last level and the ones above it are
\* the monitor's.
CanPatch(lpn) ==
  \E level \in 2 .. 4 :
    /\ \A m \in (layout.start .. layout.end) \cup MonMapped : Entry(m, level) # Entry(lpn, level)
    /\ \A k \in level + 1 .. 4 :
         /\ Entry(lpn, k) \in MonEntries
         /\ \E m \in layout.start .. layout.end : Entry(m, k) = Entry(lpn, k)

\* When it is done, the monitor's tables of every VCPU map the three pages and otherwise what
\* they mapped; what is counted is what was allocated; and it fails only for want of memory,
\* because a page cannot be patched, or because one of the tables above where a page is patched
\* is not tracked, or was not for long enough.
TablesExact ==
  /\ pc = "done" =>
       /\ \A v \in VcpuIDs, lpn \in LPNs :
            Walk(v, lpn) = IF \E i \in 1 .. 3 : Wanted(v)[i] = lpn THEN "host"
                           ELSE IF lpn \in MonMapped THEN "monitor" ELSE "none"
       /\ vmNumPTPPages = Cardinality(tracked)
       /\ tracked = UNION {UNION {{<<v, i, e>> : e \in patches[v][i].tables} :
                                   i \in DOMAIN patches[v]} : v \in VcpuIDs}
  /\ (pc = "failed" /\ ~failed) =>
       \E v \in VcpuIDs : \E i \in 1 .. 3 :
         LET lpn == Wanted(v)[i] IN ~CanPatch(lpn) \/ ~Readable(v, lpn, Level(lpn))
=============================================================================
