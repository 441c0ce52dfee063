------------------------------- MODULE MCVMMon -------------------------------
(***************************************************************************)
(* One model of the modules about vmmon that share no state: the life of   *)
(* machines, their host pages, the page tracker, the sleeping and waking   *)
(* of VCPUs, the loading of the monitor, and the areas and the statistics  *)
(* variables shared with it.  part says which of them a behaviour is       *)
(* about, and the others stay where they start.                            *)
(***************************************************************************)
EXTENDS VMLifecycle, TLC

CONSTANTS
  VPNs, MaxMPN, MEMTRACK_HT_SIZE, MaxTracked, MaxContig, MaxNumPages,
  PHYSTRACK_L1_ENTRIES, PHYSTRACK_L2_ENTRIES, PHYSTRACK_L3_ENTRIES,
  VCPUs, ModuleCalls, MaxSignals,
  Booted, LoadedTables, SharedPages, PAGE_SIZE, BlobSize, L1Pages, MaxPage,
  Areas, MultiVCPU, NumPages, MaxArrays, MayOverlap,
  Parts          \* what behaviours are about

VARIABLES
  part,
  life, mapped, refs, memtracker, lockedPages, AWEPages, contigMappings,
  dir, added,
  vcpuPc, then, after, call, moduleCallInterrupted, currentHostCpu, crosscallWaitSet,
  vcpuSemaTask, interruptible, wake, ask, asked, vcpus, semaphore,
  status, table, blob, vcpu, line, i, l1MPNs, hasAddrSpace, pte, frames, vmmTracker, allocs,
  pagesPerVcpu, pages, arrays, locked, untracked, areaPc, areaOp,
  statPagesPerVcpu, statPages, pinned, statPc, statOp, registered, crossed

pageVars  == <<life, mapped, refs, memtracker, lockedPages, AWEPages, contigMappings>>
trackVars == <<dir, added>>
waitVars  == <<vcpuPc, then, after, call, moduleCallInterrupted, currentHostCpu,
               crosscallWaitSet, vcpuSemaTask, interruptible, wake, ask, asked, vcpus,
               semaphore>>

loadVars  == <<status, table, blob, vcpu, line, i, l1MPNs, hasAddrSpace, pte, frames,
               vmmTracker, allocs>>
areaVars  == <<pagesPerVcpu, pages, arrays, locked, untracked, areaPc, areaOp>>
statVars  == <<statPagesPerVcpu, statPages, pinned, statPc, statOp, registered, crossed>>

\* The tables of the machine that is booted: entries of two pages, one after the other; the
\* last may be one that is refused.
MLEntry(content, source, flags, bspOnly, sub, offset, size) ==
  [content |-> content, source |-> source, flags |-> flags, bspOnly |-> bspOnly, sub |-> sub,
   offset |-> offset, size |-> size]

MLEntries == {
  MLEntry("tables", "none", "ro", FALSE, "none", 0, 0),
  MLEntry("zero", "none", "rw", FALSE, "none", 0, 0),
  MLEntry("zero", "blob", "rw", TRUE, "none", 0, 1),
  MLEntry("copy", "blob", "rx", FALSE, "none", 1, 3),
  MLEntry("copy", "blob", "rx", TRUE, "none", 3, 2),
  MLEntry("share", "blob", "ro", FALSE, "none", 2, 2),
  MLEntry("share", "user", "rw", FALSE, "region", 0, 0),
  MLEntry("share", "host", "rx", TRUE, "code", 0, 0) }

MLOthers == {
  MLEntry("space", "none", "rwx", FALSE, "none", 0, 0),
  MLEntry("zero", "blob", "rw", FALSE, "none", 0, 5),
  MLEntry("share", "blob", "rw", FALSE, "none", 0, 2),
  MLEntry("share", "user", "rw", FALSE, "header", 0, 0),
  MLEntry("share", "host", "rw", FALSE, "data", 0, 0),
  MLEntry("share", "user", "rw", TRUE, "missing", 0, 0),
  MLEntry("share", "host", "ro", FALSE, "htmap", 0, 0),
  MLEntry("invalid", "none", "rw", FALSE, "none", 0, 0) }

MLPlaced(e, vpn, size) ==
  [content |-> e.content, source |-> e.source, flags |-> e.flags, bspOnly |-> e.bspOnly,
   sub |-> e.sub, offset |-> e.offset, size |-> e.size, monVPN |-> vpn, monPages |-> size]

MLSpace == MLPlaced(MLEntry("space", "none", "rwx", FALSE, "none", 0, 0), 0, MaxPage + 1)

MLTables ==
  {<<MLSpace, MLPlaced(a, 0, 2), MLPlaced(b, 2, 2), MLPlaced(c, 4, 2)>> :
     a \in MLEntries, b \in MLEntries, c \in MLEntries \cup MLOthers}

MLShared == [region |-> 1, missing |-> 0, htmap |-> 0]

Pages == INSTANCE HostPages
Track == INSTANCE PhysTrack
Wait  == INSTANCE HostWait WITH pc <- vcpuPc, Calls <- ModuleCalls
Load  == INSTANCE MonLoader WITH
           VCPUs <- Booted, Tables <- LoadedTables
Area  == INSTANCE SharedArea WITH VCPUs <- Booted, pc <- areaPc, op <- areaOp
Stat  == INSTANCE StatVars WITH
           VCPUs <- {0}, pagesPerVcpu <- statPagesPerVcpu, pages <- statPages,
           pc <- statPc, op <- statOp

ASSUME TrackersAssumption == Track!TrackerAssumption
ASSUME HostPagesAssumption == Pages!PagesAssumption
ASSUME SharedAreasAssumption == Area!AreasAssumption
ASSUME WaitsAssumption == Wait!SignalsAssumption
ASSUME LoadersAssumption == Load!LoaderAssumption
ASSUME StatVarsAssumption == Stat!PagesAssumption

MCInit ==
  /\ part \in Parts
  /\ Init /\ Pages!Init /\ Track!Init /\ Wait!Init /\ Load!Init /\ Area!Init /\ Stat!Init

\* The machines are numbers, and the lowest that is free is allocated (a bound:
\* kmalloc may return any).
LowestFirst ==
  \A m \in VMs : userID[m] = 0 /\ userID'[m] # 0 => \A n \in VMs : n < m => InUse(n)

MCNext ==
  /\ UNCHANGED part
  /\ \/ /\ part = "life" /\ Next /\ LowestFirst
        /\ UNCHANGED <<pageVars, trackVars, waitVars, loadVars, areaVars, statVars>>
     \/ /\ part = "pages" /\ Pages!Next
        /\ UNCHANGED <<vars, trackVars, waitVars, loadVars, areaVars, statVars>>
     \/ /\ part = "track" /\ Track!Next
        /\ UNCHANGED <<vars, pageVars, waitVars, loadVars, areaVars, statVars>>
     \/ /\ part = "wait" /\ Wait!Next
        /\ UNCHANGED <<vars, pageVars, trackVars, loadVars, areaVars, statVars>>
     \/ /\ part = "load" /\ Load!Next
        /\ UNCHANGED <<vars, pageVars, trackVars, waitVars, areaVars, statVars>>
     \/ /\ part = "area" /\ Area!Next
        /\ UNCHANGED <<vars, pageVars, trackVars, waitVars, loadVars, statVars>>
     \/ /\ part = "stat" /\ Stat!Next
        /\ UNCHANGED <<vars, pageVars, trackVars, waitVars, loadVars, areaVars>>

MCSpec ==
  MCInit /\ [][MCNext]_<<part, vars, pageVars, trackVars, waitVars, loadVars, areaVars, statVars>>

Symmetry == Permutations(Files) \cup Permutations(Threads)

\* What is checked of the part a behaviour is about; the others do not change.
TypesOK ==
  /\ part = "life"  => TypeOK
  /\ part = "pages" => Pages!TypeOK
  /\ part = "track" => Track!TypeOK
  /\ part = "wait"  => Wait!TypeOK
  /\ part = "load"  => Load!TypeOK
  /\ part = "area"  => Area!TypeOK
  /\ part = "stat"  => Stat!TypeOK

\* The pages of the host that vmmon has pinned are those it knows it has (PinsExact), and its
\* tracker is the set of what was added and not removed (TrackerExact); the pages of shared
\* areas and statistics variables stay pinned and claimed as long as they are recorded
\* (RecordedPinned, ClaimsHold).
PagesExact ==
  /\ part = "pages" => Pages!PinsExact
  /\ part = "track" => Track!TrackerExact
  /\ part = "area"  => Area!RecordedPinned
  /\ part = "stat"  => Stat!ClaimsHold

\* No VCPU sleeps while one it waits for has woken it (WakeupDue), and no ring of VCPUs sleeps
\* for each other (NoSleepingRing).
YieldersWake == part = "wait" => Wait!YieldersWake

\* A monitor that was loaded has what its table says, on every VCPU (TableLoaded); no two VCPUs
\* share a page that is to be their own (Separate); and every page allocated is the machine's,
\* or given back when it fails (Accounted).
MonitorLoaded ==
  part = "load" => Load!TableLoaded /\ Load!Separate /\ Load!Accounted
=============================================================================
