------------------------------ MODULE MCVMMWorld ------------------------------
(***************************************************************************)
(* One model of the modules about the switch to the monitor and about what *)
(* vmmon knows of the time and of the CPUs, which share no state: the      *)
(* switch itself, on the hosts listed here, the page tables it runs on,    *)
(* the pseudo TSC of a machine, the host's uptime, the registers that are  *)
(* to be alike on all CPUs, and the reading of all time stamp counters at  *)
(* once.  part says which of them a behaviour is about, and the others     *)
(* stay where they start.                                                  *)
(***************************************************************************)
EXTENDS WorldSwitch, TLC

CONSTANTS
  TimedVCPUs, Hz, LargeDelta, Word, MaxTSC, MaxUptime, Skews,
  UptimeReaders, Timer, UPTIME_FREQ, MaxJiffies, MaxWarps, Warps, Delay,
  AllCPUs, Capacities, Members, MaxField,
  Caller, TSCs, Rounds,
  Second,        \* one of VCPUs, see Bounded
  Radix, NumVCPUs, Layouts, Strays, Losses,
  Parts          \* what behaviours are about

VARIABLES
  part,
  hwTSCsSynced, neverSwitchToRefClock, useRefClock, tscOffset, refAdd, tsc, uptime, skew, polling,
  ptscOffsetInfo, ptscLatest, ptscOffsets, ptscPc, ptsc, start, old, latest, add,
  worldSwitchPTSC, stale, reused, stepped, backwards,
  jiffies, warped, warps, offsets, uptimeBase, version, monotimeBase, jiffiesBase, uptimePc,
  readVersion, jifs, jifBase, monoBase, upBase, clock, attempts, uptimes, expires, fixes,
  member, msr, purpose, numLogicalCPUs, index, logicalCPUs, replied, result,
  tscPc, numCPUs, ready, failures, done, min, max, expired, tscs, olds, round, delta, okay, early,
  layout, stray, vcpu, patchPc, left, patches, written, numPTPPages, vmNumPTPPages, tracked,
  failed, untracked

ptscVars ==
  <<hwTSCsSynced, neverSwitchToRefClock, useRefClock, tscOffset, refAdd, tsc, uptime, skew,
    polling, ptscOffsetInfo, ptscLatest, ptscOffsets, ptscPc, ptsc, start, old, latest, add,
    worldSwitchPTSC, stale, reused, stepped, backwards>>
uptimeVars ==
  <<jiffies, warped, warps, offsets, uptimeBase, version, monotimeBase, jiffiesBase, uptimePc,
    readVersion, jifs, jifBase, monoBase, upBase, clock, attempts, uptimes, expires, fixes>>
msrVars == <<member, msr, purpose, numLogicalCPUs, index, logicalCPUs, replied, result>>
tscVars == <<tscPc, numCPUs, ready, failures, done, min, max, expired, tscs, olds, round, delta,
             okay, early>>
patchVars  == <<layout, stray, vcpu, patchPc, left, patches, written, numPTPPages,
                vmNumPTPPages, tracked, failed, untracked>>

\* Every way a CPU's virtualization may be on and used by another hypervisor, and every use of
\* the debug registers and the traces.
Host(kind, hvOn, area, dr7) ==
  [kind |-> kind, hvOn |-> hvOn, area |-> area, trace |-> dr7 # "none", dr7 |-> dr7,
   nmi |-> hvOn]

MCHosts ==
  { Host("VT", FALSE, "none", "none"), Host("VT", TRUE, "none", "none"),
    Host("VT", TRUE, "other", "none"), Host("SVM", FALSE, "other", "none"),
    Host("SVM", TRUE, "other", "none"),
    Host("VT", FALSE, "none", "break"), Host("VT", FALSE, "none", "guard") }

\* The monitor's pages, and where the host has the pages to be patched: near each other or
\* not, inside the monitor's own addresses or outside.
HostLPNs == {0, 1, 3, 7, 13}

MCLayouts ==
  {[start |-> r[1], end |-> r[2], data |-> <<d[1], d[2]>>, gdt |-> d[3], code |-> d[4]] :
     r \in {<<4, 5>>, <<4, 7>>, <<2, 9>>, <<8, 15>>, <<6, 6>>},
     d \in {d \in HostLPNs \X HostLPNs \X HostLPNs \X HostLPNs :
              /\ d[1] < d[2]
              /\ \A i, j \in 1 .. 4 : i # j => d[i] # d[j]}}

\* The first VCPU's highest table, or those of the second one level below.
MCLosses == {{<<1, <<4, 0>>>>}, {<<2, <<3, 0>>>>, <<2, <<3, 1>>>>}}

Ptsc   == INSTANCE PseudoTSC WITH VCPUs <- TimedVCPUs, pc <- ptscPc
Uptime == INSTANCE HostUptime WITH
            Readers <- UptimeReaders, pc <- uptimePc, v <- readVersion, uptime <- uptimes
Msr    == INSTANCE MSRUniformity WITH CPUs <- AllCPUs
Sync   == INSTANCE SyncTSC WITH CPUs <- AllCPUs, pc <- tscPc, tsc <- tscs, old <- olds
Tables == INSTANCE PTPatches WITH pc <- patchPc

ASSUME ClocksAssumption == Ptsc!ClockAssumption /\ Ptsc!NoWrapAssumption
ASSUME ReadersAssumption == Uptime!UptimeAssumption
ASSUME TablesAssumption == Tables!PatchAssumption
ASSUME AllCPUsAssumption == Msr!QueryAssumption /\ Sync!CounterAssumption

\* Where the parts start that a behaviour is not about.
Fixed ==
  /\ part # "ptsc"   => /\ hwTSCsSynced = TRUE /\ neverSwitchToRefClock = FALSE
                        /\ useRefClock = FALSE
  /\ part # "msr"    => /\ member = "Join"
                        /\ msr = [c \in AllCPUs |-> Msr!NoValue]
  /\ part # "switch" => /\ host = Host("VT", FALSE, "none", "none")
                        /\ cpu = [v \in VCPUs |-> CHOOSE c \in CPUs : TRUE]
  /\ part # "tables" => /\ layout = CHOOSE l \in Layouts : TRUE
                        /\ stray = CHOOSE s \in Strays : TRUE

MCInit ==
  /\ part \in Parts /\ Fixed
  /\ Init /\ Ptsc!Init /\ (part # "ptsc" => ptscOffsetInfo.vcpu = CHOOSE v \in TimedVCPUs : TRUE)
  /\ Uptime!Init /\ Msr!Init /\ Sync!Init /\ Tables!Init

\* Bounds: what two VCPUs do on different CPUs in the middle of a switch is independent, and
\* one at a time is there; the second stays on its CPU and runs where the host's CPUs have
\* nothing special, and then no exceptions come; a second exception comes on
\* one host, whose virtualization is on.
Switching(v) == Off(v) /\ pc[v] \notin {"look", "flags"}
Bounded ==
  /\ \A v \in VCPUs : pc[v] = "look" /\ pc'[v] = "trace" =>
       \A w \in VCPUs \ {v} : ~Switching(w)
  /\ \/ host = Host("VT", FALSE, "none", "none") /\ events' = 0
     \/ pc'[Second] = pc[Second]
  /\ cpu'[Second] = cpu[Second]
  /\ events' = 2 => host = Host("VT", TRUE, "none", "none")

MCNext ==
  /\ UNCHANGED part
  /\ \/ /\ part = "ptsc"   /\ Ptsc!Next
        /\ UNCHANGED <<vars, uptimeVars, msrVars, tscVars, patchVars>>
     \/ /\ part = "uptime" /\ Uptime!Next
        /\ UNCHANGED <<vars, ptscVars, msrVars, tscVars, patchVars>>
     \/ /\ part = "msr"    /\ Msr!Next
        /\ UNCHANGED <<vars, ptscVars, uptimeVars, tscVars, patchVars>>
     \/ /\ part = "sync"   /\ Sync!Next
        /\ UNCHANGED <<vars, ptscVars, uptimeVars, msrVars, patchVars>>
     \/ /\ part = "switch" /\ Next /\ Bounded
        /\ UNCHANGED <<ptscVars, uptimeVars, msrVars, tscVars, patchVars>>
     \/ /\ part = "tables" /\ Tables!Next
        /\ UNCHANGED <<vars, ptscVars, uptimeVars, msrVars, tscVars>>

MCSpec ==
  MCInit /\ [][MCNext]_<<part, vars, ptscVars, uptimeVars, msrVars, tscVars, patchVars>>

\* What is alike in the two largest parts.
Symmetry == Permutations(TimedVCPUs) \cup Permutations(CPUs)

\* What is checked of the part a behaviour is about; the others do not change.
TypesOK ==
  /\ part = "ptsc"   => Ptsc!TypeOK
  /\ part = "uptime" => Uptime!TypeOK
  /\ part = "msr"    => Msr!TypeOK
  /\ part = "sync"   => Sync!TypeOK
  /\ part = "switch" => TypeOK
  /\ part = "tables" => Tables!TypeOK

\* VCPUs that run at the same time see one time that does not go back, as far as the code
\* keeps it (OneTime, OwnTime).
GuestClocksTrue == part = "ptsc" => Ptsc!OneTime /\ Ptsc!OwnTime

\* What is asked of all CPUs is answered by each: the replies to a query are one of each CPU
\* (AllReplied), and the spread of the counters is of values that all were read at the same
\* time (Simultaneous).
AllAnswered ==
  /\ part = "msr"  => Msr!AllReplied
  /\ part = "sync" => Sync!Simultaneous

\* What the other parts find out is right, as far as the code makes it so: the uptime is the
\* time it is where changes of the time of day can be noticed, and otherwise off by the seconds
\* that were not (OnTrack); the value that stands for all CPUs permits what every CPU can do, but
\* for one number where the CPUs disagree (CommonToAll); and the monitor's page tables map what
\* the switch needs and otherwise what they did, or there is a reason (TablesExact).
ResultsTrue ==
  /\ part = "uptime" => Uptime!OnTrack
  /\ part = "msr"    => Msr!CommonToAll
  /\ part = "tables" => Tables!TablesExact
==============================================================================
