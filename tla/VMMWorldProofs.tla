--------------------------- MODULE VMMWorldProofs ---------------------------
(***************************************************************************)
(* Proofs about the switch to the monitor and about what vmmon knows of    *)
(* the time and of the CPUs.                                               *)
(*                                                                         *)
(* The world switch gives the host its CPU back as it was, for any number  *)
(* of VCPUs and CPUs, any hosts and any number of exceptions (HostUnaware  *)
(* of WorldSwitch), and a switch that was turned back for a page is not    *)
(* seen (TurnedBackUnseen).  HostUnaware says nothing of a CPU in the      *)
(* middle of a switch, so the invariant says it label by label: each piece *)
(* of the host's state is on the CPU, or where the way back will take it   *)
(* from (Switched).  For the debug registers that is what the way back     *)
(* would leave in them (Restored), whichever of them the monitor changed;  *)
(* for the exceptions, that each is in the log or is what the monitor      *)
(* hands over, and that the log is used up at the end (PendingSaved,       *)
(* LogUsed).  It needs that one thread of a CPU at a time has interrupts   *)
(* off (OneOff), and that a slot keeps its page (PagesInv).                *)
(*                                                                         *)
(* A query of a register is answered by every CPU (Answered), and the time *)
(* stamp counters are read when all have shown up, however the exchanges   *)
(* of the extremes interleave (Joined), for any number of CPUs.            *)
(*                                                                         *)
(* The VCPUs of a machine, any number of them, see one time that does not  *)
(* go back (OneTime, OwnTime of PseudoTSC).  Where the counters agree, the *)
(* word that is exchanged counts those that have entered, and its VCPU     *)
(* does not write its offset meanwhile (OneOffset); one that chooses an    *)
(* offset while the word is what it has read chooses it ahead of all that  *)
(* was seen (Remembered, FromTheCounter, Ahead).  Where they do not, no    *)
(* time goes far from the clocks (OwnOffset), so that a difference that is *)
(* below zero is noticed.                                                  *)
(*                                                                         *)
(* What is found out is right (ResultsTrue).  The uptime is near the time  *)
(* it is because its base is right for the time of day as it is, or as it  *)
(* was before one of its changes, where they are large enough to be        *)
(* noticed (RightBase), and each correction of a base adds no more than    *)
(* one delay.  Where they are not, the uptime is within a second of the    *)
(* counted time, which is off by no more than a second for each time that  *)
(* it was made to follow the uptime (Counting).  What stands for all CPUs  *)
(* is what every one can do, whatever the order in which the fold goes     *)
(* through their answers, but for one number, which is the least of those  *)
(* before the first that disagrees with the first (Queried).  The          *)
(* monitor's page tables map the pages of the switch because an entry that *)
(* is written is never written again with something else, and what is left *)
(* to do is on the list (Patching).                                        *)
(***************************************************************************)
EXTENDS MCVMMWorld, Sequences, FiniteSetTheorems, SequenceTheorems, WellFoundedInduction, TLAPS

-----------------------------------------------------------------------------
(* The states of the variables.                                             *)

OffLabels ==
  {"look", "trace", "idt", "cr", "dr", "hv", "in", "monitor", "off", "cr2", "gdt", "drs", "hidt",
   "htrace", "nmi", "mc", "forward", "interrupt", "flags"}

Labels == OffLabels \cup {"out", "cli", "unmask", "handle", "write"}

DRValues == {"host", "guest", "mark", "none", "break", "guard"}

DRStates == [drs : DRValues, dr6 : DRValues, dr7 : DRValues]

HWStates ==
  [trace : BOOLEAN, idt : {"host", "switch"}, cr : {"none", "host", "switch"}, gdt : {"host", "cross"},
   dr : DRStates, hv : BOOLEAN, area : Areas, root : Pages \cup {0}]

LocalStates ==
  [masked : BOOLEAN, pCPU : CPUs \cup {"none"}, root : Pages \cup {0}, trace : BOOLEAN,
   off : BOOLEAN, foreign : Areas, cr : {"none", "host", "switch"}]

Calls == {"none", "other", "INTR", "alloc"} \cup Exceptions

CrosspageStates ==
  [call : Calls, pcpuNum : CPUs \cup {"none"}, retval : {"none", "result", "return"},
   retry : BOOLEAN, exception : SUBSET Exceptions, hostDR : DRStates, inHost : SUBSET DRs,
   shadow : DRStates, inShadow : SUBSET DRs]

TypeInv ==
  /\ host \in HostStates
  /\ lvt \in [CPUs -> {"open", "masked"}]
  /\ blocked \in [CPUs -> BOOLEAN] /\ latched \in [CPUs -> BOOLEAN]
  /\ hw \in [CPUs -> HWStates]
  /\ pending \in [CPUs -> SUBSET (Exceptions \cup {"INTR"})]
  /\ rootPage \in [CPUs -> Pages \cup {0}] /\ memory \subseteq Pages
  /\ cpu \in [VCPUs -> CPUs] /\ page \in [VCPUs -> Pages \cup {0}]
  /\ pc \in [VCPUs -> Labels]
  /\ local \in [VCPUs -> LocalStates]
  /\ crosspage \in [VCPUs -> CrosspageStates]
  /\ due \in [VCPUs -> {"none", "result", "return"}]
  /\ events \in 0 .. MaxEvents

-----------------------------------------------------------------------------
(* The invariant.                                                           *)

\* Interrupts are off for one thread of a CPU at a time.
OneOff == \A v, w \in VCPUs : (Off(v) /\ Off(w) /\ cpu[v] = cpu[w]) => v = w

\* The host's debug registers.
HostDRs(r) == IF r = "dr7" THEN host.dr7 ELSE "host"

\* The area that a CPU's virtualization uses is the other hypervisor's, if there is one.
AreaKept(c) == host.area # "none" => hw[c].area = host.area

\* A CPU has the whole state of the host, and nothing is left to be raised.
Whole(c) ==
  /\ hw[c].trace = host.trace /\ hw[c].idt = "host" /\ hw[c].cr = "host" /\ hw[c].gdt = "host"
  /\ \A r \in DRs : hw[c].dr[r] = HostDRs(r)
  /\ hw[c].hv = host.hvOn /\ AreaKept(c) /\ hw[c].root = 0
  /\ pending[c] = {} /\ ~blocked[c] /\ ~latched[c]

HostWhole == \A c \in CPUs : InHost(c) => Whole(c)

\* In the middle of a switch, a piece of the host's state is on the CPU or is saved, up to the step
\* that v's thread is at.
NoTrace  == {"idt", "cr", "dr", "hv", "in", "monitor", "off", "cr2", "gdt", "drs", "hidt", "htrace"}
OwnIDT   == {"cr", "dr", "hv", "in", "monitor", "off", "cr2", "gdt", "drs", "hidt"}
OwnCR    == {"dr", "hv", "in", "monitor", "off", "cr2"}
CrossGDT == {"monitor", "off", "cr2", "gdt"}
InHV     == {"in", "monitor", "off"}
SavedDR  == {"hv", "in", "monitor"}
MixedDR  == {"off", "cr2", "gdt", "drs"}

TraceSaved(v) ==
  IF pc[v] \in NoTrace THEN hw[cpu[v]].trace = FALSE /\ local[v].trace = host.trace
  ELSE hw[cpu[v]].trace = host.trace

IDTSaved(v) == hw[cpu[v]].idt = IF pc[v] \in OwnIDT THEN "switch" ELSE "host"

CRSaved(v) ==
  IF pc[v] \in OwnCR THEN local[v].cr = "host" ELSE hw[cpu[v]].cr = "host"

GDTSaved(v) == pc[v] \in CrossGDT \/ hw[cpu[v]].gdt = "host"

HVSaved(v) ==
  IF pc[v] \in InHV
  THEN /\ local[v].off = ~host.hvOn
       /\ host.area # "none" => local[v].foreign = host.area
       /\ hw[cpu[v]].root \in {0, local[v].root}
  ELSE hw[cpu[v]].hv = host.hvOn /\ AreaKept(cpu[v]) /\ hw[cpu[v]].root = 0

\* What RestoreDR leaves in register r.
Restored(v, r) ==
  LET x == crosspage[v]
  IN IF r \notin x.inHost /\ (r \notin x.inShadow \/ x.hostDR[r] # x.shadow[r])
     THEN x.hostDR[r] ELSE hw[cpu[v]].dr[r]

\* Before the monitor has changed one: those that are left in the CPU are the host's, and the
\* others are saved, but for drs, which the monitor saves when it needs them.
DRSaved(v) ==
  /\ pc[v] \in SavedDR =>
       \A r \in DRs :
         /\ r \in crosspage[v].inHost => hw[cpu[v]].dr[r] = HostDRs(r)
         /\ r # "drs" => crosspage[v].hostDR[r] = HostDRs(r)
         /\ r = "drs" => r \in crosspage[v].inHost
  /\ pc[v] \in MixedDR => \A r \in DRs : Restored(v, r) = HostDRs(r)
  /\ pc[v] \notin SavedDR \cup MixedDR => \A r \in DRs : hw[cpu[v]].dr[r] = HostDRs(r)

\* The page looked up is the CPU's, which does not lose it.
RootSaved(v) == local[v].root # 0 => local[v].root = rootPage[cpu[v]]

\* What is still to be raised has been logged, or is handed over.
HandedOver ==
  {"monitor", "off", "cr2", "gdt", "drs", "hidt", "htrace", "nmi", "mc", "forward", "interrupt"}

PendingSaved(v) ==
  /\ \A e \in pending[cpu[v]] :
       e \in crosspage[v].exception \/ (e = crosspage[v].call /\ pc[v] \in HandedOver)
  /\ blocked[cpu[v]] => "NMI" \in pending[cpu[v]]
  /\ latched[cpu[v]] => blocked[cpu[v]]
  /\ pc[v] = "interrupt" => crosspage[v].call # "NMI"

Switched(v) ==
  TraceSaved(v) /\ IDTSaved(v) /\ CRSaved(v) /\ GDTSaved(v) /\ HVSaved(v) /\ DRSaved(v)
  /\ RootSaved(v) /\ PendingSaved(v)

HostSaved == \A v \in VCPUs : Off(v) => Switched(v)

\* A thread's log is used up, and the monitor's debug registers are forgotten, at the end of
\* a switch; and a switch is tried again only if the monitor handed nothing over.
LogUsed(v) ==
  \A e \in crosspage[v].exception :
    \/ pc[v] \in OwnIDT \cup {"htrace", "nmi"}
    \/ pc[v] = "mc" /\ e = "MC"

RetryEmpty(v) ==
  crosspage[v].retry =>
    pc[v] \in HandedOver \ {"monitor", "interrupt"} /\ crosspage[v].call = "none"

CrosspageClean ==
  \A v \in VCPUs :
    LogUsed(v) /\ RetryEmpty(v) /\ (pc[v] \in MixedDR \/ crosspage[v].inShadow = {})

SwitchInv == TypeInv /\ OneOff /\ HostWhole /\ HostSaved /\ CrosspageClean

\* Pages: a slot is set once, with a page that one thread has allocated.
PagesInv ==
  /\ \A v \in VCPUs :
       /\ crosspage[v].retval = due[v]
       /\ At(v, "look") => local[v].pCPU \in CPUs
       /\ crosspage[v].call = "alloc" => crosspage[v].pcpuNum \in CPUs
       /\ At(v, "write") => crosspage[v].call = "alloc"
       /\ At(v, "write") <=> page[v] # 0
  /\ \A v \in VCPUs, c \in CPUs : page[v] # 0 => page[v] # rootPage[c]
  /\ \A v, w \in VCPUs : (page[v] # 0 /\ page[v] = page[w]) => v = w
  /\ \A c, d \in CPUs : (rootPage[c] # 0 /\ rootPage[c] = rootPage[d]) => c = d
  /\ \A p \in Pages :
       p \in memory <=> (\E c \in CPUs : p = rootPage[c]) \/ (\E v \in VCPUs : p = page[v])

IInv == SwitchInv /\ PagesInv

-----------------------------------------------------------------------------
(* Types.                                                                   *)

\* The state of a host's CPU is one of a CPU's states.
LEMMA HostStateTyped == ASSUME host \in HostStates PROVE HostState \in HWStates
BY DEF HostState, HostStates, HWStates, DRStates, DRValues, Areas

\* So are the debug registers that nothing was saved of.
LEMMA NoDRsTyped == NoDRs \in DRStates
BY DEF NoDRs, DRStates, DRValues

\* The types hold when vmmon is loaded.
LEMMA InitTypes == Init => TypeInv
<1> SUFFICES ASSUME Init PROVE TypeInv
  OBVIOUS
<1>1. host \in HostStates
  BY HostsAssumption DEF Init
<1>2. hw \in [CPUs -> HWStates]
  BY <1>1, HostStateTyped DEF Init
<1>3. local \in [VCPUs -> LocalStates]
  BY DEF Init, NoLocal, LocalStates, Areas
<1>4. crosspage \in [VCPUs -> CrosspageStates]
  BY NoDRsTyped DEF Init, CrosspageStates, Calls, Exceptions
<1>5. pc \in [VCPUs -> Labels]
  BY DEF Init, Labels
<1>6. events \in 0 .. MaxEvents
  BY MaxEventsAssumption, SMTT(40) DEF Init
<1> QED
  BY <1>1, <1>2, <1>3, <1>4, <1>5, <1>6 DEF Init, TypeInv

\* What the monitor leaves in the crosspage.
LEMMA MonitorLeaves ==
  ASSUME NEW v \in VCPUs, MonitorCalls(v)
  PROVE  \E shadow \in [drs : {"host", "guest"}, dr6 : {"guest"}, dr7 : {"none"}],
            kept \in {crosspage[v].inHost, crosspage[v].inHost \ {"drs"}, {}}, s \in SUBSET DRs :
           crosspage' = [crosspage EXCEPT
             ![v].shadow = shadow, ![v].inHost = kept, ![v].inShadow = s,
             ![v].hostDR.drs = IF "drs" \in kept THEN @ ELSE "host",
             ![v].call = IF @ # "none" THEN @ ELSE "other"]
<1>1. PICK shadow \in [drs : {"host", "guest"}, dr6 : {"guest"}, dr7 : {"none"}],
               kept \in {crosspage[v].inHost, crosspage[v].inHost \ {"drs"}, {}} :
            LET dr == [r \in DRs |-> IF r \in kept THEN hw[cpu[v]].dr[r] ELSE shadow[r]]
            IN crosspage' = [crosspage EXCEPT
                 ![v].shadow = shadow, ![v].inHost = kept,
                 ![v].inShadow = {r \in DRs : dr[r] = shadow[r]},
                 ![v].hostDR.drs = IF "drs" \in kept THEN @ ELSE "host",
                 ![v].call = IF @ # "none" THEN @ ELSE "other"]
  BY ZenonT(60) DEF MonitorCalls, ChangesDRs
<1>2. PICK d : d = [r \in DRs |-> IF r \in kept THEN hw[cpu[v]].dr[r] ELSE shadow[r]]
  OBVIOUS
<1>3. PICK s : s = {r \in DRs : d[r] = shadow[r]}
  OBVIOUS
<1>4. crosspage' = [crosspage EXCEPT
            ![v].shadow = shadow, ![v].inHost = kept, ![v].inShadow = s,
            ![v].hostDR.drs = IF "drs" \in kept THEN @ ELSE "host",
            ![v].call = IF @ # "none" THEN @ ELSE "other"]
  BY <1>1, <1>2, <1>3, Zenon
<1> QED
  BY <1>3, <1>4, ZenonT(60)

\* A step that only saves or restores a piece.
LEMMA PieceTypes ==
  ASSUME TypeInv, NEW v \in VCPUs,
         \/ StopTrace(v) \/ SwitchIDT(v) \/ SwitchCR(v) \/ SaveDR(v) \/ EnterHV(v)
         \/ SwitchToMonitor(v) \/ MonitorCalls(v) \/ MonitorTurnsBack(v) \/ LeaveHV(v)
         \/ RestoreCR(v) \/ RestoreGDT(v) \/ RestoreDR(v) \/ RestoreIDT(v) \/ RestartTrace(v)
  PROVE  TypeInv'
<1>1. UnchangedByPiece
  BY DEF StopTrace, SwitchIDT, SwitchCR, SaveDR, EnterHV, SwitchToMonitor, MonitorCalls,
         MonitorTurnsBack, LeaveHV, RestoreCR, RestoreGDT, RestoreDR, RestoreIDT, RestartTrace
<1>2. pc' \in [VCPUs -> Labels]
  BY ZenonT(60) DEF TypeInv, Step, Goto, Labels, OffLabels, StopTrace, SwitchIDT, SwitchCR,
     SaveDR, EnterHV,
         SwitchToMonitor, MonitorCalls, MonitorTurnsBack, LeaveHV, RestoreCR, RestoreGDT,
         RestoreDR, RestoreIDT, RestartTrace
<1>3. /\ cpu[v] \in CPUs /\ hw[cpu[v]] \in HWStates /\ local[v] \in LocalStates
      /\ crosspage[v] \in CrosspageStates
      /\ hw \in [CPUs -> HWStates] /\ local \in [VCPUs -> LocalStates]
      /\ crosspage \in [VCPUs -> CrosspageStates]
  BY DEF TypeInv
<1>4. hw' \in [CPUs -> HWStates]
  <2>1. CASE StopTrace(v)
    BY <1>3, <2>1 DEF StopTrace, HW, HWStates
  <2>2. CASE SwitchIDT(v)
    BY <1>3, <2>2 DEF SwitchIDT, HW, HWStates
  <2>3. CASE SwitchCR(v)
    BY <1>3, <2>3 DEF SwitchCR, HW, HWStates
  <2>4. CASE SaveDR(v)
    BY <1>3, <2>4 DEF SaveDR, HW, HWStates, DRStates, DRValues
  <2>5. CASE SwitchToMonitor(v)
    BY <1>3, <2>5 DEF SwitchToMonitor, HW, HWStates
  <2>6. CASE MonitorTurnsBack(v)
    BY <1>3, <2>6 DEF MonitorTurnsBack
  <2>7. CASE RestoreCR(v)
    BY <1>3, <2>7 DEF RestoreCR, HW, HWStates, LocalStates
  <2>8. CASE RestoreGDT(v)
    BY <1>3, <2>8 DEF RestoreGDT, HW, HWStates
  <2>9. CASE RestoreDR(v)
    BY <1>3, <2>9 DEF RestoreDR, HW, HWStates, DRStates, DRs, CrosspageStates
  <2>10. CASE RestoreIDT(v)
    BY <1>3, <2>10 DEF RestoreIDT, HW, HWStates
  <2>11. CASE RestartTrace(v)
    BY <1>3, <2>11 DEF RestartTrace, HW, HWStates, LocalStates
  <2>12. CASE EnterHV(v)
    <3>1. PICK a \in Areas, r \in Pages \cup {0} :
            hw' = [hw EXCEPT ![cpu[v]].hv = TRUE, ![cpu[v]].area = a, ![cpu[v]].root = r]
      BY <1>3, <2>12 DEF EnterHV, HWStates, LocalStates, Areas
    <3>2. [hw[cpu[v]] EXCEPT !.hv = TRUE, !.area = a, !.root = r] \in HWStates
      BY <1>3 DEF HWStates
    <3>3. hw' = [hw EXCEPT ![cpu[v]] = [hw[cpu[v]] EXCEPT !.hv = TRUE, !.area = a, !.root = r]]
      BY <1>3, <3>1
    <3> QED
      BY <1>3, <3>2, <3>3
  <2>13. CASE LeaveHV(v)
    <3>1. PICK a \in Areas, b \in BOOLEAN :
            hw' = [hw EXCEPT ![cpu[v]].hv = b, ![cpu[v]].root = 0, ![cpu[v]].area = a]
      BY <1>3, <2>13, ZenonT(60) DEF LeaveHV, HWStates, LocalStates, Areas
    <3>2. [hw[cpu[v]] EXCEPT !.hv = b, !.root = 0, !.area = a] \in HWStates
      BY <1>3 DEF HWStates
    <3>3. hw' = [hw EXCEPT ![cpu[v]] = [hw[cpu[v]] EXCEPT !.hv = b, !.root = 0, !.area = a]]
      BY <1>3, <3>1
    <3> QED
      BY <1>3, <3>2, <3>3
  <2>14. CASE MonitorCalls(v)
    <3>1. PICK shadow \in [drs : {"host", "guest"}, dr6 : {"guest"}, dr7 : {"none"}],
               kept \in {crosspage[v].inHost, crosspage[v].inHost \ {"drs"}, {}} :
            hw' = [hw EXCEPT
              ![cpu[v]].dr = [r \in DRs |-> IF r \in kept THEN hw[cpu[v]].dr[r] ELSE shadow[r]],
              ![cpu[v]].area = "own"]
      BY <2>14, ZenonT(60) DEF MonitorCalls, ChangesDRs
    <3>2. PICK d : d = [r \in DRs |-> IF r \in kept THEN hw[cpu[v]].dr[r] ELSE shadow[r]]
      OBVIOUS
    <3>3. d \in DRStates
      BY <1>3, <3>2 DEF HWStates, DRStates, DRValues, DRs
    <3>4. hw' = [hw EXCEPT ![cpu[v]].dr = d, ![cpu[v]].area = "own"]
      BY <3>1, <3>2, Zenon
    <3> QED
      BY <1>3, <3>3, <3>4 DEF HWStates, Areas
  <2> QED
    BY <2>1, <2>2, <2>3, <2>4, <2>5, <2>6, <2>7, <2>8, <2>9, <2>10, <2>11, <2>12, <2>13, <2>14
<1>5. local' \in [VCPUs -> LocalStates]
  <2>1. CASE StopTrace(v)
    BY <1>3, <2>1 DEF StopTrace, LocalStates, HWStates
  <2>2. CASE SwitchCR(v)
    BY <1>3, <2>2 DEF SwitchCR, LocalStates, HWStates
  <2>3. CASE EnterHV(v)
    <3>1. PICK f \in Areas :
            local' = [local EXCEPT ![v].off = ~hw[cpu[v]].hv, ![v].foreign = f]
      BY <1>3, <2>3 DEF EnterHV, HWStates, Areas
    <3> QED
      BY <1>3, <3>1, ZenonT(60) DEF LocalStates, HWStates
  <2> QED
    BY <1>3, <2>1, <2>2, <2>3 DEF SwitchIDT, SaveDR, SwitchToMonitor, MonitorCalls,
       MonitorTurnsBack,
       LeaveHV, RestoreCR, RestoreGDT, RestoreDR, RestoreIDT, RestartTrace
<1>6. crosspage' \in [VCPUs -> CrosspageStates]
  <2>1. CASE SaveDR(v)
    <3>1. PICK k \in SUBSET DRs :
            crosspage' = [crosspage EXCEPT ![v].hostDR = [hw[cpu[v]].dr EXCEPT !.drs = "none"],
                                           ![v].inHost = k]
      BY <2>1 DEF SaveDR, DRs
    <3>2. [hw[cpu[v]].dr EXCEPT !.drs = "none"] \in DRStates
      BY <1>3 DEF HWStates, DRStates, DRValues
    <3> QED
      BY <1>3, <3>1, <3>2 DEF CrosspageStates
  <2>2. CASE SwitchToMonitor(v)
    BY <1>3, <2>2 DEF SwitchToMonitor, CrosspageStates, Calls
  <2>3. CASE MonitorTurnsBack(v)
    BY <1>3, <2>3 DEF MonitorTurnsBack, CrosspageStates
  <2>4. CASE RestoreDR(v)
    BY <1>3, <2>4, NoDRsTyped DEF RestoreDR, ForgetDRs, CrosspageStates
  <2>5. CASE MonitorCalls(v)
    <3>1. PICK shadow \in [drs : {"host", "guest"}, dr6 : {"guest"}, dr7 : {"none"}],
               kept \in {crosspage[v].inHost, crosspage[v].inHost \ {"drs"}, {}}, s \in SUBSET DRs :
            crosspage' = [crosspage EXCEPT
              ![v].shadow = shadow, ![v].inHost = kept, ![v].inShadow = s,
              ![v].hostDR.drs = IF "drs" \in kept THEN @ ELSE "host",
              ![v].call = IF @ # "none" THEN @ ELSE "other"]
      BY <2>5, MonitorLeaves, ZenonT(60)
    <3>2. shadow \in DRStates /\ kept \in SUBSET DRs
      BY <1>3 DEF CrosspageStates, DRStates, DRValues
    <3> QED
      BY <1>3, <3>1, <3>2, ZenonT(60) DEF CrosspageStates, DRStates, DRValues, Calls
  <2> QED
    BY <1>3, <2>1, <2>2, <2>3, <2>4, <2>5 DEF StopTrace, SwitchIDT, SwitchCR, EnterHV, LeaveHV,
       RestoreCR, RestoreGDT, RestoreIDT, RestartTrace
<1> QED
  BY <1>1, <1>2, <1>4, <1>5, <1>6 DEF TypeInv, UnchangedByPiece

\* Raising an exception, or an interrupt.
LEMMA RaiseTypes ==
  ASSUME TypeInv, NEW v \in VCPUs, NEW e \in Exceptions \cup {"INTR"},
         Raise(v, e) \/ UNCHANGED <<pending, blocked, latched>>
  PROVE  /\ pending' \in [CPUs -> SUBSET (Exceptions \cup {"INTR"})]
         /\ blocked' \in [CPUs -> BOOLEAN] /\ latched' \in [CPUs -> BOOLEAN]
<1>1. cpu[v] \in CPUs /\ pending[cpu[v]] \in SUBSET (Exceptions \cup {"INTR"})
  BY DEF TypeInv
<1>2. CASE Raise(v, e)
  BY <1>1, <1>2 DEF TypeInv, Raise
<1>3. CASE UNCHANGED <<pending, blocked, latched>>
  BY <1>3 DEF TypeInv
<1> QED
  BY <1>2, <1>3

\* A step that may raise one leaves the rest, but for the log and the mark of a retry.
LEMMA UnchangedByRaiseTypes ==
  ASSUME TypeInv, UnchangedByRaise, pc' \in [VCPUs -> Labels],
         crosspage' \in [VCPUs -> CrosspageStates],
         pending' \in [CPUs -> SUBSET (Exceptions \cup {"INTR"})],
         blocked' \in [CPUs -> BOOLEAN], latched' \in [CPUs -> BOOLEAN]
  PROVE  TypeInv'
BY DEF TypeInv, UnchangedByRaise

\* An exception that was logged is raised.
LEMMA LoggedTypes ==
  ASSUME TypeInv, NEW v \in VCPUs, NEW e \in Exceptions, NEW from \in Labels, NEW to \in Labels,
         RaiseLogged(v, e, from, to)
  PROVE  TypeInv'
<1>1. pc' \in [VCPUs -> Labels] /\ UnchangedByRaise
  BY DEF TypeInv, RaiseLogged, Step, Goto
<1>2. Raise(v, e) \/ UNCHANGED <<pending, blocked, latched>>
  BY DEF RaiseLogged
<1>3. crosspage' \in [VCPUs -> CrosspageStates]
  <2>1. crosspage \in [VCPUs -> CrosspageStates] /\ crosspage[v] \in CrosspageStates
    BY DEF TypeInv
  <2>2. CASE e \in crosspage[v].exception
    BY <2>1, <2>2 DEF RaiseLogged, CrosspageStates
  <2>3. CASE e \notin crosspage[v].exception
    BY <2>1, <2>3 DEF RaiseLogged
  <2> QED
    BY <2>2, <2>3
<1> QED
  BY <1>1, <1>2, <1>3, RaiseTypes, UnchangedByRaiseTypes

\* The other steps of a thread.
LEMMA StepTypes ==
  ASSUME TypeInv, NEW v \in VCPUs,
         \/ Migrate(v) \/ TaskDisableNMI(v) \/ ClearInterrupts(v) \/ TurnBack(v) \/ Proceed(v)
         \/ MonitorInterrupted(v) \/ RaiseNMI(v) \/ RaiseMC(v) \/ Forward(v)
         \/ RaiseInterrupt(v) \/ RestoreFlags(v) \/ TaskRestoreNMI(v)
         \/ HandleCall(v) \/ HasPage(v) \/ AllocPage(v) \/ AllocFails(v) \/ SetRootPage(v)
         \/ WriteFails(v)
  PROVE  TypeInv'
<1>1. /\ cpu[v] \in CPUs /\ hw[cpu[v]] \in HWStates /\ local[v] \in LocalStates
      /\ crosspage[v] \in CrosspageStates
      /\ local \in [VCPUs -> LocalStates] /\ crosspage \in [VCPUs -> CrosspageStates]
  BY DEF TypeInv
<1> USE DEF TypeInv, Step, Goto, At, Labels, OffLabels
<1>2. CASE Migrate(v)
  BY <1>1, <1>2 DEF Migrate, cpus
<1>3. CASE TaskDisableNMI(v)
  BY <1>1, <1>3 DEF TaskDisableNMI, LocalStates
<1>4. CASE ClearInterrupts(v)
  BY <1>1, <1>4 DEF ClearInterrupts, LocalStates, cpus
<1>5. CASE TurnBack(v)
  BY <1>1, <1>5, ZenonT(60) DEF TurnBack, LocalStates, CrosspageStates, Calls, cpus
<1>6. CASE Proceed(v)
  BY <1>1, <1>6 DEF Proceed, cpus
<1>7. CASE MonitorInterrupted(v)
  BY <1>1, <1>7 DEF MonitorInterrupted, HW, HWStates, Areas, CrosspageStates, Calls
<1>8. CASE RaiseNMI(v)
  BY <1>8, LoggedTypes, ZenonT(60) DEF RaiseNMI, Labels, OffLabels, Exceptions
<1>9. CASE RaiseMC(v)
  BY <1>9, LoggedTypes, ZenonT(60) DEF RaiseMC, Labels, OffLabels, Exceptions
<1>10. CASE Forward(v)
  <2>1. pc' \in [VCPUs -> Labels] /\ UnchangedByRaise
    BY <1>10 DEF TypeInv, Forward, Goto, Labels, OffLabels
  <2>2. Raise(v, "NMI") \/ UNCHANGED <<pending, blocked, latched>>
    BY <1>10 DEF Forward
  <2>3. crosspage' \in [VCPUs -> CrosspageStates]
    BY <1>1, <1>10 DEF Forward, CrosspageStates
  <2> QED
    BY <2>1, <2>2, <2>3, RaiseTypes, UnchangedByRaiseTypes DEF Exceptions
<1>11. CASE RaiseInterrupt(v)
  BY <1>1, <1>11 DEF RaiseInterrupt, UnchangedByRaise, Raise
<1>12. CASE RestoreFlags(v)
  BY <1>1, <1>12 DEF RestoreFlags, cpus
<1>13. CASE TaskRestoreNMI(v)
  BY <1>1, <1>13 DEF TaskRestoreNMI, NoLocal, LocalStates, Areas
<1>14. CASE HandleCall(v)
  BY <1>1, <1>14 DEF HandleCall, Handled, CrosspageStates, Calls, cpus
<1>15. CASE HasPage(v)
  BY <1>1, <1>15 DEF HasPage, Handled, CrosspageStates, Calls, cpus
<1>16. CASE AllocPage(v)
  BY <1>1, <1>16 DEF AllocPage, cpus
<1>17. CASE AllocFails(v)
  BY <1>1, <1>17 DEF AllocFails, Handled, CrosspageStates, Calls, cpus
<1>18. CASE SetRootPage(v)
  BY <1>1, <1>18 DEF SetRootPage, cpus
<1>19. CASE WriteFails(v)
  BY <1>1, <1>19 DEF WriteFails, Handled, CrosspageStates, Calls, cpus
<1> QED
  BY <1>2, <1>3, <1>4, <1>5, <1>6, <1>7, <1>8, <1>9, <1>10, <1>11, <1>12, <1>13, <1>14, <1>15,
     <1>16, <1>17, <1>18, <1>19

\* An exception comes.
LEMMA RaisedTypes ==
  ASSUME TypeInv, NEW v \in VCPUs, NEW e \in Exceptions, Raised(v, e) PROVE TypeInv'
<1>1. events' \in 0 .. MaxEvents
  BY MaxEventsAssumption DEF TypeInv, Raised
<1>2. /\ cpu[v] \in CPUs /\ pending[cpu[v]] \in SUBSET (Exceptions \cup {"INTR"})
      /\ crosspage \in [VCPUs -> CrosspageStates] /\ crosspage[v] \in CrosspageStates
  BY DEF TypeInv
<1>3. pending' \in [CPUs -> SUBSET (Exceptions \cup {"INTR"})]
  BY <1>2 DEF TypeInv, Raised
<1>4. blocked' \in [CPUs -> BOOLEAN] /\ latched' \in [CPUs -> BOOLEAN]
  BY <1>2 DEF TypeInv, Raised
<1>5. crosspage' \in [VCPUs -> CrosspageStates]
  <2>1. \/ crosspage' = crosspage
        \/ crosspage' = [crosspage EXCEPT ![v].exception = @ \cup {e}]
        \/ crosspage' = [crosspage EXCEPT ![v].call = e]
    BY DEF Raised
  <2> QED
    BY <1>2, <2>1 DEF CrosspageStates, Calls
<1> QED
  BY <1>1, <1>3, <1>4, <1>5 DEF TypeInv, Raised

-----------------------------------------------------------------------------
(* The steps of a switch.                                                   *)

\* What is left alone by a step of one thread.
LEMMA Frame ==
  ASSUME SwitchInv, TypeInv', NEW v \in VCPUs,
         host' = host,
         \A c \in CPUs : rootPage[c] # 0 => rootPage'[c] = rootPage[c],
         \A w \in VCPUs \ {v} : /\ cpu'[w] = cpu[w] /\ pc'[w] = pc[w]
                               /\ local'[w] = local[w] /\ crosspage'[w] = crosspage[w],
         \A c \in CPUs : \/ Off(v) /\ c = cpu[v]
                        \/ /\ hw'[c] = hw[c] /\ pending'[c] = pending[c]
                           /\ blocked'[c] = blocked[c] /\ latched'[c] = latched[c],
         cpu'[v] = cpu[v] \/ (~Off(v) /\ ~Off(v)'),
         Off(v)' => Off(v) \/ Runs(v),
         Off(v)' => Switched(v)',
         (Off(v) /\ ~Off(v)') => Whole(cpu[v])',
         LogUsed(v)', RetryEmpty(v)', pc'[v] \in MixedDR \/ crosspage'[v].inShadow = {}
  PROVE  SwitchInv'
<1>1. cpu \in [VCPUs -> CPUs] /\ cpu' \in [VCPUs -> CPUs]
  BY DEF SwitchInv, TypeInv
<1>2. \A w \in VCPUs \ {v} : Off(w)' <=> Off(w)
  BY DEF Off
<1>3. OneOff'
  BY <1>1, <1>2 DEF OneOff, SwitchInv, Runs
<1>4. ASSUME NEW c \in CPUs, InHost(c)' PROVE Whole(c)'
  <2>1. CASE Off(v) /\ cpu[v] = c
    BY <1>4, <2>1 DEF InHost
  <2>2. CASE ~(Off(v) /\ cpu[v] = c)
    <3>1. InHost(c)
      BY <1>1, <1>2, <1>4, <2>2 DEF InHost
    <3>2. Whole(c)
      BY <3>1 DEF SwitchInv, HostWhole
    <3> QED
      BY <2>2, <3>2 DEF Whole, AreaKept, HostDRs
  <2> QED
    BY <2>1, <2>2
<1>5. ASSUME NEW w \in VCPUs, Off(w)' PROVE Switched(w)'
  <2>1. CASE w = v
    BY <1>5, <2>1
  <2>2. CASE w # v
    <3>1. Off(w) /\ Switched(w)
      BY <1>2, <1>5, <2>2 DEF SwitchInv, HostSaved
    <3>2. cpu[w] \in CPUs /\ ~(Off(v) /\ cpu[w] = cpu[v])
      BY <1>1, <2>2, <3>1 DEF SwitchInv, OneOff
    <3>3. /\ cpu'[w] = cpu[w] /\ pc'[w] = pc[w] /\ local'[w] = local[w]
          /\ crosspage'[w] = crosspage[w] /\ hw'[cpu[w]] = hw[cpu[w]]
          /\ pending'[cpu[w]] = pending[cpu[w]] /\ blocked'[cpu[w]] = blocked[cpu[w]]
          /\ latched'[cpu[w]] = latched[cpu[w]]
          /\ rootPage[cpu[w]] # 0 => rootPage'[cpu[w]] = rootPage[cpu[w]]
      BY <2>2, <3>2
    <3>4. TraceSaved(w)' /\ IDTSaved(w)' /\ CRSaved(w)' /\ GDTSaved(w)'
      BY <3>1, <3>3 DEF Switched, TraceSaved, IDTSaved, CRSaved, GDTSaved
    <3>5. HVSaved(w)' /\ RootSaved(w)'
      BY <3>1, <3>3 DEF Switched, HVSaved, RootSaved, AreaKept
    <3>6. DRSaved(w)'
      BY <3>1, <3>3 DEF Switched, DRSaved, Restored, HostDRs
    <3>7. PendingSaved(w)'
      BY <3>1, <3>3 DEF Switched, PendingSaved
    <3> QED
      BY <3>4, <3>5, <3>6, <3>7 DEF Switched
  <2> QED
    BY <2>1, <2>2
<1>6. CrosspageClean'
  BY DEF CrosspageClean, SwitchInv, LogUsed, RetryEmpty
<1> QED
  BY <1>3, <1>4, <1>5, <1>6 DEF SwitchInv, HostWhole, HostSaved


\* A step that saves or restores one piece keeps it saved.
LEMMA PieceInv ==
  ASSUME SwitchInv, TypeInv', NEW v \in VCPUs,
         \/ StopTrace(v) \/ SwitchIDT(v) \/ SwitchCR(v) \/ SwitchToMonitor(v)
         \/ MonitorTurnsBack(v) \/ RestoreCR(v) \/ RestoreGDT(v) \/ RestoreIDT(v) \/ RestartTrace(v)
  PROVE  SwitchInv'
<1> USE DEF HW, Step, At, Goto
<1>1. /\ Off(v) /\ Off(v)' /\ cpu[v] \in CPUs
      /\ \A w \in VCPUs \ {v} : pc'[w] = pc[w] /\ local'[w] = local[w] /\ crosspage'[w] = crosspage[w]
      /\ \A c \in CPUs \ {cpu[v]} : hw'[c] = hw[c]
  BY DEF SwitchInv, TypeInv, Off, StopTrace, SwitchIDT, SwitchCR, SwitchToMonitor,
     MonitorTurnsBack,
     RestoreCR, RestoreGDT, RestoreIDT, RestartTrace
<1>2. /\ hw[cpu[v]] \in HWStates /\ local[v] \in LocalStates /\ crosspage[v] \in CrosspageStates
      /\ host \in HostStates
      /\ pc \in [VCPUs -> Labels] /\ hw \in [CPUs -> HWStates] /\ local \in [VCPUs -> LocalStates]
      /\ crosspage \in [VCPUs -> CrosspageStates]
  BY <1>1 DEF SwitchInv, TypeInv
<1>3. Switched(v)
  BY <1>1 DEF SwitchInv, HostSaved
<1>4. UNCHANGED <<host, blocked, latched, pending, rootPage, cpu>>
  BY DEF UnchangedByPiece, StopTrace, SwitchIDT, SwitchCR, SwitchToMonitor, MonitorTurnsBack,
     RestoreCR, RestoreGDT, RestoreIDT, RestartTrace
<1>5. LogUsed(v) /\ RetryEmpty(v) /\ (pc[v] \in MixedDR \/ crosspage[v].inShadow = {})
  BY SMTT(40) DEF SwitchInv, CrosspageClean
<1> USE DEF Switched, TraceSaved, IDTSaved, CRSaved, GDTSaved, HVSaved, RootSaved, AreaKept,
        DRSaved,
        Restored, HostDRs, PendingSaved, HWStates, LocalStates, CrosspageStates, NoTrace,
        OwnIDT,
        OwnCR, CrossGDT, InHV, SavedDR, MixedDR, HandedOver, LogUsed, RetryEmpty, DRs
<1>6. Switched(v)'
  <2>1. CASE StopTrace(v)
    BY <1>1, <1>2, <1>3, <1>4, <1>5, <2>1 DEF StopTrace
  <2>2. CASE SwitchIDT(v)
    BY <1>1, <1>2, <1>3, <1>4, <1>5, <2>2 DEF SwitchIDT
  <2>3. CASE SwitchCR(v)
    BY <1>1, <1>2, <1>3, <1>4, <1>5, <2>3 DEF SwitchCR
  <2>4. CASE SwitchToMonitor(v)
    BY <1>1, <1>2, <1>3, <1>4, <1>5, <2>4 DEF SwitchToMonitor
  <2>5. CASE MonitorTurnsBack(v)
    BY <1>1, <1>2, <1>3, <1>4, <1>5, <2>5 DEF MonitorTurnsBack
  <2>6. CASE RestoreCR(v)
    BY <1>1, <1>2, <1>3, <1>4, <1>5, <2>6 DEF RestoreCR
  <2>7. CASE RestoreGDT(v)
    BY <1>1, <1>2, <1>3, <1>4, <1>5, <2>7 DEF RestoreGDT
  <2>8. CASE RestoreIDT(v)
    BY <1>1, <1>2, <1>3, <1>4, <1>5, <2>8 DEF RestoreIDT
  <2>9. CASE RestartTrace(v)
    BY <1>1, <1>2, <1>3, <1>4, <1>5, <2>9 DEF RestartTrace, HostStates
  <2> QED
    BY <2>1, <2>2, <2>3, <2>4, <2>5, <2>6, <2>7, <2>8, <2>9
<1>7. LogUsed(v)' /\ RetryEmpty(v)' /\ (pc'[v] \in MixedDR \/ crosspage'[v].inShadow = {})
  <2>1. CASE SwitchToMonitor(v)
    BY <1>2, <1>5, <2>1 DEF SwitchToMonitor
  <2>2. CASE MonitorTurnsBack(v)
    BY <1>2, <1>5, <2>2 DEF MonitorTurnsBack
  <2>3. CASE StopTrace(v) \/ SwitchIDT(v) \/ SwitchCR(v) \/ RestoreCR(v) \/ RestoreGDT(v)
             \/ RestoreIDT(v) \/ RestartTrace(v)
    <3>1. crosspage' = crosspage
      BY <2>3 DEF StopTrace, SwitchIDT, SwitchCR, RestoreCR, RestoreGDT, RestoreIDT,
         RestartTrace
    <3>2. <<pc[v], pc'[v]>> \in
            {<<"trace", "idt">>, <<"idt", "cr">>, <<"cr", "dr">>, <<"cr2", "gdt">>,
             <<"gdt", "drs">>, <<"hidt", "htrace">>, <<"htrace", "nmi">>}
      BY <1>2, <2>3 DEF StopTrace, SwitchIDT, SwitchCR, RestoreCR, RestoreGDT, RestoreIDT,
         RestartTrace
    <3> QED
      BY <1>5, <3>1, <3>2
  <2> QED
    BY <2>1, <2>2, <2>3
<1> QED
  BY <1>1, <1>4, <1>6, <1>7, Frame, ZenonT(60)

\* What the CPU's virtualization was is restored from the locals.
LEMMA LeaveHVInv ==
  ASSUME SwitchInv, TypeInv', NEW v \in VCPUs, LeaveHV(v) PROVE SwitchInv'
<1>1. /\ pc[v] = "off" /\ pc'[v] = "cr2" /\ cpu[v] \in CPUs
      /\ \A w \in VCPUs \ {v} : pc'[w] = pc[w]
      /\ \A c \in CPUs \ {cpu[v]} : hw'[c] = hw[c]
      /\ hw'[cpu[v]] = [hw[cpu[v]] EXCEPT !.hv = ~local[v].off, !.root = 0,
           !.area = IF host.kind = "VT" /\ local[v].foreign = "none"
                    THEN (IF local[v].off THEN "none" ELSE @) ELSE local[v].foreign]
  BY DEF SwitchInv, TypeInv, LeaveHV, HW, Step, At, Goto
<1>2. hw[cpu[v]] \in HWStates /\ local[v] \in LocalStates /\ crosspage[v] \in CrosspageStates
      /\ host \in HostStates
  BY <1>1 DEF SwitchInv, TypeInv
<1>3. Switched(v) /\ Off(v) /\ Off(v)'
  BY <1>1 DEF SwitchInv, HostSaved, Off
<1>4. UNCHANGED <<host, blocked, latched, pending, rootPage, cpu, local, crosspage>>
  BY DEF LeaveHV, UnchangedByPiece
<1>5. LogUsed(v) /\ RetryEmpty(v) /\ (pc[v] \in MixedDR \/ crosspage[v].inShadow = {})
  BY DEF SwitchInv, CrosspageClean
<1>6. TraceSaved(v)' /\ IDTSaved(v)' /\ CRSaved(v)' /\ GDTSaved(v)'
  BY <1>1, <1>2, <1>3, <1>4, ZenonT(60) DEF Switched, TraceSaved, IDTSaved, CRSaved,
     GDTSaved, HWStates,
     LocalStates, HostStates, NoTrace, OwnIDT, OwnCR, CrossGDT
<1>7. HVSaved(v)' /\ RootSaved(v)'
  BY <1>1, <1>2, <1>3, <1>4, ZenonT(60) DEF Switched, HVSaved, RootSaved, AreaKept,
     HWStates, LocalStates,
     HostStates, InHV
<1>8. DRSaved(v)'
  <2>1. hw'[cpu[v]].dr = hw[cpu[v]].dr
    BY <1>1, <1>2 DEF HWStates
  <2>2. pc[v] = "off" /\ pc'[v] = "cr2"
    BY <1>1
  <2> QED
    BY <1>3, <1>4, <2>1, <2>2 DEF Switched, DRSaved, Restored, HostDRs, SavedDR, MixedDR
<1>9. PendingSaved(v)'
  BY <1>1, <1>2, <1>3, <1>4, <1>5 DEF Switched, PendingSaved, CrosspageStates, LogUsed, OwnIDT,
     HandedOver
<1>10. LogUsed(v)' /\ RetryEmpty(v)' /\ (pc'[v] \in MixedDR \/ crosspage'[v].inShadow = {})
  BY <1>1, <1>2, <1>4, <1>5 DEF LogUsed, RetryEmpty, OwnIDT, MixedDR, HandedOver,
     CrosspageStates
<1>11. Switched(v)'
  BY <1>6, <1>7, <1>8, <1>9 DEF Switched
<1> QED
  BY <1>1, <1>3, <1>4, <1>10, <1>11, Frame

\* What TaskRestoreDebugRegisters leaves is the host's.
LEMMA RestoreDRInv ==
  ASSUME SwitchInv, TypeInv', NEW v \in VCPUs, RestoreDR(v) PROVE SwitchInv'
<1>1. /\ pc[v] = "drs" /\ pc'[v] = "hidt" /\ cpu[v] \in CPUs
      /\ \A w \in VCPUs \ {v} : pc'[w] = pc[w]
      /\ \A c \in CPUs \ {cpu[v]} : hw'[c] = hw[c]
      /\ hw'[cpu[v]] = [hw[cpu[v]] EXCEPT !.dr = [r \in DRs |-> Restored(v, r)]]
      /\ \A w \in VCPUs \ {v} : crosspage'[w] = crosspage[w]
      /\ crosspage'[v] = [crosspage[v] EXCEPT !.hostDR = NoDRs, !.inHost = {}, !.shadow = NoDRs,
           !.inShadow = {}]
  BY ZenonT(60) DEF SwitchInv, TypeInv, RestoreDR, HW, Step, At, Goto, Restored, ForgetDRs
<1>2. hw[cpu[v]] \in HWStates /\ local[v] \in LocalStates /\ crosspage[v] \in CrosspageStates
      /\ host \in HostStates
  BY <1>1 DEF SwitchInv, TypeInv
<1>3. Switched(v) /\ Off(v) /\ Off(v)'
  BY <1>1 DEF SwitchInv, HostSaved, Off
<1>4. UNCHANGED <<host, blocked, latched, pending, rootPage, cpu, local>>
  BY DEF RestoreDR, UnchangedByPiece
<1>5. LogUsed(v) /\ RetryEmpty(v) /\ (pc[v] \in MixedDR \/ crosspage[v].inShadow = {})
  BY DEF SwitchInv, CrosspageClean
<1>6. TraceSaved(v)' /\ IDTSaved(v)' /\ CRSaved(v)' /\ GDTSaved(v)'
  BY <1>1, <1>2, <1>3, <1>4 DEF Switched, TraceSaved, IDTSaved, CRSaved, GDTSaved, HWStates,
     LocalStates, HostStates, NoTrace, OwnIDT, OwnCR, CrossGDT
<1>7. HVSaved(v)' /\ RootSaved(v)'
  BY <1>1, <1>2, <1>3, <1>4 DEF Switched, HVSaved, RootSaved, AreaKept, HWStates, LocalStates,
     HostStates, InHV
<1>8. DRSaved(v)'
  BY <1>1, <1>2, <1>3, <1>4, <1>5 DEF Switched, DRSaved, Restored, HostDRs, HWStates,
     CrosspageStates,
     HostStates, SavedDR, MixedDR, DRs
<1>9. PendingSaved(v)'
  BY <1>1, <1>2, <1>3, <1>4, <1>5 DEF Switched, PendingSaved, CrosspageStates, LogUsed, OwnIDT,
     HandedOver
<1>10. LogUsed(v)' /\ RetryEmpty(v)' /\ (pc'[v] \in MixedDR \/ crosspage'[v].inShadow = {})
  BY <1>1, <1>2, <1>4, <1>5 DEF LogUsed, RetryEmpty, OwnIDT, MixedDR, HandedOver,
     CrosspageStates
<1>11. Switched(v)'
  BY <1>6, <1>7, <1>8, <1>9 DEF Switched
<1> QED
  BY <1>1, <1>3, <1>4, <1>10, <1>11, Frame

\* The debug registers are saved before they are changed, guarded or not.
LEMMA SaveDRInv ==
  ASSUME SwitchInv, TypeInv', NEW v \in VCPUs, SaveDR(v) PROVE SwitchInv'
<1>1. /\ pc[v] = "dr" /\ pc'[v] = "hv" /\ cpu[v] \in CPUs
      /\ \A w \in VCPUs \ {v} : pc'[w] = pc[w]
      /\ \A c \in CPUs \ {cpu[v]} : hw'[c] = hw[c]
      /\ \A w \in VCPUs \ {v} : crosspage'[w] = crosspage[w]
  BY DEF SwitchInv, TypeInv, SaveDR, HW, Step, At, Goto
<1>2. hw[cpu[v]] \in HWStates /\ local[v] \in LocalStates /\ crosspage[v] \in CrosspageStates
      /\ host \in HostStates /\ hw \in [CPUs -> HWStates] /\ crosspage \in [VCPUs -> CrosspageStates]
  BY <1>1 DEF SwitchInv, TypeInv
<1>3. Switched(v) /\ Off(v) /\ Off(v)'
  BY <1>1 DEF SwitchInv, HostSaved, Off
<1>4. UNCHANGED <<host, blocked, latched, pending, rootPage, cpu, local>>
  BY DEF SaveDR, UnchangedByPiece
<1>5. LogUsed(v) /\ RetryEmpty(v) /\ (pc[v] \in MixedDR \/ crosspage[v].inShadow = {})
  BY DEF SwitchInv, CrosspageClean
<1>6. hw[cpu[v]].dr \in DRStates /\ \A r \in DRs : hw[cpu[v]].dr[r] = HostDRs(r)
  BY <1>1, <1>2, <1>3 DEF HWStates, Switched, DRSaved, SavedDR, MixedDR
<1>7. PICK d \in DRStates :
        /\ hw' = [hw EXCEPT ![cpu[v]].dr = d]
        /\ d["drs"] = "host" /\ (host.dr7 # "guard" => d["dr6"] = "host") /\ d["dr7"] = "none"
  <2>1. hw[cpu[v]].dr.drs = "host" /\ hw[cpu[v]].dr.dr6 = "host" /\ hw[cpu[v]].dr.dr7 = host.dr7
    BY <1>6 DEF HostDRs, DRs, DRStates
  <2>2. PICK e \in {"mark", "host"} :
          /\ e = IF host.dr7 = "guard" THEN "mark" ELSE "host"
          /\ hw' = [hw EXCEPT ![cpu[v]].dr = [hw[cpu[v]].dr EXCEPT !.dr6 = e, !.dr7 = "none"]]
    BY <2>1, <1>6 DEF SaveDR, HW, DRStates
  <2>3. [hw[cpu[v]].dr EXCEPT !.dr6 = e, !.dr7 = "none"] \in DRStates
    BY <1>6 DEF DRStates, DRValues
  <2> QED
    BY <2>1, <2>2, <2>3, <1>6 DEF DRStates
<1>8. PICK x \in DRStates, k \in SUBSET DRs :
        /\ crosspage' = [crosspage EXCEPT ![v].hostDR = x, ![v].inHost = k]
        /\ x["dr6"] = "host" /\ x["dr7"] = host.dr7
        /\ k = CASE host.dr7 = "guard" -> {"drs"}
                 [] host.dr7 = "break" -> {"drs", "dr6"}
                 [] OTHER              -> DRs
  <2>1. hw[cpu[v]].dr.drs = "host" /\ hw[cpu[v]].dr.dr6 = "host" /\ hw[cpu[v]].dr.dr7 = host.dr7
    BY <1>6 DEF HostDRs, DRs, DRStates
  <2>2. PICK k : k = CASE host.dr7 = "guard" -> {"drs"}
                       [] host.dr7 = "break" -> {"drs", "dr6"}
                       [] OTHER              -> DRs
    OBVIOUS
  <2>3. crosspage' = [crosspage EXCEPT ![v].hostDR = [hw[cpu[v]].dr EXCEPT !.drs = "none"],
                                       ![v].inHost = k]
    BY <2>1, <2>2 DEF SaveDR
  <2>4. k \in SUBSET DRs
    BY <2>2 DEF DRs
  <2>5. [hw[cpu[v]].dr EXCEPT !.drs = "none"] \in DRStates
    BY <1>6 DEF DRStates, DRValues
  <2> QED
    BY <2>1, <2>2, <2>3, <2>4, <2>5, <1>6 DEF DRStates
<1>9. hw'[cpu[v]] = [hw[cpu[v]] EXCEPT !.dr = d]
  BY <1>1, <1>2, <1>7
<1>10. crosspage'[v] = [crosspage[v] EXCEPT !.hostDR = x, !.inHost = k]
  BY <1>2, <1>8
<1>11. TraceSaved(v)' /\ IDTSaved(v)' /\ CRSaved(v)' /\ GDTSaved(v)'
  BY <1>1, <1>2, <1>3, <1>4, <1>9 DEF Switched, TraceSaved, IDTSaved, CRSaved, GDTSaved,
     HWStates,
     LocalStates, HostStates, NoTrace, OwnIDT, OwnCR, CrossGDT
<1>12. HVSaved(v)' /\ RootSaved(v)'
  BY <1>1, <1>2, <1>3, <1>4, <1>9 DEF Switched, HVSaved, RootSaved, AreaKept, HWStates,
     LocalStates,
     HostStates, InHV
<1>13. DRSaved(v)'
  BY <1>1, <1>2, <1>4, <1>7, <1>8, <1>9, <1>10
  DEF DRSaved, HostDRs, HWStates, CrosspageStates, HostStates, SavedDR, MixedDR, DRs
<1>14. PendingSaved(v)'
  BY <1>1, <1>2, <1>3, <1>4, <1>5, <1>10
  DEF Switched, PendingSaved, CrosspageStates, LogUsed, OwnIDT, HandedOver
<1>15. LogUsed(v)' /\ RetryEmpty(v)' /\ (pc'[v] \in MixedDR \/ crosspage'[v].inShadow = {})
  BY <1>1, <1>2, <1>4, <1>5, <1>10
  DEF LogUsed, RetryEmpty, OwnIDT, MixedDR, HandedOver, CrosspageStates
<1>16. Switched(v)'
  BY <1>11, <1>12, <1>13, <1>14 DEF Switched
<1> QED
  BY <1>1, <1>3, <1>4, <1>15, <1>16, Frame

\* Whether virtualization was on, and for whom, is in the locals before it is turned on.
LEMMA EnterHVInv ==
  ASSUME SwitchInv, TypeInv', NEW v \in VCPUs, EnterHV(v) PROVE SwitchInv'
<1>1. /\ pc[v] = "hv" /\ pc'[v] = "in" /\ cpu[v] \in CPUs
      /\ \A w \in VCPUs \ {v} : pc'[w] = pc[w]
      /\ \A c \in CPUs \ {cpu[v]} : hw'[c] = hw[c]
      /\ \A w \in VCPUs \ {v} : local'[w] = local[w]
  BY DEF SwitchInv, TypeInv, EnterHV, Step, At, Goto
<1>2. hw[cpu[v]] \in HWStates /\ local[v] \in LocalStates /\ crosspage[v] \in CrosspageStates
      /\ host \in HostStates /\ hw \in [CPUs -> HWStates] /\ local \in [VCPUs -> LocalStates]
  BY <1>1 DEF SwitchInv, TypeInv
<1>3. Switched(v) /\ Off(v) /\ Off(v)'
  BY <1>1 DEF SwitchInv, HostSaved, Off
<1>4. UNCHANGED <<host, blocked, latched, pending, rootPage, cpu, crosspage>>
  BY DEF EnterHV, UnchangedByPiece
<1>5. LogUsed(v) /\ RetryEmpty(v) /\ (pc[v] \in MixedDR \/ crosspage[v].inShadow = {})
  BY DEF SwitchInv, CrosspageClean
<1>6. PICK a \in Areas, r \in {0, local[v].root} :
        hw' = [hw EXCEPT ![cpu[v]].hv = TRUE, ![cpu[v]].area = a, ![cpu[v]].root = r]
  BY <1>2 DEF EnterHV, HWStates, LocalStates, Areas
<1>7. PICK f \in Areas :
        /\ local' = [local EXCEPT ![v].off = ~hw[cpu[v]].hv, ![v].foreign = f]
        /\ f = IF host.kind = "VT" /\ ~hw[cpu[v]].hv THEN "none" ELSE hw[cpu[v]].area
  BY <1>2 DEF EnterHV, HWStates, Areas
<1>8. hw'[cpu[v]] = [hw[cpu[v]] EXCEPT !.hv = TRUE, !.area = a, !.root = r]
  BY <1>1, <1>2, <1>6
<1>9. local'[v] = [local[v] EXCEPT !.off = ~hw[cpu[v]].hv, !.foreign = f]
  BY <1>2, <1>7
<1>10. TraceSaved(v)' /\ IDTSaved(v)' /\ CRSaved(v)' /\ GDTSaved(v)'
  BY <1>1, <1>2, <1>3, <1>4, <1>8, <1>9 DEF Switched, TraceSaved, IDTSaved, CRSaved, GDTSaved,
     HWStates, LocalStates, HostStates, NoTrace, OwnIDT, OwnCR, CrossGDT
<1>11. HVSaved(v)' /\ RootSaved(v)'
  <2>1. hw[cpu[v]].hv = host.hvOn /\ (host.area # "none" => hw[cpu[v]].area = host.area)
    BY <1>1, <1>3 DEF Switched, HVSaved, InHV, AreaKept
  <2>2. local'[v].off = ~host.hvOn /\ local'[v].foreign = f /\ local'[v].root = local[v].root
    BY <1>2, <1>9, <2>1 DEF LocalStates
  <2>3. host.area # "none" => f = host.area
    BY <1>2, <1>7, <2>1 DEF HostStates
  <2>4. hw'[cpu[v]].root = r
    BY <1>2, <1>8 DEF HWStates
  <2> QED
    BY <1>1, <1>3, <1>4, <2>2, <2>3, <2>4 DEF Switched, HVSaved, RootSaved, InHV
<1>12. DRSaved(v)'
  <2>1. hw'[cpu[v]].dr = hw[cpu[v]].dr
    BY <1>2, <1>8 DEF HWStates
  <2> QED
    BY <1>1, <1>3, <1>4, <2>1 DEF Switched, DRSaved, HostDRs, SavedDR, MixedDR
<1>13. PendingSaved(v)'
  BY <1>1, <1>2, <1>3, <1>4, <1>5 DEF Switched, PendingSaved, CrosspageStates, LogUsed, OwnIDT,
     HandedOver
<1>14. LogUsed(v)' /\ RetryEmpty(v)' /\ (pc'[v] \in MixedDR \/ crosspage'[v].inShadow = {})
  BY <1>1, <1>4, <1>5 DEF LogUsed, RetryEmpty, OwnIDT, MixedDR, HandedOver
<1>15. Switched(v)'
  BY <1>10, <1>11, <1>12, <1>13 DEF Switched
<1> QED
  BY <1>1, <1>3, <1>4, <1>14, <1>15, Frame

\* The registers that the monitor changes are saved, and its shadow is what it left.
LEMMA MonitorCallsInv ==
  ASSUME SwitchInv, TypeInv', NEW v \in VCPUs, MonitorCalls(v) PROVE SwitchInv'
<1>1. /\ pc[v] = "monitor" /\ pc'[v] = "off" /\ cpu[v] \in CPUs
      /\ \A w \in VCPUs \ {v} : pc'[w] = pc[w]
  BY DEF SwitchInv, TypeInv, MonitorCalls, Step, At, Goto
<1>2. hw[cpu[v]] \in HWStates /\ local[v] \in LocalStates /\ crosspage[v] \in CrosspageStates
      /\ host \in HostStates /\ hw \in [CPUs -> HWStates] /\ crosspage \in [VCPUs -> CrosspageStates]
  BY <1>1 DEF SwitchInv, TypeInv
<1>3. Switched(v) /\ Off(v) /\ Off(v)'
  BY <1>1 DEF SwitchInv, HostSaved, Off
<1>4. UNCHANGED <<host, blocked, latched, pending, rootPage, cpu, local>>
  BY DEF MonitorCalls, UnchangedByPiece
<1>5. LogUsed(v) /\ RetryEmpty(v) /\ (pc[v] \in MixedDR \/ crosspage[v].inShadow = {})
  BY DEF SwitchInv, CrosspageClean
<1>6. PICK shadow \in [drs : {"host", "guest"}, dr6 : {"guest"}, dr7 : {"none"}],
           kept \in {crosspage[v].inHost, crosspage[v].inHost \ {"drs"}, {}} :
        LET dr == [r \in DRs |-> IF r \in kept THEN hw[cpu[v]].dr[r] ELSE shadow[r]]
        IN /\ hw' = [hw EXCEPT ![cpu[v]].dr = dr, ![cpu[v]].area = "own"]
           /\ crosspage' = [crosspage EXCEPT
                ![v].shadow = shadow, ![v].inHost = kept,
                ![v].inShadow = {r \in DRs : dr[r] = shadow[r]},
                ![v].hostDR.drs = IF "drs" \in kept THEN @ ELSE "host",
                ![v].call = IF @ # "none" THEN @ ELSE "other"]
  BY Zenon DEF MonitorCalls, ChangesDRs
<1>7. PICK d : d = [r \in DRs |-> IF r \in kept THEN hw[cpu[v]].dr[r] ELSE shadow[r]]
  OBVIOUS
<1>8. PICK s : s = {r \in DRs : d[r] = shadow[r]}
  OBVIOUS
<1>9. hw' = [hw EXCEPT ![cpu[v]].dr = d, ![cpu[v]].area = "own"]
  BY <1>6, <1>7, Zenon
<1>10. crosspage' = [crosspage EXCEPT
        ![v].shadow = shadow, ![v].inHost = kept, ![v].inShadow = s,
        ![v].hostDR.drs = IF "drs" \in kept THEN @ ELSE "host",
        ![v].call = IF @ # "none" THEN @ ELSE "other"]
  BY <1>6, <1>7, <1>8, Zenon
<1>11. /\ \A c \in CPUs \ {cpu[v]} : hw'[c] = hw[c]
       /\ \A w \in VCPUs \ {v} : crosspage'[w] = crosspage[w]
  BY <1>2, <1>7, <1>8, <1>9, <1>10, ZenonT(60)
<1>12. /\ hw'[cpu[v]].trace = hw[cpu[v]].trace /\ hw'[cpu[v]].idt = hw[cpu[v]].idt
       /\ hw'[cpu[v]].cr = hw[cpu[v]].cr /\ hw'[cpu[v]].gdt = hw[cpu[v]].gdt
       /\ hw'[cpu[v]].root = hw[cpu[v]].root /\ hw'[cpu[v]].dr = d
  BY <1>1, <1>2, <1>7, <1>8, <1>9, <1>10, ZenonT(60) DEF HWStates
<1>13. /\ crosspage'[v].exception = crosspage[v].exception /\ crosspage'[v].retry = crosspage[v].retry
       /\ crosspage'[v].call = IF crosspage[v].call # "none" THEN crosspage[v].call ELSE "other"
       /\ crosspage'[v].inHost = kept /\ crosspage'[v].inShadow = s /\ crosspage'[v].shadow = shadow
       /\ crosspage'[v].hostDR = [crosspage[v].hostDR EXCEPT !.drs = IF "drs" \in kept THEN @ ELSE "host"]
  BY <1>2, <1>7, <1>8, <1>9, <1>10, ZenonT(60) DEF CrosspageStates
<1>14. TraceSaved(v)' /\ IDTSaved(v)' /\ CRSaved(v)' /\ GDTSaved(v)'
  BY <1>1, <1>3, <1>4, <1>12 DEF Switched, TraceSaved, IDTSaved, CRSaved, GDTSaved,
     NoTrace, OwnIDT, OwnCR, CrossGDT
<1>15. HVSaved(v)' /\ RootSaved(v)'
  BY <1>1, <1>3, <1>4, <1>12 DEF Switched, HVSaved, RootSaved, InHV
<1>16. DRSaved(v)'
  <2>1. \A r \in DRs : /\ r \in crosspage[v].inHost => hw[cpu[v]].dr[r] = HostDRs(r)
                       /\ r # "drs" => crosspage[v].hostDR[r] = HostDRs(r)
    BY <1>1, <1>3 DEF Switched, DRSaved, SavedDR
  <2>2. ASSUME NEW r \in DRs PROVE Restored(v, r)' = HostDRs(r)
    <3>1. CASE r \in kept
      <4>1. r \in crosspage[v].inHost /\ d[r] = hw[cpu[v]].dr[r]
        BY <1>7, <1>8, <1>9, <1>10, <3>1, ZenonT(60)
      <4> QED
        BY <1>4, <1>12, <1>13, <2>1, <3>1, <4>1, SMTT(40) DEF Restored
    <3>2. CASE r \notin kept
      <4>1. d[r] = shadow[r] /\ r \in s
        BY <1>7, <1>8, <1>9, <1>10, <3>2, ZenonT(60)
      <4>2. crosspage'[v].hostDR[r] = HostDRs(r)
        BY <1>2, <1>13, <2>1, <3>2 DEF CrosspageStates, DRStates, DRs, HostDRs
      <4> QED
        BY <1>4, <1>12, <1>13, <3>2, <4>1, <4>2, SMTT(40) DEF Restored
    <3> QED
      BY <3>1, <3>2
  <2> QED
    BY <1>1, <1>4, <2>2 DEF DRSaved, SavedDR, MixedDR, HostDRs
<1>17. PendingSaved(v)'
  BY <1>1, <1>3, <1>4, <1>13 DEF SwitchInv, TypeInv, Exceptions, Switched, PendingSaved,
     HandedOver
<1>18. LogUsed(v)' /\ RetryEmpty(v)' /\ (pc'[v] \in MixedDR \/ crosspage'[v].inShadow = {})
  BY <1>1, <1>4, <1>5, <1>13 DEF LogUsed, RetryEmpty, OwnIDT, MixedDR, HandedOver
<1>19. Switched(v)'
  BY <1>14, <1>15, <1>16, <1>17 DEF Switched
<1> QED
  BY <1>1, <1>3, <1>4, <1>18, <1>19, <1>11, Frame

\* An exception that comes in a switch is logged, or handed over by the monitor.
LEMMA RaisedInv ==
  ASSUME SwitchInv, TypeInv', NEW v \in VCPUs, NEW e \in Exceptions, Raised(v, e) PROVE SwitchInv'
<1>1. /\ Off(v) /\ cpu[v] \in CPUs /\ hw[cpu[v]].idt = "switch"
      /\ \A w \in VCPUs \ {v} : crosspage'[w] = crosspage[w]
      /\ \A c \in CPUs \ {cpu[v]} :
           pending'[c] = pending[c] /\ blocked'[c] = blocked[c] /\ latched'[c] = latched[c]
  BY DEF SwitchInv, TypeInv, Raised
<1>2. crosspage[v] \in CrosspageStates /\ pc[v] \in Labels
  BY <1>1 DEF SwitchInv, TypeInv
<1>3. Switched(v) /\ LogUsed(v) /\ RetryEmpty(v) /\ (pc[v] \in MixedDR \/ crosspage[v].inShadow = {})
  BY <1>1 DEF SwitchInv, HostSaved, CrosspageClean
<1>4. UNCHANGED <<host, hw, rootPage, cpu, pc, local>>
  BY DEF Raised
<1>5. pc[v] \in OwnIDT
  BY <1>1, <1>3 DEF Switched, IDTSaved
<1>6. \/ /\ e = "NMI" /\ blocked[cpu[v]] /\ latched'[cpu[v]]
         /\ UNCHANGED <<crosspage, pending, blocked>>
      \/ /\ blocked'[cpu[v]] = (blocked[cpu[v]] \/ e = "NMI")
         /\ pending'[cpu[v]] = pending[cpu[v]] \cup {e}
         /\ UNCHANGED latched
         /\ \/ crosspage'[v] = [crosspage[v] EXCEPT !.exception = @ \cup {e}]
            \/ /\ pc[v] = "monitor" /\ crosspage[v].call = "none"
               /\ crosspage'[v] = [crosspage[v] EXCEPT !.call = e]
  BY <1>1 DEF SwitchInv, TypeInv, Raised, At
<1>7. TraceSaved(v)' /\ IDTSaved(v)' /\ CRSaved(v)' /\ GDTSaved(v)' /\ HVSaved(v)' /\ RootSaved(v)'
  BY <1>3, <1>4 DEF Switched, TraceSaved, IDTSaved, CRSaved, GDTSaved, HVSaved, RootSaved,
     AreaKept
<1>8. DRSaved(v)' /\ (pc'[v] \in MixedDR \/ crosspage'[v].inShadow = {})
  <2>1. /\ crosspage'[v].inHost = crosspage[v].inHost /\ crosspage'[v].hostDR = crosspage[v].hostDR
        /\ crosspage'[v].inShadow = crosspage[v].inShadow
        /\ crosspage'[v].shadow = crosspage[v].shadow
    BY <1>2, <1>6 DEF CrosspageStates
  <2> QED
    BY <1>3, <1>4, <2>1 DEF Switched, DRSaved, Restored, HostDRs
<1>9. PendingSaved(v)'
  <2>1. pc[v] # "interrupt" /\ pending[cpu[v]] \subseteq {"NMI", "MC", "INTR"}
    BY <1>1, <1>5 DEF OwnIDT, SwitchInv, TypeInv, Exceptions
  <2>2. CASE UNCHANGED <<crosspage, pending, blocked>>
    BY <1>3, <1>4, <1>6, <2>1, <2>2 DEF Switched, PendingSaved
  <2>3. ASSUME blocked'[cpu[v]] = (blocked[cpu[v]] \/ e = "NMI"),
               pending'[cpu[v]] = pending[cpu[v]] \cup {e}, UNCHANGED latched,
               \/ crosspage'[v] = [crosspage[v] EXCEPT !.exception = @ \cup {e}]
               \/ /\ pc[v] = "monitor" /\ crosspage[v].call = "none"
                  /\ crosspage'[v] = [crosspage[v] EXCEPT !.call = e]
        PROVE  PendingSaved(v)'
    <3>1. \/ /\ crosspage'[v].exception = crosspage[v].exception \cup {e}
             /\ crosspage'[v].call = crosspage[v].call
          \/ /\ crosspage'[v].exception = crosspage[v].exception
             /\ pc[v] = "monitor" /\ crosspage[v].call = "none" /\ crosspage'[v].call = e
      BY <1>2, <2>3 DEF CrosspageStates
    <3> QED
      BY <1>3, <1>4, <2>1, <2>3, <3>1 DEF Switched, PendingSaved, HandedOver
  <2> QED
    BY <1>6, <2>2, <2>3
<1>10. LogUsed(v)' /\ RetryEmpty(v)'
  BY <1>2, <1>3, <1>4, <1>5, <1>6 DEF LogUsed, RetryEmpty, CrosspageStates, HandedOver, OwnIDT
<1>11. Switched(v)' /\ Off(v)'
  BY <1>1, <1>4, <1>7, <1>8, <1>9 DEF Switched, Off
<1> QED
  BY <1>1, <1>4, <1>8, <1>10, <1>11, Frame

\* Steps between two labels where the host has its CPU back, but for what is to be raised.
LEMMA Quiet ==
  ASSUME SwitchInv, NEW v \in VCPUs, Off(v), Off(v)', TypeInv',
         UNCHANGED <<host, hw, rootPage, cpu, local>>,
         crosspage'[v].inShadow = crosspage[v].inShadow,
         pc[v] \in {"look", "trace", "nmi", "mc", "forward", "interrupt", "flags"},
         pc'[v] \in {"look", "trace", "nmi", "mc", "forward", "interrupt", "flags"}
  PROVE  /\ TraceSaved(v)' /\ IDTSaved(v)' /\ CRSaved(v)' /\ GDTSaved(v)' /\ HVSaved(v)'
         /\ DRSaved(v)' /\ RootSaved(v)'
         /\ pc'[v] \in MixedDR \/ crosspage'[v].inShadow = {}
<1>1. Switched(v) /\ (pc[v] \in MixedDR \/ crosspage[v].inShadow = {})
  BY DEF SwitchInv, HostSaved, CrosspageClean
<1>2. TraceSaved(v)' /\ IDTSaved(v)' /\ CRSaved(v)' /\ GDTSaved(v)'
  BY <1>1 DEF Switched, TraceSaved, IDTSaved, CRSaved, GDTSaved, NoTrace, OwnIDT, OwnCR,
     CrossGDT
<1>3. HVSaved(v)' /\ RootSaved(v)'
  BY <1>1 DEF Switched, HVSaved, RootSaved, AreaKept, InHV
<1>4. DRSaved(v)' /\ (pc'[v] \in MixedDR \/ crosspage'[v].inShadow = {})
  BY <1>1 DEF Switched, DRSaved, HostDRs, SavedDR, MixedDR
<1> QED
  BY <1>2, <1>3, <1>4

\* A switch is turned back, or goes on, with everything still the host's.
LEMMA LookInv ==
  ASSUME SwitchInv, TypeInv', NEW v \in VCPUs, TurnBack(v) \/ Proceed(v) PROVE SwitchInv'
<1>1. /\ pc[v] = "look" /\ pc'[v] \in {"flags", "trace"}
      /\ \A w \in VCPUs \ {v} : pc'[w] = pc[w] /\ crosspage'[w] = crosspage[w]
      /\ Off(v) /\ Off(v)'
  BY DEF SwitchInv, TypeInv, TurnBack, Proceed, Step, At, Goto, Off
<1>2. UNCHANGED <<host, hw, blocked, latched, pending, rootPage, cpu, local>>
  BY DEF TurnBack, Proceed, cpus
<1>3. /\ crosspage'[v].exception = crosspage[v].exception
      /\ crosspage'[v].retry = crosspage[v].retry
      /\ crosspage'[v].inShadow = crosspage[v].inShadow
  BY DEF SwitchInv, TypeInv, TurnBack, Proceed, CrosspageStates
<1>4. Switched(v) /\ LogUsed(v) /\ RetryEmpty(v)
  BY <1>1 DEF SwitchInv, HostSaved, CrosspageClean
<1>5. PendingSaved(v)'
  BY <1>1, <1>2, <1>3, <1>4 DEF Switched, PendingSaved, HandedOver
<1>6. LogUsed(v)' /\ RetryEmpty(v)'
  BY <1>1, <1>3, <1>4 DEF LogUsed, RetryEmpty, HandedOver, OwnIDT
<1>7. Switched(v)' /\ (pc'[v] \in MixedDR \/ crosspage'[v].inShadow = {})
  BY <1>1, <1>2, <1>3, <1>5, Quiet DEF Switched
<1> QED
  BY <1>1, <1>2, <1>6, <1>7, Frame

\* An exception raised from the log is the host's.
LEMMA RaiseLoggedInv ==
  ASSUME SwitchInv, TypeInv', NEW v \in VCPUs, RaiseNMI(v) \/ RaiseMC(v) PROVE SwitchInv'
<1>1. PICK e \in {"NMI", "MC"} :
        /\ RaiseLogged(v, e, pc[v], pc'[v])
        /\ pc[v] = (IF e = "NMI" THEN "nmi" ELSE "mc")
        /\ pc'[v] = (IF e = "NMI" THEN "mc" ELSE "forward")
  BY DEF RaiseNMI, RaiseMC, RaiseLogged, Step, At, Goto, SwitchInv, TypeInv
<1>2. /\ \A w \in VCPUs \ {v} : pc'[w] = pc[w] /\ crosspage'[w] = crosspage[w]
      /\ \A c \in CPUs \ {cpu[v]} :
           pending'[c] = pending[c] /\ blocked'[c] = blocked[c] /\ latched'[c] = latched[c]
      /\ Off(v) /\ Off(v)' /\ cpu[v] \in CPUs
  BY <1>1 DEF SwitchInv, TypeInv, RaiseLogged, Raise, Step, Goto, Off
<1>3. UNCHANGED <<host, hw, rootPage, cpu, local>>
  BY <1>1 DEF RaiseLogged, UnchangedByRaise
<1>4. crosspage[v] \in CrosspageStates
  BY DEF SwitchInv, TypeInv
<1>5. /\ crosspage'[v].exception = crosspage[v].exception \ {e}
      /\ crosspage'[v].call = crosspage[v].call /\ crosspage'[v].retry = crosspage[v].retry
      /\ crosspage'[v].inShadow = crosspage[v].inShadow
  BY <1>1, <1>4 DEF SwitchInv, TypeInv, RaiseLogged, CrosspageStates
<1>6. Switched(v) /\ LogUsed(v) /\ RetryEmpty(v)
  BY <1>2 DEF SwitchInv, HostSaved, CrosspageClean
<1>7. PendingSaved(v)'
  <2>1. CASE e \in crosspage[v].exception
    <3>1. /\ pending'[cpu[v]] = pending[cpu[v]] \ {e}
          /\ e = "NMI" => ~blocked'[cpu[v]] /\ ~latched'[cpu[v]]
          /\ e # "NMI" => blocked'[cpu[v]] = blocked[cpu[v]] /\ latched'[cpu[v]] = latched[cpu[v]]
      BY <1>1, <1>2, <2>1 DEF SwitchInv, TypeInv, RaiseLogged, Raise
    <3> QED
      BY <1>1, <1>3, <1>5, <1>6, <3>1 DEF Switched, PendingSaved, HandedOver
  <2>2. CASE e \notin crosspage[v].exception
    <3>1. UNCHANGED <<pending, blocked, latched>>
      BY <1>1, <2>2 DEF RaiseLogged
    <3> QED
      BY <1>1, <1>3, <1>5, <1>6, <2>2, <3>1 DEF Switched, PendingSaved, HandedOver
  <2> QED
    BY <2>1, <2>2
<1>8. LogUsed(v)' /\ RetryEmpty(v)'
  BY <1>1, <1>4, <1>5, <1>6
  DEF LogUsed, RetryEmpty, HandedOver, OwnIDT, CrosspageStates, Exceptions
<1>9. Switched(v)' /\ (pc'[v] \in MixedDR \/ crosspage'[v].inShadow = {})
  BY <1>1, <1>2, <1>3, <1>5, <1>7, Quiet DEF Switched
<1> QED
  BY <1>2, <1>3, <1>8, <1>9, Frame

\* An NMI that is handed over is raised before the monitor is switched to again.
LEMMA ForwardInv ==
  ASSUME SwitchInv, TypeInv', NEW v \in VCPUs, Forward(v) PROVE SwitchInv'
<1>1. /\ pc[v] = "forward"
      /\ pc'[v] = (IF crosspage[v].call = "NMI" \/ crosspage[v].retry THEN "trace" ELSE "interrupt")
      /\ \A w \in VCPUs \ {v} : pc'[w] = pc[w] /\ crosspage'[w] = crosspage[w]
      /\ cpu[v] \in CPUs
      /\ crosspage'[v] = [crosspage[v] EXCEPT !.retry = FALSE]
      /\ \A c \in CPUs \ {cpu[v]} :
           pending'[c] = pending[c] /\ blocked'[c] = blocked[c] /\ latched'[c] = latched[c]
  BY DEF SwitchInv, TypeInv, Forward, Raise, At, Goto
<1>2. Off(v) /\ Off(v)'
  BY <1>1 DEF Off
<1>3. UNCHANGED <<host, hw, rootPage, cpu, local>>
  BY DEF Forward, UnchangedByRaise
<1>4. crosspage[v] \in CrosspageStates
  BY DEF SwitchInv, TypeInv
<1>5. /\ crosspage'[v].exception = crosspage[v].exception /\ crosspage'[v].retry = FALSE
      /\ crosspage'[v].call = crosspage[v].call
      /\ crosspage'[v].inShadow = crosspage[v].inShadow
  BY <1>1, <1>4 DEF CrosspageStates
<1>6. Switched(v) /\ LogUsed(v) /\ RetryEmpty(v)
  BY <1>2 DEF SwitchInv, HostSaved, CrosspageClean
<1>7. /\ crosspage[v].exception = {}
      /\ \A e \in pending[cpu[v]] : e = crosspage[v].call /\ e # "none"
      /\ blocked[cpu[v]] => "NMI" \in pending[cpu[v]]
      /\ latched[cpu[v]] => blocked[cpu[v]]
  BY <1>1, <1>6
  DEF Switched, PendingSaved, LogUsed, OwnIDT, SwitchInv, TypeInv, Exceptions
<1>8. PendingSaved(v)'
  <2>1. CASE crosspage[v].call = "NMI"
    <3>1. /\ pending'[cpu[v]] = pending[cpu[v]] \ {"NMI"}
          /\ ~blocked'[cpu[v]] /\ ~latched'[cpu[v]]
      BY <1>1, <2>1 DEF SwitchInv, TypeInv, Forward, Raise
    <3> QED
      BY <1>1, <1>3, <1>7, <2>1, <3>1 DEF PendingSaved
  <2>2. CASE crosspage[v].call # "NMI"
    <3>1. UNCHANGED <<pending, blocked, latched>>
      BY <2>2 DEF Forward
    <3> QED
      BY <1>1, <1>3, <1>5, <1>6, <1>7, <2>2, <3>1 DEF PendingSaved, RetryEmpty, HandedOver
  <2> QED
    BY <2>1, <2>2
<1>9. LogUsed(v)' /\ RetryEmpty(v)'
  BY <1>5, <1>7 DEF LogUsed, RetryEmpty
<1>10. Switched(v)' /\ (pc'[v] \in MixedDR \/ crosspage'[v].inShadow = {})
  BY <1>1, <1>2, <1>3, <1>5, <1>8, Quiet DEF Switched
<1> QED
  BY <1>1, <1>2, <1>3, <1>9, <1>10, Frame

\* What is handed over last is raised, and nothing else is left.
LEMMA RaiseInterruptInv ==
  ASSUME SwitchInv, TypeInv', NEW v \in VCPUs, RaiseInterrupt(v) PROVE SwitchInv'
<1>1. /\ pc[v] = "interrupt" /\ pc'[v] = "flags" /\ cpu[v] \in CPUs
      /\ \A w \in VCPUs \ {v} : pc'[w] = pc[w]
      /\ \A c \in CPUs \ {cpu[v]} :
           pending'[c] = pending[c] /\ blocked'[c] = blocked[c] /\ latched'[c] = latched[c]
  BY DEF SwitchInv, TypeInv, RaiseInterrupt, Raise, Step, At, Goto
<1>2. Off(v) /\ Off(v)'
  BY <1>1 DEF Off
<1>3. UNCHANGED <<host, hw, rootPage, cpu, local, crosspage>>
  BY DEF RaiseInterrupt, UnchangedByRaise
<1>4. Switched(v) /\ LogUsed(v) /\ RetryEmpty(v)
  BY <1>2 DEF SwitchInv, HostSaved, CrosspageClean
<1>5. /\ crosspage[v].exception = {} /\ crosspage[v].call # "NMI"
      /\ pending[cpu[v]] \subseteq {crosspage[v].call} \cap {"INTR", "MC"}
      /\ ~blocked[cpu[v]] /\ ~latched[cpu[v]]
  <2>1. crosspage[v].exception = {}
    BY <1>1, <1>4 DEF LogUsed, OwnIDT
  <2>2. /\ crosspage[v].call # "NMI" /\ \A e \in pending[cpu[v]] : e = crosspage[v].call
        /\ blocked[cpu[v]] => "NMI" \in pending[cpu[v]]
        /\ latched[cpu[v]] => blocked[cpu[v]]
    BY <1>1, <1>4, <2>1 DEF Switched, PendingSaved
  <2>3. pending[cpu[v]] \subseteq {"NMI", "MC", "INTR"}
    BY <1>1 DEF SwitchInv, TypeInv, Exceptions
  <2> QED
    BY <2>1, <2>2, <2>3
<1>6. pending'[cpu[v]] = {} /\ ~blocked'[cpu[v]] /\ ~latched'[cpu[v]]
  <2>1. CASE crosspage[v].call \in {"INTR", "MC"}
    BY <1>1, <1>5, <2>1 DEF SwitchInv, TypeInv, RaiseInterrupt, Raise
  <2>2. CASE crosspage[v].call \notin {"INTR", "MC"}
    BY <1>5, <2>2 DEF RaiseInterrupt
  <2> QED
    BY <2>1, <2>2
<1>7. PendingSaved(v)'
  BY <1>1, <1>3, <1>6 DEF PendingSaved
<1>8. LogUsed(v)' /\ RetryEmpty(v)'
  BY <1>1, <1>3, <1>4, <1>5 DEF LogUsed, RetryEmpty, HandedOver
<1>9. Switched(v)' /\ (pc'[v] \in MixedDR \/ crosspage'[v].inShadow = {})
  BY <1>1, <1>2, <1>3, <1>7, Quiet DEF Switched
<1> QED
  BY <1>1, <1>2, <1>3, <1>8, <1>9, Frame

\* The CPU is wholly the host's when interrupts are on.
LEMMA RestoreFlagsInv ==
  ASSUME SwitchInv, TypeInv', NEW v \in VCPUs, RestoreFlags(v) PROVE SwitchInv'
<1>1. /\ pc[v] = "flags" /\ pc'[v] = "unmask" /\ \A w \in VCPUs \ {v} : pc'[w] = pc[w]
      /\ Off(v) /\ ~Off(v)'
  BY DEF SwitchInv, TypeInv, RestoreFlags, Step, At, Goto, Off
<1>2. UNCHANGED <<host, hw, blocked, latched, pending, rootPage, cpu, local, crosspage>>
  BY DEF RestoreFlags, cpus
<1>3. Switched(v) /\ LogUsed(v) /\ RetryEmpty(v)
      /\ (pc[v] \in MixedDR \/ crosspage[v].inShadow = {})
  BY <1>1 DEF SwitchInv, HostSaved, CrosspageClean
<1>4. Whole(cpu[v])
  <2>1. crosspage[v].exception = {}
    BY <1>1, <1>3 DEF LogUsed, OwnIDT
  <2>2. pending[cpu[v]] = {} /\ ~blocked[cpu[v]] /\ ~latched[cpu[v]]
    BY <1>1, <1>3, <2>1 DEF Switched, PendingSaved, HandedOver, SwitchInv, TypeInv
  <2> QED
    BY <1>1, <1>3, <2>2 DEF Whole, Switched, TraceSaved, IDTSaved, CRSaved, GDTSaved, HVSaved,
       DRSaved, NoTrace, OwnIDT, OwnCR, CrossGDT, InHV, SavedDR, MixedDR
<1>5. Whole(cpu[v])'
  BY <1>2, <1>4 DEF Whole, AreaKept, HostDRs
<1>6. LogUsed(v)' /\ RetryEmpty(v)' /\ (pc'[v] \in MixedDR \/ crosspage'[v].inShadow = {})
  BY <1>1, <1>2, <1>3 DEF LogUsed, RetryEmpty, HandedOver, OwnIDT, MixedDR
<1> QED
  BY <1>1, <1>2, <1>5, <1>6, Frame

\* The CPU is wholly the host's when interrupts go off.
LEMMA ClearInterruptsInv ==
  ASSUME SwitchInv, TypeInv', NEW v \in VCPUs, ClearInterrupts(v) PROVE SwitchInv'
<1>1. /\ pc[v] = "cli" /\ pc'[v] = "look" /\ Runs(v) /\ cpu[v] \in CPUs
      /\ \A w \in VCPUs \ {v} : pc'[w] = pc[w] /\ local'[w] = local[w]
      /\ local'[v].root = rootPage[cpu[v]]
  BY DEF SwitchInv, TypeInv, ClearInterrupts, Step, At, Goto, LocalStates
<1>2. UNCHANGED <<host, hw, blocked, latched, pending, rootPage, cpu, crosspage>>
  BY DEF ClearInterrupts, cpus
<1>3. Whole(cpu[v])
  BY <1>1 DEF SwitchInv, HostWhole, InHost, Runs, Off
<1>4. LogUsed(v) /\ RetryEmpty(v) /\ (pc[v] \in MixedDR \/ crosspage[v].inShadow = {})
  BY DEF SwitchInv, CrosspageClean
<1>5. Switched(v)'
  BY <1>1, <1>2, <1>3 DEF Whole, AreaKept, HostDRs, Switched, TraceSaved, IDTSaved, CRSaved,
     GDTSaved,
     HVSaved, DRSaved, RootSaved, PendingSaved, NoTrace, OwnIDT, OwnCR, CrossGDT, InHV, SavedDR,
     MixedDR
<1>6. LogUsed(v)' /\ RetryEmpty(v)' /\ (pc'[v] \in MixedDR \/ crosspage'[v].inShadow = {})
  BY <1>1, <1>2, <1>4 DEF LogUsed, RetryEmpty, HandedOver, OwnIDT, MixedDR
<1>7. ~Off(v)
  BY <1>1 DEF Off
<1> QED
  BY <1>1, <1>2, <1>5, <1>6, <1>7, Frame

\* What a thread does with interrupts on, and its moves to another CPU.
LEMMA OutsideInv ==
  ASSUME SwitchInv, TypeInv', NEW v \in VCPUs,
         \/ Migrate(v) \/ TaskDisableNMI(v) \/ TaskRestoreNMI(v) \/ HandleCall(v) \/ HasPage(v)
         \/ AllocPage(v) \/ AllocFails(v) \/ SetRootPage(v) \/ WriteFails(v)
  PROVE  SwitchInv'
<1>1. ~Off(v) /\ ~Off(v)'
  BY DEF SwitchInv, TypeInv, Off, Migrate, TaskDisableNMI, TaskRestoreNMI, HandleCall, HasPage,
     AllocPage,
         AllocFails, SetRootPage, WriteFails, Step, At, Goto
<1>2. \A w \in VCPUs \ {v} : pc'[w] = pc[w] /\ cpu'[w] = cpu[w] /\ local'[w] = local[w]
                             /\ crosspage'[w] = crosspage[w]
  BY DEF SwitchInv, TypeInv, Migrate, TaskDisableNMI, TaskRestoreNMI, HandleCall, HasPage,
     AllocPage,
         AllocFails, SetRootPage, WriteFails, Step, Goto
<1>3. UNCHANGED <<host, hw, blocked, latched, pending>>
  BY DEF Migrate, TaskDisableNMI, TaskRestoreNMI, HandleCall, HasPage, AllocPage, AllocFails,
     SetRootPage,
         WriteFails, cpus
<1>4. \A c \in CPUs : rootPage[c] # 0 => rootPage'[c] = rootPage[c]
  BY DEF SwitchInv, TypeInv, Migrate, TaskDisableNMI, TaskRestoreNMI, HandleCall, HasPage,
     AllocPage,
         AllocFails, SetRootPage, WriteFails
<1>5. /\ crosspage'[v].exception = crosspage[v].exception
      /\ crosspage'[v].retry = crosspage[v].retry
      /\ crosspage'[v].inShadow = crosspage[v].inShadow
  <2>1. CASE UNCHANGED crosspage
    BY <2>1
  <2>2. CASE HandleCall(v)
    BY <2>2 DEF SwitchInv, TypeInv, CrosspageStates, HandleCall, Handled
  <2>3. CASE HasPage(v) \/ AllocFails(v) \/ WriteFails(v)
    <3>1. crosspage' = [crosspage EXCEPT ![v] = Handled(@)]
      BY <2>3 DEF HasPage, AllocFails, WriteFails
    <3> QED
      BY <3>1 DEF SwitchInv, TypeInv, CrosspageStates, Handled
  <2> QED
    BY <2>1, <2>2, <2>3 DEF Migrate, TaskDisableNMI, TaskRestoreNMI, AllocPage, SetRootPage
<1>6. LogUsed(v) /\ RetryEmpty(v) /\ (pc[v] \in MixedDR \/ crosspage[v].inShadow = {})
  BY DEF SwitchInv, CrosspageClean
<1>7. LogUsed(v)' /\ RetryEmpty(v)' /\ (pc'[v] \in MixedDR \/ crosspage'[v].inShadow = {})
  BY <1>1, <1>5, <1>6 DEF LogUsed, RetryEmpty, HandedOver, OwnIDT, MixedDR, Off
<1> QED
  BY <1>1, <1>2, <1>3, <1>4, <1>7, Frame

\* The interrupt that the monitor hands over is in the call.
LEMMA MonitorInterruptedInv ==
  ASSUME SwitchInv, TypeInv', NEW v \in VCPUs, MonitorInterrupted(v) PROVE SwitchInv'
<1>1. /\ pc[v] = "monitor" /\ pc'[v] = "off" /\ cpu[v] \in CPUs /\ crosspage[v].call = "none"
      /\ \A w \in VCPUs \ {v} : pc'[w] = pc[w] /\ crosspage'[w] = crosspage[w]
      /\ \A c \in CPUs \ {cpu[v]} : hw'[c] = hw[c] /\ pending'[c] = pending[c]
      /\ hw'[cpu[v]] = [hw[cpu[v]] EXCEPT !.area = "own"]
      /\ pending'[cpu[v]] = pending[cpu[v]] \cup {"INTR"}
      /\ crosspage'[v] = [crosspage[v] EXCEPT !.call = "INTR"]
  BY ZenonT(60) DEF SwitchInv, TypeInv, MonitorInterrupted, HW, Step, At, Goto
<1>2. hw[cpu[v]] \in HWStates /\ crosspage[v] \in CrosspageStates
  BY <1>1 DEF SwitchInv, TypeInv
<1>3. Switched(v) /\ Off(v) /\ Off(v)'
  BY <1>1 DEF SwitchInv, HostSaved, Off
<1>4. UNCHANGED <<host, blocked, latched, rootPage, cpu, local>>
  BY DEF MonitorInterrupted
<1>5. LogUsed(v) /\ RetryEmpty(v) /\ (pc[v] \in MixedDR \/ crosspage[v].inShadow = {})
  BY DEF SwitchInv, CrosspageClean
<1>6. TraceSaved(v)' /\ IDTSaved(v)' /\ CRSaved(v)' /\ GDTSaved(v)'
  BY <1>1, <1>2, <1>3, <1>4 DEF Switched, TraceSaved, IDTSaved, CRSaved, GDTSaved, HWStates,
     NoTrace, OwnIDT, OwnCR, CrossGDT
<1>7. HVSaved(v)' /\ RootSaved(v)'
  BY <1>1, <1>2, <1>3, <1>4 DEF Switched, HVSaved, RootSaved, HWStates, InHV
<1>8. DRSaved(v)'
  BY <1>1, <1>2, <1>3, <1>4, <1>5 DEF Switched, DRSaved, Restored, HostDRs, HWStates,
     CrosspageStates, SavedDR, MixedDR, DRs
<1>9. PendingSaved(v)'
  <2>1. crosspage'[v].call = "INTR" /\ crosspage'[v].exception = crosspage[v].exception
    BY <1>1, <1>2 DEF CrosspageStates
  <2>2. pending[cpu[v]] \subseteq {"NMI", "MC", "INTR"}
    BY <1>1 DEF SwitchInv, TypeInv, Exceptions
  <2> QED
    BY <1>1, <1>3, <1>4, <2>1, <2>2 DEF Switched, PendingSaved, HandedOver
<1>10. LogUsed(v)' /\ RetryEmpty(v)' /\ (pc'[v] \in MixedDR \/ crosspage'[v].inShadow = {})
  BY <1>1, <1>2, <1>5 DEF LogUsed, RetryEmpty, OwnIDT, MixedDR, HandedOver, CrosspageStates
<1>11. Switched(v)'
  BY <1>6, <1>7, <1>8, <1>9 DEF Switched
<1> QED
  BY <1>1, <1>3, <1>4, <1>10, <1>11, Frame

\* No switch is under way when vmmon is loaded.
LEMMA InitSwitch == Init => SwitchInv
<1> SUFFICES ASSUME Init PROVE SwitchInv
  OBVIOUS
<1>1. TypeInv
  BY InitTypes
<1>2. \A v \in VCPUs : ~Off(v)
  BY DEF Init, Off
<1>3. HostWhole
  BY DEF Init, HostWhole, Whole, AreaKept, HostDRs, HostState, DRs
<1>4. CrosspageClean
  BY DEF Init, CrosspageClean, LogUsed, RetryEmpty
<1> QED
  BY <1>1, <1>2, <1>3, <1>4 DEF SwitchInv, OneOff, HostSaved

\* The host has what it had, at every step where it takes exceptions itself.
LEMMA IntactWhenSwitched == SwitchInv => HostIntact
<1> SUFFICES ASSUME SwitchInv, NEW c \in CPUs
             PROVE  /\ hw[c].idt = "host" =>
                         [hw[c] EXCEPT !.trace = host.trace,
                                       !.area = IF host.area = "none" THEN "none" ELSE @]
                           = HostState
                    /\ InHost(c) => hw[c].trace = host.trace
                    /\ hw[c].root # 0 => hw[c].root = rootPage[c]
  BY ZenonT(60) DEF HostIntact
<1>1. hw[c] \in HWStates /\ host \in HostStates
  BY DEF SwitchInv, TypeInv
<1>2. ASSUME hw[c].cr = "host", hw[c].gdt = "host", \A r \in DRs : hw[c].dr[r] = HostDRs(r),
             hw[c].hv = host.hvOn, AreaKept(c), hw[c].root = 0, hw[c].idt = "host"
      PROVE  [hw[c] EXCEPT !.trace = host.trace,
                           !.area = IF host.area = "none" THEN "none" ELSE @] = HostState
  <2>1. hw[c].dr = [drs |-> "host", dr6 |-> "host", dr7 |-> host.dr7]
    BY <1>1, <1>2 DEF HWStates, DRStates, DRs, HostDRs
  <2>2. (IF host.area = "none" THEN "none" ELSE hw[c].area) = host.area
    BY <1>2 DEF AreaKept
  <2>3. [hw[c] EXCEPT !.trace = host.trace, !.area = host.area] = HostState
    <3>1. PICK h : h = [hw[c] EXCEPT !.trace = host.trace, !.area = host.area]
      OBVIOUS
    <3>2. h = [trace |-> h.trace, idt |-> h.idt, cr |-> h.cr, gdt |-> h.gdt, dr |-> h.dr,
               hv |-> h.hv, area |-> h.area, root |-> h.root]
      BY <1>1, <3>1 DEF HWStates
    <3>3. /\ h.trace = host.trace /\ h.area = host.area /\ h.idt = "host" /\ h.cr = "host"
          /\ h.gdt = "host" /\ h.hv = host.hvOn /\ h.root = 0
          /\ h.dr = [drs |-> "host", dr6 |-> "host", dr7 |-> host.dr7]
      BY <1>1, <1>2, <2>1, <3>1 DEF HWStates
    <3> QED
      BY <3>1, <3>2, <3>3 DEF HostState
  <2> QED
    BY <2>2, <2>3
<1>3. CASE InHost(c)
  <2>1. Whole(c)
    BY <1>3 DEF SwitchInv, HostWhole
  <2> QED
    BY <1>2, <2>1 DEF Whole
<1>4. CASE ~InHost(c)
  <2>1. PICK v \in VCPUs : cpu[v] = c /\ Switched(v)
    BY <1>4 DEF InHost, SwitchInv, HostSaved
  <2>2. hw[c].idt = "host" => pc[v] \notin OwnIDT
    BY <2>1 DEF Switched, IDTSaved
  <2>3. hw[c].root # 0 => hw[c].root = rootPage[c]
    BY <2>1 DEF Switched, HVSaved, RootSaved
  <2>4. ASSUME hw[c].idt = "host"
        PROVE  /\ hw[c].cr = "host" /\ hw[c].gdt = "host"
               /\ \A r \in DRs : hw[c].dr[r] = HostDRs(r)
               /\ hw[c].hv = host.hvOn /\ AreaKept(c) /\ hw[c].root = 0
    BY <2>1, <2>2, <2>4 DEF Switched, CRSaved, GDTSaved, DRSaved, HVSaved, OwnIDT, OwnCR,
       CrossGDT,
       SavedDR, MixedDR, InHV
  <2> QED
    BY <1>2, <1>4, <2>3, <2>4
<1> QED
  BY <1>3, <1>4

\* Nothing is left to be raised where interrupts are on.
LEMMA RaisedWhenOn == SwitchInv => AllRaised
<1> SUFFICES ASSUME SwitchInv PROVE AllRaised
  OBVIOUS
<1>1. \A c \in CPUs : InHost(c) => pending[c] = {} /\ ~blocked[c] /\ ~latched[c]
  BY DEF SwitchInv, HostWhole, Whole
<1>2. ASSUME NEW v \in VCPUs, ~Off(v) PROVE crosspage[v].exception = {}
  BY <1>2 DEF SwitchInv, CrosspageClean, LogUsed, OwnIDT, Off
<1> QED
  BY <1>1, <1>2 DEF AllRaised

-----------------------------------------------------------------------------
(* The whole of a switch.                                                   *)

\* Every step keeps what a switch needs to give the CPU back.
LEMMA SwitchStep == SwitchInv /\ [Next]_vars => SwitchInv'
<1> SUFFICES ASSUME SwitchInv, [Next]_vars PROVE SwitchInv'
  OBVIOUS
<1>1. TypeInv
  BY DEF SwitchInv
<1>2. CASE UNCHANGED vars
  BY <1>2 DEF SwitchInv, vars, cpus, TypeInv, OneOff, HostWhole, HostSaved, CrosspageClean,
     InHost,
     Off, Whole, AreaKept, HostDRs, Switched, TraceSaved, IDTSaved, CRSaved, GDTSaved, HVSaved,
     DRSaved, Restored, RootSaved, PendingSaved, LogUsed, RetryEmpty
<1>3. ASSUME NEW v \in VCPUs, NEW e \in Exceptions, Raised(v, e) PROVE SwitchInv'
  BY <1>1, <1>3, RaisedTypes, RaisedInv
<1>4. ASSUME NEW v \in VCPUs,
             \/ StopTrace(v) \/ SwitchIDT(v) \/ SwitchCR(v) \/ SwitchToMonitor(v)
             \/ MonitorTurnsBack(v) \/ RestoreCR(v) \/ RestoreGDT(v) \/ RestoreIDT(v)
             \/ RestartTrace(v)
      PROVE  SwitchInv'
  BY <1>1, <1>4, PieceTypes, PieceInv
<1>5. ASSUME NEW v \in VCPUs,
             SaveDR(v) \/ EnterHV(v) \/ MonitorCalls(v) \/ LeaveHV(v) \/ RestoreDR(v)
      PROVE  SwitchInv'
  BY <1>1, <1>5, PieceTypes, SaveDRInv, EnterHVInv, MonitorCallsInv, LeaveHVInv, RestoreDRInv
<1>6. ASSUME NEW v \in VCPUs,
             \/ TurnBack(v) \/ Proceed(v) \/ MonitorInterrupted(v) \/ RaiseNMI(v) \/ RaiseMC(v)
             \/ Forward(v) \/ RaiseInterrupt(v) \/ RestoreFlags(v) \/ ClearInterrupts(v)
      PROVE  SwitchInv'
  BY <1>1, <1>6, StepTypes, LookInv, MonitorInterruptedInv, RaiseLoggedInv, ForwardInv,
     RaiseInterruptInv, RestoreFlagsInv, ClearInterruptsInv
<1>7. ASSUME NEW v \in VCPUs,
             \/ Migrate(v) \/ TaskDisableNMI(v) \/ TaskRestoreNMI(v) \/ HandleCall(v) \/ HasPage(v)
             \/ AllocPage(v) \/ AllocFails(v) \/ SetRootPage(v) \/ WriteFails(v)
      PROVE  SwitchInv'
  BY <1>1, <1>7, StepTypes, OutsideInv
<1> QED
  BY <1>2, <1>3, <1>4, <1>5, <1>6, <1>7 DEF Next

-----------------------------------------------------------------------------
(* The pages.                                                               *)

\* A step that neither allocates a page, nor sets a slot, nor gives a page back.
LEMMA PagesQuiet ==
  ASSUME PagesInv, NEW v \in VCPUs, UNCHANGED <<memory, rootPage, page>>,
         \A w \in VCPUs \ {v} : /\ pc'[w] = pc[w] /\ local'[w] = local[w]
                               /\ crosspage'[w] = crosspage[w] /\ due'[w] = due[w],
         crosspage'[v].retval = due'[v],
         pc'[v] = "look" => local'[v].pCPU \in CPUs,
         crosspage'[v].call = "alloc" => crosspage'[v].pcpuNum \in CPUs,
         pc[v] # "write", pc'[v] # "write"
  PROVE  PagesInv'
BY DEF PagesInv, At

\* A step of a switch.
LEMMA SwitchPages ==
  ASSUME TypeInv, PagesInv, NEW v \in VCPUs,
         \/ ClearInterrupts(v) \/ TurnBack(v) \/ Proceed(v) \/ StopTrace(v) \/ SwitchIDT(v)
         \/ SwitchCR(v) \/ SaveDR(v) \/ EnterHV(v) \/ SwitchToMonitor(v) \/ MonitorCalls(v)
         \/ MonitorInterrupted(v) \/ MonitorTurnsBack(v) \/ LeaveHV(v) \/ RestoreCR(v)
         \/ RestoreGDT(v) \/ RestoreDR(v) \/ RestoreIDT(v) \/ RestartTrace(v) \/ RaiseNMI(v)
         \/ RaiseMC(v) \/ Forward(v) \/ RaiseInterrupt(v) \/ RestoreFlags(v)
  PROVE  PagesInv'
<1>1. /\ cpu[v] \in CPUs /\ local \in [VCPUs -> LocalStates]
      /\ crosspage \in [VCPUs -> CrosspageStates] /\ pc \in [VCPUs -> Labels]
      /\ crosspage[v] \in CrosspageStates /\ local[v] \in LocalStates
  BY SMTT(40) DEF TypeInv
<1>2. UNCHANGED <<memory, rootPage, page, due>>
  BY DEF UnchangedByPiece, UnchangedByRaise, RaiseLogged, ClearInterrupts, TurnBack, Proceed,
     StopTrace, SwitchIDT, SwitchCR, SaveDR, EnterHV, SwitchToMonitor, MonitorCalls,
     MonitorInterrupted, MonitorTurnsBack, LeaveHV, RestoreCR, RestoreGDT, RestoreDR,
     RestoreIDT,
     RestartTrace, RaiseNMI, RaiseMC, Forward, RaiseInterrupt, RestoreFlags
<1>3. /\ pc[v] \notin {"write", "out"} /\ pc'[v] # "write"
      /\ pc'[v] = "look" => ClearInterrupts(v)
      /\ \A w \in VCPUs \ {v} : pc'[w] = pc[w]
  BY <1>1 DEF Step, At, Goto, RaiseLogged, ClearInterrupts, TurnBack, Proceed,
     StopTrace, SwitchIDT, SwitchCR, SaveDR, EnterHV, SwitchToMonitor, MonitorCalls,
     MonitorInterrupted, MonitorTurnsBack, LeaveHV, RestoreCR, RestoreGDT, RestoreDR,
     RestoreIDT,
     RestartTrace, RaiseNMI, RaiseMC, Forward, RaiseInterrupt, RestoreFlags
<1>4. /\ \A w \in VCPUs \ {v} : local'[w] = local[w]
      /\ ClearInterrupts(v) => local'[v].pCPU \in CPUs
  BY <1>1, ZenonT(60) DEF UnchangedByRaise, RaiseLogged, ClearInterrupts, TurnBack, Proceed,
     LocalStates,
     StopTrace, SwitchIDT, SwitchCR, SaveDR, EnterHV, SwitchToMonitor, MonitorCalls,
     MonitorInterrupted, MonitorTurnsBack, LeaveHV, RestoreCR, RestoreGDT, RestoreDR,
     RestoreIDT,
     RestartTrace, RaiseNMI, RaiseMC, Forward, RaiseInterrupt, RestoreFlags
<1>5. /\ \A w \in VCPUs \ {v} : crosspage'[w] = crosspage[w]
      /\ crosspage'[v].retval = crosspage[v].retval
      /\ \/ crosspage'[v].call # "alloc"
         \/ /\ crosspage[v].call = "alloc" /\ crosspage'[v].pcpuNum = crosspage[v].pcpuNum
         \/ pc[v] = "look" /\ crosspage'[v].pcpuNum = local[v].pCPU
  <2> USE DEF CrosspageStates
  <2>1. CASE TurnBack(v)
    BY <1>1, <2>1 DEF TurnBack, Step, At
  <2>2. CASE SaveDR(v)
    BY <1>1, <2>2 DEF SaveDR
  <2>3. CASE SwitchToMonitor(v)
    BY <1>1, <2>3 DEF SwitchToMonitor
  <2>4. CASE MonitorCalls(v)
    <3>1. PICK shadow \in [drs : {"host", "guest"}, dr6 : {"guest"}, dr7 : {"none"}],
               kept \in {crosspage[v].inHost, crosspage[v].inHost \ {"drs"}, {}}, s \in SUBSET DRs :
            crosspage' = [crosspage EXCEPT
              ![v].shadow = shadow, ![v].inHost = kept, ![v].inShadow = s,
              ![v].hostDR.drs = IF "drs" \in kept THEN @ ELSE "host",
              ![v].call = IF @ # "none" THEN @ ELSE "other"]
      BY <2>4, MonitorLeaves, ZenonT(60)
    <3> QED
      BY <1>1, <3>1
  <2>5. CASE MonitorInterrupted(v)
    BY <1>1, <2>5 DEF MonitorInterrupted
  <2>6. CASE MonitorTurnsBack(v)
    BY <1>1, <2>6 DEF MonitorTurnsBack
  <2>7. CASE RestoreDR(v)
    BY <1>1, <2>7 DEF RestoreDR, ForgetDRs
  <2>8. CASE RaiseNMI(v) \/ RaiseMC(v)
    BY <1>1, <2>8 DEF RaiseNMI, RaiseMC, RaiseLogged
  <2>9. CASE Forward(v)
    BY <1>1, <2>9, SMTT(40) DEF Forward
  <2>10. CASE \/ ClearInterrupts(v) \/ Proceed(v) \/ StopTrace(v) \/ SwitchIDT(v) \/ SwitchCR(v)
              \/ EnterHV(v) \/ LeaveHV(v) \/ RestoreCR(v) \/ RestoreGDT(v) \/ RestoreIDT(v)
              \/ RestartTrace(v) \/ RaiseInterrupt(v) \/ RestoreFlags(v)
    BY <2>10 DEF ClearInterrupts, Proceed, StopTrace, SwitchIDT, SwitchCR, EnterHV, LeaveHV,
       RestoreCR, RestoreGDT, RestoreIDT, RestartTrace, RaiseInterrupt, RestoreFlags
  <2> QED
    BY <2>1, <2>2, <2>3, <2>4, <2>5, <2>6, <2>7, <2>8, <2>9, <2>10
<1>6. crosspage'[v].call = "alloc" => crosspage'[v].pcpuNum \in CPUs
  BY <1>5 DEF PagesInv, At
<1>7. crosspage'[v].retval = due'[v]
  BY <1>2, <1>5 DEF PagesInv
<1> QED
  BY <1>2, <1>3, <1>4, <1>5, <1>6, <1>7, PagesQuiet

\* An exception has nothing to do with pages.
LEMMA RaisedPages ==
  ASSUME TypeInv, PagesInv, NEW v \in VCPUs, NEW e \in Exceptions, Raised(v, e) PROVE PagesInv'
<1>1. crosspage \in [VCPUs -> CrosspageStates] /\ crosspage[v] \in CrosspageStates
  BY DEF TypeInv
<1>2. pc[v] # "write" /\ UNCHANGED <<memory, rootPage, page, due, pc, local>>
  BY DEF Raised, Off
<1>3. \/ crosspage' = crosspage
      \/ crosspage' = [crosspage EXCEPT ![v].exception = @ \cup {e}]
      \/ crosspage' = [crosspage EXCEPT ![v].call = e]
  BY DEF Raised
<1>4. /\ \A w \in VCPUs \ {v} : crosspage'[w] = crosspage[w]
      /\ crosspage'[v].retval = crosspage[v].retval
      /\ crosspage'[v].pcpuNum = crosspage[v].pcpuNum
      /\ crosspage'[v].call # "alloc" \/ crosspage'[v].call = crosspage[v].call
  BY <1>1, <1>3 DEF CrosspageStates, Exceptions
<1>5. /\ crosspage'[v].retval = due'[v]
      /\ pc'[v] = "look" => local'[v].pCPU \in CPUs
      /\ crosspage'[v].call = "alloc" => crosspage'[v].pcpuNum \in CPUs
  BY <1>2, <1>4 DEF PagesInv, At
<1> QED
  BY <1>2, <1>4, <1>5, PagesQuiet

\* A step outside of a switch that no page is allocated or given back by.
LEMMA OutsidePages ==
  ASSUME TypeInv, PagesInv, NEW v \in VCPUs,
         \/ Migrate(v) \/ TaskDisableNMI(v) \/ TaskRestoreNMI(v) \/ HandleCall(v) \/ HasPage(v)
         \/ AllocFails(v)
  PROVE  PagesInv'
<1>1. /\ local \in [VCPUs -> LocalStates] /\ crosspage \in [VCPUs -> CrosspageStates]
      /\ pc \in [VCPUs -> Labels] /\ crosspage[v] \in CrosspageStates
      /\ due \in [VCPUs -> {"none", "result", "return"}]
  BY DEF TypeInv
<1>2. CASE Migrate(v)
  BY <1>2 DEF Migrate, PagesInv, At
<1>3. CASE TaskDisableNMI(v) \/ TaskRestoreNMI(v)
  <2>1. /\ UNCHANGED <<memory, rootPage, page, due, crosspage>>
        /\ \A w \in VCPUs \ {v} : local'[w] = local[w]
    BY <1>1, <1>3 DEF TaskDisableNMI, TaskRestoreNMI
  <2>2. /\ pc[v] \in {"out", "unmask"} /\ pc'[v] \in {"cli", "handle"}
        /\ \A w \in VCPUs \ {v} : pc'[w] = pc[w]
    BY <1>1, <1>3 DEF TaskDisableNMI, TaskRestoreNMI, Step, At, Goto
  <2>3. /\ crosspage'[v].retval = due'[v]
        /\ crosspage'[v].call = "alloc" => crosspage'[v].pcpuNum \in CPUs
    BY <2>1 DEF PagesInv
  <2> QED
    BY <2>1, <2>2, <2>3, PagesQuiet
<1>4. CASE HandleCall(v) \/ HasPage(v) \/ AllocFails(v)
  <2>1. /\ UNCHANGED <<memory, rootPage, page, local>>
        /\ pc[v] = "handle" /\ pc'[v] = "out"
        /\ \A w \in VCPUs \ {v} : pc'[w] = pc[w]
    BY <1>1, <1>4 DEF HandleCall, HasPage, AllocFails, Step, At, Goto
  <2>2. \/ /\ crosspage' = [crosspage EXCEPT ![v] = Handled(crosspage[v])] /\ due' = due
        \/ \E r \in {"result", "return"} :
             /\ crosspage' = [crosspage EXCEPT ![v] = [Handled(crosspage[v]) EXCEPT !.retval = r]]
             /\ due' = [due EXCEPT ![v] = r]
    BY <1>4 DEF HandleCall, HasPage, AllocFails
  <2>3. /\ \A w \in VCPUs \ {v} : crosspage'[w] = crosspage[w] /\ due'[w] = due[w]
        /\ crosspage'[v].call = "none"
        /\ \/ crosspage'[v].retval = crosspage[v].retval /\ due'[v] = due[v]
           \/ crosspage'[v].retval = due'[v]
    <3>1. CASE crosspage' = [crosspage EXCEPT ![v] = Handled(crosspage[v])] /\ due' = due
      BY <1>1, <3>1 DEF Handled, CrosspageStates
    <3>2. ASSUME NEW r \in {"result", "return"},
                 crosspage' = [crosspage EXCEPT ![v] = [Handled(crosspage[v]) EXCEPT !.retval = r]],
                 due' = [due EXCEPT ![v] = r]
          PROVE  /\ \A w \in VCPUs \ {v} : crosspage'[w] = crosspage[w] /\ due'[w] = due[w]
                 /\ crosspage'[v].call = "none" /\ crosspage'[v].retval = due'[v]
      BY <1>1, <3>2 DEF Handled, CrosspageStates
    <3> QED
      BY <2>2, <3>1, <3>2
  <2>4. crosspage'[v].retval = due'[v]
    BY <2>3 DEF PagesInv
  <2> QED
    BY <2>1, <2>3, <2>4, PagesQuiet
<1> QED
  BY <1>2, <1>3, <1>4

\* The page is nobody's yet.
LEMMA AllocPages ==
  ASSUME TypeInv, PagesInv, NEW v \in VCPUs, AllocPage(v) PROVE PagesInv'
<1>1. /\ pc \in [VCPUs -> Labels] /\ page \in [VCPUs -> Pages \cup {0}]
      /\ rootPage \in [CPUs -> Pages \cup {0}]
  BY DEF TypeInv
<1>2. PICK p \in Pages \ memory : memory' = memory \cup {p} /\ page' = [page EXCEPT ![v] = p]
  BY DEF AllocPage
<1>3. /\ UNCHANGED <<rootPage, local, crosspage, due>> /\ crosspage[v].call = "alloc"
      /\ pc[v] = "handle" /\ pc'[v] = "write" /\ \A w \in VCPUs \ {v} : pc'[w] = pc[w]
  BY <1>1 DEF AllocPage, Step, At, Goto
<1>4. page'[v] = p /\ \A w \in VCPUs \ {v} : page'[w] = page[w]
  BY <1>1, <1>2
<1>5. p \in Pages /\ p # 0 /\ (\A c \in CPUs : p # rootPage[c]) /\ (\A w \in VCPUs : p # page[w])
  BY <1>2, PagesAssumption DEF PagesInv
<1>6. page[v] = 0
  BY <1>3 DEF PagesInv, At
<1> QED
  BY <1>2, <1>3, <1>4, <1>5, <1>6, PagesAssumption DEF PagesInv, At

\* The slot was empty, and the page becomes the CPU's; or the page is nobody's again.
LEMMA SetPages ==
  ASSUME TypeInv, PagesInv, NEW v \in VCPUs, SetRootPage(v) \/ WriteFails(v) PROVE PagesInv'
<1>1. /\ pc \in [VCPUs -> Labels] /\ page \in [VCPUs -> Pages \cup {0}]
      /\ rootPage \in [CPUs -> Pages \cup {0}] /\ crosspage \in [VCPUs -> CrosspageStates]
      /\ crosspage[v] \in CrosspageStates
  BY DEF TypeInv
<1>2. /\ pc[v] = "write" /\ pc'[v] \in {"handle", "out"} /\ \A w \in VCPUs \ {v} : pc'[w] = pc[w]
      /\ UNCHANGED <<local, due>> /\ page' = [page EXCEPT ![v] = 0]
  BY <1>1 DEF SetRootPage, WriteFails, Step, At, Goto
<1>3. page'[v] = 0 /\ \A w \in VCPUs \ {v} : page'[w] = page[w]
  BY <1>1, <1>2
<1>4. /\ \A w \in VCPUs \ {v} : crosspage'[w] = crosspage[w]
      /\ crosspage'[v].retval = crosspage[v].retval
      /\ crosspage'[v] = crosspage[v] \/ crosspage'[v].call = "none"
  <2>1. CASE SetRootPage(v)
    BY <2>1 DEF SetRootPage
  <2>2. CASE WriteFails(v)
    BY <1>1, <2>2 DEF WriteFails, Handled, CrosspageStates
  <2> QED
    BY <2>1, <2>2
<1>5. page[v] # 0 /\ crosspage[v].pcpuNum \in CPUs /\ page[v] \in Pages
  BY <1>1, <1>2 DEF PagesInv, At
<1>6. \A w \in VCPUs :
        /\ crosspage'[w].retval = due'[w]
        /\ pc'[w] = "look" => local'[w].pCPU \in CPUs
        /\ crosspage'[w].call = "alloc" => crosspage'[w].pcpuNum \in CPUs
        /\ pc'[w] = "write" => crosspage'[w].call = "alloc"
        /\ pc'[w] = "write" <=> page'[w] # 0
  BY <1>2, <1>3, <1>4 DEF PagesInv, At
<1>7. CASE rootPage' = rootPage /\ memory' = memory \ {page[v]}
  <2>1. (\A c \in CPUs : page[v] # rootPage[c]) /\ (\A w \in VCPUs \ {v} : page[v] # page[w])
    BY <1>5 DEF PagesInv
  <2>2. \A p \in Pages :
          p \in memory <=> (\E c \in CPUs : p = rootPage[c]) \/ (\E w \in VCPUs : p = page[w])
    BY DEF PagesInv
  <2>3. \A p \in Pages : (\E w \in VCPUs : p = page'[w]) <=> (\E w \in VCPUs \ {v} : p = page[w])
    BY <1>3, PagesAssumption
  <2>4. ASSUME NEW p \in Pages
        PROVE  p \in memory' <=> (\E c \in CPUs : p = rootPage'[c]) \/ (\E w \in VCPUs : p = page'[w])
    BY <1>7, <2>1, <2>2, <2>3
  <2>5. /\ \A w \in VCPUs, c \in CPUs : page'[w] # 0 => page'[w] # rootPage'[c]
        /\ \A w, x \in VCPUs : (page'[w] # 0 /\ page'[w] = page'[x]) => w = x
        /\ \A c, d \in CPUs : (rootPage'[c] # 0 /\ rootPage'[c] = rootPage'[d]) => c = d
    BY <1>3, <1>7 DEF PagesInv
  <2> QED
    BY <1>6, <2>4, <2>5 DEF PagesInv, At
<1>8. CASE /\ rootPage[crosspage[v].pcpuNum] = 0 /\ memory' = memory
           /\ rootPage' = [rootPage EXCEPT ![crosspage[v].pcpuNum] = page[v]]
  <2>1. PICK c \in CPUs : rootPage[c] = 0 /\ rootPage' = [rootPage EXCEPT ![c] = page[v]]
    BY <1>5, <1>8
  <2>2. rootPage'[c] = page[v] /\ \A d \in CPUs \ {c} : rootPage'[d] = rootPage[d]
    BY <1>1, <2>1
  <2> QED
    BY <1>3, <1>5, <1>6, <1>8, <2>1, <2>2 DEF PagesInv, At
<1> QED
  BY <1>7, <1>8 DEF SetRootPage, WriteFails

\* No page is allocated when vmmon is loaded.
LEMMA InitPages == Init => PagesInv
BY PagesAssumption DEF Init, PagesInv, At

\* Every step keeps the pages apart.
LEMMA PagesStep == TypeInv /\ PagesInv /\ [Next]_vars => PagesInv'
<1> SUFFICES ASSUME TypeInv, PagesInv, [Next]_vars PROVE PagesInv'
  OBVIOUS
<1>1. CASE UNCHANGED vars
  BY <1>1 DEF vars, PagesInv, At
<1>2. ASSUME NEW v \in VCPUs, NEW e \in Exceptions, Raised(v, e) PROVE PagesInv'
  BY <1>2, RaisedPages
<1>3. CASE Next
  BY <1>2, <1>3, SwitchPages, OutsidePages, AllocPages, SetPages DEF Next
<1> QED
  BY <1>1, <1>3

-----------------------------------------------------------------------------
(* The theorems.                                                            *)

\* The inductive invariant: what of the host's state is where at each step of a switch (task.c,
\* Task_Switch), and whose every page is (TaskAllocHVRootPage).
THEOREM Invariance == Spec => []IInv
<1>1. Init => IInv
  BY InitSwitch, InitPages DEF IInv
<1>2. IInv /\ [Next]_vars => IInv'
  BY SwitchStep, PagesStep DEF IInv, SwitchInv
<1> QED
  BY <1>1, <1>2, PTL DEF Spec

\* The host's state of the CPUs is the same all the time.
LEMMA InitHost == Init => host \in Hosts
BY SMTT(40) DEF Init

LEMMA HostKept == host \in Hosts /\ [Next]_vars => (host \in Hosts)'
BY ZenonT(60) DEF Next, vars, cpus, UnchangedByPiece, UnchangedByRaise, RaiseLogged,
     Migrate, Raised,
     TaskDisableNMI, ClearInterrupts, TurnBack, Proceed, StopTrace, SwitchIDT, SwitchCR, SaveDR,
     EnterHV, SwitchToMonitor, MonitorCalls, MonitorInterrupted, MonitorTurnsBack, LeaveHV,
     RestoreCR, RestoreGDT, RestoreDR, RestoreIDT, RestartTrace, RaiseNMI, RaiseMC, Forward,
     RaiseInterrupt, RestoreFlags, TaskRestoreNMI, HandleCall, HasPage, AllocPage, AllocFails,
     SetRootPage, WriteFails

LEMMA TypesEnough == TypeInv /\ host \in Hosts => TypeOK
BY DEF TypeInv, TypeOK, HWStates, CrosspageStates, Calls

\* The type of every variable.
THEOREM TypeCorrect == Spec => []TypeOK
<1>1. IInv => TypeInv
  BY DEF IInv, SwitchInv
<1> QED
  BY <1>1, InitHost, HostKept, TypesEnough, Invariance, PTL DEF Spec

\* The host gets its CPU back as it was, and every exception and interrupt that came meanwhile,
\* however many VCPUs switch on however many CPUs: Task_Switch restores what it saved.
THEOREM HostUnawareHolds == Spec => []HostUnaware
<1>1. IInv => HostUnaware
  BY IntactWhenSwitched, RaisedWhenOn DEF HostUnaware, IInv
<1> QED
  BY <1>1, Invariance, PTL

\* A switch that is turned back for a page (the loop of Vmx86_RunVM) is not seen by the monitor,
\* whoever sets the slot first, and no page is lost.
THEOREM TurnedBackUnseenHolds == Spec => []TurnedBackUnseen
<1>1. IInv => TurnedBackUnseen
  <2> SUFFICES ASSUME IInv PROVE TurnedBackUnseen
    OBVIOUS
  <2>1. /\ memory \subseteq Pages /\ rootPage \in [CPUs -> Pages \cup {0}]
        /\ page \in [VCPUs -> Pages \cup {0}]
    BY DEF IInv, SwitchInv, TypeInv
  <2>2. \A v \in VCPUs : crosspage[v].retval = due[v]
    BY DEF IInv, PagesInv
  <2>3. \A p \in Pages :
          p \in memory <=> (\E c \in CPUs : p = rootPage[c]) \/ (\E v \in VCPUs : p = page[v])
    BY DEF IInv, PagesInv
  <2> QED
    BY <2>1, <2>2, <2>3 DEF TurnedBackUnseen
<1> QED
  BY <1>1, Invariance, PTL

-----------------------------------------------------------------------------
(* A query of a register on all CPUs.                                       *)

\* While the CPUs answer, each that has is in a slot that is taken, and nobody else is; the slots
\* that are taken may be more than there are.
Answered ==
  /\ numLogicalCPUs \in Nat /\ index \in Nat /\ replied \subseteq AllCPUs
  /\ purpose = "none" => result.status = "none"
  /\ result.status # "none" => replied = AllCPUs
  /\ purpose # "none" =>
       /\ result.status = "none" => DOMAIN logicalCPUs = 1 .. numLogicalCPUs
       /\ result.status = "ok" => index = numLogicalCPUs
       /\ (result.status # "small" /\ index <= numLogicalCPUs) =>
            /\ \A c \in replied : \E i \in 1 .. index :
                 logicalCPUs[i].tag = c /\ logicalCPUs[i].msrVal = msr[c]
            /\ \A i \in 1 .. index : \E c \in replied :
                 logicalCPUs[i].tag = c /\ logicalCPUs[i].msrVal = msr[c]

\* The numbers of a query's slots.
LEMMA SlotsNatural == Cardinality(AllCPUs) \in Nat /\ Msr!Cardinality(AllCPUs) \in Nat /\ Capacities \subseteq Nat
<1>1. IsFiniteSet(AllCPUs) /\ Capacities \subseteq Nat
  BY AllCPUsAssumption DEF Msr!QueryAssumption, Msr!IsFiniteSet, IsFiniteSet
<1>2. Msr!Cardinality(AllCPUs) = Cardinality(AllCPUs)
  BY Zenon DEF Msr!Cardinality, Cardinality
<1> QED
  BY <1>1, <1>2, FS_CardinalityType

\* A CPU takes the next slot (Vmx86GetMSR).
LEMMA GetMSRStep ==
  ASSUME Answered, NEW c \in AllCPUs, Msr!GetMSR(c)
  PROVE  Answered'
<1> USE DEF Msr!GetMSR
<1>1. /\ purpose # "none" /\ c \notin replied /\ result.status = "none"
      /\ replied' = replied \cup {c} /\ index' = index + 1 /\ numLogicalCPUs' = numLogicalCPUs
      /\ msr' = msr /\ purpose' = purpose /\ result' = result
  BY DEF Answered
<1>2. DOMAIN logicalCPUs' = DOMAIN logicalCPUs
  BY DEF Answered
<1>3. ASSUME index' <= numLogicalCPUs'
      PROVE  /\ logicalCPUs'[index'].tag = c /\ logicalCPUs'[index'].msrVal = msr[c]
             /\ \A i \in 1 .. index : logicalCPUs'[i] = logicalCPUs[i]
  <2>1. logicalCPUs' = [logicalCPUs EXCEPT ![index + 1] = [tag |-> c, msrVal |-> msr[c]]]
    BY <1>1, <1>3 DEF Answered
  <2>2. DOMAIN logicalCPUs = 1 .. numLogicalCPUs /\ index + 1 \in 1 .. numLogicalCPUs
    BY <1>1, <1>3 DEF Answered
  <2>3. logicalCPUs'[index + 1] = [tag |-> c, msrVal |-> msr[c]]
    BY <2>1, <2>2
  <2>4. \A i \in 1 .. index : i \in DOMAIN logicalCPUs /\ i # index + 1
    BY <2>2 DEF Answered
  <2> QED
    BY <1>1, <2>1, <2>3, <2>4
<1>4. ASSUME index' <= numLogicalCPUs'
      PROVE  /\ \A d \in replied' : \E i \in 1 .. index' :
                  logicalCPUs'[i].tag = d /\ logicalCPUs'[i].msrVal = msr'[d]
             /\ \A i \in 1 .. index' : \E d \in replied' :
                  logicalCPUs'[i].tag = d /\ logicalCPUs'[i].msrVal = msr'[d]
  <2>1. index \in Nat /\ index <= numLogicalCPUs
    BY <1>1, <1>4 DEF Answered
  <2>2. /\ \A d \in replied : \E i \in 1 .. index :
             logicalCPUs[i].tag = d /\ logicalCPUs[i].msrVal = msr[d]
        /\ \A i \in 1 .. index : \E d \in replied :
             logicalCPUs[i].tag = d /\ logicalCPUs[i].msrVal = msr[d]
    BY <1>1, <2>1 DEF Answered
  <2>3. 1 .. index' = 1 .. index \cup {index'} /\ index' \in 1 .. index'
    BY <1>1, <2>1
  <2> QED
    BY <1>1, <1>3, <1>4, <2>2, <2>3
<1> QED
  BY <1>1, <1>2, <1>4 DEF Answered

\* Every step of a query keeps the answers.
LEMMA AnsweredStep == Answered /\ [Msr!Next]_msrVars => Answered'
<1> SUFFICES ASSUME Answered, [Msr!Next]_msrVars PROVE Answered'
  OBVIOUS
<1>1. CASE UNCHANGED msrVars
  BY <1>1 DEF msrVars, Answered
<1>2. ASSUME NEW why \in {"uniformity", "query"}, NEW slots \in Nat, Msr!Start(why, slots)
      PROVE  Answered'
  <2>1. /\ purpose = "none" /\ purpose' # "none" /\ result' = result /\ result.status = "none"
        /\ numLogicalCPUs' = slots /\ index' = 0 /\ replied' = {}
        /\ DOMAIN logicalCPUs' = 1 .. slots
    BY <1>2 DEF Msr!Start, Answered
  <2>2. 1 .. index' = {}
    BY <2>1
  <2> QED
    BY <2>1, <2>2 DEF Answered
<1>3. CASE Msr!CheckMSRUniformity
  BY <1>2, <1>3, SlotsNatural DEF Msr!CheckMSRUniformity
<1>4. CASE Msr!GetAllMSRs
  BY <1>2, <1>4, SlotsNatural DEF Msr!GetAllMSRs
<1>5. CASE Msr!Finish
  <2>1. /\ purpose # "none" /\ replied = AllCPUs /\ result.status = "none"
        /\ purpose' = purpose /\ index' = index /\ logicalCPUs' = logicalCPUs
        /\ replied' = replied /\ msr' = msr
    BY <1>5 DEF Msr!Finish
  <2>2. CASE index > numLogicalCPUs
    BY <1>5, <2>1, <2>2 DEF Msr!Finish, Answered
  <2>3. CASE ~(index > numLogicalCPUs)
    <3>1. result'.status = "ok" /\ numLogicalCPUs' = index
      BY <1>5, <2>3 DEF Msr!Finish
    <3> QED
      BY <2>1, <2>3, <3>1 DEF Answered
  <2> QED
    BY <2>2, <2>3
<1> QED
  BY <1>1, <1>3, <1>4, <1>5, GetMSRStep DEF Msr!Next

\* What is answered is what each CPU has.
LEMMA AnsweredEnough == Answered => Msr!AllReplied
<1> SUFFICES ASSUME Answered, result.status = "ok" PROVE Msr!AllReplied
  BY DEF Msr!AllReplied
<1>1. replied = AllCPUs /\ index = numLogicalCPUs /\ index <= numLogicalCPUs
  BY DEF Answered
<1>2. /\ \A c \in AllCPUs : \E i \in 1 .. numLogicalCPUs :
           logicalCPUs[i].tag = c /\ logicalCPUs[i].msrVal = msr[c]
      /\ \A i \in 1 .. numLogicalCPUs : \E c \in AllCPUs :
           logicalCPUs[i].tag = c /\ logicalCPUs[i].msrVal = msr[c]
  BY <1>1 DEF Answered
<1> QED
  BY <1>2 DEF Msr!AllReplied

\* Nothing is asked yet.
LEMMA InitAnswered == Msr!Init => Answered
BY DEF Msr!Init, Answered

-----------------------------------------------------------------------------
(* The time stamp counters of all CPUs.                                     *)

\* Where a CPU is in the hook.
HookSteps ==
  {"out", "enter", "ready", "wait", "readmin", "setmin", "readmax", "setmax", "report", "done",
   "finished"}
HasLeft(c)     == tscPc[c] \in {"finished", "out"}
HasReported(c) == tscPc[c] \in {"done", "finished", "out"}
PastMax(c)     == HasReported(c) \/ tscPc[c] = "report"
PastMin(c)     == PastMax(c) \/ tscPc[c] \in {"readmax", "setmax"}
HasRead(c)     == PastMin(c) \/ tscPc[c] \in {"readmin", "setmin"}

\* The CPUs that have left the hook.
Left == {c \in AllCPUs : HasLeft(c)}

HookTypes ==
  /\ tscPc \in [AllCPUs -> HookSteps]
  /\ tscs \in [AllCPUs -> Nat] /\ olds \in [AllCPUs -> Nat]
  /\ {numCPUs, ready, failures, done, min, max} \subseteq Nat
  /\ expired \subseteq AllCPUs /\ early \subseteq AllCPUs

\* The counts while the CPUs are joined: the first has counted the CPUs, and who has left is
\* counted; who reads before all have shown up has waited too long, and reports it.
Counted ==
  /\ numCPUs \in {0, Cardinality(AllCPUs)}
  /\ numCPUs = 0 => \A c \in AllCPUs : tscPc[c] = "enter"
  /\ done = Cardinality(Left)
  /\ early \subseteq expired
  /\ \A c \in expired : HasReported(c) => failures > 0

\* The extremes are values that were read, if any, and of those whose turn is over they are the
\* extremes; an exchange only makes them more so.
Extreme ==
  /\ \A c \in AllCPUs : HasRead(c) => tscs[c] \in TSCs
  /\ \A c \in AllCPUs : PastMin(c) => min <= tscs[c]
  /\ \A c \in AllCPUs : PastMax(c) => max >= tscs[c]
  /\ min = Sync!Most \/ \E c \in AllCPUs : PastMin(c) /\ min = tscs[c]
  /\ max = 0 \/ \E c \in AllCPUs : PastMax(c) /\ max = tscs[c]
  /\ \A c \in AllCPUs : tscPc[c] = "setmin" => olds[c] > tscs[c]
  /\ \A c \in AllCPUs : tscPc[c] = "setmax" => olds[c] < tscs[c]

Joined ==
  /\ HookTypes
  /\ \A c \in AllCPUs : tscPc[c] = "finished" => c = Caller
  /\ tscPc[Caller] = "out" => \A c \in AllCPUs : tscPc[c] = "out"
  /\ tscPc[Caller] # "out" => Counted /\ Extreme

\* The CPUs are a finite set, and the counter has a greatest value.
LEMMA CounterFacts ==
  /\ IsFiniteSet(AllCPUs) /\ Caller \in AllCPUs /\ TSCs \subseteq Nat \ {0}
  /\ Sync!Most \in Nat /\ \A v \in TSCs : v < Sync!Most
  /\ Sync!Cardinality(AllCPUs) = Cardinality(AllCPUs)
  /\ Cardinality(AllCPUs) \in Nat \ {0}
<1>1. /\ IsFiniteSet(AllCPUs) /\ Caller \in AllCPUs /\ TSCs \subseteq Nat \ {0}
      /\ \E most \in TSCs : \A v \in TSCs : v <= most
  BY AllCPUsAssumption DEF Sync!CounterAssumption, Sync!IsFiniteSet, IsFiniteSet
<1>2. Sync!Max(TSCs) \in TSCs /\ \A v \in TSCs : Sync!Max(TSCs) >= v
  BY <1>1 DEF Sync!Max
<1>3. Sync!Cardinality(AllCPUs) = Cardinality(AllCPUs)
  BY Zenon DEF Sync!Cardinality, Cardinality
<1>4. Cardinality(AllCPUs) \in Nat \ {0}
  BY <1>1, FS_CardinalityType, FS_EmptySet
<1>5. Sync!Max(TSCs) \in Nat /\ Sync!Most = Sync!Max(TSCs) + 1
  BY <1>1, <1>2 DEF Sync!Most
<1>6. Sync!Most \in Nat /\ \A v \in TSCs : v < Sync!Most
  BY <1>1, <1>2, <1>5
<1> QED
  BY <1>1, <1>3, <1>4, <1>6

\* The CPUs start to join (LinuxDriverSyncCallOnEachCPU).
LEMMA CallStep == Joined /\ Sync!Call => Joined'
<1> SUFFICES ASSUME Joined, Sync!Call PROVE Joined'
  OBVIOUS
<1>1. /\ tscPc' = [c \in AllCPUs |-> "enter"] /\ numCPUs' = 0 /\ ready' = 0 /\ failures' = 0
      /\ done' = 0 /\ min' = Sync!Most /\ max' = 0 /\ expired' = {} /\ early' = {}
      /\ tscs' = tscs /\ olds' = olds
  BY DEF Sync!Call
<1>2. HookTypes'
  BY <1>1, CounterFacts DEF Joined, HookTypes, HookSteps
<1>3. Left' = {}
  BY <1>1 DEF Left, HasLeft
<1>4. Cardinality(Left') = 0
  BY <1>3, FS_EmptySet
<1>5. Counted'
  BY <1>1, <1>4 DEF Counted
<1>6. Extreme'
  BY <1>1 DEF Extreme, HasRead, PastMin, PastMax, HasReported
<1> QED
  BY <1>1, <1>2, <1>5, <1>6, CounterFacts DEF Joined

\* When the caller finds everyone done, all have left the hook.
LEMMA AllLeft ==
  ASSUME Joined, tscPc[Caller] = "finished", done = numCPUs
  PROVE  \A c \in AllCPUs : HasLeft(c)
<1>1. Counted /\ tscPc[Caller] # "enter" /\ Caller \in AllCPUs
  BY CounterFacts DEF Joined
<1>2. Cardinality(Left) = Cardinality(AllCPUs)
  BY <1>1 DEF Counted
<1>3. Left \in SUBSET AllCPUs
  BY DEF Left
<1>4. Left = AllCPUs
  BY <1>2, <1>3, CounterFacts, FS_Subset
<1> QED
  BY <1>4 DEF Left

\* The caller returns when everyone is done (LinuxDriverSyncReadTSCs).
LEMMA ReturnStep == Joined /\ Sync!Return => Joined'
<1> SUFFICES ASSUME Joined, Sync!Return PROVE Joined'
  OBVIOUS
<1>1. /\ tscPc[Caller] = "finished" /\ done = numCPUs
      /\ tscPc' = [tscPc EXCEPT ![Caller] = "out"]
      /\ UNCHANGED <<numCPUs, ready, failures, done, min, max, tscs, olds, expired, early>>
  BY DEF Sync!Return, Sync!Goto, Sync!args, Sync!local
<1>2. \A c \in AllCPUs : tscPc'[c] = "out"
  BY <1>1, AllLeft, CounterFacts DEF HasLeft, Joined, HookTypes
<1> QED
  BY <1>1, <1>2, CounterFacts DEF Joined, HookTypes, HookSteps

\* What a CPU's own step is that reads or writes no extreme.
LEMMA CountStep ==
  ASSUME Joined, NEW c \in AllCPUs, tscPc[c] # "out",
         Sync!Enter(c) \/ Sync!Ready(c) \/ Sync!Report(c) \/ Sync!Done(c)
  PROVE  Joined'
<1>1. /\ HookTypes /\ tscPc[Caller] # "out" /\ Counted /\ Extreme
      /\ Caller \in AllCPUs /\ Cardinality(AllCPUs) \in Nat
      /\ Sync!Cardinality(AllCPUs) = Cardinality(AllCPUs)
  BY CounterFacts DEF Joined
<1>2. /\ UNCHANGED <<min, max, tscs, olds, expired, early>>
      /\ \A d \in AllCPUs \ {c} : tscPc'[d] = tscPc[d]
      /\ tscPc' \in [AllCPUs -> HookSteps] /\ {numCPUs', ready', failures', done'} \subseteq Nat
      /\ failures' \in {failures, failures + 1}
  BY <1>1 DEF Sync!Enter, Sync!Ready, Sync!Report, Sync!Done, Sync!Goto, Sync!local, HookTypes,
     HookSteps, Sync!args
<1>3. HookTypes'
  BY <1>1, <1>2 DEF HookTypes
<1>4. CASE Sync!Enter(c)
  <2>1. tscPc[c] = "enter" /\ tscPc'[c] = "ready" /\ UNCHANGED <<ready, failures, done>>
        /\ numCPUs' = Cardinality(AllCPUs)
    BY <1>1, <1>4 DEF Sync!Enter, Sync!Goto, HookTypes, Counted
  <2>2. Left' = Left
    BY <1>2, <2>1 DEF Left, HasLeft
  <2>3. Counted'
    BY <1>1, <1>2, <2>1, <2>2, CounterFacts DEF Counted, HasReported, HookTypes
  <2>4. Extreme'
    BY <1>1, <1>2, <2>1 DEF Extreme, HasRead, PastMin, PastMax, HasReported
  <2> QED
    BY <1>1, <1>2, <1>3, <2>1, <2>3, <2>4 DEF Joined
<1>5. CASE Sync!Ready(c)
  <2>1. tscPc[c] = "ready" /\ tscPc'[c] = "wait" /\ UNCHANGED <<numCPUs, failures, done>>
    BY <1>1, <1>5 DEF Sync!Ready, Sync!Goto, HookTypes
  <2>2. Left' = Left
    BY <1>2, <2>1 DEF Left, HasLeft
  <2>3. Counted'
    BY <1>1, <1>2, <2>1, <2>2 DEF Counted, HasReported, HookTypes
  <2>4. Extreme'
    BY <1>1, <1>2, <2>1 DEF Extreme, HasRead, PastMin, PastMax, HasReported
  <2> QED
    BY <1>1, <1>2, <1>3, <2>1, <2>3, <2>4 DEF Joined
<1>6. CASE Sync!Report(c)
  <2>1. /\ tscPc[c] = "report" /\ tscPc'[c] = "done" /\ UNCHANGED <<numCPUs, done>>
        /\ c \in expired => failures' = failures + 1
    BY <1>1, <1>6 DEF Sync!Report, Sync!Goto, HookTypes
  <2>2. Left' = Left
    BY <1>2, <2>1 DEF Left, HasLeft
  <2>3. Counted'
    BY <1>1, <1>2, <2>1, <2>2 DEF Counted, HasReported, HookTypes
  <2>4. Extreme'
    BY <1>1, <1>2, <2>1 DEF Extreme, HasRead, PastMin, PastMax, HasReported
  <2> QED
    BY <1>1, <1>2, <1>3, <2>1, <2>3, <2>4 DEF Joined
<1>7. CASE Sync!Done(c)
  <2>1. /\ tscPc[c] = "done" /\ UNCHANGED <<numCPUs, failures>> /\ done' = done + 1
        /\ tscPc'[c] = IF c = Caller THEN "finished" ELSE "out"
    BY <1>1, <1>7 DEF Sync!Done, Sync!Goto, HookTypes
  <2>2. Left' = Left \cup {c} /\ c \notin Left
    BY <1>2, <2>1 DEF Left, HasLeft
  <2>3. Left \in SUBSET AllCPUs
    BY DEF Left
  <2>4. Cardinality(Left') = Cardinality(Left) + 1
    BY <2>2, <2>3, FS_Subset, FS_AddElement, CounterFacts
  <2>5. Counted'
    BY <1>1, <1>2, <2>1, <2>4 DEF Counted, HasReported, HookTypes
  <2>6. Extreme'
    BY <1>1, <1>2, <2>1 DEF Extreme, HasRead, PastMin, PastMax, HasReported
  <2> QED
    BY <1>1, <1>2, <1>3, <2>1, <2>5, <2>6 DEF Joined
<1> QED
  BY <1>4, <1>5, <1>6, <1>7

\* A CPU reads its counter, when all are there or when it has waited too long (LinuxDriverReadTSC).
LEMMA ReadCounterStep ==
  ASSUME Joined, NEW c \in AllCPUs, Sync!Wait(c) \/ Sync!Expire(c)
  PROVE  Joined'
<1>1. /\ HookTypes /\ tscPc[Caller] # "out" /\ Counted /\ Extreme /\ tscPc[c] = "wait"
      /\ Caller \in AllCPUs /\ Cardinality(AllCPUs) \in Nat
      /\ Sync!Cardinality(AllCPUs) = Cardinality(AllCPUs) /\ TSCs \subseteq Nat
  BY CounterFacts DEF Joined, Sync!Wait, Sync!Expire
<1>2. PICK v \in TSCs : tscs' = [tscs EXCEPT ![c] = v]
  BY DEF Sync!Wait, Sync!Expire, Sync!ReadTSC
<1>3. /\ tscPc' = [tscPc EXCEPT ![c] = "readmin"]
      /\ UNCHANGED <<numCPUs, ready, failures, done, min, max, olds>>
      /\ \/ ready = numCPUs /\ expired' = expired
         \/ expired' = expired \cup {c}
      /\ early' = IF ready = Cardinality(AllCPUs) THEN early ELSE early \cup {c}
  BY <1>1 DEF Sync!Wait, Sync!Expire, Sync!ReadTSC, Sync!Goto, Sync!args
<1>4. numCPUs = Cardinality(AllCPUs)
  BY <1>1 DEF Counted
<1>5. early' \subseteq expired' /\ expired' \subseteq expired \cup {c}
  BY <1>1, <1>3, <1>4 DEF Counted
<1>6. tscPc'[c] = "readmin" /\ \A d \in AllCPUs \ {c} : tscPc'[d] = tscPc[d] /\ tscs'[d] = tscs[d]
  BY <1>1, <1>2, <1>3 DEF HookTypes
<1>7. tscs'[c] = v
  BY <1>1, <1>2 DEF HookTypes
<1>8. HookTypes'
  BY <1>1, <1>2, <1>3, <1>5 DEF HookTypes, HookSteps
<1>9. Left' = Left
  BY <1>1, <1>6 DEF Left, HasLeft
<1>10. Counted'
  BY <1>1, <1>3, <1>5, <1>6, <1>9 DEF Counted, HasReported
<1>11. Extreme'
  BY <1>1, <1>3, <1>6, <1>7 DEF Extreme, HasRead, PastMin, PastMax, HasReported
<1> QED
  BY <1>1, <1>6, <1>8, <1>10, <1>11 DEF Joined

\* A CPU reads an extreme and exchanges it if it is to change and has not changed meanwhile.
LEMMA ExtremeStep ==
  ASSUME Joined, NEW c \in AllCPUs,
         Sync!ReadMin(c) \/ Sync!SetMin(c) \/ Sync!ReadMax(c) \/ Sync!SetMax(c)
  PROVE  Joined'
<1>1. /\ HookTypes /\ tscPc[Caller] # "out" /\ Counted /\ Extreme
      /\ tscPc[c] \in {"readmin", "setmin", "readmax", "setmax"}
      /\ Caller \in AllCPUs /\ tscs[c] \in Nat /\ olds[c] \in Nat /\ min \in Nat /\ max \in Nat
  BY CounterFacts DEF Joined, HookTypes, Sync!ReadMin, Sync!SetMin, Sync!ReadMax, Sync!SetMax
<1>2. /\ UNCHANGED <<numCPUs, ready, failures, done, tscs, expired, early>>
      /\ \A d \in AllCPUs \ {c} : tscPc'[d] = tscPc[d] /\ olds'[d] = olds[d]
      /\ tscPc'[c] \in {"readmin", "setmin", "readmax", "setmax", "report"}
      /\ tscPc' \in [AllCPUs -> HookSteps] /\ olds' \in [AllCPUs -> Nat]
      /\ min' \in Nat /\ max' \in Nat
  BY <1>1 DEF Sync!ReadMin, Sync!SetMin, Sync!ReadMax, Sync!SetMax, Sync!Goto, Sync!args,
     Sync!local, HookTypes, HookSteps
<1>3. HookTypes'
  BY <1>1, <1>2 DEF HookTypes
<1>4. Left' = Left
  BY <1>1, <1>2 DEF Left, HasLeft
<1>5. Counted'
  BY <1>1, <1>2, <1>4 DEF Counted, HasReported, HookTypes
<1>6. ASSUME Sync!ReadMin(c) PROVE Extreme'
  <2>1. /\ tscPc[c] = "readmin" /\ olds'[c] = min /\ min' = min /\ max' = max
        /\ tscPc'[c] = IF min > tscs[c] THEN "setmin" ELSE "readmax"
    BY <1>1, <1>6 DEF Sync!ReadMin, Sync!Goto, HookTypes
  <2> QED
    BY <1>1, <1>2, <2>1 DEF Extreme, HasRead, PastMin, PastMax, HasReported, HookTypes
<1>7. ASSUME Sync!SetMin(c) PROVE Extreme'
  <2>1. /\ tscPc[c] = "setmin" /\ olds'[c] = olds[c] /\ max' = max
        /\ IF min = olds[c] THEN min' = tscs[c] /\ tscPc'[c] = "readmax"
           ELSE min' = min /\ tscPc'[c] = "readmin"
    BY <1>1, <1>7 DEF Sync!SetMin, Sync!Goto, HookTypes, Sync!local
  <2>2. min' <= min
    BY <1>1, <2>1 DEF Extreme
  <2>3. \A d \in AllCPUs : PastMin(d)' => min' <= tscs'[d]
    BY <1>1, <1>2, <2>1, <2>2 DEF Extreme, PastMin, PastMax, HasReported, HookTypes
  <2>4. min' = Sync!Most \/ \E d \in AllCPUs : PastMin(d)' /\ min' = tscs'[d]
    BY <1>1, <1>2, <2>1 DEF Extreme, PastMin, PastMax, HasReported, HookTypes
  <2> QED
    BY <1>1, <1>2, <2>1, <2>3, <2>4 DEF Extreme, HasRead, PastMin, PastMax, HasReported
<1>8. ASSUME Sync!ReadMax(c) PROVE Extreme'
  <2>1. /\ tscPc[c] = "readmax" /\ olds'[c] = max /\ min' = min /\ max' = max
        /\ tscPc'[c] = IF max < tscs[c] THEN "setmax" ELSE "report"
    BY <1>1, <1>8 DEF Sync!ReadMax, Sync!Goto, HookTypes
  <2> QED
    BY <1>1, <1>2, <2>1 DEF Extreme, HasRead, PastMin, PastMax, HasReported, HookTypes
<1>9. ASSUME Sync!SetMax(c) PROVE Extreme'
  <2>1. /\ tscPc[c] = "setmax" /\ olds'[c] = olds[c] /\ min' = min
        /\ IF max = olds[c] THEN max' = tscs[c] /\ tscPc'[c] = "report"
           ELSE max' = max /\ tscPc'[c] = "readmax"
    BY <1>1, <1>9 DEF Sync!SetMax, Sync!Goto, HookTypes, Sync!local
  <2>2. max' >= max
    BY <1>1, <2>1 DEF Extreme
  <2>3. \A d \in AllCPUs : PastMax(d)' => max' >= tscs'[d]
    BY <1>1, <1>2, <2>1, <2>2 DEF Extreme, PastMax, HasReported, HookTypes
  <2>4. max' = 0 \/ \E d \in AllCPUs : PastMax(d)' /\ max' = tscs'[d]
    BY <1>1, <1>2, <2>1 DEF Extreme, PastMax, HasReported, HookTypes
  <2> QED
    BY <1>1, <1>2, <2>1, <2>3, <2>4 DEF Extreme, HasRead, PastMin, PastMax, HasReported
<1>10. Extreme'
  BY <1>6, <1>7, <1>8, <1>9
<1> QED
  BY <1>1, <1>2, <1>3, <1>5, <1>10 DEF Joined

\* Every step keeps the counts and the extremes.
LEMMA JoinedStep == Joined /\ [Sync!Next]_tscVars => Joined'
<1> SUFFICES ASSUME Joined, [Sync!Next]_tscVars PROVE Joined'
  OBVIOUS
<1>1. CASE UNCHANGED tscVars
  BY <1>1 DEF tscVars, Joined, HookTypes, Counted, Extreme, Left, HasLeft, HasRead, PastMin,
     PastMax, HasReported
<1>2. ASSUME NEW c \in AllCPUs, Sync!Hook(c) PROVE Joined'
  <2>1. Sync!Enter(c) \/ Sync!Ready(c) \/ Sync!Report(c) \/ Sync!Done(c) => tscPc[c] # "out"
    BY DEF Sync!Enter, Sync!Ready, Sync!Report, Sync!Done
  <2> QED
    BY <1>2, <2>1, CountStep, ReadCounterStep, ExtremeStep DEF Sync!Hook
<1> QED
  BY <1>1, <1>2, CallStep, ReturnStep DEF Sync!Next

\* The hook's invariant says what the caller relies on.
LEMMA JoinedEnough == Joined => Sync!Simultaneous
<1> SUFFICES ASSUME Joined PROVE Sync!Simultaneous
  OBVIOUS
<1> DEFINE Read == {tscs[c] : c \in AllCPUs}
<1>1. ASSUME tscPc[Caller] = "finished", done = numCPUs, failures = 0
      PROVE  early = {} /\ min = Sync!Min(Read) /\ max = Sync!Max(Read)
  <2>1. \A c \in AllCPUs : HasLeft(c)
    BY <1>1, AllLeft
  <2>2. Counted /\ Extreme
    BY <1>1 DEF Joined
  <2>3. \A c \in AllCPUs : HasReported(c) /\ PastMax(c) /\ PastMin(c) /\ HasRead(c)
    BY <2>1 DEF HasLeft, HasReported, PastMax, PastMin, HasRead
  <2>4. early = {}
    BY <1>1, <2>2, <2>3 DEF Counted, Joined, HookTypes
  <2>5. \A c \in AllCPUs : tscs[c] \in TSCs /\ tscs[c] \in Nat \ {0} /\ tscs[c] < Sync!Most
    BY <2>2, <2>3, CounterFacts DEF Extreme
  <2>6. \A c \in AllCPUs : min <= tscs[c] /\ max >= tscs[c]
    BY <2>2, <2>3 DEF Extreme
  <2>7. min # Sync!Most /\ max # 0
    BY <2>5, <2>6, CounterFacts DEF Joined, HookTypes
  <2>8. min \in Read /\ max \in Read
    BY <2>2, <2>7 DEF Extreme
  <2>9. Read \subseteq Nat /\ \A x \in Read : min <= x /\ max >= x
    BY <2>5, <2>6
  <2>10. Sync!Min(Read) \in Read /\ \A x \in Read : Sync!Min(Read) <= x
    BY <2>8, <2>9 DEF Sync!Min
  <2>11. Sync!Max(Read) \in Read /\ \A x \in Read : Sync!Max(Read) >= x
    BY <2>8, <2>9 DEF Sync!Max
  <2>12. min = Sync!Min(Read)
    BY <2>8, <2>9, <2>10
  <2>13. max = Sync!Max(Read)
    BY <2>8, <2>9, <2>11
  <2> QED
    BY <2>4, <2>12, <2>13
<1>2. tscPc[Caller] = "out" => \A c \in AllCPUs : tscPc[c] = "out"
  BY DEF Joined
<1> QED
  BY <1>1, <1>2 DEF Sync!Simultaneous

\* Nobody has been called yet.
LEMMA InitJoined == Sync!Init => Joined
BY CounterFacts DEF Sync!Init, Joined, HookTypes, HookSteps

-----------------------------------------------------------------------------
(* The pseudo TSC.                                                          *)

PtscSteps ==
  {"out", "check", "start", "readinfo", "choose", "offset", "exchange", "enter", "inside",
   "latest", "setlatest", "dec"}

InfoWords == [vcpu : TimedVCPUs, inVMMCnt : Nat]

GuestTypes ==
  /\ {hwTSCsSynced, neverSwitchToRefClock, useRefClock, polling, reused} \subseteq BOOLEAN
  /\ tscOffset = 0 /\ refAdd \in Int /\ tsc \in 0 .. MaxTSC /\ uptime \in 0 .. MaxUptime
  /\ skew \in [TimedVCPUs -> Skews]
  /\ ptscOffsetInfo \in InfoWords /\ ptscLatest \in Int /\ ptscOffsets \in [TimedVCPUs -> Int]
  /\ ptscPc \in [TimedVCPUs -> PtscSteps]
  /\ ptsc \in [TimedVCPUs -> Int] /\ start \in [TimedVCPUs -> Int]
  /\ latest \in [TimedVCPUs -> Int] /\ add \in [TimedVCPUs -> Int]
  /\ worldSwitchPTSC \in [TimedVCPUs -> Int]
  /\ old \in [TimedVCPUs -> {Ptsc!NotRead} \cup InfoWords]
  /\ stale \subseteq TimedVCPUs /\ stepped \subseteq TimedVCPUs /\ backwards \subseteq TimedVCPUs

\* Those that are counted in the word.
HasEntered(v) == ptscPc[v] \in {"enter", "inside", "latest", "setlatest", "dec"}
Entered == {v \in TimedVCPUs : HasEntered(v)}

\* Where the counters agree.  The word counts those that have entered, and they use the offset of
\* the VCPU in it, which that one does not write again while anyone uses it.
OneOffset ==
  /\ ptscOffsetInfo.inVMMCnt = Cardinality(Entered)
  /\ \A v \in TimedVCPUs :
       /\ ptscPc[v] = "enter" => Ptsc!NewVcpu(v) = ptscOffsetInfo.vcpu
       /\ Ptsc!Inside(v) => add[v] = ptscOffsets[ptscOffsetInfo.vcpu]
       /\ ptscPc[v] \in {"choose", "offset"} => old[v].inVMMCnt = 0
       /\ ptscPc[v] \in {"choose", "offset", "exchange", "enter"} => old[v] \in InfoWords
  /\ ptscOffsetInfo.inVMMCnt > 0 => ptscPc[ptscOffsetInfo.vcpu] \notin {"choose", "offset"}

\* No VCPU has seen more than t.
NotAfter(t) == \A w \in TimedVCPUs : worldSwitchPTSC[w] <= t

\* What a VCPU has seen that has left is in ptscLatest.
Remembered ==
  \A v \in TimedVCPUs :
    /\ ptscPc[v] \notin {"inside", "latest", "setlatest"} => worldSwitchPTSC[v] <= ptscLatest
    /\ ptscPc[v] \in {"latest", "setlatest"} => ptsc[v] = worldSwitchPTSC[v]
    /\ ptscPc[v] = "setlatest" => latest[v] < ptsc[v]
    /\ ptscPc[v] \in {"readinfo", "choose", "offset", "exchange", "enter"} => start[v] <= tsc

\* As long as the counter is the base, every offset in use is the counter's.
FromTheCounter ==
  ~useRefClock =>
    /\ NotAfter(tsc + tscOffset)
    /\ ptscOffsetInfo.inVMMCnt > 0 => ptscOffsets[ptscOffsetInfo.vcpu] = tscOffset
    /\ \A v \in TimedVCPUs :
         /\ ptscPc[v] # "offset"
         /\ (ptscPc[v] = "exchange" /\ old[v].inVMMCnt = 0) => ptscOffsets[v] = tscOffset

\* A VCPU that chooses an offset while the word is what it has read chooses one with which no
\* time is before what any VCPU has seen.
Ahead ==
  /\ \A v \in TimedVCPUs :
       (v \notin stale /\ ptscPc[v] \in {"choose", "offset", "exchange"}) =>
         /\ ptscOffsetInfo = old[v]
         /\ ptscPc[v] = "offset" => ptscLatest <= ptsc[v]
         /\ (ptscPc[v] = "exchange" /\ old[v].inVMMCnt = 0) => NotAfter(tsc + ptscOffsets[v])
  /\ (~reused /\ ptscOffsetInfo.inVMMCnt > 0) =>
       NotAfter(tsc + ptscOffsets[ptscOffsetInfo.vcpu])

\* How far a counter may be off.
Far == CHOOSE far \in 0 .. Word : /\ \A s \in Skews : -far <= s /\ s <= far
                            /\ 2 * MaxTSC + MaxUptime + 2 * far + LargeDelta < Word
Top == MaxTSC + MaxUptime + Far

\* Where the counters do not agree.  A VCPU is not taken back by what is computed for it, unless
\* that is known (stepped); what it sees has not gone far from the clocks.
OwnOffset ==
  /\ backwards = {}
  /\ refAdd <= MaxTSC /\ uptime + refAdd >= 0
  /\ \A v \in TimedVCPUs :
       /\ ptscPc[v] \in {"out", "check", "start", "enter", "inside"}
       /\ worldSwitchPTSC[v] <= Top + tsc
       /\ ptscPc[v] = "check" => -Far <= ptsc[v]
       /\ ptscPc[v] \in {"check", "start"} => ptsc[v] <= Top + tsc
       /\ ptscPc[v] \in {"start", "enter"} => ptsc[v] >= worldSwitchPTSC[v] \/ v \in stepped
       /\ ptscPc[v] = "enter" => start[v] <= Ptsc!RDTSC(v) /\ ptsc[v] - start[v] + skew[v] <= Top
       /\ ptscPc[v] = "inside" => add[v] + skew[v] <= Top

GuestClocks ==
  /\ GuestTypes
  /\ hwTSCsSynced => OneOffset /\ Remembered /\ FromTheCounter /\ Ahead
  /\ ~hwTSCsSynced => OwnOffset

\* The constants.
LEMMA GuestConstants ==
  /\ IsFiniteSet(TimedVCPUs) /\ Hz \in Nat /\ LargeDelta \in Nat /\ Word \in Nat
  /\ MaxTSC \in Nat /\ MaxUptime \in Nat /\ Skews \subseteq Int /\ 0 \in Skews
  /\ Far \in Nat /\ \A s \in Skews : -Far <= s /\ s <= Far
  /\ Top \in Nat /\ Top + MaxTSC + Far < Word - LargeDelta
<1>1. /\ IsFiniteSet(TimedVCPUs) /\ {Hz, LargeDelta, Word, MaxTSC, MaxUptime} \subseteq Nat
      /\ Skews \subseteq Int /\ 0 \in Skews
      /\ \E far \in 0 .. Word : /\ \A s \in Skews : -far <= s /\ s <= far
                               /\ 2 * MaxTSC + MaxUptime + 2 * far + LargeDelta < Word
  BY ClocksAssumption DEF Ptsc!ClockAssumption, Ptsc!NoWrapAssumption, Ptsc!IsFiniteSet,
     IsFiniteSet
<1>2. /\ Far \in 0 .. Word /\ \A s \in Skews : -Far <= s /\ s <= Far
      /\ 2 * MaxTSC + MaxUptime + 2 * Far + LargeDelta < Word
  BY <1>1 DEF Far
<1> QED
  BY <1>1, <1>2 DEF Top

-----------------------------------------------------------------------------
(* The types.                                                               *)

\* The host's steps.
LEMMA TypesHost ==
  ASSUME GuestTypes, Ptsc!Tick \/ Ptsc!Poll \/ Ptsc!Compare \/ \E v \in TimedVCPUs : Ptsc!Migrate(v)
  PROVE  GuestTypes'
<1> USE GuestConstants DEF GuestTypes, Ptsc!host, Ptsc!clocks, Ptsc!shared, Ptsc!info,
        Ptsc!locals, Ptsc!cross
<1>1. CASE Ptsc!Tick
  BY <1>1 DEF Ptsc!Tick
<1>2. CASE Ptsc!Poll
  BY <1>2 DEF Ptsc!Poll
<1>3. CASE Ptsc!Compare
  <2>1. useRefClock' \in BOOLEAN /\ polling' \in BOOLEAN
    BY Zenon, <1>3 DEF Ptsc!Compare, Ptsc!SetPseudoTSCUseRefClock
  <2>2. refAdd' \in Int
    BY <1>3 DEF Ptsc!Compare
  <2> QED
    BY <1>3, <2>1, <2>2 DEF Ptsc!Compare
<1>4. CASE \E v \in TimedVCPUs : Ptsc!Migrate(v)
  BY <1>4 DEF Ptsc!Migrate
<1> QED
  BY <1>1, <1>2, <1>3, <1>4

\* What a VCPU reads is a number.
LEMMA ReadNumbers ==
  ASSUME GuestTypes, NEW v \in TimedVCPUs
  PROVE  /\ Ptsc!RDTSC(v) \in Int /\ \A b \in BOOLEAN : Ptsc!GetPseudoTSC(v, b) \in Int
         /\ skew[v] \in Int
<1>1. skew[v] \in Int /\ tsc \in Int /\ uptime \in Int /\ refAdd \in Int /\ tscOffset = 0
  <2>1. skew[v] \in Skews /\ Skews \subseteq Int
    BY GuestConstants DEF GuestTypes
  <2>2. tsc \in Int /\ uptime \in Int /\ refAdd \in Int /\ tscOffset = 0
    BY GuestConstants DEF GuestTypes
  <2> QED
    BY <2>1, <2>2
<1>2. Ptsc!RDTSC(v) \in Int
  BY <1>1 DEF Ptsc!RDTSC
<1> QED
  BY <1>1, <1>2 DEF Ptsc!GetPseudoTSC

\* The steps before the word is exchanged.
LEMMA TypesBefore ==
  ASSUME GuestTypes, NEW v \in TimedVCPUs,
         \/ Ptsc!ReadPTSC(v) \/ Ptsc!Check(v) \/ Ptsc!ReadTSC(v) \/ Ptsc!ReadInfo(v)
         \/ Ptsc!FromClock(v) \/ Ptsc!FromCounter(v) \/ Ptsc!WriteOffset(v)
  PROVE  GuestTypes'
<1>1. Ptsc!RDTSC(v) \in Int /\ \A b \in BOOLEAN : Ptsc!GetPseudoTSC(v, b) \in Int
  BY ReadNumbers
<1> USE GuestConstants DEF GuestTypes, Ptsc!env, Ptsc!host, Ptsc!clocks, Ptsc!shared, Ptsc!info,
        Ptsc!locals,
        Ptsc!cross, Ptsc!Goto, PtscSteps
<1>2. CASE Ptsc!ReadPTSC(v)
  BY <1>1, <1>2 DEF Ptsc!ReadPTSC
<1>3. CASE Ptsc!Check(v)
  BY <1>1, <1>3 DEF Ptsc!Check, Ptsc!SetPseudoTSCUseRefClock
<1>4. CASE Ptsc!ReadTSC(v)
  BY <1>1, <1>4 DEF Ptsc!ReadTSC
<1>5. CASE Ptsc!ReadInfo(v)
  BY <1>5 DEF Ptsc!ReadInfo
<1>6. CASE Ptsc!FromClock(v)
  BY <1>6 DEF Ptsc!FromClock
<1>7. CASE Ptsc!FromCounter(v)
  BY <1>7 DEF Ptsc!FromCounter
<1>8. CASE Ptsc!WriteOffset(v)
  BY <1>8 DEF Ptsc!WriteOffset
<1> QED
  BY <1>2, <1>3, <1>4, <1>5, <1>6, <1>7, <1>8

\* The VCPU whose offset is used is one of the machine.
LEMMA NewVcpuOne ==
  ASSUME GuestTypes, NEW v \in TimedVCPUs
  PROVE  Ptsc!NewVcpu(v) \in TimedVCPUs /\ old[v].inVMMCnt \in Nat
<1>1. CASE old[v] = Ptsc!NotRead
  BY <1>1 DEF Ptsc!NewVcpu, Ptsc!NotRead
<1>2. CASE old[v] \in InfoWords
  BY <1>2 DEF Ptsc!NewVcpu, InfoWords
<1> QED
  BY <1>1, <1>2 DEF GuestTypes

\* The exchange of the word and the steps after it.
LEMMA TypesAfter ==
  ASSUME GuestTypes, NEW v \in TimedVCPUs,
         \/ Ptsc!Exchange(v) \/ Ptsc!Enter(v) \/ Ptsc!Leave(v) \/ Ptsc!ReadLatest(v)
         \/ Ptsc!SetLatest(v) \/ (Ptsc!Dec(v) /\ ptscOffsetInfo.inVMMCnt > 0)
  PROVE  GuestTypes'
<1>1. Ptsc!RDTSC(v) \in Int /\ Ptsc!NewVcpu(v) \in TimedVCPUs /\ old[v].inVMMCnt \in Nat
  BY ReadNumbers, NewVcpuOne
<1> USE GuestConstants DEF GuestTypes, Ptsc!env, Ptsc!host, Ptsc!clocks, Ptsc!shared, Ptsc!info,
        Ptsc!locals,
        Ptsc!cross, Ptsc!Goto, PtscSteps
<1>2. CASE Ptsc!Exchange(v)
  <2>1. reused' \in BOOLEAN
    BY Zenon, <1>2 DEF Ptsc!Exchange
  <2>2. ptscOffsetInfo' \in InfoWords
    BY <1>1, <1>2 DEF Ptsc!Exchange, InfoWords
  <2>3. stale' \subseteq TimedVCPUs /\ ptscPc' \in [TimedVCPUs -> PtscSteps]
    BY <1>2 DEF Ptsc!Exchange, Ptsc!Readers
  <2> QED
    BY <1>2, <2>1, <2>2, <2>3 DEF Ptsc!Exchange
<1>3. CASE Ptsc!Enter(v)
  BY <1>1, <1>3 DEF Ptsc!Enter, Ptsc!Unset, Ptsc!Forget
<1>4. CASE Ptsc!Leave(v)
  BY <1>1, <1>4 DEF Ptsc!Leave, Ptsc!Unset
<1>5. CASE Ptsc!ReadLatest(v)
  BY <1>5 DEF Ptsc!ReadLatest
<1>6. CASE Ptsc!SetLatest(v)
  BY <1>6 DEF Ptsc!SetLatest
<1>7. CASE Ptsc!Dec(v) /\ ptscOffsetInfo.inVMMCnt > 0
  BY <1>7 DEF Ptsc!Dec, Ptsc!Unset, Ptsc!Readers, InfoWords
<1> QED
  BY <1>2, <1>3, <1>4, <1>5, <1>6, <1>7

-----------------------------------------------------------------------------
(* Where the counters do not agree.                                         *)

\* What holds of one VCPU, with the clocks and what it has; OwnOffset says it of all.
OwnOf(v) ==
  /\ ptscPc[v] \in {"out", "check", "start", "enter", "inside"}
  /\ worldSwitchPTSC[v] <= Top + tsc
  /\ ptscPc[v] = "check" => -Far <= ptsc[v]
  /\ ptscPc[v] \in {"check", "start"} => ptsc[v] <= Top + tsc
  /\ ptscPc[v] \in {"start", "enter"} => ptsc[v] >= worldSwitchPTSC[v] \/ v \in stepped
  /\ ptscPc[v] = "enter" => start[v] <= Ptsc!RDTSC(v) /\ ptsc[v] - start[v] + skew[v] <= Top
  /\ ptscPc[v] = "inside" => add[v] + skew[v] <= Top

LEMMA OwnOfAll ==
  OwnOffset <=> /\ backwards = {} /\ refAdd <= MaxTSC /\ uptime + refAdd >= 0
                /\ \A v \in TimedVCPUs : OwnOf(v)
BY DEF OwnOffset, OwnOf

\* The host's steps: the clocks go on, and one follows the other.
LEMMA OwnHost ==
  ASSUME GuestTypes, GuestTypes', ~hwTSCsSynced, OwnOffset,
         Ptsc!Tick \/ Ptsc!Poll \/ Ptsc!Compare \/ \E v \in TimedVCPUs : Ptsc!Migrate(v)
  PROVE  OwnOffset'
<1>1. /\ tsc \in Int /\ uptime \in Int /\ refAdd \in Int /\ tscOffset = 0 /\ tsc <= MaxTSC
      /\ tsc' \in Int /\ uptime' \in Int /\ refAdd' \in Int /\ uptime \in Nat
      /\ Top \in Nat /\ MaxTSC \in Nat /\ 0 <= tsc
  BY GuestConstants DEF GuestTypes
<1>2. /\ UNCHANGED <<hwTSCsSynced, ptscPc, ptsc, start, add, worldSwitchPTSC, stepped, backwards>>
      /\ tsc' >= tsc /\ uptime' >= uptime
  BY <1>1 DEF Ptsc!Tick, Ptsc!Poll, Ptsc!Compare, Ptsc!Migrate, Ptsc!host, Ptsc!clocks,
     Ptsc!shared,
     Ptsc!locals, Ptsc!cross
<1>3. refAdd' <= MaxTSC /\ uptime' + refAdd' >= 0
  <2>1. refAdd' = refAdd \/ (refAdd' = tsc + tscOffset - uptime /\ uptime' = uptime)
    BY DEF Ptsc!Tick, Ptsc!Poll, Ptsc!Compare, Ptsc!Migrate, Ptsc!host, Ptsc!clocks
  <2>2. refAdd <= MaxTSC /\ uptime + refAdd >= 0
    BY DEF OwnOffset
  <2>3. CASE refAdd' = refAdd
    <3>1. PICK later \in Int : later = uptime' /\ later >= uptime
      BY <1>1, <1>2
    <3>2. \A x, y, z \in Int : (x >= y /\ y + z >= 0) => x + z >= 0
      OBVIOUS
    <3>3. later + refAdd >= 0
      BY <1>1, <2>2, <3>1, <3>2
    <3> QED
      BY <2>2, <2>3, <3>1, <3>3
  <2>4. CASE refAdd' = tsc + tscOffset - uptime /\ uptime' = uptime
    BY <1>1, <2>4
  <2> QED
    BY <2>1, <2>3, <2>4
<1>4. ASSUME NEW v \in TimedVCPUs PROVE OwnOf(v)'
  <2>1. skew'[v] = skew[v] \/ ptscPc[v] = "out"
    BY DEF Ptsc!Tick, Ptsc!Poll, Ptsc!Compare, Ptsc!Migrate, Ptsc!host, Ptsc!clocks, GuestTypes
  <2>2. /\ skew[v] \in Int /\ skew'[v] \in Int /\ ptsc[v] \in Int /\ start[v] \in Int /\ add[v] \in Int
        /\ worldSwitchPTSC[v] \in Int
    BY GuestConstants DEF GuestTypes
  <2>3. OwnOf(v)
    BY OwnOfAll
  <2> QED
    BY <1>1, <1>2, <2>1, <2>2, <2>3 DEF OwnOf, Ptsc!RDTSC
<1> QED
  BY <1>2, <1>3, <1>4 DEF OwnOffset, OwnOf

\* What a VCPU reads is not far from the clocks.
LEMMA ReadNear ==
  ASSUME GuestTypes, OwnOffset, NEW v \in TimedVCPUs, NEW b \in BOOLEAN
  PROVE  Ptsc!GetPseudoTSC(v, b) \in Int /\ -Far <= Ptsc!GetPseudoTSC(v, b) /\ Ptsc!GetPseudoTSC(v, b) <= Top
<1>1. /\ tsc \in 0 .. MaxTSC /\ uptime \in 0 .. MaxUptime /\ refAdd \in Int /\ tscOffset = 0
      /\ refAdd <= MaxTSC /\ uptime + refAdd >= 0 /\ MaxTSC \in Nat /\ MaxUptime \in Nat
  BY GuestConstants DEF GuestTypes, OwnOffset
<1>2. skew[v] \in Skews /\ Skews \subseteq Int
  BY GuestConstants DEF GuestTypes
<1>3. skew[v] \in Int /\ -Far <= skew[v] /\ skew[v] <= Far /\ Far \in Nat
  BY <1>2, GuestConstants
<1>4. Ptsc!RDTSC(v) \in Int /\ -Far <= Ptsc!RDTSC(v) /\ Ptsc!RDTSC(v) <= MaxTSC + Far
  BY <1>1, <1>3 DEF Ptsc!RDTSC
<1> QED
  BY <1>1, <1>3, <1>4 DEF Ptsc!GetPseudoTSC, Top

\* A difference that is below zero, but not far, is a large number of 64 bits.
LEMMA MinusLarge ==
  ASSUME NEW a \in Int, NEW b \in Int, b - a <= Top + MaxTSC + Far, Ptsc!Minus(a, b) <= LargeDelta
  PROVE  a >= b
<1> SUFFICES ASSUME a < b PROVE FALSE
  OBVIOUS
<1>1. /\ Word \in Nat /\ LargeDelta \in Nat /\ Word > LargeDelta /\ a - b \in Int /\ a - b < 0
      /\ a - b > LargeDelta - Word
  BY GuestConstants
<1>2. (a - b) % Word = a - b + Word
  BY <1>1
<1> QED
  BY <1>1, <1>2 DEF Ptsc!Minus

\* What a VCPU has is pushed or is known to be behind (TaskUpdatePTSCParameters).
LEMMA OwnCheck ==
  ASSUME GuestTypes, GuestTypes', ~hwTSCsSynced, OwnOffset, NEW v \in TimedVCPUs, Ptsc!Check(v)
  PROVE  ptsc'[v] <= Top + tsc /\ (ptsc'[v] >= worldSwitchPTSC[v] \/ v \in stepped')
<1>1. /\ tsc \in Nat /\ tsc <= MaxTSC /\ MaxTSC \in Nat /\ Top \in Nat /\ Far \in Nat
      /\ ptsc[v] \in Int /\ worldSwitchPTSC[v] \in Int
      /\ -Far <= ptsc[v] /\ ptsc[v] <= Top + tsc /\ worldSwitchPTSC[v] <= Top + tsc
  BY GuestConstants DEF GuestTypes, OwnOffset, Ptsc!Check
<1>2. CASE Ptsc!Minus(ptsc[v], worldSwitchPTSC[v]) > LargeDelta
  <2>1. Ptsc!GetPseudoTSC(v, TRUE) \in Int /\ Ptsc!GetPseudoTSC(v, TRUE) <= Top
    BY ReadNear
  <2>2. PICK now \in {Ptsc!GetPseudoTSC(v, TRUE), ptsc[v]} :
               \/ ptsc'[v] = worldSwitchPTSC[v]
               \/ ptsc'[v] = now /\ (now > worldSwitchPTSC[v] \/ v \in stepped')
    BY <1>2 DEF Ptsc!Check, GuestTypes
  <2>3. now \in Int /\ now <= Top + tsc
    <3>1. CASE now = ptsc[v]
      BY <1>1, <3>1
    <3>2. CASE now = Ptsc!GetPseudoTSC(v, TRUE)
      <4>1. now \in Int /\ now <= Top
        BY <2>1, <3>2
      <4> QED
        BY <1>1, <4>1
    <3> QED
      BY <3>1, <3>2
  <2> QED
    BY <1>1, <2>2, <2>3
<1>3. CASE ~(Ptsc!Minus(ptsc[v], worldSwitchPTSC[v]) > LargeDelta)
  <2>1. ptsc' = ptsc /\ stepped' = stepped
    BY <1>3 DEF Ptsc!Check
  <2>2. Ptsc!Minus(ptsc[v], worldSwitchPTSC[v]) <= LargeDelta
    <3>1. Word \in Nat \ {0} /\ LargeDelta \in Nat
      BY GuestConstants
    <3>2. Ptsc!Minus(ptsc[v], worldSwitchPTSC[v]) \in Int
      BY <1>1, <3>1 DEF Ptsc!Minus
    <3> QED
      BY <1>3, <3>1, <3>2
  <2>3. worldSwitchPTSC[v] - ptsc[v] <= Top + MaxTSC + Far
    BY <1>1
  <2> QED
    BY <1>1, <2>1, <2>2, <2>3, MinusLarge
<1> QED
  BY <1>2, <1>3

\* A thread's own steps.
LEMMA OwnThread ==
  ASSUME GuestTypes, GuestTypes', ~hwTSCsSynced, OwnOffset, NEW v \in TimedVCPUs,
         \/ Ptsc!ReadPTSC(v) \/ Ptsc!Check(v) \/ Ptsc!ReadTSC(v) \/ Ptsc!Enter(v) \/ Ptsc!Leave(v)
  PROVE  OwnOffset'
<1>1. /\ tsc \in Int /\ tsc <= MaxTSC /\ tscOffset = 0 /\ Top \in Nat /\ MaxTSC \in Nat
      /\ 0 <= tsc /\ uptime \in Int /\ refAdd \in Int
  BY GuestConstants DEF GuestTypes
<1>2. /\ skew[v] \in Int /\ ptsc[v] \in Int /\ start[v] \in Int /\ add[v] \in Int
      /\ worldSwitchPTSC[v] \in Int /\ Ptsc!RDTSC(v) = tsc + skew[v]
  BY GuestConstants DEF GuestTypes, Ptsc!RDTSC
<1>3. OwnOf(v)
  BY OwnOfAll
<1>4. UNCHANGED <<hwTSCsSynced, refAdd, tsc, uptime, skew>> /\ Ptsc!RDTSC(v)' = Ptsc!RDTSC(v)
  <2>1. UNCHANGED <<hwTSCsSynced, refAdd, tsc, uptime, skew>>
    BY DEF Ptsc!ReadPTSC, Ptsc!Check, Ptsc!ReadTSC, Ptsc!Enter, Ptsc!Leave, Ptsc!env,
       Ptsc!host, Ptsc!clocks
  <2> QED
    BY <2>1 DEF Ptsc!RDTSC
<1>5. \A w \in TimedVCPUs \ {v} :
        /\ ptscPc'[w] = ptscPc[w] /\ ptsc'[w] = ptsc[w] /\ start'[w] = start[w] /\ add'[w] = add[w]
        /\ worldSwitchPTSC'[w] = worldSwitchPTSC[w] /\ (w \in stepped' <=> w \in stepped)
  BY ZenonT(60) DEF Ptsc!ReadPTSC, Ptsc!Check, Ptsc!ReadTSC, Ptsc!Enter, Ptsc!Leave,
     Ptsc!locals, Ptsc!cross, Ptsc!Goto,
     Ptsc!Unset, GuestTypes
<1>6. ASSUME NEW w \in TimedVCPUs \ {v} PROVE OwnOf(w)'
  <2>1. OwnOf(w)
    BY OwnOfAll
  <2>2. Ptsc!RDTSC(w)' = Ptsc!RDTSC(w)
    BY <1>4 DEF Ptsc!RDTSC
  <2> QED
    BY <1>4, <1>5, <2>1, <2>2 DEF OwnOf
<1>7. CASE Ptsc!ReadPTSC(v)
  <2>1. /\ ptscPc'[v] = "check" /\ ptsc'[v] = Ptsc!GetPseudoTSC(v, useRefClock)
        /\ UNCHANGED <<backwards, worldSwitchPTSC>>
    BY <1>7 DEF Ptsc!ReadPTSC, Ptsc!Goto, Ptsc!cross, GuestTypes
  <2>2. -Far <= ptsc'[v] /\ ptsc'[v] <= Top /\ ptsc'[v] \in Int
    BY <2>1, ReadNear DEF GuestTypes
  <2>3. OwnOf(v)'
    BY <1>1, <1>2, <1>3, <1>4, <2>1, <2>2 DEF OwnOf
  <2> QED
    BY <1>4, <1>6, <2>1, <2>3 DEF OwnOffset, OwnOf
<1>8. CASE Ptsc!Check(v)
  <2>1. ptscPc[v] = "check" /\ ptscPc'[v] = "start" /\ UNCHANGED <<backwards, worldSwitchPTSC>>
    BY <1>8 DEF Ptsc!Check, Ptsc!Goto, Ptsc!cross, GuestTypes
  <2>2. ptsc'[v] <= Top + tsc /\ (ptsc'[v] >= worldSwitchPTSC[v] \/ v \in stepped')
    BY <1>8, OwnCheck
  <2>3. OwnOf(v)'
    BY <1>1, <1>2, <1>3, <1>4, <2>1, <2>2 DEF OwnOf
  <2> QED
    BY <1>4, <1>6, <2>1, <2>3 DEF OwnOffset, OwnOf
<1>9. CASE Ptsc!ReadTSC(v)
  <2>1. /\ ptscPc[v] = "start" /\ ptscPc'[v] = "enter" /\ start'[v] = Ptsc!RDTSC(v)
        /\ UNCHANGED <<backwards, worldSwitchPTSC, ptsc, stepped>>
    BY <1>9 DEF Ptsc!ReadTSC, Ptsc!Goto, Ptsc!cross, GuestTypes
  <2>2. OwnOf(v)'
    BY <1>1, <1>2, <1>3, <1>4, <2>1 DEF OwnOf
  <2> QED
    BY <1>4, <1>6, <2>1, <2>2 DEF OwnOffset, OwnOf
<1>10. CASE Ptsc!Enter(v)
  <2>1. /\ ptscPc[v] = "enter" /\ ptscPc'[v] = "inside" /\ add'[v] = ptsc[v] - start[v]
        /\ worldSwitchPTSC'[v] = start[v] + (ptsc[v] - start[v])
        /\ (Ptsc!RDTSC(v) + (ptsc[v] - start[v]) >= worldSwitchPTSC[v] \/ v \in stepped) =>
             backwards' = backwards
    BY <1>2, <1>10 DEF Ptsc!Enter, Ptsc!Goto, GuestTypes
  <2>2. start[v] <= Ptsc!RDTSC(v) /\ ptsc[v] - start[v] + skew[v] <= Top
        /\ (ptsc[v] >= worldSwitchPTSC[v] \/ v \in stepped)
    BY <1>3, <2>1 DEF OwnOf
  <2>3. backwards' = backwards
    BY <1>1, <1>2, <2>1, <2>2
  <2>4. OwnOf(v)'
    BY <1>1, <1>2, <1>3, <1>4, <2>1, <2>2 DEF OwnOf
  <2> QED
    BY <1>4, <1>6, <2>3, <2>4 DEF OwnOffset, OwnOf
<1>11. CASE Ptsc!Leave(v)
  <2>1. /\ ptscPc[v] = "inside" /\ ptscPc'[v] = "out" /\ worldSwitchPTSC'[v] = Ptsc!RDTSC(v) + add[v]
        /\ UNCHANGED backwards
    BY <1>11 DEF Ptsc!Leave, Ptsc!Goto, GuestTypes
  <2>2. OwnOf(v)'
    BY <1>1, <1>2, <1>3, <1>4, <2>1 DEF OwnOf
  <2> QED
    BY <1>4, <1>6, <2>1, <2>2 DEF OwnOffset, OwnOf
<1> QED
  BY <1>7, <1>8, <1>9, <1>10, <1>11

-----------------------------------------------------------------------------
(* Where the counters agree.                                                *)

Agreeing == hwTSCsSynced /\ OneOffset /\ Remembered /\ FromTheCounter /\ Ahead

\* The types one by one.
LEMMA GuestFacts ==
  ASSUME GuestTypes
  PROVE  /\ tsc \in Int /\ tsc >= 0 /\ tscOffset = 0 /\ ptscLatest \in Int
         /\ ptscOffsetInfo.vcpu \in TimedVCPUs /\ ptscOffsetInfo.inVMMCnt \in Nat
         /\ ptscOffsetInfo = [vcpu |-> ptscOffsetInfo.vcpu, inVMMCnt |-> ptscOffsetInfo.inVMMCnt]
         /\ \A v \in TimedVCPUs :
              /\ ptscOffsets[v] \in Int /\ ptscPc[v] \in PtscSteps /\ ptsc[v] \in Int /\ start[v] \in Int
              /\ latest[v] \in Int /\ add[v] \in Int /\ worldSwitchPTSC[v] \in Int
BY GuestConstants DEF GuestTypes, InfoWords

\* The count is positive while one has entered, and only then.
LEMMA CountPositive ==
  ASSUME GuestTypes, OneOffset
  PROVE  ptscOffsetInfo.inVMMCnt > 0 <=> \E v \in TimedVCPUs : HasEntered(v)
<1>1. Entered \in SUBSET TimedVCPUs
  BY DEF Entered
<1>2. IsFiniteSet(Entered)
  BY <1>1, GuestConstants, FS_Subset
<1>3. Cardinality(Entered) \in Nat /\ (Cardinality(Entered) = 0 <=> Entered = {})
  BY <1>2, FS_CardinalityType, FS_EmptySet
<1> QED
  BY <1>3 DEF Entered, OneOffset

\* The clocks go on, and one may follow the other.
LEMMA AgreeingHost ==
  ASSUME GuestTypes, GuestTypes', Agreeing, Ptsc!Tick \/ Ptsc!Poll \/ Ptsc!Compare
  PROVE  Agreeing'
<1>1. /\ UNCHANGED <<hwTSCsSynced, tscOffset, ptscOffsetInfo, stale, reused, ptscLatest,
                     ptscOffsets, ptscPc,
                     ptsc, start, old, latest, add, worldSwitchPTSC>>
      /\ (tsc' = tsc \/ tsc' = tsc + 1) /\ (~useRefClock' => ~useRefClock)
  <2>1. ~useRefClock' => ~useRefClock
    BY Zenon DEF Ptsc!Tick, Ptsc!Poll, Ptsc!Compare, Ptsc!SetPseudoTSCUseRefClock
  <2> QED
    BY <2>1 DEF Ptsc!Tick, Ptsc!Poll, Ptsc!Compare, Ptsc!host, Ptsc!clocks, Ptsc!shared,
       Ptsc!info,
       Ptsc!locals, Ptsc!cross
<1>2. Entered' = Entered
  BY <1>1 DEF Entered, HasEntered
<1>3. OneOffset'
  BY <1>1, <1>2 DEF Agreeing, OneOffset, Ptsc!NewVcpu, Ptsc!Inside
<1>4. PICK t \in Int : t = tsc' /\ tsc <= t
  BY <1>1, GuestFacts
<1>5. \A s \in Int : NotAfter(tsc + s) => NotAfter(tsc + s)'
  <2> SUFFICES ASSUME NEW s \in Int, NotAfter(tsc + s), NEW w \in TimedVCPUs
               PROVE  worldSwitchPTSC[w] <= t + s
    BY <1>1, <1>4 DEF NotAfter
  <2> QED
    BY <1>4, GuestFacts DEF NotAfter
<1>6. Remembered'
  <2>1. \A v \in TimedVCPUs : start[v] <= tsc => start[v] <= t
    BY <1>4, GuestFacts
  <2> QED
    BY <1>1, <1>4, <2>1 DEF Agreeing, Remembered
<1>7. FromTheCounter'
  <2>1. NotAfter(tsc + tscOffset) => NotAfter(tsc + tscOffset)'
    BY <1>1, <1>5, GuestFacts
  <2> QED
    BY <1>1, <2>1 DEF Agreeing, FromTheCounter
<1>8. Ahead'
  <2>1. \A v \in TimedVCPUs : NotAfter(tsc + ptscOffsets[v]) => NotAfter(tsc + ptscOffsets[v])'
    BY <1>1, <1>5, GuestFacts
  <2> QED
    BY <1>1, <2>1, GuestFacts DEF Agreeing, Ahead
<1> QED
  BY <1>1, <1>3, <1>6, <1>7, <1>8 DEF Agreeing

\* A thread's own step.
OnlyOf(v) ==
  \A w \in TimedVCPUs \ {v} :
    /\ ptscPc'[w] = ptscPc[w] /\ ptsc'[w] = ptsc[w] /\ start'[w] = start[w] /\ old'[w] = old[w]
    /\ latest'[w] = latest[w] /\ add'[w] = add[w] /\ worldSwitchPTSC'[w] = worldSwitchPTSC[w]
    /\ ptscOffsets'[w] = ptscOffsets[w]

\* A step leaves the other threads' variables, and the clocks, alone.
LEMMA OnlyOwn ==
  ASSUME GuestTypes, NEW v \in TimedVCPUs,
         \/ Ptsc!ReadPTSC(v) \/ Ptsc!Check(v) \/ Ptsc!ReadTSC(v) \/ Ptsc!ReadInfo(v)
         \/ Ptsc!FromClock(v) \/ Ptsc!FromCounter(v) \/ Ptsc!WriteOffset(v) \/ Ptsc!Exchange(v)
         \/ Ptsc!Enter(v) \/ Ptsc!Leave(v) \/ Ptsc!ReadLatest(v) \/ Ptsc!SetLatest(v) \/ Ptsc!Dec(v)
  PROVE  OnlyOf(v) /\ UNCHANGED <<hwTSCsSynced, neverSwitchToRefClock, tscOffset, refAdd, tsc,
                                  uptime, skew>>
<1>1. /\ ptscPc \in [TimedVCPUs -> PtscSteps] /\ ptsc \in [TimedVCPUs -> Int]
      /\ start \in [TimedVCPUs -> Int] /\ latest \in [TimedVCPUs -> Int] /\ add \in [TimedVCPUs -> Int]
      /\ worldSwitchPTSC \in [TimedVCPUs -> Int] /\ ptscOffsets \in [TimedVCPUs -> Int]
      /\ old \in [TimedVCPUs -> {Ptsc!NotRead} \cup InfoWords]
  BY DEF GuestTypes
<1> USE <1>1 DEF OnlyOf, Ptsc!env, Ptsc!host, Ptsc!clocks, Ptsc!shared, Ptsc!info, Ptsc!locals,
        Ptsc!cross,
        Ptsc!Goto, Ptsc!Unset, Ptsc!Forget
<1>2. CASE Ptsc!ReadPTSC(v)
  BY <1>2 DEF Ptsc!ReadPTSC
<1>3. CASE Ptsc!Check(v)
  BY <1>3 DEF Ptsc!Check
<1>4. CASE Ptsc!ReadTSC(v)
  BY <1>4 DEF Ptsc!ReadTSC
<1>5. CASE Ptsc!ReadInfo(v)
  BY <1>5 DEF Ptsc!ReadInfo
<1>6. CASE Ptsc!FromClock(v)
  BY <1>6 DEF Ptsc!FromClock
<1>7. CASE Ptsc!FromCounter(v)
  BY <1>7 DEF Ptsc!FromCounter
<1>8. CASE Ptsc!WriteOffset(v)
  BY <1>8 DEF Ptsc!WriteOffset
<1>9. CASE Ptsc!Exchange(v)
  BY <1>9 DEF Ptsc!Exchange
<1>10. CASE Ptsc!Enter(v)
  BY <1>10 DEF Ptsc!Enter
<1>11. CASE Ptsc!Leave(v)
  BY <1>11 DEF Ptsc!Leave
<1>12. CASE Ptsc!ReadLatest(v)
  BY <1>12 DEF Ptsc!ReadLatest
<1>13. CASE Ptsc!SetLatest(v)
  BY <1>13 DEF Ptsc!SetLatest
<1>14. CASE Ptsc!Dec(v)
  BY <1>14 DEF Ptsc!Dec
<1> QED
  BY <1>2, <1>3, <1>4, <1>5, <1>6, <1>7, <1>8, <1>9, <1>10, <1>11, <1>12, <1>13, <1>14

\* The steps before the word is read.
LEMMA AgreeingStart ==
  ASSUME GuestTypes, GuestTypes', Agreeing, NEW v \in TimedVCPUs,
         Ptsc!ReadPTSC(v) \/ Ptsc!Check(v) \/ Ptsc!ReadTSC(v)
  PROVE  Agreeing'
<1>1. OnlyOf(v) /\ UNCHANGED <<hwTSCsSynced, tscOffset, tsc>>
  BY OnlyOwn
<1>2. /\ UNCHANGED <<ptscOffsetInfo, stale, reused, ptscLatest, ptscOffsets, old, latest, add,
                     worldSwitchPTSC>>
      /\ ~useRefClock' => ~useRefClock
      /\ ptscPc[v] \in {"out", "check", "start"} /\ ptscPc'[v] \in {"check", "start", "readinfo"}
      /\ ptscPc'[v] = "readinfo" => start'[v] = tsc
  <2>1. ~useRefClock' => ~useRefClock
    BY Zenon DEF Ptsc!ReadPTSC, Ptsc!Check, Ptsc!ReadTSC, Ptsc!SetPseudoTSCUseRefClock, Ptsc!env
  <2> USE <2>1 DEF Ptsc!env, Ptsc!host, Ptsc!clocks, Ptsc!shared, Ptsc!info, Ptsc!locals,
  Ptsc!cross,
          Ptsc!Goto, GuestTypes
  <2>2. CASE Ptsc!ReadPTSC(v)
    BY <2>2 DEF Ptsc!ReadPTSC
  <2>3. CASE Ptsc!Check(v)
    BY <2>3 DEF Ptsc!Check
  <2>4. CASE Ptsc!ReadTSC(v)
    BY <2>4 DEF Ptsc!ReadTSC, Ptsc!RDTSC, Agreeing
  <2> QED
    BY <2>2, <2>3, <2>4
<1>3. Entered' = Entered
  BY <1>1, <1>2 DEF Entered, HasEntered, OnlyOf
<1>4. OneOffset'
  BY <1>1, <1>2, <1>3, GuestFacts DEF Agreeing, OneOffset, Ptsc!NewVcpu, Ptsc!Inside, OnlyOf
<1>5. Remembered'
  BY <1>1, <1>2, GuestFacts DEF Agreeing, Remembered, OnlyOf
<1>6. FromTheCounter'
  BY <1>1, <1>2, GuestFacts DEF Agreeing, FromTheCounter, OnlyOf, NotAfter
<1>7. Ahead'
  BY <1>1, <1>2, GuestFacts DEF Agreeing, Ahead, OnlyOf, NotAfter
<1> QED
  BY <1>1, <1>4, <1>5, <1>6, <1>7 DEF Agreeing

\* The word is read.
LEMMA AgreeingReadInfo ==
  ASSUME GuestTypes, GuestTypes', Agreeing, NEW v \in TimedVCPUs, Ptsc!ReadInfo(v)
  PROVE  Agreeing'
<1>1. OnlyOf(v) /\ UNCHANGED <<hwTSCsSynced, tscOffset, tsc>>
  BY OnlyOwn
<1>2. /\ UNCHANGED <<useRefClock, ptscOffsetInfo, reused, ptscLatest, ptscOffsets, ptsc, start,
                     latest, add,
                     worldSwitchPTSC>>
      /\ ptscPc[v] = "readinfo" /\ old'[v] = ptscOffsetInfo /\ stale' = stale \ {v}
      /\ ptscPc'[v] = IF ptscOffsetInfo.inVMMCnt > 0 THEN "exchange" ELSE "choose"
  BY DEF Ptsc!ReadInfo, Ptsc!env, Ptsc!host, Ptsc!clocks, Ptsc!shared, Ptsc!info,
     Ptsc!locals, Ptsc!cross,
     Ptsc!Goto, GuestTypes
<1>3. Entered' = Entered
  BY <1>1, <1>2 DEF Entered, HasEntered, OnlyOf
<1>4. ptscOffsetInfo \in InfoWords
  BY DEF GuestTypes
<1>5. OneOffset'
  BY <1>1, <1>2, <1>3, <1>4, GuestFacts DEF Agreeing, OneOffset, Ptsc!NewVcpu, Ptsc!Inside,
     OnlyOf
<1>6. Remembered'
  BY <1>1, <1>2, GuestFacts DEF Agreeing, Remembered, OnlyOf
<1>7. FromTheCounter'
  BY <1>1, <1>2, GuestFacts DEF Agreeing, FromTheCounter, OnlyOf, NotAfter
<1>8. Ahead'
  BY <1>1, <1>2, GuestFacts DEF Agreeing, Ahead, OnlyOf, NotAfter
<1> QED
  BY <1>1, <1>5, <1>6, <1>7, <1>8 DEF Agreeing

\* An offset is chosen that is the clock's, but not before what has been seen, or the counter's.
LEMMA AgreeingChoose ==
  ASSUME GuestTypes, GuestTypes', Agreeing, NEW v \in TimedVCPUs,
         Ptsc!FromClock(v) \/ Ptsc!FromCounter(v) \/ Ptsc!WriteOffset(v)
  PROVE  Agreeing'
<1>1. OnlyOf(v) /\ UNCHANGED <<hwTSCsSynced, tscOffset, tsc>>
  BY OnlyOwn
<1>2. /\ UNCHANGED <<useRefClock, ptscOffsetInfo, stale, reused, ptscLatest, start, old, latest,
                     add,
                     worldSwitchPTSC>>
      /\ ptscPc[v] \in {"choose", "offset"} /\ ptscPc'[v] \in {"offset", "exchange"}
  BY DEF Ptsc!FromClock, Ptsc!FromCounter, Ptsc!WriteOffset, Ptsc!env, Ptsc!host,
     Ptsc!clocks, Ptsc!shared,
     Ptsc!info, Ptsc!locals, Ptsc!cross, Ptsc!Goto, GuestTypes
<1>3. \/ /\ useRefClock /\ ptscPc'[v] = "offset" /\ ptsc'[v] >= ptscLatest /\ ptscOffsets' = ptscOffsets
      \/ /\ ~useRefClock /\ ptscPc'[v] = "exchange" /\ ptscOffsets'[v] = tscOffset
      \/ /\ ptscPc[v] = "offset" /\ ptscPc'[v] = "exchange" /\ ptscOffsets'[v] = ptsc[v] - start[v]
  BY GuestFacts DEF Ptsc!FromClock, Ptsc!FromCounter, Ptsc!WriteOffset, Ptsc!shared,
     Ptsc!Goto, GuestTypes
<1>4. Entered' = Entered
  BY <1>1, <1>2 DEF Entered, HasEntered, OnlyOf
<1>5. ptscOffsetInfo.inVMMCnt > 0 => ptscOffsetInfo.vcpu # v
  BY <1>2 DEF Agreeing, OneOffset
<1>6. ptscOffsetInfo.inVMMCnt > 0 =>
        ptscOffsets'[ptscOffsetInfo.vcpu] = ptscOffsets[ptscOffsetInfo.vcpu]
  BY <1>1, <1>5, GuestFacts DEF OnlyOf
<1>7. \A w \in TimedVCPUs : HasEntered(w) => ptscOffsetInfo.inVMMCnt > 0
  BY CountPositive DEF Agreeing
<1>8. OneOffset'
  <2>1. \A w \in TimedVCPUs : Ptsc!Inside(w)' => add'[w] = ptscOffsets'[ptscOffsetInfo.vcpu]
    BY <1>1, <1>2, <1>6, <1>7 DEF Agreeing, OneOffset, Ptsc!Inside, OnlyOf, HasEntered
  <2> QED
    BY <1>1, <1>2, <1>4, <1>5, <2>1, GuestFacts DEF Agreeing, OneOffset, Ptsc!NewVcpu,
       Ptsc!Inside, OnlyOf
<1>9. Remembered'
  BY <1>1, <1>2, GuestFacts DEF Agreeing, Remembered, OnlyOf
<1>10. FromTheCounter'
  BY <1>1, <1>2, <1>3, <1>6, GuestFacts DEF Agreeing, FromTheCounter, OnlyOf, NotAfter
<1>11. ASSUME v \notin stale, ptscPc'[v] = "exchange"
       PROVE  NotAfter(tsc + ptscOffsets'[v])
  <2>1. ptscOffsetInfo = old[v] /\ old[v].inVMMCnt = 0
    BY <1>2, <1>11 DEF Agreeing, Ahead, OneOffset
  <2>2. \A w \in TimedVCPUs : ~HasEntered(w)
    BY <1>7, <2>1
  <2>3. \A w \in TimedVCPUs : worldSwitchPTSC[w] <= ptscLatest
    BY <2>2 DEF Agreeing, Remembered, HasEntered
  <2>4. CASE ~useRefClock /\ ptscOffsets'[v] = tscOffset
    BY <2>4 DEF Agreeing, FromTheCounter
  <2>5. CASE ptscPc[v] = "offset" /\ ptscOffsets'[v] = ptsc[v] - start[v]
    <3>1. ptscLatest <= ptsc[v] /\ start[v] <= tsc
      BY <1>11, <2>5 DEF Agreeing, Ahead, Remembered
    <3>2. ptscLatest <= tsc + (ptsc[v] - start[v])
      BY <3>1, GuestFacts
    <3> QED
      BY <2>3, <2>5, <3>2, GuestFacts DEF NotAfter
  <2> QED
    BY <1>3, <1>11, <2>4, <2>5
<1>12. Ahead'
  <2>1. ASSUME NEW w \in TimedVCPUs, w \notin stale, ptscPc'[w] \in {"choose", "offset", "exchange"}
        PROVE  /\ ptscOffsetInfo = old[w]
               /\ ptscPc'[w] = "offset" => ptscLatest <= ptsc'[w]
               /\ (ptscPc'[w] = "exchange" /\ old[w].inVMMCnt = 0) => NotAfter(tsc + ptscOffsets'[w])
    <3>1. CASE w = v
      BY <1>2, <1>3, <1>11, <2>1, <3>1, GuestFacts DEF Agreeing, Ahead, GuestTypes
    <3>2. CASE w # v
      BY <1>1, <2>1, <3>2 DEF Agreeing, Ahead, OnlyOf
    <3> QED
      BY <3>1, <3>2
  <2>2. (~reused /\ ptscOffsetInfo.inVMMCnt > 0) => NotAfter(tsc + ptscOffsets'[ptscOffsetInfo.vcpu])
    BY <1>6 DEF Agreeing, Ahead
  <2> QED
    BY <1>1, <1>2, <2>1, <2>2 DEF Ahead, NotAfter
<1> QED
  BY <1>1, <1>8, <1>9, <1>10, <1>12 DEF Agreeing

\* The word is exchanged: the first that enters puts its number into it, and its offset is used.
LEMMA AgreeingExchange ==
  ASSUME GuestTypes, GuestTypes', Agreeing, NEW v \in TimedVCPUs, Ptsc!Exchange(v)
  PROVE  Agreeing'
<1>1. OnlyOf(v) /\ UNCHANGED <<hwTSCsSynced, tscOffset, tsc>>
  BY OnlyOwn
<1>2. /\ UNCHANGED <<useRefClock, ptscLatest, ptscOffsets, ptsc, start, old, latest, add,
                     worldSwitchPTSC>>
      /\ ptscPc[v] = "exchange" /\ old[v] \in InfoWords
  BY DEF Ptsc!Exchange, Ptsc!env, Ptsc!host, Ptsc!clocks, Ptsc!locals, Ptsc!cross, Agreeing,
     OneOffset
<1>3. CASE ptscOffsetInfo # old[v]
  <2>1. ptscPc'[v] = "readinfo" /\ UNCHANGED <<ptscOffsetInfo, stale, reused>>
    BY <1>3 DEF Ptsc!Exchange, Ptsc!Goto, Ptsc!info, GuestTypes
  <2>2. Entered' = Entered
    BY <1>1, <1>2, <2>1 DEF Entered, HasEntered, OnlyOf
  <2>3. OneOffset'
    BY <1>1, <1>2, <2>1, <2>2, GuestFacts DEF Agreeing, OneOffset, Ptsc!NewVcpu,
       Ptsc!Inside, OnlyOf
  <2>4. Remembered'
    BY <1>1, <1>2, <2>1, GuestFacts DEF Agreeing, Remembered, OnlyOf
  <2>5. FromTheCounter'
    BY <1>1, <1>2, <2>1, GuestFacts DEF Agreeing, FromTheCounter, OnlyOf, NotAfter
  <2>6. Ahead'
    BY <1>1, <1>2, <2>1, GuestFacts DEF Agreeing, Ahead, OnlyOf, NotAfter
  <2> QED
    BY <1>1, <2>3, <2>4, <2>5, <2>6 DEF Agreeing
<1>4. CASE ptscOffsetInfo = old[v]
  <2>1. /\ ptscOffsetInfo' = [vcpu |-> Ptsc!NewVcpu(v), inVMMCnt |-> ptscOffsetInfo.inVMMCnt + 1]
        /\ ptscPc'[v] = "enter"
        /\ stale' = {w \in TimedVCPUs : ptscPc[w] \in {"choose", "offset", "exchange"}} \ {v}
        /\ ~reused' => ~reused /\ v \notin stale
    <3>1. ~reused' => ~reused /\ v \notin stale
      BY Zenon, <1>4 DEF Ptsc!Exchange
    <3> QED
      BY <1>4, <3>1 DEF Ptsc!Exchange, Ptsc!Goto, Ptsc!Readers, GuestTypes
  <2>2. PICK u \in TimedVCPUs, n \in Nat :
           /\ u = Ptsc!NewVcpu(v) /\ n = ptscOffsetInfo.inVMMCnt
           /\ u = IF n = 0 THEN v ELSE ptscOffsetInfo.vcpu
    BY <1>4, GuestFacts DEF Ptsc!NewVcpu
  <2>3. ptscOffsetInfo'.vcpu = u /\ ptscOffsetInfo'.inVMMCnt = n + 1
    BY <2>1, <2>2
  <2>4. \A w \in TimedVCPUs : HasEntered(w) => n > 0
    BY <2>2, CountPositive DEF Agreeing
  <2>5. \A w \in TimedVCPUs : HasEntered(w) => u = ptscOffsetInfo.vcpu
    BY <2>2, <2>4
  <2>6. OneOffset'
    <3>1. Entered' = Entered \cup {v} /\ v \notin Entered /\ Entered \in SUBSET TimedVCPUs
      BY <1>1, <1>2, <2>1 DEF Entered, HasEntered, OnlyOf
    <3>2. Cardinality(Entered') = Cardinality(Entered) + 1
      BY <3>1, GuestConstants, FS_Subset, FS_AddElement
    <3>3. ptscOffsetInfo'.inVMMCnt = Cardinality(Entered')
      BY <2>2, <2>3, <3>2 DEF Agreeing, OneOffset
    <3>4. Ptsc!NewVcpu(v)' = u /\ \A w \in TimedVCPUs \ {v} : Ptsc!NewVcpu(w)' = Ptsc!NewVcpu(w)
      BY <1>2, <2>2 DEF Ptsc!NewVcpu
    <3>5. ptscPc'[u] \notin {"choose", "offset"}
      BY <1>1, <2>1, <2>2 DEF Agreeing, OneOffset, OnlyOf
    <3>6. ASSUME NEW w \in TimedVCPUs
          PROVE  /\ ptscPc'[w] = "enter" => Ptsc!NewVcpu(w)' = u
                 /\ Ptsc!Inside(w)' => add'[w] = ptscOffsets'[u]
                 /\ ptscPc'[w] \in {"choose", "offset"} => old'[w].inVMMCnt = 0
                 /\ ptscPc'[w] \in {"choose", "offset", "exchange", "enter"} => old'[w] \in InfoWords
      <4>1. CASE w = v
        BY <1>2, <2>1, <3>4, <4>1 DEF Ptsc!Inside
      <4>2. CASE w # v
        BY <1>1, <1>2, <2>5, <3>4, <4>2 DEF Agreeing, OneOffset, OnlyOf, Ptsc!Inside, HasEntered
      <4> QED
        BY <4>1, <4>2
    <3> QED
      BY <2>3, <3>3, <3>5, <3>6 DEF OneOffset
  <2>7. Remembered'
    BY <1>1, <1>2, <2>1, GuestFacts DEF Agreeing, Remembered, OnlyOf
  <2>8. ~useRefClock => ptscOffsets[u] = tscOffset
    BY <1>2, <1>4, <2>2 DEF Agreeing, FromTheCounter
  <2>9. FromTheCounter'
    BY <1>1, <1>2, <2>1, <2>3, <2>8, GuestFacts DEF Agreeing, FromTheCounter, OnlyOf, NotAfter
  <2>10. ASSUME ~reused' PROVE NotAfter(tsc + ptscOffsets[u])
    <3>1. ~reused /\ v \notin stale
      BY <2>1, <2>10
    <3>2. CASE n = 0
      BY <1>2, <1>4, <2>2, <3>1, <3>2 DEF Agreeing, Ahead
    <3>3. CASE n # 0
      BY <2>2, <3>1, <3>3 DEF Agreeing, Ahead
    <3> QED
      BY <3>2, <3>3
  <2>11. Ahead'
    <3>1. \A w \in TimedVCPUs : ptscPc'[w] \in {"choose", "offset", "exchange"} => w \in stale'
      BY <1>1, <2>1 DEF OnlyOf
    <3>2. ~reused' => NotAfter(tsc + ptscOffsets[ptscOffsetInfo'.vcpu])
      BY <2>3, <2>10
    <3> QED
      BY <1>1, <1>2, <3>1, <3>2 DEF Ahead, NotAfter
  <2> QED
    BY <1>1, <2>6, <2>7, <2>9, <2>11 DEF Agreeing
<1> QED
  BY <1>3, <1>4

\* The switch, with the offset that the word says.
LEMMA AgreeingEnter ==
  ASSUME GuestTypes, GuestTypes', Agreeing, NEW v \in TimedVCPUs, Ptsc!Enter(v)
  PROVE  Agreeing'
<1>1. OnlyOf(v) /\ UNCHANGED <<hwTSCsSynced, tscOffset, tsc>>
  BY OnlyOwn
<1>2. PICK offset \in Int : offset = ptscOffsets[ptscOffsetInfo.vcpu]
  BY GuestFacts
<1>3. /\ UNCHANGED <<useRefClock, ptscOffsetInfo, stale, reused, ptscLatest, ptscOffsets, latest>>
      /\ ptscPc[v] = "enter" /\ ptscPc'[v] = "inside" /\ add'[v] = offset
      /\ worldSwitchPTSC'[v] = start[v] + offset
  <2>1. hwTSCsSynced /\ Ptsc!NewVcpu(v) = ptscOffsetInfo.vcpu
    BY DEF Agreeing, OneOffset, Ptsc!Enter
  <2> QED
    BY <1>2, <2>1 DEF Ptsc!Enter, Ptsc!env, Ptsc!shared, Ptsc!info, Ptsc!Goto, GuestTypes
<1>4. Entered' = Entered
  BY <1>1, <1>3 DEF Entered, HasEntered, OnlyOf
<1>5. OneOffset'
  <2>1. \A w \in TimedVCPUs \ {v} : Ptsc!NewVcpu(w)' = Ptsc!NewVcpu(w)
    BY <1>1 DEF Ptsc!NewVcpu, OnlyOf
  <2> QED
    BY <1>1, <1>2, <1>3, <1>4, <2>1, GuestFacts DEF Agreeing, OneOffset, Ptsc!Inside, OnlyOf
<1>6. Remembered'
  BY <1>1, <1>3, GuestFacts DEF Agreeing, Remembered, OnlyOf
<1>7. worldSwitchPTSC'[v] <= tsc + offset
  BY <1>2, <1>3, GuestFacts DEF Agreeing, Remembered
<1>8. ptscOffsetInfo.inVMMCnt > 0
  BY <1>3, CountPositive DEF Agreeing, HasEntered
<1>9. FromTheCounter'
  BY <1>1, <1>2, <1>3, <1>7, <1>8, GuestFacts DEF Agreeing, FromTheCounter, OnlyOf, NotAfter
<1>10. Ahead'
  <2>1. ASSUME NEW w \in TimedVCPUs, w \notin stale, ptscPc'[w] \in {"choose", "offset", "exchange"}
        PROVE  ptscOffsetInfo = old'[w] /\ old'[w].inVMMCnt > 0 /\ ptscPc'[w] # "offset"
    <3>1. w # v /\ ptscPc[w] = ptscPc'[w] /\ old'[w] = old[w]
      BY <1>1, <1>3, <2>1 DEF OnlyOf
    <3>2. ptscOffsetInfo = old[w]
      BY <2>1, <3>1 DEF Agreeing, Ahead
    <3>3. ptscPc[w] = "offset" => old[w].inVMMCnt = 0
      BY DEF Agreeing, OneOffset
    <3> QED
      BY <1>8, <3>1, <3>2, <3>3
  <2>2. (~reused /\ ptscOffsetInfo.inVMMCnt > 0) => NotAfter(tsc + offset)'
    BY <1>1, <1>2, <1>3, <1>7 DEF Agreeing, Ahead, OnlyOf, NotAfter
  <2>3. ptscOffsets'[ptscOffsetInfo'.vcpu] = offset
    BY <1>2, <1>3
  <2>4. (~reused' /\ ptscOffsetInfo'.inVMMCnt > 0) => NotAfter(tsc + ptscOffsets[ptscOffsetInfo.vcpu])'
    BY <1>1, <1>3, <2>2, <2>3 DEF NotAfter
  <2>5. \A w \in TimedVCPUs :
          (w \notin stale' /\ ptscPc'[w] \in {"choose", "offset", "exchange"}) =>
             ptscOffsetInfo' = old'[w] /\ old'[w].inVMMCnt > 0 /\ ptscPc'[w] # "offset"
    BY <1>3, <2>1
  <2> QED
    BY <2>4, <2>5 DEF Ahead
<1> QED
  BY <1>1, <1>5, <1>6, <1>9, <1>10 DEF Agreeing

\* The way out of the monitor, and the exchange of the latest time that was seen.
LEMMA AgreeingLeave ==
  ASSUME GuestTypes, GuestTypes', Agreeing, NEW v \in TimedVCPUs,
         Ptsc!Leave(v) \/ Ptsc!ReadLatest(v) \/ Ptsc!SetLatest(v)
  PROVE  Agreeing'
<1>1. OnlyOf(v) /\ UNCHANGED <<hwTSCsSynced, tscOffset, tsc, skew>>
  BY OnlyOwn
<1>2. PICK offset \in Int : offset = ptscOffsets[ptscOffsetInfo.vcpu]
  BY GuestFacts
<1>3. /\ UNCHANGED <<useRefClock, ptscOffsetInfo, stale, reused, ptscOffsets, old, add>>
      /\ ptscPc[v] \in {"inside", "latest", "setlatest"} /\ ptscPc'[v] \in {"latest", "setlatest", "dec"}
  BY DEF Ptsc!Leave, Ptsc!ReadLatest, Ptsc!SetLatest, Ptsc!env, Ptsc!shared, Ptsc!info,
     Ptsc!Goto,
     Ptsc!locals, Ptsc!cross, GuestTypes, Agreeing
<1>4. add[v] = offset
  BY <1>2, <1>3 DEF Agreeing, OneOffset, Ptsc!Inside
<1>5. \/ /\ ptscPc'[v] = "latest" /\ worldSwitchPTSC'[v] = tsc + offset /\ ptsc'[v] = tsc + offset
         /\ ptscLatest' = ptscLatest
      \/ /\ ptscPc[v] = "latest" /\ UNCHANGED <<worldSwitchPTSC, ptsc, ptscLatest>>
         /\ \/ ptscPc'[v] = "dec" /\ ptsc[v] <= ptscLatest
            \/ ptscPc'[v] = "setlatest" /\ latest'[v] < ptsc[v]
      \/ /\ ptscPc[v] = "setlatest" /\ UNCHANGED <<worldSwitchPTSC, ptsc, latest>>
         /\ \/ ptscPc'[v] = "dec" /\ ptscLatest' = ptsc[v] /\ ptscLatest < ptsc[v]
            \/ ptscPc'[v] = "latest" /\ ptscLatest' = ptscLatest
  <2>1. CASE Ptsc!Leave(v)
    BY <1>4, <2>1 DEF Ptsc!Leave, Ptsc!env, Ptsc!shared, Ptsc!Goto, Ptsc!RDTSC, GuestTypes,
       Agreeing
  <2>2. CASE Ptsc!ReadLatest(v)
    BY <2>2, GuestFacts DEF Ptsc!ReadLatest, Ptsc!shared, Ptsc!cross, Ptsc!Goto, GuestTypes
  <2>3. CASE Ptsc!SetLatest(v)
    BY <2>3, GuestFacts DEF Ptsc!SetLatest, Ptsc!locals, Ptsc!cross, Ptsc!Goto, GuestTypes,
       Agreeing, Remembered
  <2> QED
    BY <2>1, <2>2, <2>3
<1>6. PICK mark \in Int : mark = ptscLatest' /\ ptscLatest <= mark
  BY <1>5, GuestFacts DEF GuestTypes
<1>7. ptscOffsetInfo.inVMMCnt > 0
  BY <1>3, CountPositive DEF Agreeing, HasEntered
<1>8. Entered' = Entered
  BY <1>1, <1>3 DEF Entered, HasEntered, OnlyOf
<1>9. OneOffset'
  BY <1>1, <1>3, <1>8, GuestFacts DEF Agreeing, OneOffset, Ptsc!NewVcpu, Ptsc!Inside, OnlyOf
<1>10. Remembered'
  <2>1. ASSUME NEW w \in TimedVCPUs \ {v}
        PROVE  /\ ptscPc'[w] \notin {"inside", "latest", "setlatest"} => worldSwitchPTSC'[w] <= mark
               /\ ptscPc'[w] \in {"latest", "setlatest"} => ptsc'[w] = worldSwitchPTSC'[w]
               /\ ptscPc'[w] = "setlatest" => latest'[w] < ptsc'[w]
               /\ ptscPc'[w] \in {"readinfo", "choose", "offset", "exchange", "enter"} => start'[w] <= tsc
    <3>1. worldSwitchPTSC[w] <= ptscLatest => worldSwitchPTSC[w] <= mark
      BY <1>6, GuestFacts
    <3> QED
      BY <1>1, <3>1 DEF Agreeing, Remembered, OnlyOf
  <2>2. /\ ptscPc'[v] = "dec" => worldSwitchPTSC'[v] <= mark
        /\ ptscPc'[v] \in {"latest", "setlatest"} => ptsc'[v] = worldSwitchPTSC'[v]
        /\ ptscPc'[v] = "setlatest" => latest'[v] < ptsc'[v]
    BY <1>3, <1>5, <1>6, GuestFacts DEF Agreeing, Remembered
  <2> QED
    BY <1>1, <1>3, <1>6, <2>1, <2>2 DEF Remembered
<1>11. worldSwitchPTSC'[v] = tsc + offset \/ worldSwitchPTSC'[v] = worldSwitchPTSC[v]
  BY <1>5
<1>12. NotAfter(tsc + offset) => NotAfter(tsc + offset)'
  BY <1>1, <1>2, <1>3, <1>11, GuestFacts DEF NotAfter, OnlyOf
<1>13. FromTheCounter'
  <2>1. ~useRefClock => offset = tscOffset /\ NotAfter(tsc + offset)
    BY <1>2, <1>7 DEF Agreeing, FromTheCounter
  <2> QED
    BY <1>1, <1>2, <1>3, <1>12, <2>1, GuestFacts DEF Agreeing, FromTheCounter, OnlyOf, NotAfter
<1>14. Ahead'
  <2>1. ASSUME NEW w \in TimedVCPUs, w \notin stale, ptscPc'[w] \in {"choose", "offset", "exchange"}
        PROVE  ptscOffsetInfo = old[w] /\ old[w].inVMMCnt > 0 /\ ptscPc'[w] # "offset"
    <3>1. w # v /\ ptscPc[w] = ptscPc'[w]
      BY <1>1, <1>3, <2>1 DEF OnlyOf
    <3>2. ptscOffsetInfo = old[w]
      BY <2>1, <3>1 DEF Agreeing, Ahead
    <3>3. ptscPc[w] = "offset" => old[w].inVMMCnt = 0
      BY DEF Agreeing, OneOffset
    <3> QED
      BY <1>7, <3>1, <3>2, <3>3
  <2>2. (~reused /\ ptscOffsetInfo.inVMMCnt > 0) => NotAfter(tsc + offset)'
    BY <1>1, <1>2, <1>12 DEF Agreeing, Ahead
  <2> QED
    BY <1>1, <1>2, <1>3, <2>1, <2>2, GuestFacts DEF Ahead, NotAfter
<1> QED
  BY <1>1, <1>9, <1>10, <1>13, <1>14 DEF Agreeing

\* One less is inside.
LEMMA AgreeingDec ==
  ASSUME GuestTypes, GuestTypes', Agreeing, NEW v \in TimedVCPUs, Ptsc!Dec(v)
  PROVE  Agreeing'
<1>1. OnlyOf(v) /\ UNCHANGED <<hwTSCsSynced, tscOffset, tsc>>
  BY OnlyOwn
<1>2. /\ UNCHANGED <<useRefClock, reused, ptscLatest, ptscOffsets, start, old, worldSwitchPTSC>>
      /\ ptscPc[v] = "dec" /\ ptscPc'[v] = "out"
      /\ ptscOffsetInfo' = [ptscOffsetInfo EXCEPT !.inVMMCnt = @ - 1]
      /\ stale' = {w \in TimedVCPUs : ptscPc[w] \in {"choose", "offset", "exchange"}}
  BY DEF Ptsc!Dec, Ptsc!env, Ptsc!Goto, Ptsc!Readers, GuestTypes
<1>3. PICK u \in TimedVCPUs, n \in Nat : /\ u = ptscOffsetInfo.vcpu /\ n + 1 = ptscOffsetInfo.inVMMCnt
                                        /\ ptscOffsetInfo'.vcpu = u /\ ptscOffsetInfo'.inVMMCnt = n
  <2>1. ptscOffsetInfo.inVMMCnt > 0
    BY <1>2, CountPositive DEF Agreeing, HasEntered
  <2>2. ptscOffsetInfo.inVMMCnt - 1 \in Nat /\ (ptscOffsetInfo.inVMMCnt - 1) + 1 = ptscOffsetInfo.inVMMCnt
    BY <2>1, GuestFacts
  <2>3. ptscOffsetInfo'.vcpu = ptscOffsetInfo.vcpu
        /\ ptscOffsetInfo'.inVMMCnt = ptscOffsetInfo.inVMMCnt - 1
    BY <1>2, GuestFacts
  <2> QED
    BY <2>2, <2>3, GuestFacts
<1>4. OneOffset'
  <2>1. Entered' = Entered \ {v} /\ v \in Entered /\ Entered \in SUBSET TimedVCPUs
    BY <1>1, <1>2 DEF Entered, HasEntered, OnlyOf
  <2>2. Cardinality(Entered') = Cardinality(Entered) - 1 /\ Cardinality(Entered) \in Nat
    BY <2>1, GuestConstants, FS_Subset, FS_RemoveElement, FS_CardinalityType
  <2>3. n = Cardinality(Entered')
    BY <1>3, <2>2 DEF Agreeing, OneOffset
  <2>4. \A w \in TimedVCPUs : Ptsc!NewVcpu(w)' = Ptsc!NewVcpu(w)
    BY <1>2 DEF Ptsc!NewVcpu
  <2>5. n > 0 => ptscPc'[u] \notin {"choose", "offset"}
    BY <1>1, <1>2, <1>3 DEF Agreeing, OneOffset, OnlyOf
  <2> QED
    BY <1>1, <1>2, <1>3, <2>3, <2>4, <2>5 DEF Agreeing, OneOffset, Ptsc!Inside, OnlyOf
<1>5. Remembered'
  BY <1>1, <1>2, GuestFacts DEF Agreeing, Remembered, OnlyOf
<1>6. FromTheCounter'
  BY <1>1, <1>2, <1>3, GuestFacts DEF Agreeing, FromTheCounter, OnlyOf, NotAfter
<1>7. Ahead'
  <2>1. \A w \in TimedVCPUs : ptscPc'[w] \in {"choose", "offset", "exchange"} => w \in stale'
    BY <1>1, <1>2 DEF OnlyOf
  <2>2. ~reused => NotAfter(tsc + ptscOffsets[u])
    BY <1>3 DEF Agreeing, Ahead
  <2> QED
    BY <1>1, <1>2, <1>3, <2>1, <2>2 DEF Ahead, NotAfter
<1> QED
  BY <1>1, <1>4, <1>5, <1>6, <1>7 DEF Agreeing

-----------------------------------------------------------------------------
(* The pseudo TSC, on any host.                                             *)

\* The host's CPUs agree or they do not, for good; every step keeps what goes with it.
LEMMA GuestClocksStep == GuestClocks /\ [Ptsc!Next]_ptscVars => GuestClocks'
<1> SUFFICES ASSUME GuestClocks, [Ptsc!Next]_ptscVars PROVE GuestClocks'
  OBVIOUS
<1>1. CASE UNCHANGED ptscVars
  <2>1. GuestTypes'
    BY <1>1 DEF ptscVars, GuestClocks, GuestTypes
  <2>2. OneOffset => OneOffset'
    BY <1>1 DEF ptscVars, OneOffset, Entered, HasEntered, Ptsc!NewVcpu, Ptsc!Inside
  <2>3. (Remembered => Remembered') /\ (FromTheCounter => FromTheCounter') /\ (Ahead => Ahead')
    BY <1>1 DEF ptscVars, Remembered, FromTheCounter, Ahead, NotAfter
  <2>4. OwnOffset => OwnOffset'
    BY <1>1 DEF ptscVars, OwnOffset, Ptsc!RDTSC
  <2> QED
    BY <1>1, <2>1, <2>2, <2>3, <2>4 DEF ptscVars, GuestClocks
<1>2. GuestTypes /\ (hwTSCsSynced => Agreeing) /\ (~hwTSCsSynced => OwnOffset)
  BY DEF GuestClocks, Agreeing
<1>3. CASE Ptsc!Tick \/ Ptsc!Poll \/ Ptsc!Compare \/ \E v \in TimedVCPUs : Ptsc!Migrate(v)
  <2>1. GuestTypes' /\ hwTSCsSynced' = hwTSCsSynced
    BY <1>2, <1>3, TypesHost DEF Ptsc!Tick, Ptsc!Poll, Ptsc!Compare, Ptsc!Migrate, Ptsc!host
  <2>2. hwTSCsSynced => Agreeing'
    BY <1>2, <1>3, <2>1, AgreeingHost DEF Ptsc!Migrate
  <2>3. ~hwTSCsSynced => OwnOffset'
    BY <1>2, <1>3, <2>1, OwnHost
  <2> QED
    BY <2>1, <2>2, <2>3 DEF GuestClocks, Agreeing
<1>4. ASSUME NEW v \in TimedVCPUs,
             \/ Ptsc!ReadPTSC(v) \/ Ptsc!Check(v) \/ Ptsc!ReadTSC(v) \/ Ptsc!ReadInfo(v)
             \/ Ptsc!FromClock(v) \/ Ptsc!FromCounter(v) \/ Ptsc!WriteOffset(v) \/ Ptsc!Exchange(v)
             \/ Ptsc!Enter(v) \/ Ptsc!Leave(v) \/ Ptsc!ReadLatest(v) \/ Ptsc!SetLatest(v) \/ Ptsc!Dec(v)
      PROVE  GuestClocks'
  <2>1. Ptsc!Dec(v) => ptscPc[v] = "dec"
    BY DEF Ptsc!Dec
  <2>2. Ptsc!Dec(v) => hwTSCsSynced
    BY <1>2, <2>1 DEF OwnOffset
  <2>3. Ptsc!Dec(v) => ptscOffsetInfo.inVMMCnt > 0
    BY <1>2, <2>1, <2>2, CountPositive DEF HasEntered, Agreeing
  <2>4. GuestTypes' /\ hwTSCsSynced' = hwTSCsSynced
    BY <1>2, <1>4, <2>3, TypesBefore, TypesAfter, OnlyOwn
  <2>5. hwTSCsSynced => Agreeing'
    BY <1>2, <1>4, <2>4, AgreeingStart, AgreeingReadInfo, AgreeingChoose, AgreeingExchange,
       AgreeingEnter,
       AgreeingLeave, AgreeingDec
  <2>6. ~hwTSCsSynced => OwnOffset'
    <3> SUFFICES ASSUME ~hwTSCsSynced PROVE OwnOffset'
      OBVIOUS
    <3>1. ptscPc[v] \in {"out", "check", "start", "enter", "inside"}
      BY <1>2 DEF OwnOffset
    <3>2. \/ Ptsc!ReadPTSC(v) \/ Ptsc!Check(v) \/ Ptsc!ReadTSC(v) \/ Ptsc!Enter(v) \/ Ptsc!Leave(v)
      BY <1>4, <3>1 DEF Ptsc!ReadInfo, Ptsc!FromClock, Ptsc!FromCounter, Ptsc!WriteOffset,
         Ptsc!Exchange,
         Ptsc!ReadLatest, Ptsc!SetLatest, Ptsc!Dec
    <3> QED
      BY <1>2, <2>4, <3>2, OwnThread
  <2> QED
    BY <2>4, <2>5, <2>6 DEF GuestClocks, Agreeing
<1> QED
  BY <1>1, <1>3, <1>4 DEF Ptsc!Next

\* Nobody has entered when the machine is created.
LEMMA InitGuestClocks == Ptsc!Init => GuestClocks
<1> SUFFICES ASSUME Ptsc!Init PROVE GuestClocks
  OBVIOUS
<1> USE GuestConstants DEF Ptsc!Init
<1>1. \A v \in TimedVCPUs : ptscPc[v] = "out" /\ worldSwitchPTSC[v] = 0
  OBVIOUS
<1>2. PICK v \in TimedVCPUs : ptscOffsetInfo = [vcpu |-> v, inVMMCnt |-> 0]
  OBVIOUS
<1>3. GuestTypes
  <2>1. {hwTSCsSynced, neverSwitchToRefClock, useRefClock, polling, reused} \subseteq BOOLEAN
    BY Zenon
  <2> QED
    BY <1>2, <2>1 DEF GuestTypes, InfoWords, PtscSteps
<1>4. Entered = {}
  BY <1>1 DEF Entered, HasEntered
<1>5. OneOffset
  BY <1>1, <1>2, <1>4, FS_EmptySet DEF OneOffset, Ptsc!Inside
<1>6. Remembered /\ FromTheCounter /\ Ahead
  BY <1>1, <1>2 DEF Remembered, FromTheCounter, Ahead, NotAfter
<1>7. OwnOffset
  BY <1>1 DEF OwnOffset
<1> QED
  BY <1>3, <1>5, <1>6, <1>7 DEF GuestClocks

\* The VCPUs inside have one offset, and it is ahead of what was seen.
LEMMA GuestClocksEnough == GuestClocks => Ptsc!OneTime /\ Ptsc!OwnTime
<1> SUFFICES ASSUME GuestClocks PROVE Ptsc!OneTime /\ Ptsc!OwnTime
  OBVIOUS
<1>1. ASSUME hwTSCsSynced, NEW v \in TimedVCPUs, Ptsc!Inside(v)
      PROVE  /\ \A w \in TimedVCPUs : Ptsc!Inside(w) => add[w] = add[v]
             /\ ~reused => \A w \in TimedVCPUs : tsc + add[v] >= worldSwitchPTSC[w]
  <2>1. GuestTypes /\ OneOffset /\ Ahead
    BY <1>1 DEF GuestClocks
  <2>2. \A w \in TimedVCPUs : Ptsc!Inside(w) => add[w] = ptscOffsets[ptscOffsetInfo.vcpu]
    BY <2>1 DEF OneOffset
  <2>3. ptscOffsetInfo.inVMMCnt > 0
    BY <1>1, <2>1, CountPositive DEF Ptsc!Inside, HasEntered
  <2>4. ~reused => NotAfter(tsc + add[v])
    BY <1>1, <2>1, <2>2, <2>3 DEF Ahead
  <2>5. tsc \in Int /\ add[v] \in Int /\ \A w \in TimedVCPUs : worldSwitchPTSC[w] \in Int
    BY <2>1, GuestFacts
  <2> QED
    BY <1>1, <2>2, <2>4, <2>5 DEF NotAfter
<1>2. ~hwTSCsSynced => backwards = {}
  BY DEF GuestClocks, OwnOffset
<1> QED
  BY <1>1, <1>2 DEF Ptsc!OneTime, Ptsc!OwnTime

-----------------------------------------------------------------------------
(* The host's uptime.                                                       *)

UptimeThreads == UptimeReaders \cup {Timer}

\* How far off the times are that may have been used for the base, and how far the counted time is
\* when it has followed the uptime as often as it has.
Err  == fixes * Delay
Slow == Uptime!Resyncs * UPTIME_FREQ

\* A time that is off by no more.
Close(e) == -Err <= e /\ e <= Err

\* The counted time follows a reading of the clock.  An uptime is a second from it.
Near(e) == /\ -Slow <= e /\ e <= Slow
           /\ Uptime!FarApart => -Err <= e /\ e <= Err + Delay
NearNext(e) == /\ -(Slow + UPTIME_FREQ) <= e /\ e <= Slow + UPTIME_FREQ
               /\ Uptime!FarApart => -Err <= e /\ e <= Err + Delay

\* The bases of the counted time belong together, unless one is written and the other is not.
Writing == {"writemono", "writebase", "endwrite"}

Counting ==
  /\ version % 2 = 1 <=> uptimePc[Timer] \in Writing
  /\ uptimePc[Timer] # "writebase" => Near(monotimeBase - jiffiesBase)
  /\ uptimePc[Timer] = "writebase" => monotimeBase = uptimes[Timer]
  /\ uptimePc[Timer] = "write" => NearNext(uptimes[Timer] - jifs[Timer])
  /\ uptimePc[Timer] \in {"writemono", "writebase"} => Near(uptimes[Timer] - jifs[Timer])

\* What t has read of the bases is what they are while the version is, and then belongs together.
Consistent(t) ==
  /\ readVersion[t] <= version
  /\ readVersion[t] = version /\ version % 2 = 0 =>
       /\ uptimePc[t] \in {"mono", "end"} => jifBase[t] = jiffiesBase
       /\ uptimePc[t] = "end" => monoBase[t] = monotimeBase
  /\ uptimePc[t] \in {"clock", "upbase", "fix"} => Near(monoBase[t] - jifBase[t])
  /\ uptimePc[t] = "fix" /\ upBase[t] # uptimeBase /\ Uptime!FarApart =>
       monoBase[t] - jifBase[t] <= Err

\* The jiffies and the clock that t has read are of one time, give or take the delay, but for
\* how far off the time of day then was.
ReadAt(t, off) == jifs[t] <= clock[t] - off /\ clock[t] - off <= jifs[t] + Delay

Differ(t) ==
  LET diff == clock[t] + upBase[t] - (jifs[t] - jifBase[t] + monoBase[t])
  IN diff < -UPTIME_FREQ \/ diff > UPTIME_FREQ

Clocked(t) ==
  /\ jifs[t] <= jiffies
  /\ uptimePc[t] \in {"base", "mono", "end", "clock"} => jiffies <= jifs[t] + Delay
  /\ uptimePc[t] \in {"upbase", "fix"} =>
       \E off \in offsets : ReadAt(t, off) /\ clock[t] - off <= jiffies

Returned(t) ==
  uptimePc[t] \in {"done", "write", "writemono", "writebase", "endwrite"} =>
    /\ -(Slow + UPTIME_FREQ) <= uptimes[t] - jifs[t] /\ uptimes[t] - jifs[t] <= Slow + UPTIME_FREQ
    /\ Uptime!FarApart => jifs[t] - Err <= uptimes[t] /\ uptimes[t] <= jiffies + Err

\* Where changes of the time of day are noticed, the base is right for what it is off by or was.
RightBase == Uptime!FarApart => \E off \in offsets : Close(uptimeBase + off)

Tracking ==
  /\ Uptime!TypeOK /\ Counting /\ RightBase
  /\ \A t \in UptimeThreads : Consistent(t) /\ Clocked(t) /\ Returned(t)


\* Times are numbers.
LEMMA ErrNumber ==
  ASSUME NEW n \in Nat
  PROVE  n * Delay \in Nat /\ (n + 1) * Delay = n * Delay + Delay /\ Delay \in Nat
BY ReadersAssumption DEF Uptime!UptimeAssumption

LEMMA ErrGrows ==
  ASSUME NEW m \in Nat, NEW n \in Nat, m <= n
  PROVE  m * Delay <= n * Delay
<1>1. n - m \in Nat /\ Delay \in Nat
  BY ReadersAssumption DEF Uptime!UptimeAssumption
<1>2. PICK k \in Nat : n = m + k
  BY <1>1
<1>3. n * Delay = m * Delay + k * Delay /\ k * Delay \in Nat /\ m * Delay \in Nat
  BY <1>1, <1>2
<1> QED
  BY <1>3

\* The labels, and the types.
UptimeSteps ==
  {"base", "mono", "end", "clock", "out", "begin", "upbase", "fix", "done", "write",
   "writemono", "writebase", "endwrite"}

UptimeTypes ==
  /\ jiffies \in 0 .. MaxJiffies /\ warped \in offsets /\ warps \in 0 .. MaxWarps
  /\ offsets \subseteq Int
  /\ uptimeBase \in Int /\ monotimeBase \in Int /\ version \in Nat /\ jiffiesBase \in Nat
  /\ fixes \in Nat /\ expires \in Nat
  /\ uptimePc \in [UptimeThreads -> UptimeSteps]
  /\ readVersion \in [UptimeThreads -> Nat] /\ jifs \in [UptimeThreads -> Nat]
  /\ attempts \in [UptimeThreads -> Nat]
  /\ jifBase \in [UptimeThreads -> Int] /\ monoBase \in [UptimeThreads -> Int]
  /\ upBase \in [UptimeThreads -> Int] /\ clock \in [UptimeThreads -> Int]
  /\ uptimes \in [UptimeThreads -> Int]

LEMMA UptimeTyped == Uptime!TypeOK <=> UptimeTypes
BY DEF Uptime!TypeOK, UptimeTypes, Uptime!Threads, UptimeThreads, Uptime!Between, UptimeSteps

LEMMA UptimeConstants ==
  /\ UPTIME_FREQ \in Nat /\ MaxJiffies \in Nat /\ MaxWarps \in Nat /\ Delay \in Nat
  /\ Warps \subseteq Nat /\ Timer \notin UptimeReaders /\ Timer \in UptimeThreads
  /\ IsFiniteSet(UptimeThreads) /\ Cardinality(UptimeThreads) \in Nat
<1>1. /\ UPTIME_FREQ \in Nat /\ MaxJiffies \in Nat /\ MaxWarps \in Nat /\ Delay \in Nat
      /\ Warps \subseteq Nat /\ Timer \notin UptimeReaders /\ IsFiniteSet(UptimeReaders)
  BY ReadersAssumption DEF Uptime!UptimeAssumption, Uptime!IsFiniteSet, IsFiniteSet
<1> QED
  BY <1>1, FS_AddElement, FS_CardinalityType DEF UptimeThreads

\* What is far apart is farther apart than what the base and the clock may be off by together.
Apart ==
  \A a, b \in offsets : a # b => \/ a - b > UPTIME_FREQ + 2 * Err + 2 * Delay
                                 \/ b - a > UPTIME_FREQ + 2 * Err + 2 * Delay

LEMMA MarginsTyped == UptimeTypes => Err \in Nat /\ Slow \in Nat
<1> SUFFICES ASSUME UptimeTypes PROVE Err \in Nat /\ Slow \in Nat
  OBVIOUS
<1>1. Err \in Nat
  BY ErrNumber DEF Err, UptimeTypes
<1>2. Uptime!Resyncs \in Nat
  BY DEF Uptime!Resyncs, UptimeTypes
<1> QED
  BY <1>1, <1>2, UptimeConstants DEF Slow

LEMMA FarApartMeans == UptimeTypes => (Uptime!FarApart <=> Apart)
<1> SUFFICES ASSUME UptimeTypes PROVE Uptime!FarApart <=> Apart
  OBVIOUS
<1>1. \A n, d \in Nat : 2 * (n + 1) * d = 2 * (n * d) + 2 * d
  OBVIOUS
<1>2. 2 * (fixes + 1) * Delay = 2 * Err + 2 * Delay
  BY <1>1, UptimeConstants DEF UptimeTypes, Err
<1>3. UPTIME_FREQ + 2 * (fixes + 1) * Delay = UPTIME_FREQ + 2 * Err + 2 * Delay
  BY <1>2, MarginsTyped, UptimeConstants
<1> QED
  BY <1>3 DEF Uptime!FarApart, Apart

\* The bounds grow, and what was far apart may no longer be.
Margins ==
  /\ Err \in Nat /\ Slow \in Nat /\ Err' \in Nat /\ Slow' \in Nat /\ Err <= Err' /\ Slow <= Slow'
  /\ Uptime!FarApart' => Uptime!FarApart

LEMMA MarginsGrow ==
  ASSUME UptimeTypes, UptimeTypes', version <= version', fixes <= fixes',
         offsets \subseteq offsets'
  PROVE  Margins
<1>1. Err \in Nat /\ Err' \in Nat /\ Err <= Err'
  BY ErrNumber, ErrGrows DEF Err, UptimeTypes
<1>2. Slow \in Nat /\ Slow' \in Nat /\ Slow <= Slow'
  <2>1. /\ Uptime!Resyncs \in Nat /\ Uptime!Resyncs' \in Nat
        /\ Uptime!Resyncs <= Uptime!Resyncs'
    <3>1. \A m, n \in Nat : m <= n => (m + 1) \div 2 \in Nat /\ (n + 1) \div 2 \in Nat
                                       /\ (m + 1) \div 2 <= (n + 1) \div 2
      OBVIOUS
    <3>2. version \in Nat /\ version' \in Nat
      BY DEF UptimeTypes
    <3> QED
      BY <3>1, <3>2 DEF Uptime!Resyncs
  <2>2. PICK k \in Nat : Uptime!Resyncs' = Uptime!Resyncs + k
    BY <2>1
  <2>3. \A m, n, d \in Nat : (m + n) * d = m * d + n * d /\ m * d \in Nat /\ n * d \in Nat
    OBVIOUS
  <2>4. /\ Slow' = Slow + k * UPTIME_FREQ
        /\ Slow \in Nat /\ k * UPTIME_FREQ \in Nat
    BY <2>1, <2>2, <2>3, UptimeConstants DEF Slow
  <2> QED
    BY <2>4
<1>3. ASSUME Uptime!FarApart' PROVE Uptime!FarApart
  <2>1. Apart'
    BY <1>3, FarApartMeans, PTL
  <2>2. Apart
    <3> SUFFICES ASSUME NEW a \in offsets, NEW b \in offsets, a # b
                 PROVE  \/ a - b > UPTIME_FREQ + 2 * Err + 2 * Delay
                        \/ b - a > UPTIME_FREQ + 2 * Err + 2 * Delay
      BY DEF Apart
    <3>1. a \in offsets' /\ b \in offsets' /\ a \in Int /\ b \in Int
      BY DEF UptimeTypes
    <3>2. \/ a - b > UPTIME_FREQ + 2 * Err' + 2 * Delay
          \/ b - a > UPTIME_FREQ + 2 * Err' + 2 * Delay
      BY <2>1, <3>1 DEF Apart
    <3> QED
      <4>1. \A m, n, d, f \in Nat : m <= n => f + 2 * m + 2 * d <= f + 2 * n + 2 * d
        OBVIOUS
      <4>2. UPTIME_FREQ + 2 * Err + 2 * Delay <= UPTIME_FREQ + 2 * Err' + 2 * Delay
        BY <1>1, <4>1, UptimeConstants
      <4>3. UPTIME_FREQ \in Nat /\ Delay \in Nat
        BY UptimeConstants
      <4>4. UPTIME_FREQ + 2 * Err + 2 * Delay \in Int /\ UPTIME_FREQ + 2 * Err' + 2 * Delay \in Int
        BY <1>1, <4>3
      <4>5. \A x, y, m, n \in Int : m <= n /\ (x - y > n \/ y - x > n) => x - y > m \/ y - x > m
        OBVIOUS
      <4> QED
        BY <3>1, <3>2, <4>2, <4>4, <4>5
  <2> QED
    BY <2>2, FarApartMeans
<1> QED
  BY <1>1, <1>2, <1>3 DEF Margins

LEMMA MarginsSame ==
  ASSUME UptimeTypes, UNCHANGED <<version, fixes, offsets>>
  PROVE  /\ Err' = Err /\ Slow' = Slow /\ Err \in Nat /\ Slow \in Nat
         /\ Uptime!FarApart' <=> Uptime!FarApart
BY MarginsTyped DEF Err, Slow, Uptime!Resyncs, Uptime!FarApart

LEMMA InitTracking == Uptime!Init => Tracking
<1> USE UptimeConstants
<1> SUFFICES ASSUME Uptime!Init PROVE Tracking
  OBVIOUS
<1>1. UptimeTypes
  BY DEF UptimeTypes, Uptime!Init, Uptime!Threads, UptimeThreads, UptimeSteps
<1>2. Err = 0 /\ Slow \in Nat
  BY <1>1, MarginsTyped DEF Err, Uptime!Init
<1>3. RightBase
  BY <1>2 DEF RightBase, Close, Uptime!Init
<1>5. Counting
  BY <1>2 DEF Counting, Near, Writing, Uptime!Init, Uptime!Threads, UptimeThreads
<1>6. ASSUME NEW t \in UptimeThreads PROVE Consistent(t) /\ Clocked(t) /\ Returned(t)
  BY <1>2 DEF Consistent, Clocked, Returned, Uptime!Init, Uptime!Threads, UptimeThreads
<1> QED
  BY <1>1, <1>3, <1>5, <1>6, UptimeTyped DEF Tracking

LEMMA UptimeTypesStep == UptimeTypes /\ [Uptime!Next]_uptimeVars => UptimeTypes'
<1> USE UptimeConstants DEF Uptime!Threads, UptimeThreads, Uptime!Between
<1> SUFFICES ASSUME UptimeTypes, [Uptime!Next]_uptimeVars PROVE UptimeTypes'
  OBVIOUS
<1>1. CASE UNCHANGED uptimeVars
  BY <1>1 DEF uptimeVars, UptimeTypes
<1>2. CASE Uptime!Tick
  BY <1>2 DEF Uptime!Tick, Uptime!base, Uptime!bases, Uptime!seen, Uptime!taken, UptimeTypes
<1>3. CASE Uptime!SetTimeOfDay
  BY <1>3 DEF Uptime!SetTimeOfDay, Uptime!base, Uptime!bases, Uptime!seen, Uptime!taken,
     UptimeTypes
<1>4. CASE Uptime!Resync
  <2> USE DEF Uptime!Goto, Uptime!host, Uptime!base, Uptime!bases, Uptime!seen, Uptime!taken,
        UptimeTypes, UptimeSteps
  <2>1. CASE Uptime!BeginWrite
    BY <2>1 DEF Uptime!BeginWrite
  <2>2. CASE Uptime!WriteMonotimeBase
    BY <2>2 DEF Uptime!WriteMonotimeBase
  <2>3. CASE Uptime!WriteJiffiesBase
    BY <2>3 DEF Uptime!WriteJiffiesBase
  <2>4. CASE Uptime!EndWrite
    BY <2>4 DEF Uptime!EndWrite
  <2> QED
    BY <1>4, <2>1, <2>2, <2>3, <2>4 DEF Uptime!Resync
<1>5. ASSUME NEW t \in UptimeThreads, Uptime!ReadUptimeWork(t) PROVE UptimeTypes'
  <2> USE DEF Uptime!Goto, Uptime!Set, Uptime!host, Uptime!base, Uptime!bases, Uptime!seen,
        Uptime!taken, UptimeTypes
  <2>1. CASE Uptime!Start(t)
    BY <2>1 DEF Uptime!Start, UptimeSteps
  <2>2. CASE Uptime!BeginTryRead(t)
    BY <2>2 DEF Uptime!BeginTryRead, UptimeSteps
  <2>3. CASE Uptime!ReadJiffiesBase(t)
    BY <2>3 DEF Uptime!ReadJiffiesBase, UptimeSteps
  <2>4. CASE Uptime!ReadMonotimeBase(t)
    BY <2>4 DEF Uptime!ReadMonotimeBase, UptimeSteps
  <2>5. CASE Uptime!EndTryRead(t)
    BY <2>5 DEF Uptime!EndTryRead, UptimeSteps
  <2>6. CASE Uptime!ReadClock(t)
    BY <2>6 DEF Uptime!ReadClock, UptimeSteps, Uptime!HostIFGetTime
  <2>7. CASE Uptime!ReadUptimeBase(t)
    BY <2>7 DEF Uptime!ReadUptimeBase, Uptime!Return, UptimeSteps
  <2>8. CASE Uptime!Fix(t)
    BY <2>8 DEF Uptime!Fix, Uptime!Return, UptimeSteps, Uptime!Monotime
  <2>9. CASE Uptime!Leave(t)
    BY <2>9 DEF Uptime!Leave, UptimeSteps
  <2> QED
    BY <1>5, <2>1, <2>2, <2>3, <2>4, <2>5, <2>6, <2>7, <2>8, <2>9 DEF Uptime!ReadUptimeWork
<1> QED
  BY <1>1, <1>2, <1>3, <1>4, <1>5 DEF Uptime!Next

\* A thread leaves the others' variables alone.
OnlyBy(t) ==
  \A u \in UptimeThreads \ {t} :
    /\ uptimePc'[u] = uptimePc[u] /\ readVersion'[u] = readVersion[u] /\ jifs'[u] = jifs[u]
    /\ jifBase'[u] = jifBase[u] /\ monoBase'[u] = monoBase[u] /\ upBase'[u] = upBase[u]
    /\ clock'[u] = clock[u] /\ uptimes'[u] = uptimes[u]

\* The bases are written when the version is odd, and then it changes.
BasesBy ==
  /\ version' >= version
  /\ version' = version /\ version % 2 = 0 => UNCHANGED <<jiffiesBase, monotimeBase>>

BaseMoves ==
  \/ fixes' = fixes /\ uptimeBase' = uptimeBase
  \/ fixes' = fixes + 1

LEMMA ThreadOnly ==
  ASSUME UptimeTypes, NEW t \in UptimeThreads,
         Uptime!ReadUptimeWork(t) \/ (t = Timer /\ Uptime!Resync)
  PROVE  OnlyBy(t) /\ BaseMoves /\ UNCHANGED <<jiffies, warped, warps, offsets>>
<1> USE DEF Uptime!Goto, Uptime!Set, Uptime!host, Uptime!base, Uptime!bases, Uptime!seen,
        Uptime!taken, UptimeTypes, OnlyBy, BaseMoves
<1>1. CASE Uptime!Start(t)
  BY <1>1 DEF Uptime!Start
<1>2. CASE Uptime!BeginTryRead(t)
  BY <1>2 DEF Uptime!BeginTryRead
<1>3. CASE Uptime!ReadJiffiesBase(t)
  BY <1>3 DEF Uptime!ReadJiffiesBase
<1>4. CASE Uptime!ReadMonotimeBase(t)
  BY <1>4 DEF Uptime!ReadMonotimeBase
<1>5. CASE Uptime!EndTryRead(t)
  BY <1>5 DEF Uptime!EndTryRead
<1>6. CASE Uptime!ReadClock(t)
  BY <1>6 DEF Uptime!ReadClock, Uptime!HostIFGetTime
<1>7. CASE Uptime!ReadUptimeBase(t)
  BY <1>7 DEF Uptime!ReadUptimeBase, Uptime!Return
<1>8. CASE Uptime!Fix(t)
  BY <1>8 DEF Uptime!Fix, Uptime!Return, Uptime!Monotime
<1>9. CASE Uptime!Leave(t)
  BY <1>9 DEF Uptime!Leave
<1>10. CASE t = Timer /\ Uptime!Resync
  BY <1>10 DEF Uptime!Resync, Uptime!BeginWrite, Uptime!WriteMonotimeBase,
     Uptime!WriteJiffiesBase,
     Uptime!EndWrite
<1> QED
  BY <1>1, <1>2, <1>3, <1>4, <1>5, <1>6, <1>7, <1>8, <1>9, <1>10 DEF Uptime!ReadUptimeWork

LEMMA OthersTrack ==
  ASSUME UptimeTypes, UptimeTypes', NEW t,
         OnlyBy(t), BasesBy, BaseMoves, UNCHANGED <<jiffies, warped, warps, offsets>>,
         NEW u \in UptimeThreads \ {t}, Consistent(u), Clocked(u), Returned(u)
  PROVE  Consistent(u)' /\ Clocked(u)' /\ Returned(u)'
<1>1. /\ Margins /\ Delay \in Nat /\ UPTIME_FREQ \in Nat
      /\ uptimeBase' # uptimeBase => Err' = Err + Delay
  <2>1. fixes \in Nat /\ fixes' \in Nat /\ fixes <= fixes' /\ version <= version'
    BY DEF UptimeTypes, BaseMoves, BasesBy
  <2> QED
    BY <2>1, ErrNumber, MarginsGrow, UptimeConstants DEF Err, BaseMoves
<1>2. /\ uptimePc'[u] = uptimePc[u] /\ readVersion'[u] = readVersion[u] /\ jifs'[u] = jifs[u]
      /\ jifBase'[u] = jifBase[u] /\ monoBase'[u] = monoBase[u] /\ upBase'[u] = upBase[u]
      /\ clock'[u] = clock[u] /\ uptimes'[u] = uptimes[u] /\ jiffies' = jiffies
  BY DEF OnlyBy
<1>3. /\ readVersion[u] \in Nat /\ jifs[u] \in Nat /\ jifBase[u] \in Int /\ monoBase[u] \in Int
      /\ upBase[u] \in Int /\ clock[u] \in Int /\ uptimes[u] \in Int /\ jiffies \in Int
      /\ version \in Nat /\ version' \in Nat
  BY DEF UptimeTypes
<1>4. Consistent(u)'
  <2>1. readVersion'[u] <= version'
    BY <1>2, <1>3 DEF Consistent, BasesBy
  <2>2. readVersion'[u] = version' /\ version' % 2 = 0 =>
          /\ uptimePc'[u] \in {"mono", "end"} => jifBase'[u] = jiffiesBase'
          /\ uptimePc'[u] = "end" => monoBase'[u] = monotimeBase'
    <3> SUFFICES ASSUME readVersion'[u] = version', version' % 2 = 0
                 PROVE  /\ uptimePc'[u] \in {"mono", "end"} => jifBase'[u] = jiffiesBase'
                        /\ uptimePc'[u] = "end" => monoBase'[u] = monotimeBase'
      OBVIOUS
    <3>1. readVersion[u] <= version /\ version <= version'
      BY DEF Consistent, BasesBy
    <3>2. version' = version /\ readVersion[u] = version /\ version % 2 = 0
      BY <1>2, <1>3, <3>1
    <3>3. jiffiesBase' = jiffiesBase /\ monotimeBase' = monotimeBase
      BY <3>2 DEF BasesBy
    <3>4. /\ uptimePc[u] \in {"mono", "end"} => jifBase[u] = jiffiesBase
          /\ uptimePc[u] = "end" => monoBase[u] = monotimeBase
      BY <3>2 DEF Consistent
    <3> QED
      BY <1>2, <3>3, <3>4
  <2>3. uptimePc'[u] \in {"clock", "upbase", "fix"} => Near(monoBase[u] - jifBase[u])'
    BY <1>1, <1>2, <1>3 DEF Consistent, Near, Margins
  <2>4. uptimePc'[u] = "fix" /\ upBase'[u] # uptimeBase' /\ Uptime!FarApart' =>
          monoBase'[u] - jifBase'[u] <= Err'
    BY <1>1, <1>2, <1>3 DEF Consistent, Near, Margins
  <2> QED
    BY <2>1, <2>2, <2>3, <2>4 DEF Consistent
<1>5. Clocked(u)'
  BY <1>1, <1>2, <1>3 DEF Clocked, ReadAt
<1>6. Returned(u)'
  BY <1>1, <1>2, <1>3 DEF Returned, Margins
<1> QED
  BY <1>4, <1>5, <1>6

\* A step of t alone, what is left to be shown of it.
OwnTrack(t) ==
  /\ Counting /\ RightBase
  /\ Consistent(t) /\ Clocked(t) /\ Returned(t)

LEMMA OwnStep ==
  ASSUME Tracking, UptimeTypes,
         NEW t \in UptimeThreads, UptimeTypes', BasesBy,
         Uptime!ReadUptimeWork(t) \/ (t = Timer /\ Uptime!Resync),
         OwnTrack(t)'
  PROVE  Tracking'
<1>1. OnlyBy(t) /\ BaseMoves /\ UNCHANGED <<jiffies, warped, warps, offsets>>
  BY ThreadOnly
<1>2. ASSUME NEW u \in UptimeThreads \ {t}
      PROVE  Consistent(u)' /\ Clocked(u)' /\ Returned(u)'
  BY <1>1, <1>2, OthersTrack DEF Tracking
<1>3. Uptime!TypeOK'
  BY UptimeTyped, PTL
<1>4. UptimeThreads' = UptimeThreads
  BY DEF UptimeThreads
<1> QED
  BY <1>2, <1>3, <1>4 DEF Tracking, OwnTrack

\* A wider range has what a narrower one has.
LEMMA Wider ==
  ASSUME NEW e \in Int, NEW m \in Nat, NEW n \in Nat, m <= n, NEW d \in Nat, -m <= e, e <= m + d
  PROVE  -n <= e /\ e <= n + d
OBVIOUS

\* The same, with no more room above.
LEMMA WiderBoth ==
  ASSUME NEW e \in Int, NEW m \in Nat, NEW n \in Nat, m <= n, -m <= e, e <= m
  PROVE  -n <= e /\ e <= n
OBVIOUS

\* What is near stays near while it does not change.
LEMMA NearKept ==
  ASSUME Margins, Delay \in Nat, NEW e \in Int, Near(e)
  PROVE  /\ -Slow' <= e /\ e <= Slow'
         /\ Uptime!FarApart' => -Err' <= e /\ e <= Err' + Delay
<1>1. /\ Err \in Nat /\ Slow \in Nat /\ Err' \in Nat /\ Slow' \in Nat
      /\ Err <= Err' /\ Slow <= Slow' /\ (Uptime!FarApart' => Uptime!FarApart)
  BY DEF Margins
<1>2. /\ -Slow <= e /\ e <= Slow
      /\ Uptime!FarApart => -Err <= e /\ e <= Err + Delay
  BY DEF Near
<1>3. -Slow' <= e /\ e <= Slow'
  BY <1>1, <1>2, WiderBoth
<1>4. ASSUME Uptime!FarApart' PROVE -Err' <= e /\ e <= Err' + Delay
  <2>1. -Err <= e /\ e <= Err + Delay
    BY <1>1, <1>2, <1>4
  <2> QED
    BY <1>1, <2>1, Wider
<1> QED
  BY <1>3, <1>4

\* What the bases are, and what was read of them, at a step of t that neither writes nor moves them.
LEMMA CountingKept ==
  ASSUME UptimeTypes, UptimeTypes', Counting, NEW t \in UptimeThreads, OnlyBy(t),
         UNCHANGED <<version, monotimeBase, jiffiesBase>>, Margins,
         uptimePc[t] \notin {"write", "writemono", "writebase", "endwrite"},
         uptimePc'[t] \notin {"writemono", "writebase", "endwrite"},
         t = Timer /\ uptimePc'[t] = "write" => NearNext(uptimes[t] - jifs[t])'
  PROVE  Counting'
<1> USE UptimeConstants
<1>3. /\ monotimeBase \in Int /\ jiffiesBase \in Int /\ version' = version
      /\ monotimeBase' = monotimeBase /\ jiffiesBase' = jiffiesBase /\ Delay \in Nat
  BY DEF UptimeTypes
<1>4. ASSUME Near(monotimeBase - jiffiesBase) PROVE Near(monotimeBase - jiffiesBase)'
  <2> DEFINE e == monotimeBase - jiffiesBase
  <2>1. e \in Int /\ e' = e /\ Near(e)
    BY <1>3, <1>4
  <2> HIDE DEF e
  <2>2. /\ -Slow' <= e' /\ e' <= Slow'
        /\ Uptime!FarApart' => -Err' <= e' /\ e' <= Err' + Delay
    BY <1>3, <2>1, NearKept
  <2> QED
    BY <2>2 DEF Near, e
<1>1. CASE t = Timer
  <2>1. uptimePc[Timer] \notin Writing /\ uptimePc'[Timer] \notin Writing /\ uptimePc'[Timer] # "writebase"
    BY <1>1 DEF Writing
  <2>2. ~(version % 2 = 1) /\ Near(monotimeBase - jiffiesBase)
    BY <1>1, <2>1 DEF Counting
  <2>3. /\ uptimePc'[Timer] = "write" => NearNext(uptimes[Timer] - jifs[Timer])'
        /\ uptimePc'[Timer] \notin {"writemono", "writebase"}
    BY <1>1
  <2> QED
    BY <1>3, <1>4, <2>1, <2>2, <2>3 DEF Counting, Writing
<1>2. CASE t # Timer
  <2>1. uptimePc'[Timer] = uptimePc[Timer] /\ uptimes'[Timer] = uptimes[Timer] /\ jifs'[Timer] = jifs[Timer]
    BY <1>2 DEF OnlyBy
  <2>2. uptimes[Timer] \in Int /\ jifs[Timer] \in Nat
    BY DEF UptimeTypes
  <2>3. /\ Near(uptimes[Timer] - jifs[Timer]) => Near(uptimes[Timer] - jifs[Timer])'
        /\ NearNext(uptimes[Timer] - jifs[Timer]) => NearNext(uptimes[Timer] - jifs[Timer])'
    BY <1>3, <2>1, <2>2 DEF Near, NearNext, Margins
  <2> QED
    BY <1>3, <1>4, <2>1, <2>3 DEF Counting, Writing
<1> QED
  BY <1>1, <1>2

\* A step at which nothing is moved or written.
LEMMA ReadingStep ==
  ASSUME Tracking, UptimeTypes, UptimeTypes',
         NEW t \in UptimeThreads, OnlyBy(t), UNCHANGED <<jiffies, warped, warps, offsets>>,
         UNCHANGED <<version, monotimeBase, jiffiesBase, uptimeBase, fixes>>,
         uptimePc[t] \notin {"write", "writemono", "writebase", "endwrite"},
         uptimePc'[t] \notin {"writemono", "writebase", "endwrite"},
         t = Timer /\ uptimePc'[t] = "write" => NearNext(uptimes[t] - jifs[t])',
         Consistent(t)', Clocked(t)', Returned(t)'
  PROVE  OwnTrack(t)' /\ BasesBy
<1>1. /\ Err' = Err /\ Slow' = Slow /\ Err \in Nat /\ Slow \in Nat
      /\ Uptime!FarApart' <=> Uptime!FarApart
  BY MarginsSame
<1>2. Counting'
  BY <1>1, CountingKept DEF Tracking, Margins
<1>3. RightBase'
  BY <1>1 DEF Tracking, RightBase, Close
<1>4. BasesBy
  BY DEF BasesBy, UptimeTypes
<1> QED
  BY <1>2, <1>3, <1>4 DEF OwnTrack

LEMMA StartTracks ==
  ASSUME Tracking, UptimeTypes, UptimeTypes',
         NEW t \in UptimeThreads, Uptime!Start(t) \/ Uptime!BeginTryRead(t) \/ Uptime!Leave(t)
  PROVE  OwnTrack(t)' /\ BasesBy
<1> USE UptimeConstants DEF Uptime!Goto, Uptime!Set, Uptime!host, Uptime!base, Uptime!bases,
        Uptime!seen,
        Uptime!taken, UptimeTypes
<1>1. OnlyBy(t) /\ UNCHANGED <<jiffies, warped, warps, offsets>>
  BY ThreadOnly DEF Uptime!ReadUptimeWork
<1>2. Consistent(t) /\ Clocked(t)
  BY DEF Tracking
<1>3. CASE Uptime!Start(t)
  <2>1. uptimePc'[t] = "begin" /\ uptimePc[t] = "out" /\ readVersion'[t] = readVersion[t] /\ jifs'[t] = jifs[t]
    BY <1>3 DEF Uptime!Start
  <2>2. UNCHANGED <<version, monotimeBase, jiffiesBase, uptimeBase, fixes>>
    BY <1>3 DEF Uptime!Start
  <2>3. Consistent(t)' /\ Clocked(t)' /\ Returned(t)'
    BY <1>1, <1>2, <2>1, <2>2 DEF Consistent, Clocked, Returned
  <2> QED
    BY <1>1, <2>1, <2>2, <2>3, ReadingStep
<1>4. CASE Uptime!BeginTryRead(t)
  <2>1. uptimePc'[t] = "base" /\ uptimePc[t] = "begin" /\ readVersion'[t] = version /\ jifs'[t] = jiffies
    BY <1>4 DEF Uptime!BeginTryRead
  <2>2. UNCHANGED <<version, monotimeBase, jiffiesBase, uptimeBase, fixes>>
    BY <1>4 DEF Uptime!BeginTryRead
  <2>3. Consistent(t)' /\ Clocked(t)' /\ Returned(t)'
    BY <1>1, <2>1, <2>2 DEF Consistent, Clocked, Returned
  <2> QED
    BY <1>1, <2>1, <2>2, <2>3, ReadingStep
<1>5. CASE Uptime!Leave(t)
  <2>1. uptimePc'[t] = "out" /\ uptimePc[t] = "done" /\ readVersion'[t] = 0 /\ jifs'[t] = 0
    BY <1>5 DEF Uptime!Leave
  <2>2. UNCHANGED <<version, monotimeBase, jiffiesBase, uptimeBase, fixes>>
    BY <1>5 DEF Uptime!Leave
  <2>3. Consistent(t)' /\ Clocked(t)' /\ Returned(t)'
    BY <1>1, <2>1, <2>2 DEF Consistent, Clocked, Returned
  <2> QED
    BY <1>1, <2>1, <2>2, <2>3, ReadingStep
<1> QED
  BY <1>3, <1>4, <1>5

LEMMA BasesTrack ==
  ASSUME Tracking, UptimeTypes, UptimeTypes',
         NEW t \in UptimeThreads,
         Uptime!ReadJiffiesBase(t) \/ Uptime!ReadMonotimeBase(t) \/ Uptime!EndTryRead(t)
  PROVE  OwnTrack(t)' /\ BasesBy
<1> USE UptimeConstants DEF Uptime!Goto, Uptime!Set, Uptime!host, Uptime!base, Uptime!bases,
        Uptime!seen,
        Uptime!taken, UptimeTypes
<1>1. OnlyBy(t) /\ UNCHANGED <<jiffies, warped, warps, offsets>>
  BY ThreadOnly DEF Uptime!ReadUptimeWork
<1>2. Consistent(t) /\ Clocked(t) /\ Counting
  BY DEF Tracking
<1>3. CASE Uptime!ReadJiffiesBase(t)
  <2>1. /\ uptimePc'[t] = "mono" /\ uptimePc[t] = "base" /\ readVersion'[t] = readVersion[t]
        /\ jifs'[t] = jifs[t] /\ jifBase'[t] = jiffiesBase
    BY <1>3 DEF Uptime!ReadJiffiesBase
  <2>2. UNCHANGED <<version, monotimeBase, jiffiesBase, uptimeBase, fixes>>
    BY <1>3 DEF Uptime!ReadJiffiesBase
  <2>3. Consistent(t)' /\ Clocked(t)' /\ Returned(t)'
    BY <1>1, <1>2, <2>1, <2>2 DEF Consistent, Clocked, Returned
  <2> QED
    BY <1>1, <2>1, <2>2, <2>3, ReadingStep
<1>4. CASE Uptime!ReadMonotimeBase(t)
  <2>1. /\ uptimePc'[t] = "end" /\ uptimePc[t] = "mono" /\ readVersion'[t] = readVersion[t]
        /\ jifs'[t] = jifs[t] /\ jifBase'[t] = jifBase[t] /\ monoBase'[t] = monotimeBase
    BY <1>4 DEF Uptime!ReadMonotimeBase
  <2>2. UNCHANGED <<version, monotimeBase, jiffiesBase, uptimeBase, fixes>>
    BY <1>4 DEF Uptime!ReadMonotimeBase
  <2>3. Consistent(t)' /\ Clocked(t)' /\ Returned(t)'
    BY <1>1, <1>2, <2>1, <2>2 DEF Consistent, Clocked, Returned
  <2> QED
    BY <1>1, <2>1, <2>2, <2>3, ReadingStep
<1>5. CASE Uptime!EndTryRead(t)
  <2>1. /\ uptimePc'[t] = IF version = readVersion[t] /\ readVersion[t] % 2 = 0 THEN "clock" ELSE "begin"
        /\ uptimePc[t] = "end" /\ readVersion'[t] = readVersion[t]
        /\ jifs'[t] = jifs[t] /\ jifBase'[t] = jifBase[t] /\ monoBase'[t] = monoBase[t]
    BY <1>5 DEF Uptime!EndTryRead
  <2>2. UNCHANGED <<version, monotimeBase, jiffiesBase, uptimeBase, fixes>>
    BY <1>5 DEF Uptime!EndTryRead
  <2>3. CASE version = readVersion[t] /\ readVersion[t] % 2 = 0
    <3>1. jifBase[t] = jiffiesBase /\ monoBase[t] = monotimeBase
      BY <1>2, <2>1, <2>3 DEF Consistent
    <3>2. Near(monotimeBase - jiffiesBase)
      BY <1>2, <2>3 DEF Counting, Writing
    <3>3. Consistent(t)' /\ Clocked(t)' /\ Returned(t)'
      BY <1>1, <1>2, <2>1, <2>2, <2>3, <3>1, <3>2, MarginsSame DEF Consistent, Clocked, Returned, Near
    <3> QED
      BY <1>1, <2>1, <2>2, <2>3, <3>3, ReadingStep
  <2>4. CASE ~(version = readVersion[t] /\ readVersion[t] % 2 = 0)
    <3>3. Consistent(t)' /\ Clocked(t)' /\ Returned(t)'
      BY <1>1, <1>2, <2>1, <2>2, <2>4 DEF Consistent, Clocked, Returned
    <3> QED
      BY <1>1, <2>1, <2>2, <2>4, <3>3, ReadingStep
  <2> QED
    BY <2>3, <2>4
<1> QED
  BY <1>3, <1>4, <1>5

LEMMA ReadClockTracks ==
  ASSUME Tracking, UptimeTypes, UptimeTypes',
         NEW t \in UptimeThreads, Uptime!ReadClock(t)
  PROVE  OwnTrack(t)' /\ BasesBy
<1> USE UptimeConstants DEF Uptime!Goto, Uptime!Set, Uptime!host, Uptime!base, Uptime!bases,
        Uptime!seen,
        Uptime!taken, UptimeTypes
<1>1. OnlyBy(t) /\ UNCHANGED <<jiffies, warped, warps, offsets>>
  BY ThreadOnly DEF Uptime!ReadUptimeWork
<1>2. Consistent(t) /\ Clocked(t)
  BY DEF Tracking
<1>3. /\ uptimePc'[t] = "upbase" /\ uptimePc[t] = "clock" /\ readVersion'[t] = readVersion[t]
      /\ jifs'[t] = jifs[t] /\ jifBase'[t] = jifBase[t] /\ monoBase'[t] = monoBase[t]
      /\ clock'[t] = jiffies + warped
  BY DEF Uptime!ReadClock, Uptime!HostIFGetTime
<1>4. UNCHANGED <<version, monotimeBase, jiffiesBase, uptimeBase, fixes>>
  BY DEF Uptime!ReadClock
<1>5. ReadAt(t, warped)' /\ clock'[t] - warped <= jiffies'
  BY <1>1, <1>2, <1>3 DEF Clocked, ReadAt
<1>6. Clocked(t)'
  BY <1>1, <1>2, <1>3, <1>5 DEF Clocked, ReadAt
<1>7. Consistent(t)' /\ Returned(t)'
  BY <1>1, <1>2, <1>3, <1>4, MarginsSame DEF Consistent, Returned, Near
<1> QED
  BY <1>1, <1>3, <1>4, <1>6, <1>7, ReadingStep

\* A clock and a base that are not noticed to differ are of the same time of day, where a change of
\* it is noticed; they are a second apart at the most, where it is not.
LEMMA ReadUptimeBaseTracks ==
  ASSUME Tracking, UptimeTypes, UptimeTypes',
         NEW t \in UptimeThreads, Uptime!ReadUptimeBase(t)
  PROVE  OwnTrack(t)' /\ BasesBy
<1> USE UptimeConstants DEF Uptime!Goto, Uptime!Set, Uptime!host, Uptime!base, Uptime!bases,
        Uptime!seen,
        Uptime!taken, UptimeTypes
<1>1. OnlyBy(t) /\ UNCHANGED <<jiffies, warped, warps, offsets>>
  BY ThreadOnly DEF Uptime!ReadUptimeWork
<1>2. Consistent(t) /\ Clocked(t)
  BY DEF Tracking
<1>3. /\ uptimePc[t] = "upbase" /\ readVersion'[t] = readVersion[t]
      /\ jifs'[t] = jifs[t] /\ jifBase'[t] = jifBase[t] /\ monoBase'[t] = monoBase[t]
      /\ clock'[t] = clock[t] /\ upBase'[t] = uptimeBase
  BY DEF Uptime!ReadUptimeBase
<1>4. UNCHANGED <<version, monotimeBase, jiffiesBase, uptimeBase, fixes>>
  BY DEF Uptime!ReadUptimeBase
<1>5. /\ Err' = Err /\ Slow' = Slow /\ Err \in Nat /\ Slow \in Nat
      /\ Uptime!FarApart' <=> Uptime!FarApart
  BY <1>1, <1>4, MarginsSame
<1>6. /\ jifs[t] \in Nat /\ jifBase[t] \in Int /\ monoBase[t] \in Int /\ clock[t] \in Int
      /\ uptimeBase \in Int /\ jiffies \in Int
  OBVIOUS
<1>7. Near(monoBase[t] - jifBase[t])
  BY <1>2, <1>3 DEF Consistent
<1>8. PICK off \in offsets : ReadAt(t, off) /\ clock[t] - off <= jiffies
  BY <1>2, <1>3 DEF Clocked
<1>9. off \in Int
  BY <1>8
<1>10. CASE Differ(t)'
  <2>1. uptimePc'[t] = "fix"
    BY <1>3, <1>6, <1>10 DEF Differ, Uptime!ReadUptimeBase, Uptime!Monotime
  <2>2. Consistent(t)'
    BY <1>2, <1>3, <1>4, <1>5, <1>6, <1>7, <2>1 DEF Consistent, Near
  <2>3. Clocked(t)'
    BY <1>1, <1>2, <1>3, <1>8, <2>1 DEF Clocked, ReadAt
  <2>4. Returned(t)'
    BY <2>1 DEF Returned
  <2> QED
    BY <1>1, <1>3, <1>4, <2>1, <2>2, <2>3, <2>4, ReadingStep
<1>11. CASE ~Differ(t)'
  <2>1. uptimePc'[t] = (IF t = Timer THEN "write" ELSE "done") /\ uptimes'[t] = clock[t] + uptimeBase
    BY <1>3, <1>6, <1>11 DEF Differ, Uptime!ReadUptimeBase, Uptime!Return, Uptime!Monotime
  <2>2. /\ -UPTIME_FREQ <= clock[t] + uptimeBase - (jifs[t] - jifBase[t] + monoBase[t])
        /\ clock[t] + uptimeBase - (jifs[t] - jifBase[t] + monoBase[t]) <= UPTIME_FREQ
    BY <1>3, <1>6, <1>11 DEF Differ
  <2>3. /\ -(Slow + UPTIME_FREQ) <= clock[t] + uptimeBase - jifs[t]
        /\ clock[t] + uptimeBase - jifs[t] <= Slow + UPTIME_FREQ
    BY <1>5, <1>6, <1>7, <2>2 DEF Near
  <2>4. ASSUME Uptime!FarApart
        PROVE  /\ jifs[t] - Err <= clock[t] + uptimeBase /\ clock[t] + uptimeBase <= jiffies + Err
               /\ clock[t] + uptimeBase - jifs[t] <= Err + Delay
    <3>1. PICK at \in offsets : Close(uptimeBase + at)
      BY <2>4 DEF Tracking, RightBase
    <3>2. at \in Int
      BY <3>1
    <3>3. /\ off - at <= UPTIME_FREQ + 2 * Err + 2 * Delay
          /\ at - off <= UPTIME_FREQ + 2 * Err + 2 * Delay
      BY <1>5, <1>6, <1>7, <1>8, <1>9, <2>2, <2>4, <3>1, <3>2 DEF Near, ReadAt, Close
    <3>4. at = off
      BY <1>5, <1>8, <1>9, <2>4, <3>1, <3>2, <3>3, FarApartMeans DEF Apart
    <3> QED
      BY <1>5, <1>6, <1>8, <1>9, <3>1, <3>4 DEF ReadAt, Close
  <2>5. NearNext(uptimes[t] - jifs[t])'
    BY <1>3, <1>5, <1>6, <2>1, <2>3, <2>4 DEF NearNext
  <2>6. Returned(t)'
    BY <1>1, <1>3, <1>5, <1>6, <2>1, <2>3, <2>4 DEF Returned
  <2>7. Consistent(t)' /\ Clocked(t)'
    BY <1>1, <1>2, <1>3, <1>4, <2>1 DEF Consistent, Clocked
  <2> QED
    BY <1>1, <1>3, <1>4, <2>1, <2>5, <2>6, <2>7, ReadingStep
<1> QED
  BY <1>10, <1>11

\* The base is moved, to the time that is counted.
LEMMA FixMoves ==
  ASSUME Tracking, UptimeTypes, UptimeTypes',
         NEW t \in UptimeThreads, Uptime!Fix(t), uptimeBase = upBase[t]
  PROVE  OwnTrack(t)' /\ BasesBy
<1> USE UptimeConstants DEF Uptime!Goto, Uptime!Set, Uptime!host, Uptime!base, Uptime!bases,
        Uptime!seen,
        Uptime!taken, UptimeTypes
<1>1. OnlyBy(t) /\ UNCHANGED <<jiffies, warped, warps, offsets>>
  BY ThreadOnly DEF Uptime!ReadUptimeWork
<1>2. Consistent(t) /\ Clocked(t) /\ Counting
  BY DEF Tracking
<1>3. /\ uptimePc[t] = "fix" /\ readVersion'[t] = readVersion[t]
      /\ jifs'[t] = jifs[t] /\ jifBase'[t] = jifBase[t] /\ monoBase'[t] = monoBase[t]
      /\ clock'[t] = clock[t] /\ upBase'[t] = upBase[t]
      /\ uptimePc'[t] = (IF t = Timer THEN "write" ELSE "done")
  BY DEF Uptime!Fix, Uptime!Return
<1>4. /\ UNCHANGED <<version, monotimeBase, jiffiesBase>> /\ fixes' = fixes + 1
      /\ uptimeBase' = jifs[t] - jifBase[t] + monoBase[t] - clock[t]
      /\ uptimes'[t] = jifs[t] - jifBase[t] + monoBase[t]
  BY DEF Uptime!Fix, Uptime!Return, Uptime!Monotime
<1>5. Err' = Err + Delay /\ Margins
  BY <1>1, <1>4, MarginsGrow, ErrNumber DEF Err
<1>6. /\ jifs[t] \in Nat /\ jifBase[t] \in Int /\ monoBase[t] \in Int /\ clock[t] \in Int
      /\ uptimeBase \in Int /\ jiffies \in Int /\ upBase[t] \in Int
  OBVIOUS
<1>7. Near(monoBase[t] - jifBase[t])
  BY <1>2, <1>3 DEF Consistent
<1>8. PICK off \in offsets : ReadAt(t, off) /\ clock[t] - off <= jiffies
  BY <1>2, <1>3 DEF Clocked
<1>9. off \in Int /\ jifs[t] <= jiffies
  BY <1>2, <1>8 DEF Clocked
<1>10. RightBase'
  <2> SUFFICES ASSUME Uptime!FarApart' PROVE \E at \in offsets' : Close(uptimeBase + at)'
    BY DEF RightBase
  <2>1. Uptime!FarApart
    BY <1>5 DEF Margins
  <2>2. Close(uptimeBase + off)'
    BY <1>4, <1>5, <1>6, <1>7, <1>8, <1>9, <2>1 DEF Close, Near, ReadAt, Margins
  <2>3. off \in offsets'
    BY <1>1, <1>8
  <2> QED
    BY <2>2, <2>3
<1>11. NearNext(uptimes[t] - jifs[t])' /\ Returned(t)'
  <2>1. Near(uptimes'[t] - jifs[t])
    BY <1>4, <1>6, <1>7 DEF Near
  <2> QED
    BY <1>1, <1>3, <1>5, <1>6, <1>9, <2>1 DEF Near, NearNext, Returned, Margins
<1>12. Consistent(t)' /\ Clocked(t)'
  BY <1>1, <1>2, <1>3, <1>4 DEF Consistent, Clocked
<1>13. Counting'
  BY <1>1, <1>2, <1>3, <1>4, <1>5, <1>11, CountingKept
<1> QED
  BY <1>4, <1>10, <1>11, <1>12, <1>13 DEF OwnTrack, BasesBy

LEMMA FixTracks ==
  ASSUME Tracking, UptimeTypes, UptimeTypes',
         NEW t \in UptimeThreads, Uptime!Fix(t)
  PROVE  OwnTrack(t)' /\ BasesBy
<1> USE UptimeConstants DEF Uptime!Goto, Uptime!Set, Uptime!host, Uptime!base, Uptime!bases,
        Uptime!seen,
        Uptime!taken, UptimeTypes
<1> SUFFICES ASSUME uptimeBase # upBase[t] PROVE OwnTrack(t)' /\ BasesBy
  BY FixMoves
<1>1. OnlyBy(t) /\ UNCHANGED <<jiffies, warped, warps, offsets>>
  BY ThreadOnly DEF Uptime!ReadUptimeWork
<1>2. Consistent(t) /\ Clocked(t)
  BY DEF Tracking
<1>3. /\ uptimePc[t] = "fix" /\ readVersion'[t] = readVersion[t]
      /\ jifs'[t] = jifs[t] /\ jifBase'[t] = jifBase[t] /\ monoBase'[t] = monoBase[t]
  BY DEF Uptime!Fix
<1>4. UNCHANGED <<version, monotimeBase, jiffiesBase, uptimeBase, fixes>>
  BY DEF Uptime!Fix
<1>5. /\ Err' = Err /\ Slow' = Slow /\ Err \in Nat /\ Slow \in Nat
      /\ Uptime!FarApart' <=> Uptime!FarApart
  BY <1>1, <1>4, MarginsSame
<1>6. /\ Uptime!FarApart => monoBase[t] - jifBase[t] <= Err
      /\ Near(monoBase[t] - jifBase[t]) /\ jifs[t] <= jiffies
  BY <1>2, <1>3 DEF Consistent, Clocked
<1>7. CASE uptimePc'[t] = "begin"
  <2>1. Consistent(t)' /\ Clocked(t)' /\ Returned(t)'
    BY <1>1, <1>2, <1>3, <1>4, <1>7 DEF Consistent, Clocked, Returned
  <2> QED
    BY <1>1, <1>3, <1>4, <1>7, <2>1, ReadingStep
<1>8. CASE uptimePc'[t] # "begin"
  <2>1. /\ uptimePc'[t] = (IF t = Timer THEN "write" ELSE "done")
        /\ uptimes'[t] = jifs[t] - jifBase[t] + monoBase[t]
    BY <1>8 DEF Uptime!Fix, Uptime!Return, Uptime!Monotime
  <2>2. NearNext(uptimes[t] - jifs[t])' /\ Returned(t)'
    <3>1. /\ jifs[t] \in Nat /\ jifBase[t] \in Int /\ monoBase[t] \in Int /\ jiffies \in Int
      OBVIOUS
    <3> QED
      BY <1>1, <1>3, <1>5, <1>6, <2>1, <3>1 DEF Near, NearNext, Returned
  <2>3. Consistent(t)' /\ Clocked(t)'
    BY <1>1, <1>2, <1>3, <1>4, <2>1 DEF Consistent, Clocked
  <2> QED
    BY <1>1, <1>3, <1>4, <2>1, <2>2, <2>3, ReadingStep
<1> QED
  BY <1>7, <1>8

\* The timer writes the bases one by one, while the version is odd.
LEMMA ResyncTracks ==
  ASSUME Tracking, UptimeTypes, UptimeTypes', Uptime!Resync
  PROVE  OwnTrack(Timer)' /\ BasesBy
<1> USE UptimeConstants DEF Uptime!Goto, Uptime!Set, Uptime!host, Uptime!base, Uptime!bases,
        Uptime!seen,
        Uptime!taken, UptimeTypes
<1>1. OnlyBy(Timer) /\ UNCHANGED <<jiffies, warped, warps, offsets>>
  BY ThreadOnly
<1>2. Consistent(Timer) /\ Clocked(Timer) /\ Counting /\ Returned(Timer)
  BY DEF Tracking
<1>3. /\ uptimeBase' = uptimeBase /\ fixes' = fixes /\ jifs' = jifs /\ uptimes' = uptimes
      /\ readVersion' = readVersion
  BY DEF Uptime!Resync, Uptime!BeginWrite, Uptime!WriteMonotimeBase,
     Uptime!WriteJiffiesBase, Uptime!EndWrite
<1>4. Err' = Err /\ Margins
  <2>1. version <= version'
    BY DEF Uptime!Resync, Uptime!BeginWrite, Uptime!WriteMonotimeBase,
       Uptime!WriteJiffiesBase, Uptime!EndWrite
  <2> QED
    BY <1>1, <1>3, <2>1, MarginsGrow DEF Err
<1>5. RightBase'
  BY <1>1, <1>3, <1>4 DEF Tracking, RightBase, Close, Margins
<1>6. /\ uptimes[Timer] \in Int /\ jifs[Timer] \in Nat /\ monotimeBase \in Int /\ jiffiesBase \in Nat
  OBVIOUS
<1>8. ASSUME Near(monotimeBase - jiffiesBase), UNCHANGED <<monotimeBase, jiffiesBase>>
      PROVE  Near(monotimeBase - jiffiesBase)'
  <2> DEFINE e == monotimeBase - jiffiesBase
  <2>1. e \in Int /\ e' = e /\ Near(e) /\ Delay \in Nat
    BY <1>6, <1>8
  <2> HIDE UptimeConstants DEF UptimeTypes, e
  <2>2. /\ -Slow' <= e' /\ e' <= Slow'
        /\ Uptime!FarApart' => -Err' <= e' /\ e' <= Err' + Delay
    BY <1>4, <2>1, NearKept
  <2> QED
    BY <2>2 DEF Near, e
<1>9. Near(uptimes[Timer] - jifs[Timer]) => Near(uptimes[Timer] - jifs[Timer])'
  <2> DEFINE e == uptimes[Timer] - jifs[Timer]
  <2>1. e \in Int /\ e' = e /\ Delay \in Nat
    BY <1>3, <1>6
  <2> HIDE UptimeConstants DEF UptimeTypes, e
  <2>2. Near(e) => /\ -Slow' <= e' /\ e' <= Slow'
                   /\ Uptime!FarApart' => -Err' <= e' /\ e' <= Err' + Delay
    BY <1>4, <2>1, NearKept
  <2>3. Near(e) <=> Near(uptimes[Timer] - jifs[Timer])
    BY DEF e
  <2> QED
    BY <2>2, <2>3 DEF Near, e
<1>10. CASE Uptime!BeginWrite
  <2>1. uptimePc[Timer] = "write" /\ uptimePc'[Timer] = "writemono" /\ version' = version + 1
        /\ UNCHANGED <<monotimeBase, jiffiesBase>>
    BY <1>10 DEF Uptime!BeginWrite
  <2>2. version % 2 # 1 /\ Near(monotimeBase - jiffiesBase) /\ NearNext(uptimes[Timer] - jifs[Timer])
    BY <1>2, <2>1 DEF Counting, Writing
  <2>3. version' % 2 = 1
    BY <2>1, <2>2
  <2>6. Near(uptimes[Timer] - jifs[Timer])'
    <3>1. Uptime!Resyncs' = Uptime!Resyncs + 1 /\ Uptime!Resyncs \in Nat
      BY <2>1, <2>2 DEF Uptime!Resyncs
    <3>2. Slow' = Slow + UPTIME_FREQ
      <4>1. \A n, d \in Nat : (n + 1) * d = n * d + d
        OBVIOUS
      <4> QED
        BY <3>1, <4>1 DEF Slow
    <3> QED
      BY <1>3, <1>4, <1>6, <2>2, <3>2 DEF Near, NearNext, Margins
  <2>4. Counting'
    BY <1>8, <2>1, <2>2, <2>3, <2>6 DEF Counting, Writing
  <2>5. Consistent(Timer)' /\ Clocked(Timer)' /\ Returned(Timer)'
    BY <1>1, <1>2, <1>3, <1>4, <1>6, <2>1 DEF Consistent, Clocked, Returned, Margins
  <2> QED
    BY <1>5, <2>1, <2>4, <2>5 DEF OwnTrack, BasesBy
<1>11. CASE Uptime!WriteMonotimeBase
  <2>1. uptimePc[Timer] = "writemono" /\ uptimePc'[Timer] = "writebase" /\ version' = version
        /\ monotimeBase' = uptimes[Timer]
    BY <1>11 DEF Uptime!WriteMonotimeBase
  <2>2. version % 2 = 1 /\ Near(uptimes[Timer] - jifs[Timer])
    BY <1>2, <2>1 DEF Counting, Writing
  <2>4. Counting'
    BY <1>3, <1>9, <2>1, <2>2 DEF Counting, Writing
  <2>5. Consistent(Timer)' /\ Clocked(Timer)' /\ Returned(Timer)'
    BY <1>1, <1>2, <1>3, <1>4, <1>6, <2>1 DEF Consistent, Clocked, Returned, Margins
  <2> QED
    BY <1>5, <2>1, <2>2, <2>4, <2>5 DEF OwnTrack, BasesBy
<1>12. CASE Uptime!WriteJiffiesBase
  <2>1. uptimePc[Timer] = "writebase" /\ uptimePc'[Timer] = "endwrite" /\ version' = version
        /\ monotimeBase' = monotimeBase /\ jiffiesBase' = jifs[Timer]
    BY <1>12 DEF Uptime!WriteJiffiesBase
  <2>2. version % 2 = 1 /\ Near(uptimes[Timer] - jifs[Timer]) /\ monotimeBase = uptimes[Timer]
    BY <1>2, <2>1 DEF Counting, Writing
  <2>3. Near(monotimeBase - jiffiesBase)'
    BY <1>4, <1>6, <2>1, <2>2 DEF Near, Margins
  <2>4. Counting'
    BY <2>1, <2>2, <2>3 DEF Counting, Writing
  <2>5. Consistent(Timer)' /\ Clocked(Timer)' /\ Returned(Timer)'
    BY <1>1, <1>2, <1>3, <1>4, <1>6, <2>1 DEF Consistent, Clocked, Returned, Margins
  <2> QED
    BY <1>5, <2>1, <2>2, <2>4, <2>5 DEF OwnTrack, BasesBy
<1>13. CASE Uptime!EndWrite
  <2>1. uptimePc[Timer] = "endwrite" /\ uptimePc'[Timer] = "done" /\ version' = version + 1
        /\ UNCHANGED <<monotimeBase, jiffiesBase>>
    BY <1>13 DEF Uptime!EndWrite
  <2>2. version % 2 = 1 /\ Near(monotimeBase - jiffiesBase)
    BY <1>2, <2>1 DEF Counting, Writing
  <2>3. version' % 2 # 1
    BY <2>1, <2>2
  <2>4. Counting'
    BY <1>8, <2>1, <2>2, <2>3 DEF Counting, Writing
  <2>5. Consistent(Timer)' /\ Clocked(Timer)' /\ Returned(Timer)'
    BY <1>1, <1>2, <1>3, <1>4, <1>6, <2>1 DEF Consistent, Clocked, Returned, Margins
  <2> QED
    BY <1>5, <2>1, <2>4, <2>5 DEF OwnTrack, BasesBy
<1> QED
  BY <1>10, <1>11, <1>12, <1>13 DEF Uptime!Resync

\* Time passes, or the time of day is set.
LEMMA HostTracks ==
  ASSUME Tracking, UptimeTypes, UptimeTypes',
         Uptime!Tick \/ Uptime!SetTimeOfDay
  PROVE  Tracking'
<1> USE UptimeConstants DEF Uptime!host, Uptime!base, Uptime!bases, Uptime!seen, Uptime!taken
<1>1. UNCHANGED <<uptimeBase, fixes, version, monotimeBase, jiffiesBase, uptimePc, readVersion,
                  jifs,
                  jifBase, monoBase, upBase, clock, attempts, uptimes>>
  BY DEF Uptime!Tick, Uptime!SetTimeOfDay
<1>2. /\ Err' = Err /\ Slow' = Slow /\ Margins /\ UPTIME_FREQ \in Nat
      /\ offsets \subseteq offsets'
  <2>1. offsets \subseteq offsets' /\ version' = version /\ fixes' = fixes
    BY <1>1 DEF Uptime!Tick, Uptime!SetTimeOfDay
  <2>2. version <= version' /\ fixes <= fixes'
    BY <2>1 DEF UptimeTypes
  <2> QED
    BY <2>1, <2>2, MarginsGrow DEF Err, Slow, Uptime!Resyncs
<1>3. /\ jiffies' >= jiffies /\ jiffies \in Nat /\ jiffies' \in Nat
      /\ \A t \in UptimeThreads : uptimePc[t] \in {"base", "mono", "end", "clock"} /\ jiffies' # jiffies =>
           jiffies - jifs[t] < Delay /\ jiffies' = jiffies + 1
  BY DEF Uptime!Tick, Uptime!SetTimeOfDay, Uptime!Threads, UptimeThreads, Uptime!Between,
     UptimeTypes
<1>4. Counting'
  BY <1>1, <1>2 DEF Tracking, Counting, Near, NearNext, Margins
<1>5. RightBase'
  BY <1>1, <1>2 DEF Tracking, RightBase, Close, Margins
<1>6. ASSUME NEW t \in UptimeThreads
      PROVE  Consistent(t)' /\ Clocked(t)' /\ Returned(t)'
  <2>1. Consistent(t) /\ Clocked(t) /\ Returned(t)
    BY DEF Tracking
  <2>2. /\ jifs[t] \in Nat /\ clock[t] \in Int /\ uptimes[t] \in Int
    BY DEF UptimeTypes
  <2>3. Consistent(t)'
    BY <1>1, <1>2, <2>1 DEF Consistent, Near, Margins
  <2>4. Clocked(t)'
    <3>1. jifs'[t] <= jiffies'
      BY <1>1, <1>3, <2>1, <2>2 DEF Clocked
    <3>2. uptimePc'[t] \in {"base", "mono", "end", "clock"} => jiffies' <= jifs'[t] + Delay
      BY <1>1, <1>3, <2>1, <2>2 DEF Clocked
    <3>3. uptimePc'[t] \in {"upbase", "fix"} =>
            \E off \in offsets : ReadAt(t, off) /\ clock[t] - off <= jiffies'
      <4> SUFFICES ASSUME uptimePc[t] \in {"upbase", "fix"}
                   PROVE  \E off \in offsets : ReadAt(t, off) /\ clock[t] - off <= jiffies'
        BY <1>1
      <4>1. PICK off \in offsets : ReadAt(t, off) /\ clock[t] - off <= jiffies
        BY <2>1 DEF Clocked
      <4>2. off \in Int
        BY <4>1 DEF UptimeTypes
      <4> QED
        BY <1>3, <2>2, <4>1, <4>2
    <3> QED
      BY <1>1, <1>2, <3>1, <3>2, <3>3 DEF Clocked, ReadAt
  <2>5. Returned(t)'
    BY <1>1, <1>2, <1>3, <2>1, <2>2 DEF Returned, Margins
  <2> QED
    BY <2>3, <2>4, <2>5
<1>8. Uptime!TypeOK'
  BY UptimeTyped, PTL
<1>9. UptimeThreads' = UptimeThreads
  BY DEF UptimeThreads
<1> QED
  BY <1>4, <1>5, <1>6, <1>8, <1>9 DEF Tracking

LEMMA TrackingStep == Tracking /\ [Uptime!Next]_uptimeVars => Tracking'
<1> SUFFICES ASSUME Tracking, [Uptime!Next]_uptimeVars PROVE Tracking'
  OBVIOUS
<1>1. UptimeTypes
  BY UptimeTyped DEF Tracking
<1>2. UptimeTypes'
  BY <1>1, UptimeTypesStep
<1>3. CASE UNCHANGED uptimeVars
  <2>1. UNCHANGED <<jiffies, warped, warps, offsets, uptimeBase, fixes, version, monotimeBase,
  jiffiesBase, uptimePc,
                    readVersion, jifs, jifBase, monoBase, upBase, clock, attempts, uptimes,
                    expires>>
    BY <1>3 DEF uptimeVars
  <2>2. /\ Err' = Err /\ Slow' = Slow
        /\ Uptime!FarApart' <=> Uptime!FarApart
    BY <1>1, <2>1, MarginsSame
  <2>3. Counting' /\ RightBase'
    BY <2>1, <2>2 DEF Tracking, Counting, RightBase, Near, NearNext, Close
  <2>5. \A t \in UptimeThreads : Consistent(t)' /\ Clocked(t)' /\ Returned(t)'
    BY <2>1, <2>2 DEF Tracking, Consistent, Near, Clocked, ReadAt, Returned
  <2>6. Uptime!TypeOK'
    BY <1>2, UptimeTyped, PTL
  <2>7. UptimeThreads' = UptimeThreads
    BY DEF UptimeThreads
  <2> QED
    BY <2>3, <2>5, <2>6, <2>7 DEF Tracking
<1>4. ASSUME NEW t \in UptimeThreads, Uptime!ReadUptimeWork(t) PROVE Tracking'
  <2>1. CASE Uptime!Start(t) \/ Uptime!BeginTryRead(t) \/ Uptime!Leave(t)
    BY <1>1, <1>2, <1>4, <2>1, StartTracks, OwnStep
  <2>2. CASE Uptime!ReadJiffiesBase(t) \/ Uptime!ReadMonotimeBase(t) \/ Uptime!EndTryRead(t)
    BY <1>1, <1>2, <1>4, <2>2, BasesTrack, OwnStep
  <2>3. CASE Uptime!ReadClock(t)
    BY <1>1, <1>2, <1>4, <2>3, ReadClockTracks, OwnStep
  <2>4. CASE Uptime!ReadUptimeBase(t)
    BY <1>1, <1>2, <1>4, <2>4, ReadUptimeBaseTracks, OwnStep
  <2>5. CASE Uptime!Fix(t)
    BY <1>1, <1>2, <1>4, <2>5, FixTracks, OwnStep
  <2> QED
    BY <1>4, <2>1, <2>2, <2>3, <2>4, <2>5 DEF Uptime!ReadUptimeWork
<1>5. CASE Uptime!Resync
  BY <1>1, <1>2, <1>5, UptimeConstants, ResyncTracks, OwnStep
<1>6. CASE Uptime!Tick \/ Uptime!SetTimeOfDay
  BY <1>1, <1>2, <1>6, HostTracks
<1> QED
  BY <1>3, <1>4, <1>5, <1>6 DEF Uptime!Next, Uptime!Threads, UptimeThreads

LEMMA TrackingEnough ==
  ASSUME Tracking PROVE Uptime!OnTrack
<1>1. UptimeTypes
  BY UptimeTyped DEF Tracking
<1>2. Err \in Nat /\ Slow \in Nat
  BY <1>1, MarginsTyped
<1>3. (Uptime!Resyncs + 1) * UPTIME_FREQ = Slow + UPTIME_FREQ
  <2>1. \A n, d \in Nat : (n + 1) * d = n * d + d
    OBVIOUS
  <2>2. Uptime!Resyncs \in Nat
    BY <1>1 DEF Uptime!Resyncs, UptimeTypes
  <2> QED
    BY <2>1, <2>2, UptimeConstants DEF Slow
<1> SUFFICES ASSUME NEW t \in UptimeThreads, uptimePc[t] \in {"done", "write"}
             PROVE  /\ uptimes[t] - jifs[t] \in -(Slow + UPTIME_FREQ) .. Slow + UPTIME_FREQ
                    /\ Uptime!FarApart => uptimes[t] \in jifs[t] - Err .. jiffies + Err
  BY <1>3 DEF Uptime!OnTrack, Uptime!Threads, UptimeThreads, Err
<1> QED
  BY <1>1, <1>2, UptimeConstants DEF Tracking, Returned, UptimeTypes

-----------------------------------------------------------------------------
(* The page table patches.                                                  *)

Entries == (1 .. 4) \X Nat

PatchStates ==
  [root : Entries, lpn : Nat, tables : SUBSET Entries, maps : SUBSET Nat, fixed : BOOLEAN]

PatchSteps == {"create", "apply", "next", "done", "failed", "released"}

\* The host's pages that VCPU v needs.
PatchPages(v) == {layout.data[v], layout.gdt, layout.code}

\* A page has been patched: one of v's patches has what is needed of it.
Placed(v, lpn) ==
  \E i \in DOMAIN patches[v] :
    /\ patches[v][i].root = Tables!Entry(lpn, Tables!Level(lpn)) /\ Tables!Level(lpn) # 0
    /\ lpn \in patches[v][i].maps /\ Tables!Path(lpn) \subseteq patches[v][i].tables

\* A patch is where its page leaves the monitor's address space, no two are in one place, and those
\* that are written replace nothing.
PatchedAt(v, f, k) ==
  /\ Len(f) <= 3 /\ k \in 0 .. Len(f)
  /\ \A i \in DOMAIN f :
       /\ f[i].lpn \in PatchPages(v) /\ f[i].maps \subseteq PatchPages(v)
       /\ f[i].root = Tables!Entry(f[i].lpn, Tables!Level(f[i].lpn)) /\ Tables!Level(f[i].lpn) # 0
  /\ \A i, j \in DOMAIN f : f[i].root = f[j].root => i = j
  /\ \A i \in 1 .. k : f[i].root \notin Tables!MonEntries

Patched(v) == \E f, k : patches[v] = f /\ written[v] = k /\ PatchedAt(v, f, k)

\* How far the VCPU that is at work is: the pages that are left are the last of those it needs.
Underway ==
  \A v \in 1 .. NumVCPUs : v = vcpu =>
    /\ patchPc = "create" =>
         /\ Len(patches[v]) + Len(left) <= 3 /\ written[v] = 0
         /\ \A lpn \in PatchPages(v) : Placed(v, lpn) \/ \E i \in DOMAIN left : left[i] = lpn
    /\ patchPc = "apply" =>
         /\ \A lpn \in PatchPages(v) : Placed(v, lpn)
         /\ \A i \in DOMAIN patches[v] : patches[v][i].fixed

\* The tables of the VCPUs that are done map what they need; nothing is done for those to come.
Verified(v) == \A lpn \in PatchPages(v) : Tables!Walk(v, lpn) = "host"
InTurn ==
  \A v \in 1 .. NumVCPUs :
    /\ v < vcpu \/ (v = vcpu /\ patchPc \in {"next", "done"}) => Verified(v)
    /\ v > vcpu => patches[v] = <<>> /\ written[v] = 0

\* The pages in the tracker are those of the tables.
TablesTracked ==
  patchPc # "released" =>
    /\ IsFiniteSet(tracked) /\ Cardinality(tracked) = numPTPPages
    /\ \A x : x \in tracked <=>
         \E v \in 1 .. NumVCPUs : \E i \in DOMAIN patches[v] : \E e \in patches[v][i].tables :
           x = <<v, i, e>>

\* Creating the patches fails for want of memory, or of a page that cannot be patched in or where
\* the monitor's tables are not tracked.
Hindered(v, lpn) == ~Tables!CanPatch(lpn) \/ ~Tables!Readable(v, lpn, Tables!Level(lpn))

Excused ==
  (patchPc = "failed" /\ ~failed) =>
     \E v \in 1 .. NumVCPUs : \E lpn \in PatchPages(v) : Hindered(v, lpn)

\* What the monitor gives up is its own.
OwnLosses == untracked \subseteq UNION Losses

\* The types, and the invariant.
PatchTypes ==
  /\ layout \in Layouts /\ stray \in Strays /\ vcpu \in 1 .. NumVCPUs /\ failed \in BOOLEAN
  /\ patchPc \in PatchSteps
  /\ left \in Seq(Nat) /\ \A i \in DOMAIN left : left[i] \in PatchPages(vcpu)
  /\ patches \in [1 .. NumVCPUs -> Seq(PatchStates)] /\ written \in [1 .. NumVCPUs -> Nat]
  /\ numPTPPages \in Nat /\ vmNumPTPPages \in Nat

Patching ==
  /\ PatchTypes /\ Underway /\ InTurn /\ TablesTracked /\ Excused
  /\ \A v \in 1 .. NumVCPUs : Patched(v)
  /\ patchPc = "done" => vcpu = NumVCPUs /\ vmNumPTPPages = numPTPPages

\* The constants.
LEMMA TablesConstants ==
  /\ Radix \in Nat /\ Radix # 0 /\ NumVCPUs \in Nat /\ NumVCPUs # 0
  /\ \A l \in Layouts :
       /\ l.start \in Nat /\ l.end \in Nat /\ l.gdt \in Nat /\ l.code \in Nat /\ l.start <= l.end
       /\ l.data \in [1 .. NumVCPUs -> Nat]
  /\ \A s \in Strays : s \subseteq Nat
BY TablesAssumption DEF Tables!PatchAssumption

\* How many pages an entry of a level is for.
LEMMA ExpFacts ==
  /\ \A n \in 0 .. 3 : Tables!Exp(n) \in Nat /\ Tables!Exp(n) # 0
  /\ \A n \in 0 .. 2 : Tables!Exp(n + 1) = Tables!Exp(n) * Radix
<1>1. \A n \in 0 .. 2 : Tables!Exp(n + 1) = Tables!Exp(n) * Radix
  BY TablesConstants DEF Tables!Exp
<1>2. Tables!Exp(0) \in Nat /\ Tables!Exp(0) # 0
  BY DEF Tables!Exp
<1>3. \A m \in Nat : m # 0 => m * Radix \in Nat /\ m * Radix # 0
  BY TablesConstants
<1>4. Tables!Exp(1) \in Nat /\ Tables!Exp(1) # 0
  BY TablesConstants DEF Tables!Exp
<1>5. Tables!Exp(2) \in Nat /\ Tables!Exp(2) # 0
  BY <1>1, <1>3, <1>4
<1>6. Tables!Exp(3) \in Nat /\ Tables!Exp(3) # 0
  BY <1>1, <1>3, <1>5
<1> QED
  BY <1>1, <1>2, <1>4, <1>5, <1>6

LEMMA DivFacts ==
  ASSUME NEW a \in Nat, NEW c \in Nat, c # 0
  PROVE  a \div c \in Nat /\ c * (a \div c) <= a /\ a < c * (a \div c) + c
OBVIOUS

LEMMA DivMono ==
  ASSUME NEW a \in Nat, NEW b \in Nat, NEW c \in Nat, c # 0, a <= b
  PROVE  a \div c <= b \div c
OBVIOUS

LEMMA DivNested ==
  ASSUME NEW a \in Nat, NEW c \in Nat, NEW r \in Nat, c # 0, r # 0
  PROVE  a \div (c * r) = (a \div c) \div r
OBVIOUS

\* Indices of entries.
LEMMA IndexFacts ==
  ASSUME NEW a \in Nat, NEW level \in 1 .. 4
  PROVE  /\ Tables!PTE_GLOBAL_INDEX(a, level) = a \div Tables!Exp(level - 1)
         /\ Tables!PTE_GLOBAL_INDEX(a, level) \in Nat
         /\ Tables!Exp(level - 1) \in Nat /\ Tables!Exp(level - 1) # 0
         /\ Tables!Entry(a, level) \in Entries
<1>1. Tables!Exp(level - 1) \in Nat /\ Tables!Exp(level - 1) # 0
  BY ExpFacts
<1> QED
  BY <1>1, DivFacts DEF Tables!PTE_GLOBAL_INDEX, Tables!Entry, Entries


\* Between the indices of two pages is the index of a page between them.
LEMMA IndexBetween ==
  ASSUME NEW a \in Nat, NEW b \in Nat, NEW level \in 1 .. 4, a <= b, NEW q \in Nat,
         Tables!PTE_GLOBAL_INDEX(a, level) <= q, q <= Tables!PTE_GLOBAL_INDEX(b, level)
  PROVE  \E m \in a .. b : Tables!PTE_GLOBAL_INDEX(m, level) = q
<1>1. PICK c \in Nat : c = Tables!Exp(level - 1) /\ c # 0
  BY ExpFacts
<1>2. PICK d \in Nat : d = a \div c /\ a < c * d + c
  BY <1>1, DivFacts
<1>3. PICK e \in Nat : e = b \div c /\ c * e <= b
  BY <1>1, DivFacts
<1>4. d <= q /\ q <= e
  BY <1>1, <1>2, <1>3 DEF Tables!PTE_GLOBAL_INDEX
<1>5. CASE q = d
  <2>1. a \in a .. b
    OBVIOUS
  <2> QED
    BY <1>1, <1>2, <1>5, <2>1 DEF Tables!PTE_GLOBAL_INDEX
<1>6. CASE q # d
  <2>1. PICK k \in Nat : q = d + 1 + k
    <3>1. q - d - 1 \in Nat /\ q = d + 1 + (q - d - 1)
      BY <1>4, <1>6
    <3> QED
      BY <3>1, Zenon
  <2>2. PICK n \in Nat : e = q + n
    <3>1. e - q \in Nat /\ e = q + (e - q)
      BY <1>4
    <3> QED
      BY <3>1, Zenon
  <2>3. c * q = c * d + c + c * k /\ c * k \in Nat /\ c * d \in Nat
    BY <2>1
  <2>4. c * e = c * q + c * n /\ c * n \in Nat /\ c * q \in Nat
    BY <2>2
  <2>5. c * q \in a .. b
    BY <1>2, <1>3, <2>3, <2>4
  <2>6. (c * q) \div c = q
    BY <1>1
  <2> QED
    BY <1>1, <2>5, <2>6 DEF Tables!PTE_GLOBAL_INDEX
<1> QED
  BY <1>5, <1>6

\* Pages that share an entry share those above it.
LEMMA SharedAbove ==
  ASSUME NEW a \in Nat, NEW b \in Nat, NEW k \in 1 .. 4, NEW l \in 1 .. 4, k <= l,
         Tables!Entry(a, k) = Tables!Entry(b, k)
  PROVE  Tables!Entry(a, l) = Tables!Entry(b, l)
<1>1. \A n \in 1 .. 3 : Tables!PTE_GLOBAL_INDEX(a, n) = Tables!PTE_GLOBAL_INDEX(b, n) =>
        Tables!PTE_GLOBAL_INDEX(a, n + 1) = Tables!PTE_GLOBAL_INDEX(b, n + 1)
  <2> SUFFICES ASSUME NEW n \in 1 .. 3, Tables!PTE_GLOBAL_INDEX(a, n) = Tables!PTE_GLOBAL_INDEX(b, n)
               PROVE  Tables!PTE_GLOBAL_INDEX(a, n + 1) = Tables!PTE_GLOBAL_INDEX(b, n + 1)
    OBVIOUS
  <2>1. PICK c \in Nat : c = Tables!Exp(n - 1) /\ c # 0
    BY ExpFacts
  <2>2. Tables!Exp((n + 1) - 1) = c * Radix
    BY <2>1, ExpFacts
  <2>3. a \div (c * Radix) = (a \div c) \div Radix /\ b \div (c * Radix) = (b \div c) \div Radix
    BY <2>1, DivNested, TablesConstants
  <2> QED
    BY <2>1, <2>2, <2>3 DEF Tables!PTE_GLOBAL_INDEX
<1>2. Tables!PTE_GLOBAL_INDEX(a, k) = Tables!PTE_GLOBAL_INDEX(b, k)
  BY DEF Tables!Entry
<1>3. Tables!PTE_GLOBAL_INDEX(a, l) = Tables!PTE_GLOBAL_INDEX(b, l)
  <2>1. l \in {k, k + 1, k + 2, k + 3}
    OBVIOUS
  <2>2. k + 1 \in 1 .. 4 => Tables!PTE_GLOBAL_INDEX(a, k + 1) = Tables!PTE_GLOBAL_INDEX(b, k + 1)
    BY <1>1, <1>2
  <2>3. k + 2 \in 1 .. 4 => Tables!PTE_GLOBAL_INDEX(a, k + 2) = Tables!PTE_GLOBAL_INDEX(b, k + 2)
    <3>1. (k + 1) + 1 = k + 2
      OBVIOUS
    <3> QED
      BY <1>1, <2>2, <3>1
  <2>4. k + 3 \in 1 .. 4 => Tables!PTE_GLOBAL_INDEX(a, k + 3) = Tables!PTE_GLOBAL_INDEX(b, k + 3)
    <3>1. (k + 2) + 1 = k + 3
      OBVIOUS
    <3> QED
      BY <1>1, <2>3, <3>1
  <2> QED
    BY <1>2, <2>1, <2>2, <2>3, <2>4
<1> QED
  BY <1>3 DEF Tables!Entry

LEMMA SharedOutside ==
  ASSUME NEW a \in Nat, NEW b \in Nat, NEW k \in 1 .. 4, Tables!Entry(a, k) = Tables!Entry(b, k)
  PROVE  Tables!Outside(a, k) <=> Tables!Outside(b, k)
<1>1. Tables!PTE_GLOBAL_INDEX(a, k) = Tables!PTE_GLOBAL_INDEX(b, k)
  BY DEF Tables!Entry
<1> QED
  BY <1>1, Zenon DEF Tables!Outside

\* The level of the highest entry outside.
LEMMA LevelFacts ==
  ASSUME NEW a
  PROVE  /\ Tables!Level(a) \in 0 .. 4
         /\ Tables!Level(a) # 0 => Tables!Outside(a, Tables!Level(a))
         /\ \A k \in 1 .. 4 : Tables!Outside(a, k) => k <= Tables!Level(a)
<1>1. CASE \E k \in 1 .. 4 : Tables!Outside(a, k)
  <2>1. \E l \in 1 .. 4 : Tables!Outside(a, l) /\ \A k \in 1 .. 4 : Tables!Outside(a, k) => k <= l
    <3>1. CASE Tables!Outside(a, 4)
      BY <3>1
    <3>2. CASE ~Tables!Outside(a, 4) /\ Tables!Outside(a, 3)
      BY <3>2
    <3>3. CASE ~Tables!Outside(a, 4) /\ ~Tables!Outside(a, 3) /\ Tables!Outside(a, 2)
      BY <3>3
    <3>4. CASE ~Tables!Outside(a, 4) /\ ~Tables!Outside(a, 3) /\ ~Tables!Outside(a, 2)
      BY <1>1, <3>4
    <3> QED
      BY <3>1, <3>2, <3>3, <3>4
  <2>2. Tables!Level(a) = CHOOSE l \in 1 .. 4 : Tables!Outside(a, l) /\ \A k \in 1 .. 4 : Tables!Outside(a, k) => k <= l
    BY <1>1, Zenon DEF Tables!Level, Tables!Levels
  <2>3. /\ Tables!Level(a) \in 1 .. 4 /\ Tables!Outside(a, Tables!Level(a))
        /\ \A k \in 1 .. 4 : Tables!Outside(a, k) => k <= Tables!Level(a)
    BY <2>1, <2>2, Zenon
  <2> QED
    BY <2>3
<1>2. CASE ~ \E k \in 1 .. 4 : Tables!Outside(a, k)
  <2>1. Tables!Level(a) = 0
    BY <1>2, Zenon DEF Tables!Level, Tables!Levels
  <2> QED
    BY <1>2, <2>1
<1> QED
  BY <1>1, <1>2

LevelsRight ==
  \A a : /\ Tables!Level(a) \in 0 .. 4
         /\ Tables!Level(a) # 0 => Tables!Outside(a, Tables!Level(a))
         /\ \A k \in 1 .. 4 : Tables!Outside(a, k) => k <= Tables!Level(a)

LEMMA LevelsAll == LevelsRight
BY LevelFacts DEF LevelsRight

\* A page whose path a patch is on is patched there.
LEMMA OneRoot ==
  ASSUME NEW a \in Nat, NEW b \in Nat, NEW k \in 1 .. 4, Tables!Level(a) # 0, Tables!Level(b) # 0,
         Tables!Entry(a, Tables!Level(a)) = Tables!Entry(b, k)
  PROVE  k = Tables!Level(a) /\ k = Tables!Level(b)
<1>1. k = Tables!Level(a)
  BY DEF Tables!Entry
<1>2. Tables!Outside(b, k) /\ k <= Tables!Level(b)
  BY <1>1, LevelFacts, SharedOutside
<1>3. CASE k < Tables!Level(b)
  <2>1. PICK l \in 1 .. 4 : l = Tables!Level(b)
    BY LevelFacts
  <2>2. Tables!Entry(a, l) = Tables!Entry(b, l)
    BY <1>1, <1>3, <2>1, SharedAbove
  <2>3. Tables!Outside(a, l)
    BY <2>1, <2>2, LevelFacts, SharedOutside
  <2> QED
    BY <1>1, <1>3, <2>1, <2>3, LevelFacts
<1> QED
  BY <1>1, <1>2, <1>3, LevelFacts

\* Where a page can be patched.
LEMMA CanPatchLevel ==
  ASSUME PatchTypes, NEW a \in Nat, Tables!CanPatch(a)
  PROVE  /\ Tables!Level(a) \in 2 .. 4
         /\ Tables!Entry(a, Tables!Level(a)) \notin Tables!MonEntries
         /\ \A k \in Tables!Level(a) + 1 .. 4 : Tables!Entry(a, k) \in Tables!MonEntries
<1>1. PICK l \in 2 .. 4 :
        /\ \A m \in (layout.start .. layout.end) \cup Tables!MonMapped : Tables!Entry(m, l) # Tables!Entry(a, l)
        /\ \A k \in l + 1 .. 4 :
             /\ Tables!Entry(a, k) \in Tables!MonEntries
             /\ \E m \in layout.start .. layout.end : Tables!Entry(m, k) = Tables!Entry(a, k)
  BY DEF Tables!CanPatch
<1>2. layout.start \in Nat /\ layout.end \in Nat /\ layout.start <= layout.end
  BY TablesConstants DEF PatchTypes
<1>3. Tables!Outside(a, l)
  <2> SUFFICES ASSUME ~Tables!Outside(a, l) PROVE FALSE
    OBVIOUS
  <2>1. PICK q \in Nat : q = Tables!PTE_GLOBAL_INDEX(a, l)
    BY IndexFacts
  <2>2. PICK s \in Nat, e \in Nat : s = layout.start /\ e = layout.end
    BY <1>2
  <2>3. /\ s <= e /\ Tables!PTE_GLOBAL_INDEX(s, l) <= q /\ q <= Tables!PTE_GLOBAL_INDEX(e, l)
        /\ l \in 1 .. 4
    BY <1>2, <2>1, <2>2, IndexFacts, SMTT(40) DEF Tables!Outside
  <2>4. PICK m \in s .. e : Tables!PTE_GLOBAL_INDEX(m, l) = q
    BY <2>3, IndexBetween
  <2>5. Tables!Entry(m, l) = Tables!Entry(a, l) /\ m \in layout.start .. layout.end
    BY <2>1, <2>2, <2>4 DEF Tables!Entry
  <2> QED
    BY <1>1, <2>5
<1>4. ASSUME NEW k \in l + 1 .. 4 PROVE ~Tables!Outside(a, k)
  <2>1. PICK m \in layout.start .. layout.end : Tables!Entry(m, k) = Tables!Entry(a, k)
    BY <1>1
  <2>2. m \in Nat /\ k \in 1 .. 4 /\ layout.start <= m /\ m <= layout.end
    BY <1>2
  <2>3. PICK c \in Nat : c = Tables!Exp(k - 1) /\ c # 0
    BY <2>2, ExpFacts
  <2>4. /\ layout.start \div c <= m \div c /\ m \div c <= layout.end \div c
        /\ layout.start \div c \in Nat /\ m \div c \in Nat /\ layout.end \div c \in Nat
    BY <1>2, <2>2, <2>3, DivMono, DivFacts
  <2>5. /\ Tables!PTE_GLOBAL_INDEX(a, k) = m \div c
        /\ Tables!PTE_GLOBAL_INDEX(layout.start, k) = layout.start \div c
        /\ Tables!PTE_GLOBAL_INDEX(layout.end, k) = layout.end \div c
    BY <2>1, <2>3 DEF Tables!Entry, Tables!PTE_GLOBAL_INDEX
  <2> QED
    BY <2>4, <2>5 DEF Tables!Outside
<1>5. Tables!Level(a) = l
  BY <1>3, <1>4, LevelFacts
<1>6. Tables!Entry(a, l) \notin Tables!MonEntries
  <2> SUFFICES ASSUME NEW m \in Tables!MonMapped, NEW k \in 1 .. 4, Tables!Entry(a, l) = Tables!Entry(m, k)
               PROVE  FALSE
    BY DEF Tables!MonEntries, Tables!Levels
  <2>1. k = l
    BY DEF Tables!Entry
  <2> QED
    BY <1>1, <2>1
<1> QED
  BY <1>1, <1>5, <1>6

\* The machine does not change.
LEMMA MachineKept ==
  ASSUME UNCHANGED <<layout, stray>>
  PROVE  /\ \A a : Tables!Level(a)' = Tables!Level(a)
         /\ \A a : Tables!Path(a)' = Tables!Path(a)
         /\ \A a, l : Tables!Entry(a, l)' = Tables!Entry(a, l)
         /\ Tables!MonMapped' = Tables!MonMapped /\ Tables!MonEntries' = Tables!MonEntries
         /\ \A a : Tables!CanPatch(a)' <=> Tables!CanPatch(a)
         /\ \A v : PatchPages(v)' = PatchPages(v)
<1>1. \A a, l : Tables!Entry(a, l)' = Tables!Entry(a, l)
  BY DEF Tables!Entry, Tables!PTE_GLOBAL_INDEX, Tables!Exp
<1>2. \A a, l : Tables!Outside(a, l)' <=> Tables!Outside(a, l)
  BY DEF Tables!Outside, Tables!PTE_GLOBAL_INDEX, Tables!Exp
<1>3. \A a : Tables!Level(a)' = Tables!Level(a)
  <2> TAKE a
  <2>1. LevelsRight'
    BY LevelsAll, PTL
  <2>2. PICK m : m = Tables!Level(a)'
    OBVIOUS
  <2>3. PICK n : n = Tables!Level(a)
    OBVIOUS
  <2>4. m \in 0 .. 4 /\ (m # 0 => Tables!Outside(a, m)) /\ \A k \in 1 .. 4 : Tables!Outside(a, k) => k <= m
    <3>1. /\ m \in 0 .. 4 /\ (m # 0 => Tables!Outside(a, Tables!Level(a))')
          /\ \A k \in 1 .. 4 : Tables!Outside(a, k)' => k <= m
      BY <2>1, <2>2, Zenon DEF LevelsRight
    <3>2. Tables!Outside(a, Tables!Level(a))' <=> Tables!Outside(a, m)'
      BY <2>2, Zenon DEF Tables!Outside, Tables!PTE_GLOBAL_INDEX, Tables!Exp
    <3> QED
      BY <1>2, <3>1, <3>2
  <2>5. n \in 0 .. 4 /\ (n # 0 => Tables!Outside(a, n)) /\ \A k \in 1 .. 4 : Tables!Outside(a, k) => k <= n
    BY <2>3, LevelFacts
  <2>6. m = n
    BY <2>4, <2>5
  <2> QED
    BY <2>2, <2>3, <2>6
<1>4. \A a : Tables!Path(a)' = Tables!Path(a)
  BY <1>1, <1>3, Zenon DEF Tables!Path
<1>5. Tables!MonMapped' = Tables!MonMapped
  BY Zenon DEF Tables!MonMapped
<1>6. Tables!MonEntries' = Tables!MonEntries
  BY <1>5 DEF Tables!MonEntries, Tables!Levels, Tables!Entry, Tables!PTE_GLOBAL_INDEX,
     Tables!Exp
<1>7. \A a : Tables!CanPatch(a)' <=> Tables!CanPatch(a)
  BY <1>1, <1>5, <1>6, Zenon DEF Tables!CanPatch
<1>8. \A v : PatchPages(v)' = PatchPages(v)
  BY DEF PatchPages
<1> QED
  BY <1>1, <1>3, <1>4, <1>5, <1>6, <1>7, <1>8

\* Nor what is known of a VCPU whose patches and tables do not.
LEMMA OthersPatched ==
  ASSUME UNCHANGED <<layout, stray>>, NEW v, patches'[v] = patches[v], written'[v] = written[v]
  PROVE  /\ \A lpn : Tables!Walk(v, lpn)' = Tables!Walk(v, lpn)
         /\ Verified(v)' <=> Verified(v)
         /\ Patched(v)' <=> Patched(v)
         /\ \A lpn : Placed(v, lpn)' <=> Placed(v, lpn)
<1>1. Tables!Applied(v)' = Tables!Applied(v)
  BY Zenon DEF Tables!Applied
<1>2. \A lpn : Tables!Walk(v, lpn)' = Tables!Walk(v, lpn)
  BY <1>1, MachineKept, Zenon DEF Tables!Walk
<1>3. Verified(v)' <=> Verified(v)
  BY <1>2, MachineKept, Zenon DEF Verified
<1>4. Patched(v)' <=> Patched(v)
  <2>1. \A f, k : PatchedAt(v, f, k)' <=> PatchedAt(v, f, k)
    BY MachineKept, Zenon DEF PatchedAt
  <2> QED
    BY <2>1, Zenon DEF Patched
<1>5. \A lpn : Placed(v, lpn)' <=> Placed(v, lpn)
  BY MachineKept, Zenon DEF Placed
<1> QED
  BY <1>2, <1>3, <1>4, <1>5

LEMMA NowPatched ==
  ASSUME UNCHANGED <<layout, stray>>, NEW v, NEW f, NEW k, patches'[v] = f, written'[v] = k,
                     PatchedAt(v, f, k)
  PROVE  Patched(v)'
<1>1. PatchedAt(v, f, k)'
  BY MachineKept, Zenon DEF PatchedAt
<1> QED
  BY <1>1, Zenon DEF Patched, PatchedAt

\* The pages a VCPU needs, in the order they are patched.
IsWanted(w, a, b, c) ==
  /\ w \in Seq(Nat) /\ w = <<a, b, c>> /\ Len(w) = 3 /\ DOMAIN w = 1 .. 3
  /\ w[1] = a /\ w[2] = b /\ w[3] = c

LEMMA WantedPages == \A a, b, c \in Nat : IsWanted(<<a, b, c>>, a, b, c)
<1> TAKE a, b, c \in Nat
<1>1. PICK w : w = <<a, b, c>>
  OBVIOUS
<1>2. w \in Seq(Nat) /\ Len(w) = 3 /\ DOMAIN w = 1 .. 3 /\ w[1] = a /\ w[2] = b /\ w[3] = c
  BY <1>1
<1> QED
  BY <1>1, <1>2, Zenon DEF IsWanted

LEMMA InitPatching == Tables!Init => Patching
<1> SUFFICES ASSUME Tables!Init PROVE Patching
  OBVIOUS
<1> USE TablesConstants DEF Tables!Init
<1>0. /\ layout \in Layouts /\ stray \in Strays /\ layout.data[1] \in Nat
      /\ layout.gdt \in Nat /\ layout.code \in Nat
  OBVIOUS
<1>1. IsWanted(left, layout.data[1], layout.gdt, layout.code)
  <2>1. left = <<layout.data[1], layout.gdt, layout.code>>
    BY DEF Tables!Wanted
  <2> HIDE DEF Tables!Init
  <2> QED
    BY <1>0, <2>1, WantedPages, Zenon
<1>2. PatchTypes
  <2>1. \A i \in DOMAIN left : left[i] \in PatchPages(1)
    BY <1>1, SMTT(40) DEF PatchPages, IsWanted
  <2> QED
    <3>1. vcpu = 1 /\ 1 \in 1 .. NumVCPUs
      OBVIOUS
    <3>2. patches \in [1 .. NumVCPUs -> Seq(PatchStates)] /\ written \in [1 .. NumVCPUs -> Nat]
      BY DEF Tables!VcpuIDs
    <3> QED
      BY <1>0, <1>1, <2>1, <3>1, <3>2 DEF PatchTypes, PatchSteps, IsWanted
<1>3. Underway
  <2>1. vcpu = 1 /\ patches[1] = <<>> /\ written[1] = 0 /\ patchPc = "create"
    BY DEF Tables!VcpuIDs
  <2>2. \A lpn \in PatchPages(1) : \E i \in DOMAIN left : left[i] = lpn
    BY <1>1 DEF PatchPages, IsWanted
  <2> QED
    <3>1. Len(<<>>) = 0 /\ Len(left) = 3
      BY <1>1 DEF IsWanted
    <3> HIDE DEF Tables!Init
    <3>2. Len(patches[vcpu]) + Len(left) <= 3 /\ written[vcpu] = 0 /\ patchPc # "apply"
      BY <2>1, <3>1
    <3>3. \A lpn \in PatchPages(vcpu) : \E i \in DOMAIN left : left[i] = lpn
      BY <2>1, <2>2, Zenon
    <3> QED
      BY <3>2, <3>3, Zenon DEF Underway
<1>4. InTurn
  BY DEF InTurn, Tables!VcpuIDs
<1>5. TablesTracked
  BY FS_EmptySet DEF TablesTracked, Tables!VcpuIDs
<1>6. \A v \in 1 .. NumVCPUs : Patched(v)
  BY DEF Patched, PatchedAt, Tables!VcpuIDs
<1> QED
  BY <1>2, <1>3, <1>4, <1>5, <1>6 DEF Patching, Excused

\* A step of the VCPU at work that leaves the others as they are.
LEMMA InTurnKept ==
  ASSUME PatchTypes, InTurn, UNCHANGED <<layout, stray, vcpu>>,
         \A v \in 1 .. NumVCPUs : v # vcpu => patches'[v] = patches[v] /\ written'[v] = written[v],
         patchPc' \in {"next", "done"} => \A v \in 1 .. NumVCPUs : v = vcpu => Verified(v)'
  PROVE  InTurn'
<1>1. vcpu \in 1 .. NumVCPUs
  BY DEF PatchTypes
<1>2. \A v \in 1 .. NumVCPUs : v # vcpu => (Verified(v)' <=> Verified(v))
  BY OthersPatched
<1> QED
  BY <1>1, <1>2, TablesConstants DEF InTurn

LEMMA HinderedKept ==
  ASSUME UNCHANGED <<layout, stray, untracked>>, NEW v, NEW lpn
  PROVE  Hindered(v, lpn)' <=> Hindered(v, lpn)
<1>1. PICK l : l = Tables!Level(lpn)
  OBVIOUS
<1>2. Tables!Level(lpn)' = l
  BY <1>1, MachineKept
<1>3. Tables!Readable(v, lpn, l)' <=> Tables!Readable(v, lpn, l)
  BY MachineKept, Zenon DEF Tables!Readable, Tables!TableOf
<1>4. Tables!Readable(v, lpn, Tables!Level(lpn)) <=> Tables!Readable(v, lpn, l)
  BY <1>1, Zenon
<1>5. Tables!Readable(v, lpn, Tables!Level(lpn))' <=> Tables!Readable(v, lpn, l)'
  BY <1>2, Zenon DEF Tables!Readable, Tables!TableOf
<1> QED
  BY <1>3, <1>4, <1>5, MachineKept, Zenon DEF Hindered

LEMMA ExcusedKept ==
  ASSUME Excused, UNCHANGED <<layout, stray, untracked>>,
         (patchPc' = "failed" /\ ~failed') => (patchPc = "failed" /\ ~failed)
  PROVE  Excused'
BY MachineKept, HinderedKept DEF Excused

LEMMA ExcusedNow ==
  ASSUME UNCHANGED <<layout, stray, untracked>>, NEW v \in 1 .. NumVCPUs,
         NEW lpn \in PatchPages(v), Hindered(v, lpn)
  PROVE  Excused'
BY MachineKept, HinderedKept DEF Excused

\* The patch of a page: the one that is there, or a new one at the end.
SavedAs(v, lpn, p, s) ==
  /\ s \in Seq(PatchStates) /\ p \in DOMAIN s
  /\ Len(s) <= Len(patches[v]) + 1 /\ DOMAIN patches[v] \subseteq DOMAIN s
  /\ \A i \in DOMAIN patches[v] : s[i] = patches[v][i]
  /\ \A i \in DOMAIN s : i \notin DOMAIN patches[v] =>
       i = p /\ s[i].tables = {} /\ s[i].maps = {} /\ s[i].lpn = lpn
  /\ s[p].root = Tables!Entry(lpn, Tables!Level(lpn))
  /\ \A i, j \in DOMAIN s : s[i].root = s[j].root => i = j

LEMMA SavedFacts ==
  ASSUME PatchTypes, NEW v \in 1 .. NumVCPUs, Patched(v), Len(patches[v]) <= 2,
         NEW lpn \in PatchPages(v), Tables!Level(lpn) # 0
  PROVE  SavedAs(v, lpn, Tables!PatchOf(v, lpn), Tables!Saved(v, lpn))
<1> USE DEF SavedAs
<1>1. PICK q \in Seq(PatchStates) : q = patches[v]
  BY DEF PatchTypes
<1>2. DOMAIN q = 1 .. Len(q) /\ Len(q) \in 0 .. 2
  <2>1. Len(q) \in Nat /\ DOMAIN q = 1 .. Len(q) /\ Len(q) <= 2
    BY <1>1
  <2> QED
    BY <2>1
<1>3. PICK r \in Entries : r = Tables!Entry(lpn, Tables!Level(lpn))
  <2>1. lpn \in Nat
    BY TablesConstants DEF PatchPages, PatchTypes
  <2>2. Tables!Level(lpn) \in 1 .. 4
    <3>1. Tables!Level(lpn) \in 0 .. 4
      BY LevelFacts
    <3> QED
      BY <3>1
  <2> QED
    BY <2>1, <2>2, IndexFacts
<1>4. lpn \in Nat
  BY TablesConstants DEF PatchPages, PatchTypes
<1>5. CASE Tables!Search(v, lpn) # {}
  <2>1. PICK p : p = Tables!PatchOf(v, lpn) /\ p \in Tables!Search(v, lpn)
    BY <1>5, Zenon DEF Tables!PatchOf
  <2>2. p \in DOMAIN q /\ q[p].root = r
    BY <1>1, <1>3, <2>1, Zenon DEF Tables!Search
  <2>3. Tables!Saved(v, lpn) = q
    BY <1>1, <1>5, Zenon DEF Tables!Saved
  <2>4. \A i, j \in DOMAIN q : q[i].root = q[j].root => i = j
    BY <1>1, Zenon DEF Patched, PatchedAt
  <2> QED
    BY <1>1, <1>2, <1>3, <2>1, <2>2, <2>3, <2>4
<1>6. CASE Tables!Search(v, lpn) = {}
  <2>1. Tables!PatchOf(v, lpn) = Len(q) + 1
    BY <1>1, <1>6, Zenon DEF Tables!PatchOf
  <2>2. PICK n : n = [root |-> r, lpn |-> lpn, tables |-> {}, maps |-> {}, fixed |-> FALSE]
    OBVIOUS
  <2>3. n \in PatchStates
    BY <1>4, <2>2 DEF PatchStates
  <2>4. PICK s : s = Append(q, n)
    OBVIOUS
  <2>5. Tables!Saved(v, lpn) = s
    BY <1>1, <1>3, <1>6, <2>2, <2>4, Zenon DEF Tables!Saved
  <2>6. /\ s \in Seq(PatchStates) /\ Len(s) = Len(q) + 1 /\ DOMAIN s = 1 .. Len(q) + 1
        /\ s[Len(q) + 1] = n /\ \A i \in 1 .. Len(q) : s[i] = q[i]
    BY <1>2, <2>3, <2>4
  <2>7. \A i \in DOMAIN q : q[i].root # r
    BY <1>1, <1>3, <1>6, Zenon DEF Tables!Search
  <2>8. \A i, j \in DOMAIN q : q[i].root = q[j].root => i = j
    BY <1>1, Zenon DEF Patched, PatchedAt
  <2>9. \A i, j \in DOMAIN s : s[i].root = s[j].root => i = j
    <3> SUFFICES ASSUME NEW i \in DOMAIN s, NEW j \in DOMAIN s, s[i].root = s[j].root PROVE i = j
      OBVIOUS
    <3>1. n.root = r
      BY <2>2
    <3>2. CASE i \in 1 .. Len(q) /\ j \in 1 .. Len(q)
      BY <1>2, <2>6, <2>8, <3>2
    <3>3. CASE i \in 1 .. Len(q) /\ j = Len(q) + 1
      BY <1>2, <2>6, <2>7, <3>1, <3>3
    <3>4. CASE i = Len(q) + 1 /\ j \in 1 .. Len(q)
      BY <1>2, <2>6, <2>7, <3>1, <3>4
    <3> QED
      BY <1>2, <2>6, <3>2, <3>3, <3>4
  <2>10. /\ Len(q) + 1 \in 1 .. 3 /\ Len(q) + 1 \in DOMAIN s /\ DOMAIN q \subseteq DOMAIN s
         /\ \A i \in DOMAIN s : i \notin DOMAIN q => i = Len(q) + 1
         /\ s[Len(q) + 1].root = r /\ s[Len(q) + 1].tables = {} /\ s[Len(q) + 1].maps = {}
         /\ s[Len(q) + 1].lpn = lpn
    BY <1>2, <2>2, <2>6, SMTT(40)
  <2> QED
    BY <1>1, <1>2, <1>3, <2>1, <2>5, <2>6, <2>9, <2>10
<1> QED
  BY <1>5, <1>6

\* A patch gets tables and pages.
Grown(s, p, n, m, f) ==
  /\ f \in Seq(PatchStates) /\ Len(f) = Len(s) /\ DOMAIN f = DOMAIN s
  /\ \A i \in DOMAIN s :
       /\ f[i].root = s[i].root /\ f[i].lpn = s[i].lpn
       /\ i # p => f[i].tables = s[i].tables /\ f[i].maps = s[i].maps
  /\ f[p].tables = s[p].tables \cup n /\ f[p].maps = s[p].maps \cup m

LEMMA GrownFacts ==
  ASSUME NEW s \in Seq(PatchStates), NEW p \in DOMAIN s, NEW n \in SUBSET Entries, NEW m \in SUBSET Nat,
         NEW f, f = [s EXCEPT ![p].tables = @ \cup n, ![p].maps = @ \cup m]
  PROVE  Grown(s, p, n, m, f)
<1>1. PICK q \in PatchStates : q = s[p]
  OBVIOUS
<1>2. PICK r : r = [q EXCEPT !.tables = q.tables \cup n, !.maps = q.maps \cup m]
  OBVIOUS
<1>3. /\ r \in PatchStates /\ r.root = q.root /\ r.lpn = q.lpn /\ r.tables = q.tables \cup n
      /\ r.maps = q.maps \cup m
  BY <1>2 DEF PatchStates
<1>4. f = [s EXCEPT ![p] = r]
  BY <1>1, <1>2 DEF PatchStates
<1>5. f \in Seq(PatchStates) /\ Len(f) = Len(s) /\ DOMAIN f = DOMAIN s
  <2>1. p \in 1 .. Len(s)
    OBVIOUS
  <2>2. [s EXCEPT ![p] = r] \in Seq(PatchStates) /\ Len([s EXCEPT ![p] = r]) = Len(s)
    BY <1>3, <2>1, ExceptSeq
  <2> QED
    BY <1>4, <2>2
<1>6. f[p] = r /\ \A i \in DOMAIN s : i # p => f[i] = s[i]
  BY <1>4
<1> QED
  BY <1>1, <1>3, <1>5, <1>6 DEF Grown

\* The tables for a page.
LEMMA PathFacts ==
  ASSUME PatchTypes, NEW lpn \in Nat
  PROVE  Tables!Path(lpn) \subseteq Entries /\ IsFiniteSet(Tables!Path(lpn))
<1>1. Tables!Level(lpn) \in 0 .. 4
  BY LevelFacts
<1>2. Tables!Path(lpn) \subseteq Entries
  <2>1. \A level \in 2 .. Tables!Level(lpn) : level \in 1 .. 4
    BY <1>1
  <2> QED
    BY <2>1, IndexFacts, Zenon DEF Tables!Path
<1>3. Tables!Path(lpn) \subseteq
         {Tables!Entry(lpn, 2)} \cup {Tables!Entry(lpn, 3)} \cup {Tables!Entry(lpn, 4)}
  BY <1>1 DEF Tables!Path
<1>4. IsFiniteSet({Tables!Entry(lpn, 2)} \cup {Tables!Entry(lpn, 3)} \cup {Tables!Entry(lpn, 4)})
  BY FS_Singleton, FS_Union
<1> QED
  BY <1>2, <1>3, <1>4, FS_Subset

\* The pages that are tracked for a patch's tables.
Tagged(v, p, n) == {<<v, p, e>> : e \in n}

LEMMA TaggedFacts ==
  ASSUME NEW v, NEW p, NEW n, IsFiniteSet(n)
  PROVE  IsFiniteSet(Tagged(v, p, n)) /\ Cardinality(Tagged(v, p, n)) = Cardinality(n)
<1> DEFINE t == Tagged(v, p, n)
<1> USE DEF Tagged
<1>1. PICK f : f = [e \in n |-> <<v, p, e>>]
  OBVIOUS
<1>2. f \in [n -> t] /\ \A x \in t : \E e \in n : f[e] = x
  BY <1>1
<1>3. \A d, e \in n : f[d] = f[e] => d = e
  BY <1>1
<1>4. f \in Bijection(n, t)
  BY <1>2, <1>3 DEF Bijection, Injection, Surjection, IsInjective
<1>5. ExistsBijection(n, t)
  BY <1>4 DEF ExistsBijection
<1> QED
  BY <1>5, FS_Bijection

\* The patch of a page gets tables: those that are not there yet.
LEMMA AddTables ==
  ASSUME NEW v \in 1 .. NumVCPUs, PatchTypes, TablesTracked, patchPc = "create", Patched(v), Len(patches[v]) <= 2,
         written[v] = 0, UNCHANGED <<layout, stray, written>>, patchPc' # "released",
         NEW lpn \in PatchPages(v), Tables!Level(lpn) # 0,
         NEW n, n \subseteq Tables!Path(lpn), NEW m \in SUBSET {lpn}, NEW s, NEW p,
         SavedAs(v, lpn, p, s), NEW f, Grown(s, p, n, m, f), n \cap s[p].tables = {},
         patches' = [patches EXCEPT ![v] = f], numPTPPages' = numPTPPages + Cardinality(n),
         tracked' = tracked \cup Tagged(v, p, n)
  PROVE  /\ patches' \in [1 .. NumVCPUs -> Seq(PatchStates)] /\ numPTPPages' \in Nat
         /\ patches'[v] = f /\ Len(f) <= Len(patches[v]) + 1
         /\ Patched(v)' /\ TablesTracked'
         /\ \A q : Placed(v, q) => Placed(v, q)'
<1>1. /\ v \in 1 .. NumVCPUs /\ lpn \in Nat /\ patches'[v] = f
      /\ patches \in [1 .. NumVCPUs -> Seq(PatchStates)] /\ written' = written
  BY TablesConstants, SMTT(40) DEF PatchTypes, PatchPages
<1>2. /\ n \subseteq Entries /\ IsFiniteSet(n) /\ Cardinality(n) \in Nat
  BY <1>1, PathFacts, FS_Subset, FS_CardinalityType
<1>3. /\ f \in Seq(PatchStates) /\ Len(f) = Len(s) /\ DOMAIN f = DOMAIN s /\ p \in DOMAIN s
      /\ Len(s) <= Len(patches[v]) + 1 /\ s \in Seq(PatchStates)
  BY DEF Grown, SavedAs
<1>4. patches' \in [1 .. NumVCPUs -> Seq(PatchStates)] /\ numPTPPages' \in Nat
  BY <1>1, <1>2, <1>3 DEF PatchTypes
<1>5. \A i \in DOMAIN f : f[i].root = s[i].root /\ f[i].lpn = s[i].lpn
  BY <1>3 DEF Grown
<1>6. \A i \in DOMAIN patches[v] :
        /\ i \in DOMAIN f /\ f[i].root = patches[v][i].root /\ f[i].lpn = patches[v][i].lpn
        /\ patches[v][i].tables \subseteq f[i].tables /\ patches[v][i].maps \subseteq f[i].maps
  BY <1>3, SMTT(40) DEF SavedAs, Grown
<1>7. Patched(v)'
  <2>1. Len(f) <= 3 /\ Len(f) \in Nat
    BY <1>1, <1>3
  <2>2. \A i, j \in DOMAIN f : f[i].root = f[j].root => i = j
    BY <1>3, <1>5 DEF SavedAs
  <2>3. ASSUME NEW i \in DOMAIN f
        PROVE  /\ f[i].lpn \in PatchPages(v) /\ f[i].maps \subseteq PatchPages(v)
               /\ f[i].root = Tables!Entry(f[i].lpn, Tables!Level(f[i].lpn))
               /\ Tables!Level(f[i].lpn) # 0
    <3>1. CASE i \in DOMAIN patches[v]
      <4>1. /\ patches[v][i].lpn \in PatchPages(v) /\ patches[v][i].maps \subseteq PatchPages(v)
            /\ patches[v][i].root = Tables!Entry(patches[v][i].lpn, Tables!Level(patches[v][i].lpn))
            /\ Tables!Level(patches[v][i].lpn) # 0
        BY <3>1 DEF Patched, PatchedAt
      <4>2. f[i].maps \subseteq patches[v][i].maps \cup {lpn}
        BY <1>3, <3>1 DEF SavedAs, Grown
      <4> QED
        BY <1>6, <3>1, <4>1, <4>2
    <3>2. CASE i \notin DOMAIN patches[v]
      <4>1. i = p /\ s[i].maps = {} /\ s[i].lpn = lpn
        BY <1>3, <3>2 DEF SavedAs
      <4>2. f[i].maps = m /\ f[i].lpn = lpn /\ f[i].root = Tables!Entry(lpn, Tables!Level(lpn))
        BY <1>3, <1>5, <4>1 DEF Grown, SavedAs
      <4> QED
        BY <4>2
    <3> QED
      BY <3>1, <3>2
  <2>4. PatchedAt(v, f, 0)
    <3>1. 1 .. 0 = {} /\ 0 \in 0 .. Len(f)
      BY <2>1
    <3> QED
      BY <2>1, <2>2, <2>3, <3>1, Zenon DEF PatchedAt
  <2>5. patches'[v] = f /\ written'[v] = 0
    BY <1>1
  <2> QED
    BY <2>4, <2>5, NowPatched
<1>8. TablesTracked'
  <2>1. PICK t : t = Tagged(v, p, n)
    OBVIOUS
  <2>2. IsFiniteSet(t) /\ Cardinality(t) = Cardinality(n)
    BY <1>2, <2>1, TaggedFacts
  <2>3. /\ IsFiniteSet(tracked) /\ Cardinality(tracked) = numPTPPages
        /\ \A x : x \in tracked <=>
             \E w \in 1 .. NumVCPUs : \E i \in DOMAIN patches[w] : \E e \in patches[w][i].tables :
               x = <<w, i, e>>
    BY DEF TablesTracked
  <2>4. tracked \cap t = {}
    <3> SUFFICES ASSUME NEW e \in n, <<v, p, e>> \in tracked PROVE FALSE
      BY <2>1 DEF Tagged
    <3>1. PICK w \in 1 .. NumVCPUs : \E i \in DOMAIN patches[w] : \E d \in patches[w][i].tables :
            <<v, p, e>> = <<w, i, d>>
      BY <2>3
    <3>2. p \in DOMAIN patches[v] /\ e \in patches[v][p].tables
      BY <3>1
    <3> QED
      BY <3>2 DEF SavedAs
  <2>5. tracked' = tracked \cup t
    BY <2>1
  <2>6. IsFiniteSet(tracked') /\ Cardinality(tracked') = numPTPPages'
    <3>1. PICK u : u = tracked
      OBVIOUS
    <3>2. /\ IsFiniteSet(u \cup t)
          /\ Cardinality(u \cup t) = Cardinality(u) + Cardinality(t) - Cardinality(u \cap t)
      BY <2>2, <2>3, <3>1, FS_Union, Zenon
    <3>3. Cardinality(u \cap t) = 0
      BY <2>4, <3>1, FS_EmptySet
    <3> QED
      <4>1. Cardinality(u \cup t) = numPTPPages + Cardinality(n)
        <5>1. numPTPPages \in Nat
          BY DEF PatchTypes
        <5>2. Cardinality(u) = numPTPPages /\ Cardinality(t) = Cardinality(n)
          BY <2>2, <2>3, <3>1, Zenon
        <5> QED
          BY <1>2, <3>2, <3>3, <5>1, <5>2
      <4>2. tracked' = u \cup t
        BY <2>5, <3>1, Zenon
      <4> QED
        BY <3>2, <4>1, <4>2, Zenon
  <2>7. ASSUME NEW x \in tracked'
        PROVE  \E w \in 1 .. NumVCPUs : \E i \in DOMAIN patches'[w] : \E e \in patches'[w][i].tables :
                 x = <<w, i, e>>
    <3>1. CASE x \in tracked
      <4>0. PICK w \in 1 .. NumVCPUs :
              \E i \in DOMAIN patches[w] : \E e \in patches[w][i].tables : x = <<w, i, e>>
        BY <2>3, <3>1
      <4>1. PICK i \in DOMAIN patches[w] : \E e \in patches[w][i].tables : x = <<w, i, e>>
        BY <4>0
      <4>2. CASE w = v
        BY <1>1, <1>6, <4>1, <4>2
      <4>3. CASE w # v
        <5>1. patches'[w] = patches[w]
          BY <1>1, <4>3
        <5> QED
          BY <4>1, <5>1
      <4> QED
        BY <4>2, <4>3
    <3>2. CASE x \in t
      <4>1. PICK e \in n : x = <<v, p, e>>
        BY <2>1, <3>2 DEF Tagged
      <4>2. p \in DOMAIN patches'[v] /\ e \in patches'[v][p].tables
        BY <1>1, <1>3 DEF Grown
      <4> QED
        BY <1>1, <4>1, <4>2
    <3> QED
      BY <2>5, <3>1, <3>2
  <2>8. ASSUME NEW w \in 1 .. NumVCPUs, NEW i \in DOMAIN patches'[w], NEW e \in patches'[w][i].tables
        PROVE  <<w, i, e>> \in tracked'
    <3>1. CASE w # v
      <4>1. patches'[w] = patches[w]
        BY <1>1, <3>1
      <4> QED
        BY <2>3, <2>5, <4>1
    <3>2. CASE w = v /\ i = p /\ e \in n
      BY <2>1, <2>5, <3>2 DEF Tagged
    <3>3. CASE w = v /\ ~(i = p /\ e \in n)
      <4>1. i \in DOMAIN s /\ e \in s[i].tables
        BY <1>1, <1>3, <3>3 DEF Grown
      <4>2. i \in DOMAIN patches[v] /\ e \in patches[v][i].tables
        BY <4>1 DEF SavedAs
      <4> QED
        BY <1>1, <2>3, <2>5, <3>3, <4>2
    <3> QED
      BY <3>1, <3>2, <3>3
  <2> QED
    BY <2>6, <2>7, <2>8 DEF TablesTracked
<1>9. \A q : Placed(v, q) => Placed(v, q)'
  <2> SUFFICES ASSUME NEW q, Placed(v, q) PROVE Placed(v, q)'
    OBVIOUS
  <2>1. PICK i \in DOMAIN patches[v] :
          /\ patches[v][i].root = Tables!Entry(q, Tables!Level(q)) /\ Tables!Level(q) # 0
          /\ q \in patches[v][i].maps /\ Tables!Path(q) \subseteq patches[v][i].tables
    BY Zenon DEF Placed
  <2>2. /\ i \in DOMAIN f /\ f[i].root = Tables!Entry(q, Tables!Level(q))
        /\ q \in f[i].maps /\ Tables!Path(q) \subseteq f[i].tables
    BY <1>6, <2>1
  <2>3. /\ Tables!Entry(q, Tables!Level(q))' = Tables!Entry(q, Tables!Level(q))
        /\ Tables!Level(q)' = Tables!Level(q) /\ Tables!Path(q)' = Tables!Path(q)
    BY MachineKept
  <2> QED
    BY <1>1, <2>1, <2>2, <2>3, Zenon DEF Placed
<1> QED
  BY <1>1, <1>3, <1>4, <1>7, <1>8, <1>9

\* A step of the VCPU at work that changes neither what is patched nor what is written.
LEMMA PatchingKept ==
  ASSUME Patching, UNCHANGED <<layout, stray, vcpu, left, patches, written, numPTPPages,
  failed>>,
         patchPc' \in PatchSteps, vmNumPTPPages' \in Nat,
         patchPc' # "released" => tracked' = tracked /\ patchPc # "released",
         patchPc' \in {"next", "done"} => \A v \in 1 .. NumVCPUs : v = vcpu => Verified(v)
  PROVE  /\ PatchTypes' /\ InTurn' /\ TablesTracked' /\ \A v \in 1 .. NumVCPUs : Patched(v)'
         /\ \A v, lpn : Placed(v, lpn)' <=> Placed(v, lpn)
<1>1. \A v : /\ Verified(v)' <=> Verified(v)
             /\ Patched(v)' <=> Patched(v)
             /\ \A lpn : Placed(v, lpn)' <=> Placed(v, lpn)
  BY OthersPatched
<1>2. PatchTypes'
  <2>1. \A v : PatchPages(v)' = PatchPages(v)
    BY MachineKept
  <2>2. \A i \in DOMAIN left' : left'[i] \in PatchPages(vcpu)'
    BY DEF Patching, PatchTypes, PatchPages
  <2> QED
    BY <2>2 DEF Patching, PatchTypes
<1>3. InTurn'
  BY <1>1, InTurnKept DEF Patching
<1>4. TablesTracked'
  BY DEF Patching, TablesTracked
<1> QED
  BY <1>1, <1>2, <1>3, <1>4 DEF Patching

\* The page that is next.
LEMMA NextPage ==
  ASSUME Patching, patchPc = "create", left # <<>>
  PROVE  /\ Head(left) \in PatchPages(vcpu) /\ Head(left) \in Nat /\ Tail(left) \in Seq(Nat)
         /\ Len(patches[vcpu]) <= 2 /\ written[vcpu] = 0 /\ vcpu \in 1 .. NumVCPUs
         /\ Len(patches[vcpu]) + 1 + Len(Tail(left)) <= 3 /\ Len(patches[vcpu]) \in Nat
         /\ \A i \in DOMAIN Tail(left) : Tail(left)[i] \in PatchPages(vcpu)
         /\ \A i \in DOMAIN left : left[i] = Head(left) \/ \E j \in DOMAIN Tail(left) : Tail(left)[j] = left[i]
<1>1. PICK q \in Seq(Nat) : q = left
  BY DEF Patching, PatchTypes
<1>2. /\ q # <<>> /\ Len(q) \in Nat /\ DOMAIN q = 1 .. Len(q) /\ Head(q) = q[1] /\ Len(q) >= 1
      /\ Tail(q) \in Seq(Nat) /\ Len(Tail(q)) = Len(q) - 1 /\ DOMAIN Tail(q) = 1 .. Len(q) - 1
      /\ \A i \in 1 .. Len(q) - 1 : Tail(q)[i] = q[i + 1]
  BY <1>1
<1>3. vcpu \in 1 .. NumVCPUs /\ patches[vcpu] \in Seq(PatchStates)
  BY DEF Patching, PatchTypes
<1>4. Len(patches[vcpu]) + Len(q) <= 3 /\ written[vcpu] = 0 /\ Len(patches[vcpu]) \in Nat
  BY <1>1, <1>3 DEF Patching, Underway
<1>5. \A i \in DOMAIN q : q[i] \in PatchPages(vcpu) /\ q[i] \in Nat
  BY <1>1, <1>2 DEF Patching, PatchTypes
<1>6. \A i \in 1 .. Len(q) - 1 : i + 1 \in DOMAIN q
  BY <1>2
<1>7. ASSUME NEW i \in DOMAIN q PROVE q[i] = Head(q) \/ \E j \in DOMAIN Tail(q) : Tail(q)[j] = q[i]
  <2>1. CASE i = 1
    BY <1>2, <2>1
  <2>2. CASE i # 1
    <3>1. i - 1 \in 1 .. Len(q) - 1 /\ (i - 1) + 1 = i
      BY <1>2, <2>2
    <3>2. Tail(q)[i - 1] = q[i]
      BY <1>2, <3>1
    <3> QED
      BY <1>2, <3>1, <3>2
  <2> QED
    BY <2>1, <2>2
<1>8. Len(patches[vcpu]) <= 2 /\ Len(patches[vcpu]) + 1 + Len(Tail(q)) <= 3
  BY <1>2, <1>4
<1>9. 1 \in DOMAIN q
  BY <1>2
<1>10. \A i \in DOMAIN Tail(q) : Tail(q)[i] \in PatchPages(vcpu)
  BY <1>2, <1>5, <1>6
<1>11. Head(q) \in PatchPages(vcpu) /\ Head(q) \in Nat
  BY <1>2, <1>5, <1>9
<1> QED
  BY <1>1, <1>2, <1>3, <1>4, <1>7, <1>8, <1>10, <1>11

LEMMA CreatePatchStep == Patching /\ Tables!CreatePatch => Patching'
<1> SUFFICES ASSUME Patching, Tables!CreatePatch PROVE Patching'
  OBVIOUS
<1>1. PICK v \in 1 .. NumVCPUs, lpn \in PatchPages(vcpu) : v = vcpu /\ lpn = Head(left)
  BY NextPage DEF Tables!CreatePatch
<1>2. /\ patchPc = "create" /\ left # <<>>
      /\ UNCHANGED <<layout, stray, vcpu, written, vmNumPTPPages, failed, untracked>>
  BY DEF Tables!CreatePatch
<1>3. CASE Tables!Level(lpn) = 0
  <2>1. patchPc' = "failed" /\ UNCHANGED <<left, patches, numPTPPages, tracked>>
    BY <1>1, <1>3, Zenon DEF Tables!CreatePatch, Tables!Fail
  <2>2. ~Tables!CanPatch(lpn)
    <3>1. lpn \in Nat
      BY <1>1, <1>2, NextPage
    <3> QED
      BY <1>3, <3>1, CanPatchLevel DEF Patching
  <2>3. Excused'
    BY <1>1, <1>2, <2>2, ExcusedNow DEF Hindered
  <2>4. PatchTypes' /\ InTurn' /\ TablesTracked' /\ \A w \in 1 .. NumVCPUs : Patched(w)'
    <3>1. vmNumPTPPages' \in Nat /\ patchPc' \in PatchSteps
      BY <1>2, <2>1 DEF Patching, PatchTypes, PatchSteps
    <3> QED
      BY <1>2, <2>1, <3>1, PatchingKept
  <2>5. Underway'
    BY <2>1 DEF Underway
  <2> QED
    BY <1>2, <2>1, <2>3, <2>4, <2>5 DEF Patching
<1>4. CASE Tables!Level(lpn) # 0
  <2>1. PICK p, s : p = Tables!PatchOf(v, lpn) /\ s = Tables!Saved(v, lpn)
    OBVIOUS
  <2>2. SavedAs(v, lpn, p, s)
    BY <1>1, <1>2, <1>4, <2>1, NextPage, SavedFacts DEF Patching
  <2>3. PICK n : n = Tables!Path(lpn) \ s[p].tables
    OBVIOUS
  <2>4. PICK f : f = [s EXCEPT ![p].tables = @ \cup n, ![p].maps = @ \cup {lpn}]
    OBVIOUS
  <2>5. /\ patches' = [patches EXCEPT ![v] = f] /\ numPTPPages' = numPTPPages + Cardinality(n)
        /\ tracked' = tracked \cup {<<v, p, e>> : e \in n} /\ left' = Tail(left) /\ patchPc' = "create"
    <3>1. Tables!PatchOf(vcpu, Head(left)) = p /\ Tables!Saved(vcpu, Head(left)) = s /\ Head(left) = lpn
      BY <1>1, <2>1, Zenon
    <3>2. /\ patches' = [patches EXCEPT ![vcpu] = f] /\ numPTPPages' = numPTPPages + Cardinality(n)
          /\ tracked' = tracked \cup {<<vcpu, p, e>> : e \in n} /\ left' = Tail(left) /\ patchPc' = patchPc
      <4>1. patches' = [patches EXCEPT ![vcpu] = f]
        BY <1>4, <2>3, <2>4, <3>1, Zenon DEF Tables!CreatePatch
      <4>2. /\ numPTPPages' = numPTPPages + Cardinality(n) /\ left' = Tail(left) /\ patchPc' = patchPc
            /\ tracked' = tracked \cup {<<vcpu, p, e>> : e \in n}
        <5>1. PICK m : m = Tables!Path(Head(left)) \ Tables!Saved(vcpu, Head(left))[Tables!PatchOf(vcpu, Head(left))].tables
          OBVIOUS
        <5>2. tracked' = tracked \cup {<<vcpu, Tables!PatchOf(vcpu, Head(left)), e>> : e \in m}
          BY <1>4, <3>1, <5>1, Zenon DEF Tables!CreatePatch
        <5>3. numPTPPages' = numPTPPages + Cardinality(m)
          BY <1>4, <3>1, <5>1, Zenon DEF Tables!CreatePatch, Tables!Cardinality, Cardinality
        <5>4. left' = Tail(left) /\ patchPc' = patchPc
          BY <1>4, <3>1, Zenon DEF Tables!CreatePatch
        <5>5. m = n
          BY <2>3, <3>1, <5>1, Zenon
        <5> QED
          BY <3>1, <5>2, <5>3, <5>4, <5>5, Zenon
      <4> QED
        BY <4>1, <4>2
    <3> QED
      BY <1>1, <1>2, <3>2, Zenon
  <2>6. tracked' = tracked \cup Tagged(v, p, n)
    BY <2>5, Zenon DEF Tagged
  <2>7. s \in Seq(PatchStates) /\ p \in DOMAIN s
    BY <2>2 DEF SavedAs
  <2>8. lpn \in Nat /\ Tables!Path(lpn) \subseteq Entries
    BY <1>1, <1>2, NextPage, PathFacts DEF Patching
  <2>9. Grown(s, p, n, {lpn}, f)
    BY <2>3, <2>4, <2>7, <2>8, GrownFacts
  <2>10. /\ n \subseteq Tables!Path(lpn) /\ n \cap s[p].tables = {}
    BY <2>3
  <2>11. PatchTypes /\ TablesTracked /\ Patched(v) /\ Len(patches[v]) <= 2 /\ written[v] = 0 /\ lpn \in PatchPages(v)
    BY <1>1, <1>2, NextPage DEF Patching
  <2>12. /\ patches' \in [1 .. NumVCPUs -> Seq(PatchStates)] /\ numPTPPages' \in Nat
         /\ patches'[v] = f /\ Len(f) <= Len(patches[v]) + 1
         /\ Patched(v)' /\ TablesTracked'
         /\ \A q : Placed(v, q) => Placed(v, q)'
    BY <1>2, <1>4, <2>2, <2>5, <2>6, <2>9, <2>10, <2>11, AddTables
  <2>13. Placed(v, lpn)'
    <3>1. /\ p \in DOMAIN f /\ f[p].root = Tables!Entry(lpn, Tables!Level(lpn))
          /\ lpn \in f[p].maps /\ Tables!Path(lpn) \subseteq f[p].tables
      BY <2>2, <2>3, <2>7, <2>9 DEF SavedAs, Grown
    <3>2. /\ Tables!Entry(lpn, Tables!Level(lpn))' = Tables!Entry(lpn, Tables!Level(lpn))
          /\ Tables!Level(lpn)' = Tables!Level(lpn) /\ Tables!Path(lpn)' = Tables!Path(lpn)
      BY <1>2, MachineKept
    <3> QED
      BY <1>4, <2>12, <3>1, <3>2, Zenon DEF Placed
  <2>14. /\ left' \in Seq(Nat) /\ \A i \in DOMAIN left' : left'[i] \in PatchPages(v)
         /\ Len(patches[v]) + 1 + Len(left') <= 3 /\ Len(left') \in Nat /\ Len(patches[v]) \in Nat
         /\ \A i \in DOMAIN left : left[i] = lpn \/ \E j \in DOMAIN left' : left'[j] = left[i]
    <3>1. Len(Tail(left)) \in Nat
      BY <1>2, NextPage
    <3> QED
      BY <1>1, <1>2, <2>5, <3>1, NextPage
  <2>15. \A w : PatchPages(w)' = PatchPages(w)
    BY <1>2, MachineKept
  <2>16. PatchTypes'
    <3>1. \A i \in DOMAIN left' : left'[i] \in PatchPages(vcpu)'
      BY <1>1, <1>2, <2>14 DEF PatchPages
    <3> QED
      BY <1>2, <2>5, <2>12, <2>14, <3>1 DEF Patching, PatchTypes, PatchSteps
  <2>17. \A w \in 1 .. NumVCPUs : w # v => patches'[w] = patches[w] /\ written'[w] = written[w]
    BY <1>2, <2>5
  <2>18. InTurn'
    BY <1>1, <1>2, <2>5, <2>17, InTurnKept DEF Patching
  <2>19. \A w \in 1 .. NumVCPUs : Patched(w)'
    BY <1>2, <2>12, <2>17, OthersPatched DEF Patching
  <2>20. Underway'
    <3>1. Len(f) \in Nat
      BY <2>7, <2>9 DEF Grown
    <3>2. Len(patches'[v]) + Len(left') <= 3 /\ written'[v] = 0
      BY <1>2, <2>11, <2>12, <2>14, <3>1
    <3>3. \A q \in PatchPages(v) : Placed(v, q)' \/ \E i \in DOMAIN left' : left'[i] = q
      <4> SUFFICES ASSUME NEW q \in PatchPages(v), ~Placed(v, q)' PROVE \E i \in DOMAIN left' : left'[i] = q
        OBVIOUS
      <4>1. ~Placed(v, q) /\ q # lpn
        BY <2>12, <2>13
      <4>2. \E i \in DOMAIN left : left[i] = q
        BY <1>1, <1>2, <4>1 DEF Patching, Underway
      <4> QED
        BY <2>14, <4>1, <4>2
    <3> QED
      BY <1>1, <1>2, <2>5, <2>15, <3>2, <3>3, Zenon DEF Underway
  <2>21. Excused'
    BY <2>5 DEF Excused
  <2> QED
    BY <2>5, <2>12, <2>16, <2>18, <2>19, <2>20, <2>21 DEF Patching
<1> QED
  BY <1>3, <1>4

LEMMA NoMemoryStep == Patching /\ Tables!NoMemory => Patching'
<1> SUFFICES ASSUME Patching, Tables!NoMemory PROVE Patching'
  OBVIOUS
<1>1. PICK v \in 1 .. NumVCPUs, lpn \in PatchPages(vcpu) : v = vcpu /\ lpn = Head(left)
  BY NextPage DEF Tables!NoMemory
<1>2. /\ patchPc = "create" /\ left # <<>> /\ patchPc' = "failed" /\ failed' = TRUE
      /\ UNCHANGED <<layout, stray, vcpu, left, written, vmNumPTPPages>>
  BY DEF Tables!NoMemory, Tables!Fail
<1>3. Tables!Level(lpn) # 0
  <2>1. Tables!Level(lpn) > 1
    BY <1>1 DEF Tables!NoMemory
  <2> QED
    BY <2>1
<1>4. PICK p, s : p = Tables!PatchOf(vcpu, Head(left)) /\ s = Tables!Saved(vcpu, Head(left))
  OBVIOUS
<1>5. PICK new : new = Tables!Path(lpn) \ s[p].tables
  OBVIOUS
<1>6. PICK level :
        /\ patches' = [patches EXCEPT ![vcpu] = [s EXCEPT ![p].tables = @ \cup {e \in new : e[1] > level}]]
        /\ numPTPPages' = numPTPPages + Cardinality({e \in new : e[1] > level})
        /\ tracked' = tracked \cup {<<vcpu, p, e>> : e \in {d \in new : d[1] > level}}
  <2>1. new = Tables!Path(Head(left)) \ Tables!Saved(vcpu, Head(left))[Tables!PatchOf(vcpu, Head(left))].tables
    BY <1>1, <1>4, <1>5, Zenon
  <2>2. \E level :
          /\ patches' = [patches EXCEPT ![vcpu] =
               [Tables!Saved(vcpu, Head(left)) EXCEPT
                  ![Tables!PatchOf(vcpu, Head(left))].tables = @ \cup {e \in new : e[1] > level}]]
          /\ numPTPPages' = numPTPPages + Cardinality({e \in new : e[1] > level})
          /\ tracked' = tracked \cup {<<vcpu, Tables!PatchOf(vcpu, Head(left)), e>> : e \in {d \in new : d[1] > level}}
    BY <2>1, ZenonT(60) DEF Tables!NoMemory, Tables!Cardinality, Cardinality
  <2>3. PICK level :
          /\ patches' = [patches EXCEPT ![vcpu] =
               [Tables!Saved(vcpu, Head(left)) EXCEPT
                  ![Tables!PatchOf(vcpu, Head(left))].tables = @ \cup {e \in new : e[1] > level}]]
          /\ numPTPPages' = numPTPPages + Cardinality({e \in new : e[1] > level})
          /\ tracked' = tracked \cup {<<vcpu, Tables!PatchOf(vcpu, Head(left)), e>> : e \in {d \in new : d[1] > level}}
    BY <2>2, Zenon
  <2>4. patches' = [patches EXCEPT ![vcpu] = [s EXCEPT ![p].tables = @ \cup {e \in new : e[1] > level}]]
    BY <1>4, <2>3
  <2>5. tracked' = tracked \cup {<<vcpu, p, e>> : e \in {d \in new : d[1] > level}}
    BY <1>4, <2>3, Zenon
  <2> QED
    BY <2>3, <2>4, <2>5, Zenon
<1>7. PICK n : n = {e \in new : e[1] > level}
  OBVIOUS
<1>8. PICK f : f = [s EXCEPT ![p].tables = @ \cup n]
  OBVIOUS
<1>9. /\ patches' = [patches EXCEPT ![v] = f] /\ numPTPPages' = numPTPPages + Cardinality(n)
      /\ tracked' = tracked \cup {<<v, p, e>> : e \in n}
  BY <1>1, <1>6, <1>7, <1>8, Zenon
<1>10. tracked' = tracked \cup Tagged(v, p, n)
  BY <1>9, Zenon DEF Tagged
<1>11. SavedAs(v, lpn, p, s)
  BY <1>1, <1>2, <1>3, <1>4, NextPage, SavedFacts DEF Patching
<1>12. s \in Seq(PatchStates) /\ p \in DOMAIN s
  BY <1>11 DEF SavedAs
<1>13. lpn \in Nat /\ Tables!Path(lpn) \subseteq Entries
  BY <1>1, <1>2, NextPage, PathFacts DEF Patching
<1>14. Grown(s, p, n, {}, f)
  <2>1. PICK q \in PatchStates : q = s[p]
    BY <1>12
  <2>2. PICK r : r = [q EXCEPT !.tables = q.tables \cup n]
    OBVIOUS
  <2>3. n \subseteq Entries
    BY <1>5, <1>7, <1>13
  <2>4. /\ r \in PatchStates /\ r.root = q.root /\ r.lpn = q.lpn /\ r.tables = q.tables \cup n
        /\ r.maps = q.maps
    BY <2>2, <2>3 DEF PatchStates
  <2>5. f = [s EXCEPT ![p] = r]
    BY <1>8, <1>12, <2>1, <2>2
  <2>6. f \in Seq(PatchStates) /\ Len(f) = Len(s) /\ DOMAIN f = DOMAIN s
    <3>1. p \in 1 .. Len(s)
      BY <1>12
    <3>2. [s EXCEPT ![p] = r] \in Seq(PatchStates) /\ Len([s EXCEPT ![p] = r]) = Len(s)
      BY <1>12, <2>4, <3>1, ExceptSeq
    <3> QED
      BY <1>12, <2>5, <3>2
  <2>7. f[p] = r /\ \A i \in DOMAIN s : i # p => f[i] = s[i]
    BY <1>12, <2>5
  <2> QED
    BY <2>1, <2>4, <2>6, <2>7 DEF Grown
<1>15. /\ n \subseteq Tables!Path(lpn) /\ n \cap s[p].tables = {} /\ {} \in SUBSET {lpn}
  BY <1>5, <1>7
<1>16. PatchTypes /\ TablesTracked /\ Patched(v) /\ Len(patches[v]) <= 2 /\ written[v] = 0 /\ lpn \in PatchPages(v)
  BY <1>1, <1>2, NextPage DEF Patching
<1>17. /\ patches' \in [1 .. NumVCPUs -> Seq(PatchStates)] /\ numPTPPages' \in Nat
       /\ patches'[v] = f /\ Patched(v)' /\ TablesTracked'
  BY <1>2, <1>3, <1>9, <1>10, <1>11, <1>14, <1>15, <1>16, AddTables
<1>18. PatchTypes'
  <2>1. \A i \in DOMAIN left' : left'[i] \in PatchPages(vcpu)'
    BY <1>2 DEF Patching, PatchTypes, PatchPages
  <2> QED
    BY <1>2, <1>17, <2>1 DEF Patching, PatchTypes, PatchSteps
<1>19. \A w \in 1 .. NumVCPUs : w # v => patches'[w] = patches[w] /\ written'[w] = written[w]
  BY <1>2, <1>9
<1>20. InTurn'
  BY <1>1, <1>2, <1>19, InTurnKept DEF Patching
<1>21. \A w \in 1 .. NumVCPUs : Patched(w)'
  BY <1>2, <1>17, <1>19, OthersPatched DEF Patching
<1>22. Underway' /\ Excused'
  BY <1>2 DEF Underway, Excused
<1> QED
  BY <1>2, <1>17, <1>18, <1>20, <1>21, <1>22 DEF Patching

LEMMA FixupStep == Patching /\ Tables!Fixup => Patching'
<1> SUFFICES ASSUME Patching, Tables!Fixup PROVE Patching'
  OBVIOUS
<1>1. /\ patchPc = "create" /\ left = <<>> /\ patchPc' = "apply"
      /\ UNCHANGED <<layout, stray, vcpu, left, written, numPTPPages, vmNumPTPPages, tracked,
                     failed>>
  BY DEF Tables!Fixup
<1>2. PICK v \in 1 .. NumVCPUs : v = vcpu
  BY DEF Patching, PatchTypes
<1>3. PICK q \in Seq(PatchStates) : q = patches[v]
  BY DEF Patching, PatchTypes
<1>4. PICK f : f = [i \in DOMAIN q |-> [q[i] EXCEPT !.fixed = TRUE]]
  OBVIOUS
<1>5. patches' = [patches EXCEPT ![v] = f]
  BY <1>2, <1>3, <1>4 DEF Tables!Fixup
<1>6. /\ patches' \in [1 .. NumVCPUs -> Seq(PatchStates)] /\ patches'[v] = f
      /\ Len(f) = Len(q) /\ DOMAIN f = DOMAIN q
      /\ \A i \in DOMAIN q : /\ f[i].root = q[i].root /\ f[i].lpn = q[i].lpn /\ f[i].tables = q[i].tables
                              /\ f[i].maps = q[i].maps /\ f[i].fixed
  <2>1. Len(q) \in Nat /\ DOMAIN q = 1 .. Len(q)
    BY <1>3
  <2>2. \A r \in PatchStates : [r EXCEPT !.fixed = TRUE] \in PatchStates
    BY DEF PatchStates
  <2>3. \A i \in 1 .. Len(q) : f[i] \in PatchStates
    BY <1>4, <2>1, <2>2
  <2>4. f = [i \in 1 .. Len(q) |-> [q[i] EXCEPT !.fixed = TRUE]]
    BY <1>4, <2>1
  <2>5. f \in Seq(PatchStates) /\ Len(f) = Len(q) /\ DOMAIN f = DOMAIN q
    BY <2>1, <2>3, <2>4
  <2>6. \A r \in PatchStates : \A t : t = [r EXCEPT !.fixed = TRUE] =>
          t.root = r.root /\ t.lpn = r.lpn /\ t.tables = r.tables /\ t.maps = r.maps /\ t.fixed
    BY DEF PatchStates
  <2>7. \A i \in DOMAIN q : q[i] \in PatchStates /\ f[i] = [q[i] EXCEPT !.fixed = TRUE]
    BY <1>3, <1>4, <2>1
  <2>8. patches \in [1 .. NumVCPUs -> Seq(PatchStates)]
    BY DEF Patching, PatchTypes
  <2>9. patches' \in [1 .. NumVCPUs -> Seq(PatchStates)] /\ patches'[v] = f
    BY <1>5, <2>5, <2>8
  <2>10. \A i \in DOMAIN q : /\ f[i].root = q[i].root /\ f[i].lpn = q[i].lpn /\ f[i].tables = q[i].tables
                             /\ f[i].maps = q[i].maps /\ f[i].fixed
    <3> TAKE i \in DOMAIN q
    <3>1. q[i] \in PatchStates /\ f[i] = [q[i] EXCEPT !.fixed = TRUE]
      BY <2>7
    <3> QED
      BY <2>6, <3>1
  <2> QED
    BY <2>5, <2>9, <2>10
<1>7. PatchTypes'
  <2>1. \A i \in DOMAIN left' : left'[i] \in PatchPages(vcpu)'
    BY <1>1 DEF Patching, PatchTypes, PatchPages
  <2> QED
    BY <1>1, <1>6, <2>1 DEF Patching, PatchTypes, PatchSteps
<1>8. \A w \in 1 .. NumVCPUs : w # v => patches'[w] = patches[w] /\ written'[w] = written[w]
  BY <1>1, <1>5
<1>9. InTurn'
  BY <1>1, <1>2, <1>8, InTurnKept DEF Patching
<1>10. Patched(v)'
  <2>1. PatchedAt(v, q, written[v])
    BY <1>2, <1>3, Zenon DEF Patching, Patched
  <2>2. PatchedAt(v, f, written[v])
    <3>1. written[v] = 0 /\ 1 .. 0 = {}
      BY <1>1, <1>2 DEF Patching, Underway
    <3> QED
      BY <1>6, <2>1, <3>1 DEF PatchedAt
  <2> QED
    BY <1>1, <1>6, <2>2, NowPatched
<1>11. \A w \in 1 .. NumVCPUs : Patched(w)'
  BY <1>1, <1>8, <1>10, OthersPatched DEF Patching
<1>12. TablesTracked'
  <2>1. ASSUME NEW w \in 1 .. NumVCPUs
        PROVE  /\ DOMAIN patches'[w] = DOMAIN patches[w]
               /\ \A i \in DOMAIN patches[w] : patches'[w][i].tables = patches[w][i].tables
    BY <1>3, <1>6, <1>8
  <2> QED
    BY <1>1, <2>1 DEF Patching, TablesTracked
<1>13. \A lpn \in PatchPages(v) : Placed(v, lpn)'
  <2> SUFFICES ASSUME NEW lpn \in PatchPages(v) PROVE Placed(v, lpn)'
    OBVIOUS
  <2>1. Placed(v, lpn)
    <3>1. DOMAIN left = {}
      BY <1>1
    <3> QED
      BY <1>1, <1>2, <3>1 DEF Patching, Underway
  <2>2. PICK i \in DOMAIN q :
          /\ q[i].root = Tables!Entry(lpn, Tables!Level(lpn)) /\ Tables!Level(lpn) # 0
          /\ lpn \in q[i].maps /\ Tables!Path(lpn) \subseteq q[i].tables
    BY <1>3, <2>1, Zenon DEF Placed
  <2>3. /\ Tables!Entry(lpn, Tables!Level(lpn))' = Tables!Entry(lpn, Tables!Level(lpn))
        /\ Tables!Level(lpn)' = Tables!Level(lpn) /\ Tables!Path(lpn)' = Tables!Path(lpn)
    BY <1>1, MachineKept
  <2>4. /\ i \in DOMAIN f /\ f[i].root = Tables!Entry(lpn, Tables!Level(lpn))
        /\ lpn \in f[i].maps /\ Tables!Path(lpn) \subseteq f[i].tables
    BY <1>6, <2>2
  <2> QED
    BY <1>6, <2>2, <2>3, <2>4, Zenon DEF Placed
<1>14. Underway'
  <2>1. \A w : PatchPages(w)' = PatchPages(w)
    BY <1>1, MachineKept
  <2>2. \A i \in DOMAIN patches'[v] : patches'[v][i].fixed
    BY <1>6
  <2>3. patchPc' # "create"
    BY <1>1
  <2> QED
    BY <1>1, <1>2, <1>13, <2>1, <2>2, <2>3, Zenon DEF Underway
<1>15. Excused'
  BY <1>1 DEF Excused
<1> QED
  BY <1>1, <1>7, <1>9, <1>11, <1>12, <1>14, <1>15 DEF Patching

LEMMA ApplyPatchStep == Patching /\ Tables!ApplyPatch => Patching'
<1> SUFFICES ASSUME Patching, Tables!ApplyPatch PROVE Patching'
  OBVIOUS
<1>1. /\ patchPc = "apply" /\ written[vcpu] < Len(patches[vcpu])
      /\ UNCHANGED <<layout, stray, vcpu, left, patches, numPTPPages, vmNumPTPPages, tracked,
                     failed, untracked>>
  BY DEF Tables!ApplyPatch
<1>2. PICK v \in 1 .. NumVCPUs : v = vcpu
  BY DEF Patching, PatchTypes
<1>3. PICK q \in Seq(PatchStates), k \in Nat : q = patches[v] /\ k = written[v]
  BY DEF Patching, PatchTypes
<1>4. PatchedAt(v, q, k)
  BY <1>2, <1>3, Zenon DEF Patching, Patched
<1>5. k + 1 \in DOMAIN q /\ k < Len(q) /\ Len(q) \in Nat /\ DOMAIN q = 1 .. Len(q)
  BY <1>1, <1>2, <1>3
<1>6. \A w : PatchPages(w)' = PatchPages(w)
  BY <1>1, MachineKept
<1>7. CASE Tables!Free(v, q[k + 1]) /\ Tables!Readable(v, q[k + 1].lpn, q[k + 1].root[1])
  <2>1. patchPc' = "apply" /\ written' = [written EXCEPT ![v] = k + 1]
    BY <1>1, <1>2, <1>3, <1>7 DEF Tables!ApplyPatch
  <2>2. written' \in [1 .. NumVCPUs -> Nat] /\ written'[v] = k + 1 /\ patches'[v] = q
    <3>1. written \in [1 .. NumVCPUs -> Nat]
      BY DEF Patching, PatchTypes
    <3> QED
      BY <1>1, <1>3, <2>1, <3>1
  <2>3. \A w \in 1 .. NumVCPUs : w # v => patches'[w] = patches[w] /\ written'[w] = written[w]
    BY <1>1, <2>1
  <2>4. PatchTypes'
    <3>1. \A i \in DOMAIN left' : left'[i] \in PatchPages(vcpu)'
      BY <1>1 DEF Patching, PatchTypes, PatchPages
    <3> QED
      BY <1>1, <2>1, <2>2, <3>1 DEF Patching, PatchTypes, PatchSteps
  <2>5. InTurn'
    BY <1>1, <1>2, <2>1, <2>3, InTurnKept DEF Patching
  <2>6. Patched(v)'
    <3>1. q[k + 1].root \notin Tables!MonEntries
      BY <1>7 DEF Tables!Free
    <3>2. \A i \in 1 .. k + 1 : i \in 1 .. k \/ i = k + 1
      BY <1>3
    <3>3. k + 1 \in 0 .. Len(q)
      BY <1>5
    <3>4. PatchedAt(v, q, k + 1)
      BY <1>4, <3>1, <3>2, <3>3, Zenon DEF PatchedAt
    <3> QED
      BY <1>1, <2>2, <3>4, NowPatched
  <2>7. \A w \in 1 .. NumVCPUs : Patched(w)'
    BY <1>1, <2>3, <2>6, OthersPatched DEF Patching
  <2>8. TablesTracked'
    BY <1>1, <2>1 DEF Patching, TablesTracked
  <2>9. \A lpn : Placed(v, lpn) => Placed(v, lpn)'
    <3> SUFFICES ASSUME NEW lpn, Placed(v, lpn) PROVE Placed(v, lpn)'
      OBVIOUS
    <3>1. /\ Tables!Entry(lpn, Tables!Level(lpn))' = Tables!Entry(lpn, Tables!Level(lpn))
          /\ Tables!Level(lpn)' = Tables!Level(lpn) /\ Tables!Path(lpn)' = Tables!Path(lpn)
      BY <1>1, MachineKept
    <3>2. patches' = patches
      BY <1>1
    <3> QED
      BY <3>1, <3>2, Zenon DEF Placed
  <2>10. Underway'
    <3>1. (\A lpn \in PatchPages(v) : Placed(v, lpn)) /\ (\A i \in DOMAIN q : q[i].fixed)
      BY <1>1, <1>2, <1>3, Zenon DEF Patching, Underway
    <3>2. \A lpn \in PatchPages(v)' : Placed(v, lpn)'
      BY <1>6, <2>9, <3>1
    <3>3. \A i \in DOMAIN patches'[v] : patches'[v][i].fixed
      BY <2>2, <3>1, Zenon
    <3>4. patchPc' # "create" /\ vcpu' = v
      BY <1>1, <1>2, <2>1
    <3> QED
      BY <3>2, <3>3, <3>4, Zenon DEF Underway
  <2>11. Excused'
    BY <2>1 DEF Excused
  <2> QED
    BY <2>1, <2>4, <2>5, <2>7, <2>8, <2>10, <2>11 DEF Patching
<1>8. CASE ~(Tables!Free(v, q[k + 1]) /\ Tables!Readable(v, q[k + 1].lpn, q[k + 1].root[1]))
  <2>1. patchPc' = "failed" /\ written' = written
    BY <1>1, <1>2, <1>3, <1>8 DEF Tables!ApplyPatch, Tables!Fail
  <2>2. PICK lpn : lpn = q[k + 1].lpn
    OBVIOUS
  <2>3. /\ lpn \in PatchPages(v) /\ q[k + 1].root = Tables!Entry(lpn, Tables!Level(lpn))
        /\ Tables!Level(lpn) # 0
    BY <1>4, <1>5, <2>2 DEF PatchedAt
  <2>4. Hindered(v, lpn)
    <3> SUFFICES ASSUME Tables!CanPatch(lpn), Tables!Readable(v, lpn, Tables!Level(lpn)) PROVE FALSE
      BY DEF Hindered
    <3>1. lpn \in Nat
      BY <2>3, TablesConstants DEF Patching, PatchTypes, PatchPages
    <3>2. /\ Tables!Level(lpn) \in 2 .. 4 /\ Tables!Entry(lpn, Tables!Level(lpn)) \notin Tables!MonEntries
          /\ \A l \in Tables!Level(lpn) + 1 .. 4 : Tables!Entry(lpn, l) \in Tables!MonEntries
      BY <3>1, CanPatchLevel DEF Patching
    <3>3. q[k + 1].root[1] = Tables!Level(lpn)
      BY <2>3 DEF Tables!Entry
    <3>4. q[k + 1].root \notin Tables!PatchRoots(v)
      <4> SUFFICES ASSUME NEW i \in 1 .. k, q[i].root = q[k + 1].root PROVE FALSE
        BY <1>3 DEF Tables!PatchRoots, Tables!Applied
      <4>1. i \in DOMAIN q /\ i # k + 1
        BY <1>5
      <4> QED
        BY <1>4, <1>5, <4>1 DEF PatchedAt
    <3>5. q[k + 1].root[1] > 1
      BY <3>2, <3>3
    <3>6. Tables!Readable(v, q[k + 1].lpn, q[k + 1].root[1])
      BY <2>2, <3>3, Zenon
    <3> QED
      BY <1>8, <2>2, <2>3, <3>2, <3>3, <3>4, <3>5, <3>6 DEF Tables!Free
  <2>5. Excused'
    BY <1>1, <2>3, <2>4, ExcusedNow
  <2>6. PatchTypes' /\ InTurn' /\ TablesTracked' /\ \A w \in 1 .. NumVCPUs : Patched(w)'
    <3>1. vmNumPTPPages' \in Nat /\ patchPc' \in PatchSteps
      BY <1>1, <2>1 DEF Patching, PatchTypes, PatchSteps
    <3> QED
      BY <1>1, <2>1, <3>1, PatchingKept
  <2>7. Underway'
    BY <2>1 DEF Underway
  <2> QED
    BY <1>1, <2>1, <2>5, <2>6, <2>7 DEF Patching
<1> QED
  BY <1>7, <1>8

\* What the walk finds of a page that is patched.
LEMMA WalkHost ==
  ASSUME PatchTypes, NEW v \in 1 .. NumVCPUs, Patched(v), \A i \in DOMAIN patches[v] : patches[v][i].fixed,
         written[v] = Len(patches[v]), NEW lpn \in PatchPages(v), Placed(v, lpn)
  PROVE  Tables!Walk(v, lpn) = "host"
<1>1. PICK q \in Seq(PatchStates) : q = patches[v]
  BY DEF PatchTypes
<1>2. PatchedAt(v, q, Len(q)) /\ DOMAIN q = 1 .. Len(q)
  <2>1. PatchedAt(v, q, Len(q))
    BY <1>1, Zenon DEF Patched
  <2> QED
    BY <1>1, <2>1
<1>3. PICK i \in DOMAIN q :
        /\ q[i].root = Tables!Entry(lpn, Tables!Level(lpn)) /\ Tables!Level(lpn) # 0
        /\ lpn \in q[i].maps /\ Tables!Path(lpn) \subseteq q[i].tables
  BY <1>1, Zenon DEF Placed
<1>4. Tables!Applied(v) = {q[j] : j \in DOMAIN q}
  BY <1>1, <1>2, Zenon DEF Tables!Applied
<1>5. lpn \in Nat
  BY TablesConstants DEF PatchTypes, PatchPages
<1>6. Tables!Level(lpn) \in 1 .. 4
  BY <1>3, LevelFacts
<1>7. ASSUME NEW j \in DOMAIN q, q[j].root = Tables!Entry(lpn, q[j].root[1]) PROVE j = i
  <2>1. PICK b : b = q[j].lpn
    OBVIOUS
  <2>2. b \in PatchPages(v) /\ q[j].root = Tables!Entry(b, Tables!Level(b)) /\ Tables!Level(b) # 0
    BY <1>2, <2>1 DEF PatchedAt
  <2>3. b \in Nat /\ Tables!Level(b) \in 1 .. 4
    BY <2>2, TablesConstants, LevelFacts, SMTT(40) DEF PatchTypes, PatchPages
  <2>4. q[j].root[1] = Tables!Level(b)
    BY <2>2 DEF Tables!Entry
  <2>5. Tables!Entry(b, Tables!Level(b)) = Tables!Entry(lpn, Tables!Level(b))
    BY <1>7, <2>2, <2>4
  <2>6. Tables!Level(b) = Tables!Level(lpn)
    BY <1>3, <1>5, <2>2, <2>3, <2>5, OneRoot
  <2>7. q[j].root = q[i].root
    BY <1>3, <2>2, <2>5, <2>6
  <2> QED
    BY <1>2, <2>7 DEF PatchedAt
<1>8. {p \in Tables!Applied(v) : p.root = Tables!Entry(lpn, p.root[1])} = {q[i]}
  <2>1. q[i].root[1] = Tables!Level(lpn)
    BY <1>3 DEF Tables!Entry
  <2>2. q[i] \in Tables!Applied(v) /\ q[i].root = Tables!Entry(lpn, q[i].root[1])
    BY <1>3, <1>4, <2>1
  <2>3. ASSUME NEW p \in Tables!Applied(v), p.root = Tables!Entry(lpn, p.root[1]) PROVE p = q[i]
    <3>1. PICK j \in DOMAIN q : p = q[j]
      BY <1>4
    <3> QED
      BY <1>7, <2>3, <3>1
  <2> QED
    BY <2>2, <2>3
<1>9. \A level \in 2 .. q[i].root[1] : Tables!Entry(lpn, level) \in q[i].tables
  <2>1. q[i].root[1] = Tables!Level(lpn)
    BY <1>3 DEF Tables!Entry
  <2> QED
    BY <1>3, <2>1, Zenon DEF Tables!Path
<1>10. (CHOOSE p \in {q[i]} : TRUE) = q[i]
  OBVIOUS
<1>11. q[i].fixed
  BY <1>1, Zenon
<1>12. {q[i]} # {}
  OBVIOUS
<1> QED
  BY <1>3, <1>8, <1>9, <1>10, <1>11, <1>12, Zenon DEF Tables!Walk

LEMMA VerifyStep == Patching /\ Tables!Verify => Patching'
<1> SUFFICES ASSUME Patching, Tables!Verify PROVE Patching'
  OBVIOUS
<1>1. /\ patchPc = "apply" /\ written[vcpu] = Len(patches[vcpu])
      /\ UNCHANGED <<layout, stray, vcpu, left, patches, written, numPTPPages, vmNumPTPPages,
                     tracked, failed, untracked>>
  BY DEF Tables!Verify
<1>2. PICK v \in 1 .. NumVCPUs : v = vcpu
  BY DEF Patching, PatchTypes
<1>3. Verified(v)
  <2> SUFFICES ASSUME NEW lpn \in PatchPages(v) PROVE Tables!Walk(v, lpn) = "host"
    BY DEF Verified
  <2>1. Placed(v, lpn) /\ \A i \in DOMAIN patches[v] : patches[v][i].fixed
    BY <1>1, <1>2, Zenon DEF Patching, Underway
  <2>2. Patched(v) /\ PatchTypes
    BY DEF Patching
  <2> QED
    BY <1>1, <1>2, <2>1, <2>2, WalkHost
<1>4. /\ \A i \in 1 .. 3 : Tables!Wanted(v)[i] \in PatchPages(v)
      /\ \A i \in 1 .. 3 : Tables!Walk(v, Tables!Wanted(v)[i]) = "host"
  <2>1. /\ layout.data[v] \in Nat /\ layout.gdt \in Nat /\ layout.code \in Nat
        /\ {layout.data[v], layout.gdt, layout.code} = PatchPages(v)
    BY TablesConstants DEF Patching, PatchTypes, PatchPages
  <2>2. IsWanted(Tables!Wanted(v), layout.data[v], layout.gdt, layout.code)
    BY <2>1, WantedPages, Zenon DEF Tables!Wanted
  <2>3. \A i \in 1 .. 3 : Tables!Wanted(v)[i] \in PatchPages(v)
    BY <2>1, <2>2 DEF IsWanted
  <2> QED
    BY <1>3, <2>3 DEF Verified
<1>5. PatchTypes' /\ InTurn' /\ TablesTracked' /\ \A w \in 1 .. NumVCPUs : Patched(w)'
  <2>1. patchPc' \in {"next", "failed"}
    BY Zenon DEF Tables!Verify, Tables!Fail
  <2>2. vmNumPTPPages' \in Nat /\ patchPc' \in PatchSteps /\ patchPc' # "released"
    BY <1>1, <2>1 DEF Patching, PatchTypes, PatchSteps
  <2>3. tracked' = tracked /\ patchPc # "released"
    BY <1>1
  <2>4. \A w \in 1 .. NumVCPUs : w = vcpu => Verified(w)
    BY <1>2, <1>3
  <2> QED
    BY <1>1, <2>2, <2>3, <2>4, PatchingKept
<1>6. CASE \A i \in 1 .. 3 : LET lpn == Tables!Wanted(v)[i]
                            IN Tables!Readable(v, lpn, Tables!Level(lpn))
  <2>1. patchPc' = "next"
    BY <1>2, <1>4, <1>6, Zenon DEF Tables!Verify
  <2>2. Underway' /\ Excused'
    BY <2>1 DEF Underway, Excused
  <2> QED
    BY <1>5, <2>1, <2>2 DEF Patching
<1>7. ASSUME NEW i \in 1 .. 3,
             ~Tables!Readable(v, Tables!Wanted(v)[i], Tables!Level(Tables!Wanted(v)[i]))
      PROVE  Patching'
  <2>1. patchPc' = "failed"
    BY <1>2, <1>7, Zenon DEF Tables!Verify, Tables!Fail
  <2>2. PICK lpn \in PatchPages(v) : lpn = Tables!Wanted(v)[i]
    BY <1>4
  <2>3. Hindered(v, lpn)
    BY <1>7, <2>2, Zenon DEF Hindered
  <2>4. Excused'
    BY <1>1, <2>3, ExcusedNow
  <2>5. Underway'
    BY <2>1 DEF Underway
  <2> QED
    BY <1>5, <2>1, <2>4, <2>5 DEF Patching
<1> QED
  BY <1>6, <1>7, Zenon

\* What is patched is not what the monitor has given up.
LEMMA GiveUpStep == Patching /\ Tables!GiveUp => Patching'
<1> SUFFICES ASSUME Patching, Tables!GiveUp PROVE Patching'
  OBVIOUS
<1>1. /\ UNCHANGED <<layout, stray, vcpu, left, patches, written, numPTPPages, vmNumPTPPages,
                     tracked, failed>>
      /\ patchPc' = patchPc /\ patchPc \in {"create", "apply", "next"}
  BY DEF Tables!GiveUp
<1>2. /\ PatchTypes' /\ InTurn' /\ TablesTracked' /\ \A w \in 1 .. NumVCPUs : Patched(w)'
      /\ \A v, lpn : Placed(v, lpn)' <=> Placed(v, lpn)
  <2>1. vmNumPTPPages' \in Nat /\ patchPc' \in PatchSteps
    BY <1>1 DEF Patching, PatchTypes
  <2>2. patchPc \in {"next", "done"} => \A v \in 1 .. NumVCPUs : v = vcpu => Verified(v)
    BY Zenon DEF Patching, InTurn
  <2>3. patchPc' # "released" => tracked' = tracked /\ patchPc # "released"
    BY <1>1
  <2> QED
    BY <1>1, <2>1, <2>2, <2>3, PatchingKept
<1>3. Underway'
  <2>1. \A w : PatchPages(w)' = PatchPages(w)
    BY <1>1, MachineKept
  <2>2. /\ patches' = patches /\ written' = written /\ vcpu' = vcpu /\ left' = left
        /\ patchPc' = patchPc
    BY <1>1
  <2> QED
    BY <1>2, <2>1, <2>2, Zenon DEF Patching, Underway
<1>4. Excused'
  BY <1>1 DEF Excused
<1> QED
  BY <1>1, <1>2, <1>3, <1>4 DEF Patching

LEMMA InitOwnLosses == Tables!Init => OwnLosses
BY DEF OwnLosses, Tables!Init

LEMMA OwnLossesStep == OwnLosses /\ [Tables!Next]_patchVars => OwnLosses'
BY DEF OwnLosses, Tables!Next, Tables!CreatePatch, Tables!NoMemory, Tables!Fixup,
       Tables!ApplyPatch, Tables!Verify, Tables!GiveUp, Tables!NextVCPU, Tables!Cleanup,
       patchVars

LEMMA NextVCPUStep == Patching /\ Tables!NextVCPU => Patching'
<1> SUFFICES ASSUME Patching, Tables!NextVCPU PROVE Patching'
  OBVIOUS
<1>1. /\ patchPc = "next"
      /\ UNCHANGED <<layout, stray, patches, written, numPTPPages, tracked, failed>>
  BY DEF Tables!NextVCPU
<1>2. vcpu \in 1 .. NumVCPUs /\ NumVCPUs \in Nat
  BY TablesConstants DEF Patching, PatchTypes
<1>3. CASE vcpu < NumVCPUs
  <2>1. /\ vcpu' = vcpu + 1 /\ left' = Tables!Wanted(vcpu + 1) /\ patchPc' = "create"
        /\ UNCHANGED vmNumPTPPages
    BY <1>3, Zenon DEF Tables!NextVCPU
  <2>2. PICK u \in 1 .. NumVCPUs : u = vcpu + 1
    BY <1>2, <1>3
  <2>3. /\ layout.data[u] \in Nat /\ layout.gdt \in Nat /\ layout.code \in Nat
        /\ {layout.data[u], layout.gdt, layout.code} = PatchPages(u)
    BY TablesConstants DEF Patching, PatchTypes, PatchPages
  <2>4. IsWanted(left', layout.data[u], layout.gdt, layout.code)
    BY <2>1, <2>2, <2>3, WantedPages, Zenon DEF Tables!Wanted
  <2>5. \A w : PatchPages(w)' = PatchPages(w)
    BY <1>1, MachineKept
  <2>6. PatchTypes'
    <3>1. \A i \in DOMAIN left' : left'[i] \in PatchPages(u)
      BY <2>3, <2>4 DEF IsWanted
    <3>2. \A i \in DOMAIN left' : left'[i] \in PatchPages(vcpu)'
      BY <1>1, <2>1, <2>2, <3>1 DEF PatchPages
    <3> QED
      BY <1>1, <2>1, <2>2, <2>4, <3>2 DEF Patching, PatchTypes, PatchSteps, IsWanted
  <2>7. \A w : (Verified(w)' <=> Verified(w)) /\ (Patched(w)' <=> Patched(w))
    BY <1>1, OthersPatched
  <2>8. InTurn'
    <3>1. \A w \in 1 .. NumVCPUs : w < vcpu + 1 => w < vcpu \/ w = vcpu
      BY <1>2
    <3>2. \A w \in 1 .. NumVCPUs : w > vcpu + 1 => w > vcpu
      BY <1>2
    <3> QED
      BY <1>1, <2>1, <2>7, <3>1, <3>2 DEF Patching, InTurn
  <2>9. Underway'
    <3>1. patches'[u] = <<>> /\ written'[u] = 0
      <4>1. u > vcpu
        BY <1>2, <2>2
      <4> QED
        BY <1>1, <4>1 DEF Patching, InTurn
    <3>2. Len(left') = 3 /\ \A q \in PatchPages(u) : \E i \in DOMAIN left' : left'[i] = q
      BY <2>3, <2>4 DEF IsWanted
    <3>3. Len(patches'[u]) + Len(left') <= 3
      BY <3>1, <3>2
    <3>4. patchPc' # "apply" /\ vcpu' = u
      BY <2>1, <2>2
    <3> QED
      BY <2>5, <3>1, <3>2, <3>3, <3>4, Zenon DEF Underway
  <2>10. TablesTracked' /\ Excused'
    BY <1>1, <2>1 DEF Patching, TablesTracked, Excused
  <2> QED
    BY <2>1, <2>6, <2>7, <2>8, <2>9, <2>10 DEF Patching
<1>4. CASE ~(vcpu < NumVCPUs)
  <2>1. vmNumPTPPages' = numPTPPages /\ patchPc' = "done" /\ UNCHANGED <<vcpu, left>>
    BY <1>4, Zenon DEF Tables!NextVCPU
  <2>2. vcpu = NumVCPUs
    BY <1>2, <1>4
  <2>3. PatchTypes' /\ InTurn' /\ TablesTracked' /\ \A w \in 1 .. NumVCPUs : Patched(w)'
    <3>1. vmNumPTPPages' \in Nat /\ patchPc' \in PatchSteps
      BY <1>1, <2>1 DEF Patching, PatchTypes, PatchSteps
    <3>2. \A v \in 1 .. NumVCPUs : v = vcpu => Verified(v)
      BY <1>1, Zenon DEF Patching, InTurn
    <3> QED
      BY <1>1, <2>1, <3>1, <3>2, PatchingKept
  <2>4. Underway' /\ Excused'
    BY <2>1 DEF Underway, Excused
  <2> QED
    BY <1>1, <2>1, <2>2, <2>3, <2>4 DEF Patching
<1> QED
  BY <1>3, <1>4

LEMMA CleanupStep == Patching /\ Tables!Cleanup => Patching'
<1> SUFFICES ASSUME Patching, Tables!Cleanup PROVE Patching'
  OBVIOUS
<1>1. /\ patchPc' = "released"
      /\ UNCHANGED <<layout, stray, vcpu, left, patches, written, numPTPPages, vmNumPTPPages,
                     failed>>
  BY DEF Tables!Cleanup
<1>2. PatchTypes' /\ InTurn' /\ TablesTracked' /\ \A w \in 1 .. NumVCPUs : Patched(w)'
  <2>1. vmNumPTPPages' \in Nat /\ patchPc' \in PatchSteps
    BY <1>1 DEF Patching, PatchTypes, PatchSteps
  <2> QED
    BY <1>1, <2>1, PatchingKept
<1>3. Underway' /\ Excused'
  BY <1>1 DEF Underway, Excused
<1> QED
  BY <1>1, <1>2, <1>3 DEF Patching

LEMMA PatchingStep == Patching /\ [Tables!Next]_patchVars => Patching'
<1> SUFFICES ASSUME Patching, [Tables!Next]_patchVars PROVE Patching'
  OBVIOUS
<1>1. CASE UNCHANGED patchVars
  <2>1. /\ UNCHANGED <<layout, stray, vcpu, left, patches, written, numPTPPages, vmNumPTPPages,
                       tracked, failed, untracked>>
        /\ patchPc' = patchPc
    BY <1>1 DEF patchVars
  <2>2. /\ PatchTypes' /\ InTurn' /\ TablesTracked' /\ \A w \in 1 .. NumVCPUs : Patched(w)'
        /\ \A v, lpn : Placed(v, lpn)' <=> Placed(v, lpn)
    <3>1. vmNumPTPPages' \in Nat /\ patchPc' \in PatchSteps
      BY <2>1 DEF Patching, PatchTypes
    <3>2. patchPc \in {"next", "done"} => \A v \in 1 .. NumVCPUs : v = vcpu => Verified(v)
      BY Zenon DEF Patching, InTurn
    <3>3. patchPc' # "released" => tracked' = tracked /\ patchPc # "released"
      BY <2>1
    <3> QED
      BY <2>1, <3>1, <3>2, <3>3, PatchingKept
  <2>3. Excused'
    BY <2>1, ExcusedKept DEF Patching
  <2>4. Underway'
    <3>1. \A w : PatchPages(w)' = PatchPages(w)
      BY <2>1, MachineKept
    <3>2. patches' = patches /\ written' = written /\ vcpu' = vcpu /\ left' = left /\ patchPc' = patchPc
      BY <2>1
    <3> QED
      BY <2>2, <3>1, <3>2, Zenon DEF Patching, Underway
  <2> QED
    BY <2>1, <2>2, <2>3, <2>4 DEF Patching
<1>2. CASE Tables!Next
  BY <1>2, CreatePatchStep, NoMemoryStep, FixupStep, ApplyPatchStep, VerifyStep, GiveUpStep,
     NextVCPUStep, CleanupStep
     DEF Tables!Next
<1> QED
  BY <1>1, <1>2

\* What the walk finds of a page that is not patched.
LEMMA WalkOther ==
  ASSUME PatchTypes, NEW v \in 1 .. NumVCPUs, Patched(v), NEW lpn \in Nat, lpn \notin PatchPages(v)
  PROVE  Tables!Walk(v, lpn) = IF lpn \in Tables!MonMapped THEN "monitor" ELSE "none"
<1>1. PICK q \in Seq(PatchStates), k \in Nat : q = patches[v] /\ k = written[v]
  BY DEF PatchTypes
<1>2. PatchedAt(v, q, k)
  BY <1>1, Zenon DEF Patched
<1>3. k <= Len(q) /\ DOMAIN q = 1 .. Len(q) /\ Len(q) \in Nat
  BY <1>1, <1>2 DEF PatchedAt
<1> DEFINE on == {p \in Tables!Applied(v) : p.root = Tables!Entry(lpn, p.root[1])}
<1>4. CASE on = {}
  BY <1>4, Zenon DEF Tables!Walk
<1>5. CASE on # {}
  <2>1. PICK p : p = CHOOSE r \in on : TRUE
    OBVIOUS
  <2>2. p \in on
    BY <1>5, <2>1
  <2>3. PICK i \in 1 .. k : p = q[i] /\ q[i].root = Tables!Entry(lpn, q[i].root[1])
    BY <1>1, <2>2 DEF Tables!Applied
  <2>4. i \in DOMAIN q
    BY <1>1, <1>3
  <2>5. lpn \notin q[i].maps
    BY <1>2, <2>4 DEF PatchedAt
  <2>6. lpn \notin Tables!MonMapped
    <3>1. q[i].root \notin Tables!MonEntries
      BY <1>2 DEF PatchedAt
    <3>2. q[i].root[1] \in 1 .. 4
      <4>1. q[i] \in PatchStates
        BY <1>1, <2>4
      <4> QED
        BY <4>1 DEF PatchStates, Entries
    <3> QED
      BY <2>3, <3>1, <3>2 DEF Tables!MonEntries, Tables!Levels
  <2>7. Tables!Walk(v, lpn) = "none"
    BY <1>5, <2>1, <2>3, <2>5, Zenon DEF Tables!Walk
  <2> QED
    BY <2>6, <2>7
<1> QED
  BY <1>4, <1>5

LEMMA PatchingEnough == Patching => Tables!TablesExact
<1> SUFFICES ASSUME Patching PROVE Tables!TablesExact
  OBVIOUS
<1>0. ASSUME NEW v \in 1 .. NumVCPUs
      PROVE  /\ \A i \in 1 .. 3 : Tables!Wanted(v)[i] \in PatchPages(v)
             /\ \A lpn \in PatchPages(v) : \E i \in 1 .. 3 : Tables!Wanted(v)[i] = lpn
  <2>1. /\ layout.data[v] \in Nat /\ layout.gdt \in Nat /\ layout.code \in Nat
        /\ {layout.data[v], layout.gdt, layout.code} = PatchPages(v)
    BY TablesConstants DEF Patching, PatchTypes, PatchPages
  <2>2. IsWanted(Tables!Wanted(v), layout.data[v], layout.gdt, layout.code)
    BY <2>1, WantedPages, Zenon DEF Tables!Wanted
  <2> QED
    BY <2>1, <2>2 DEF IsWanted
<1>1. ASSUME patchPc = "done", NEW v \in 1 .. NumVCPUs, NEW lpn \in Nat
      PROVE  Tables!Walk(v, lpn) = IF \E i \in 1 .. 3 : Tables!Wanted(v)[i] = lpn THEN "host"
                                   ELSE IF lpn \in Tables!MonMapped THEN "monitor" ELSE "none"
  <2>1. CASE lpn \in PatchPages(v)
    <3>1. v < vcpu \/ v = vcpu
      BY <1>1, TablesConstants DEF Patching
    <3>2. Verified(v)
      BY <1>1, <3>1 DEF Patching, InTurn
    <3>3. \E i \in 1 .. 3 : Tables!Wanted(v)[i] = lpn
      BY <1>0, <2>1
    <3> QED
      BY <2>1, <3>2, <3>3, Zenon DEF Verified
  <2>2. CASE lpn \notin PatchPages(v)
    <3>1. ~ \E i \in 1 .. 3 : Tables!Wanted(v)[i] = lpn
      BY <1>0, <2>2
    <3>2. Tables!Walk(v, lpn) = IF lpn \in Tables!MonMapped THEN "monitor" ELSE "none"
      BY <2>2, WalkOther DEF Patching
    <3> QED
      BY <3>1, <3>2
  <2> QED
    BY <2>1, <2>2
<1>2. Tables!LPNs \subseteq Nat
  BY DEF Tables!LPNs
<1>3. ASSUME patchPc = "done"
      PROVE  /\ vmNumPTPPages = Cardinality(tracked)
             /\ tracked = UNION {UNION {{<<v, i, e>> : e \in patches[v][i].tables} :
                                          i \in DOMAIN patches[v]} : v \in 1 .. NumVCPUs}
  <2>1. /\ Cardinality(tracked) = numPTPPages
        /\ \A x : x \in tracked <=>
             \E v \in 1 .. NumVCPUs : \E i \in DOMAIN patches[v] : \E e \in patches[v][i].tables :
               x = <<v, i, e>>
    BY <1>3 DEF Patching, TablesTracked
  <2>2. tracked = UNION {UNION {{<<v, i, e>> : e \in patches[v][i].tables} :
                                i \in DOMAIN patches[v]} : v \in 1 .. NumVCPUs}
    <3> DEFINE own(v, i) == {<<v, i, e>> : e \in patches[v][i].tables}
               all(v) == UNION {own(v, i) : i \in DOMAIN patches[v]}
    <3>1. ASSUME NEW x
          PROVE  x \in UNION {all(v) : v \in 1 .. NumVCPUs} <=>
                 \E v \in 1 .. NumVCPUs : \E i \in DOMAIN patches[v] : \E e \in patches[v][i].tables :
                   x = <<v, i, e>>
      <4>1. \A v, i : x \in own(v, i) <=> \E e \in patches[v][i].tables : x = <<v, i, e>>
        BY Zenon
      <4> HIDE DEF own
      <4>2. \A v : x \in all(v) <=> \E i \in DOMAIN patches[v] : x \in own(v, i)
        BY Zenon
      <4> HIDE DEF all
      <4>3. x \in UNION {all(v) : v \in 1 .. NumVCPUs} <=> \E v \in 1 .. NumVCPUs : x \in all(v)
        BY Zenon
      <4> QED
        BY <4>1, <4>2, <4>3, Zenon
    <3> QED
      BY <2>1, <3>1, Zenon
  <2> QED
    BY <1>3, <2>1, <2>2 DEF Patching
<1>4. (patchPc = "failed" /\ ~failed) =>
        \E v \in Tables!VcpuIDs : \E i \in 1 .. 3 : Hindered(v, Tables!Wanted(v)[i])
  <2> SUFFICES ASSUME patchPc = "failed" /\ ~failed
               PROVE  \E v \in 1 .. NumVCPUs : \E i \in 1 .. 3 : Hindered(v, Tables!Wanted(v)[i])
    BY Zenon DEF Tables!VcpuIDs
  <2>1. PICK v \in 1 .. NumVCPUs : \E lpn \in PatchPages(v) : Hindered(v, lpn)
    BY DEF Patching, Excused
  <2>2. PICK lpn \in PatchPages(v) : Hindered(v, lpn)
    BY <2>1
  <2>3. PICK i \in 1 .. 3 : Tables!Wanted(v)[i] = lpn
    BY <1>0
  <2> QED
    BY <2>2, <2>3, Zenon
<1> QED
  BY <1>1, <1>2, <1>3, <1>4, Zenon DEF Tables!TablesExact, Hindered, Tables!VcpuIDs,
     Tables!Cardinality, Cardinality

LEMMA PatchesTyped == Patching /\ OwnLosses => Tables!TypeOK
<1> SUFFICES ASSUME Patching, OwnLosses PROVE Tables!TypeOK
  OBVIOUS
<1>1. ASSUME NEW v \in 1 .. NumVCPUs
      PROVE  /\ Len(patches[v]) <= 3 /\ written[v] \in 0 .. Len(patches[v])
             /\ \A i \in DOMAIN patches[v] : patches[v][i].root[1] \in 1 .. 4
  <2>1. Patched(v) /\ patches[v] \in Seq(PatchStates)
    BY DEF Patching, PatchTypes
  <2>2. \A i \in DOMAIN patches[v] : patches[v][i] \in PatchStates
    BY <2>1
  <2>3. \A i \in DOMAIN patches[v] : patches[v][i].root[1] \in 1 .. 4
    BY <2>2 DEF PatchStates, Entries
  <2> QED
    BY <2>1, <2>3 DEF Patched, PatchedAt
<1> QED
  BY <1>1 DEF Patching, OwnLosses, PatchTypes, PatchSteps, Tables!TypeOK, Tables!VcpuIDs, Tables!Levels,
              Tables!MAX_SWITCH_PT_PATCHES

-----------------------------------------------------------------------------
(* What is computed of the replies.                                         *)

\* The values of registers, and those that the computation goes through.
AnyValue == [lo : SUBSET {0, 1}, hi : SUBSET {0, 1}, fields : [a : Int, b : Int]]

Common(lo, hi, fields) == [lo |-> lo, hi |-> hi, fields |-> fields]

EarlierNat == {p \in Nat \X Nat : p[1] < p[2]}

\* A set of numbers has a least one.
LEMMA LeastNumber ==
  ASSUME NEW S \in SUBSET Nat, S # {}
  PROVE  \E m \in S : \A n \in S : m <= n
<1>1. EarlierNat = OpToRel(<, Nat)
  BY DEF EarlierNat, OpToRel
<1>2. IsWellFoundedOn(EarlierNat, Nat)
  BY <1>1, NatLessThanWellFounded
<1>3. \E m \in S : \A n \in S : ~(<<n, m>> \in EarlierNat)
  BY <1>2, WFMin
<1>4. \A m, n \in Nat : n < m => <<n, m>> \in EarlierNat
  BY DEF EarlierNat
<1>5. \A m, n \in Nat : ~(n < m) => m <= n
  OBVIOUS
<1>6. PICK m \in S : \A n \in S : ~(<<n, m>> \in EarlierNat)
  BY <1>3
<1>7. \A n \in S : m <= n
  BY <1>4, <1>5, <1>6
<1> QED
  BY <1>7

\* And one that is not empty and has a bound has a greatest one.
LEMMA GreatestNumber ==
  ASSUME NEW n \in Nat, NEW S \in SUBSET (1 .. n), S # {}
  PROVE  \E m \in S : \A k \in S : m >= k
<1> DEFINE T == {n - k : k \in S}
<1>1. T \in SUBSET Nat /\ T # {}
  <2>1. \A k \in S : n - k \in Nat
    OBVIOUS
  <2>2. PICK k : k \in S
    OBVIOUS
  <2>3. n - k \in T
    BY <2>2
  <2> QED
    BY <2>1, <2>3
<1>2. PICK t \in T : \A u \in T : t <= u
  BY <1>1, LeastNumber
<1>3. PICK m \in S : t = n - m
  OBVIOUS
<1>4. ASSUME NEW k \in S PROVE m >= k
  <2>1. n - m <= n - k
    BY <1>2, <1>3
  <2>2. m \in 1 .. n /\ k \in 1 .. n
    OBVIOUS
  <2> QED
    BY <2>1, <2>2
<1> QED
  BY <1>4

\* A set of sets that is not empty has one that is a least one in it.
LEMMA LeastIn ==
  ASSUME NEW D, IsFiniteSet(D), NEW bad \in SUBSET (SUBSET D), bad # {}
  PROVE  \E d \in bad : \A x \in d : d \ {x} \notin bad
<1> DEFINE sizes == {n \in Nat : \E d \in bad : Cardinality(d) = n}
<1>1. \A d \in bad : IsFiniteSet(d) /\ Cardinality(d) \in Nat
  BY FS_Subset, FS_CardinalityType
<1>2. sizes # {} /\ sizes \in SUBSET Nat
  BY <1>1
<1>3. PICK m \in sizes : \A n \in sizes : m <= n
  BY <1>2, LeastNumber
<1>4. PICK d \in bad : Cardinality(d) = m
  OBVIOUS
<1>5. ASSUME NEW x \in d, d \ {x} \in bad PROVE FALSE
  <2>1. Cardinality(d \ {x}) = m - 1 /\ Cardinality(d \ {x}) \in Nat
    BY <1>1, <1>4, <1>5, FS_RemoveElement
  <2>2. m - 1 \in sizes
    BY <1>5, <2>1
  <2> QED
    BY <1>3, <2>2
<1> QED
  BY <1>4, <1>5

\* Two functions on the sets of indices that a fold goes through agree if they agree at first and
\* keep agreeing.
LEMMA SameFold ==
  ASSUME NEW D, IsFiniteSet(D), NEW g, NEW h, g[{}] = h[{}],
         \A d \in SUBSET D : d # {} => \E x \in d : g[d \ {x}] = h[d \ {x}] => g[d] = h[d]
  PROVE  g[D] = h[D]
<1> DEFINE bad == {d \in SUBSET D : g[d] # h[d]}
<1>1. SUFFICES ASSUME bad # {} PROVE FALSE
  OBVIOUS
<1>2. PICK d \in bad : \A x \in d : d \ {x} \notin bad
  BY <1>1, LeastIn
<1>3. d # {}
  OBVIOUS
<1>4. PICK x \in d : g[d \ {x}] = h[d \ {x}] => g[d] = h[d]
  BY <1>3
<1>5. d \ {x} \in SUBSET D
  OBVIOUS
<1> QED
  BY <1>2, <1>4, <1>5

\* The first of a sequence and what follows.
LEMMA TailFacts ==
  ASSUME NEW V, NEW s \in Seq(V), s # <<>>
  PROVE  /\ s[1] \in V /\ Tail(s) \in Seq(V) /\ DOMAIN Tail(s) = 1 .. Len(s) - 1 /\ Len(s) - 1 \in Nat
         /\ IsFiniteSet(DOMAIN Tail(s)) /\ \A i \in DOMAIN Tail(s) : Tail(s)[i] \in V
         /\ \A i \in DOMAIN Tail(s) : i + 1 \in DOMAIN s /\ Tail(s)[i] = s[i + 1]
         /\ \A i \in DOMAIN s : i = 1 \/ \E j \in DOMAIN Tail(s) : Tail(s)[j] = s[i]
         /\ 1 \in DOMAIN s
<1>1. /\ Len(s) \in Nat /\ DOMAIN s = 1 .. Len(s) /\ Len(s) >= 1 /\ Tail(s) \in Seq(V)
      /\ DOMAIN Tail(s) = 1 .. Len(s) - 1 /\ \A i \in 1 .. Len(s) - 1 : Tail(s)[i] = s[i + 1]
  OBVIOUS
<1>2. IsFiniteSet(1 .. Len(s) - 1)
  BY <1>1, FS_Interval
<1>3. ASSUME NEW i \in DOMAIN s, i # 1 PROVE \E j \in DOMAIN Tail(s) : Tail(s)[j] = s[i]
  <2>1. i - 1 \in 1 .. Len(s) - 1 /\ (i - 1) + 1 = i
    BY <1>1, <1>3
  <2>2. Tail(s)[i - 1] = s[i]
    BY <1>1, <2>1
  <2> QED
    BY <1>1, <2>1, <2>2
<1>4. \A i \in 1 .. Len(s) - 1 : i + 1 \in DOMAIN s
  BY <1>1
<1>5. \A i \in DOMAIN Tail(s) : Tail(s)[i] \in V
  BY <1>1
<1> QED
  BY <1>1, <1>2, <1>3, <1>4, <1>5

\* The last index of a set of them.
Latest(d) == CHOOSE x \in d : \A y \in d : x >= y

LEMMA LatestIn ==
  ASSUME NEW n \in Nat, NEW d \in SUBSET (1 .. n), d # {}
  PROVE  Latest(d) \in d
BY GreatestNumber, Zenon DEF Latest

\* What is joined with and: what all have.
LEMMA CommonJoin ==
  ASSUME NEW s \in Seq(AnyValue), s # <<>>
  PROVE  Msr!FindCommonJoin(s) =
           Common({b \in {0, 1} : \A i \in DOMAIN s : b \in s[i].lo}, s[1].hi, s[1].fields)
<1> DEFINE t == Tail(s)
           D == DOMAIN t
           sums(g) == [d \in SUBSET D |-> IF d = {} THEN s[1] ELSE
                         [lo |-> g[d \ {Latest(d)}].lo \cap t[Latest(d)].lo,
                          hi |-> g[d \ {Latest(d)}].hi, fields |-> g[d \ {Latest(d)}].fields]]
           iter == CHOOSE g : g = sums(g)
           all(d) == {b \in {0, 1} : b \in s[1].lo /\ \A i \in d : b \in t[i].lo}
           card == [d \in SUBSET D |-> Common(all(d), s[1].hi, s[1].fields)]
<1>1. Msr!FindCommonJoin(s) = iter[D]
  BY Zenon DEF Msr!FindCommonJoin, Msr!Combine, Msr!FoldLeft, Msr!MapThenFoldSet, Msr!Max,
     Msr!And,
               Msr!Value, Latest
<1>2. /\ s[1] \in AnyValue /\ DOMAIN t = 1 .. Len(s) - 1 /\ Len(s) - 1 \in Nat
      /\ IsFiniteSet(D) /\ \A i \in D : t[i] \in AnyValue
  BY TailFacts
<1>3. \A d \in SUBSET D : d # {} => Latest(d) \in d
  BY <1>2, LatestIn
<1>4. Common(all({}), s[1].hi, s[1].fields) = s[1]
  BY <1>2 DEF AnyValue, Common
<1>5. ASSUME NEW d \in SUBSET D, NEW x \in d
      PROVE  all(d) = all(d \ {x}) \cap t[x].lo
  BY <1>2 DEF AnyValue
<1>6. ASSUME NEW d \in SUBSET D, d # {}
      PROVE  card[d] = [lo |-> card[d \ {Latest(d)}].lo \cap t[Latest(d)].lo,
                        hi |-> card[d \ {Latest(d)}].hi, fields |-> card[d \ {Latest(d)}].fields]
  <2>1. PICK x \in d : x = Latest(d)
    BY <1>3, <1>6
  <2>2. /\ card[d \ {x}] = Common(all(d \ {x}), s[1].hi, s[1].fields)
        /\ card[d] = Common(all(d), s[1].hi, s[1].fields)
    OBVIOUS
  <2>3. all(d) = all(d \ {x}) \cap t[x].lo
    BY <1>5
  <2> HIDE DEF all, card
  <2>4. card[d \ {x}].lo = all(d \ {x}) /\ card[d \ {x}].hi = s[1].hi /\ card[d \ {x}].fields = s[1].fields
    BY <2>2 DEF Common
  <2>5. card[d] = [lo |-> all(d \ {x}) \cap t[x].lo, hi |-> s[1].hi, fields |-> s[1].fields]
    BY <2>2, <2>3 DEF Common
  <2> QED
    BY <2>1, <2>4, <2>5, Zenon
<1>7. card[{}] = s[1]
  BY <1>4
<1>8. card = sums(card)
  <2>1. card = [d \in SUBSET D |-> card[d]]
    OBVIOUS
  <2> HIDE DEF card
  <2> QED
    BY <1>6, <1>7, <2>1
<1> HIDE DEF card
<1>9. iter = sums(iter)
  BY <1>8, Zenon
<1> HIDE DEF iter
<1>10. /\ iter[{}] = s[1]
       /\ \A d \in SUBSET D : d # {} =>
            iter[d] = [lo |-> iter[d \ {Latest(d)}].lo \cap t[Latest(d)].lo,
                       hi |-> iter[d \ {Latest(d)}].hi, fields |-> iter[d \ {Latest(d)}].fields]
  <2>1. {} \in SUBSET D
    OBVIOUS
  <2>2. iter[{}] = sums(iter)[{}] /\ \A d \in SUBSET D : iter[d] = sums(iter)[d]
    BY <1>9, Zenon
  <2> QED
    BY <2>1, <2>2
<1> HIDE DEF sums
<1>11. iter[D] = card[D]
  <2>1. \A d \in SUBSET D : d # {} => \E x \in d : iter[d \ {x}] = card[d \ {x}] => iter[d] = card[d]
    <3> SUFFICES ASSUME NEW d \in SUBSET D, d # {}
                 PROVE  \E x \in d : iter[d \ {x}] = card[d \ {x}] => iter[d] = card[d]
      OBVIOUS
    <3>1. Latest(d) \in d
      BY <1>3
    <3> QED
      BY <1>6, <1>10, <3>1
  <2> QED
    <3>1. iter[{}] = card[{}] /\ IsFiniteSet(D)
      BY <1>2, <1>7, <1>10
    <3> HIDE DEF D
    <3> QED
      BY <2>1, <3>1, SameFold
<1>12. card[D] = Common(all(D), s[1].hi, s[1].fields)
  BY DEF card
<1>13. all(D) = {b \in {0, 1} : \A i \in DOMAIN s : b \in s[i].lo}
  BY TailFacts
<1> QED
  BY <1>1, <1>11, <1>12, <1>13

\* What is joined with or: what any has.
LEMMA CommonFixed0 ==
  ASSUME NEW s \in Seq(AnyValue), s # <<>>
  PROVE  Msr!FindCommonFixed0(s) =
           Common({b \in {0, 1} : \E i \in DOMAIN s : b \in s[i].lo}, s[1].hi, s[1].fields)
<1> DEFINE t == Tail(s)
           D == DOMAIN t
           sums(g) == [d \in SUBSET D |-> IF d = {} THEN s[1] ELSE
                         [lo |-> g[d \ {Latest(d)}].lo \cup t[Latest(d)].lo,
                          hi |-> g[d \ {Latest(d)}].hi, fields |-> g[d \ {Latest(d)}].fields]]
           iter == CHOOSE g : g = sums(g)
           any(d) == {b \in {0, 1} : b \in s[1].lo \/ \E i \in d : b \in t[i].lo}
           card == [d \in SUBSET D |-> Common(any(d), s[1].hi, s[1].fields)]
<1>1. Msr!FindCommonFixed0(s) = iter[D]
  BY Zenon DEF Msr!FindCommonFixed0, Msr!Combine, Msr!FoldLeft, Msr!MapThenFoldSet, Msr!Max,
     Msr!Or,
               Msr!Value, Latest
<1>2. /\ s[1] \in AnyValue /\ DOMAIN t = 1 .. Len(s) - 1 /\ Len(s) - 1 \in Nat
      /\ IsFiniteSet(D) /\ \A i \in D : t[i] \in AnyValue
  BY TailFacts
<1>3. \A d \in SUBSET D : d # {} => Latest(d) \in d
  BY <1>2, LatestIn
<1>4. Common(any({}), s[1].hi, s[1].fields) = s[1]
  BY <1>2 DEF AnyValue, Common
<1>5. ASSUME NEW d \in SUBSET D, NEW x \in d
      PROVE  any(d) = any(d \ {x}) \cup t[x].lo
  BY <1>2 DEF AnyValue
<1>6. ASSUME NEW d \in SUBSET D, d # {}
      PROVE  card[d] = [lo |-> card[d \ {Latest(d)}].lo \cup t[Latest(d)].lo,
                        hi |-> card[d \ {Latest(d)}].hi, fields |-> card[d \ {Latest(d)}].fields]
  <2>1. PICK x \in d : x = Latest(d)
    BY <1>3, <1>6
  <2>2. /\ card[d \ {x}] = Common(any(d \ {x}), s[1].hi, s[1].fields)
        /\ card[d] = Common(any(d), s[1].hi, s[1].fields)
    OBVIOUS
  <2>3. any(d) = any(d \ {x}) \cup t[x].lo
    BY <1>5
  <2> HIDE DEF any, card
  <2>4. card[d \ {x}].lo = any(d \ {x}) /\ card[d \ {x}].hi = s[1].hi /\ card[d \ {x}].fields = s[1].fields
    BY <2>2 DEF Common
  <2>5. card[d] = [lo |-> any(d \ {x}) \cup t[x].lo, hi |-> s[1].hi, fields |-> s[1].fields]
    BY <2>2, <2>3 DEF Common
  <2> QED
    BY <2>1, <2>4, <2>5, Zenon
<1>7. card[{}] = s[1]
  BY <1>4
<1>8. card = sums(card)
  <2>1. card = [d \in SUBSET D |-> card[d]]
    OBVIOUS
  <2> HIDE DEF card
  <2> QED
    BY <1>6, <1>7, <2>1
<1> HIDE DEF card
<1>9. iter = sums(iter)
  BY <1>8, Zenon
<1> HIDE DEF iter
<1>10. /\ iter[{}] = s[1]
       /\ \A d \in SUBSET D : d # {} =>
            iter[d] = [lo |-> iter[d \ {Latest(d)}].lo \cup t[Latest(d)].lo,
                       hi |-> iter[d \ {Latest(d)}].hi, fields |-> iter[d \ {Latest(d)}].fields]
  <2>1. {} \in SUBSET D
    OBVIOUS
  <2>2. iter[{}] = sums(iter)[{}] /\ \A d \in SUBSET D : iter[d] = sums(iter)[d]
    BY <1>9, Zenon
  <2> QED
    BY <2>1, <2>2
<1> HIDE DEF sums
<1>11. iter[D] = card[D]
  <2>1. \A d \in SUBSET D : d # {} => \E x \in d : iter[d \ {x}] = card[d \ {x}] => iter[d] = card[d]
    <3> SUFFICES ASSUME NEW d \in SUBSET D, d # {}
                 PROVE  \E x \in d : iter[d \ {x}] = card[d \ {x}] => iter[d] = card[d]
      OBVIOUS
    <3>1. Latest(d) \in d
      BY <1>3
    <3> QED
      BY <1>6, <1>10, <3>1
  <2> QED
    <3>1. iter[{}] = card[{}] /\ IsFiniteSet(D)
      BY <1>2, <1>7, <1>10
    <3> HIDE DEF D
    <3> QED
      BY <2>1, <3>1, SameFold
<1>12. card[D] = Common(any(D), s[1].hi, s[1].fields)
  BY DEF card
<1>13. any(D) = {b \in {0, 1} : \E i \in DOMAIN s : b \in s[i].lo}
  BY TailFacts
<1> QED
  BY <1>1, <1>11, <1>12, <1>13

\* Controls: what any must have, and what all may have.
LEMMA CommonCtls ==
  ASSUME NEW s \in Seq(AnyValue), s # <<>>
  PROVE  Msr!FindCommonCtls(s) =
           Common({b \in {0, 1} : \E i \in DOMAIN s : b \in s[i].lo},
                  {b \in {0, 1} : \A i \in DOMAIN s : b \in s[i].hi}, s[1].fields)
<1> DEFINE t == Tail(s)
           D == DOMAIN t
           sums(g) == [d \in SUBSET D |-> IF d = {} THEN s[1] ELSE
                         [lo |-> g[d \ {Latest(d)}].lo \cup t[Latest(d)].lo,
                          hi |-> g[d \ {Latest(d)}].hi \cap t[Latest(d)].hi, fields |-> g[d \ {Latest(d)}].fields]]
           iter == CHOOSE g : g = sums(g)
           any(d) == {b \in {0, 1} : b \in s[1].lo \/ \E i \in d : b \in t[i].lo}
           all(d) == {b \in {0, 1} : b \in s[1].hi /\ \A i \in d : b \in t[i].hi}
           card == [d \in SUBSET D |-> Common(any(d), all(d), s[1].fields)]
<1>1. Msr!FindCommonCtls(s) = iter[D]
  BY Zenon DEF Msr!FindCommonCtls, Msr!Combine, Msr!FoldLeft, Msr!MapThenFoldSet, Msr!Max,
               Msr!Value, Latest
<1>2. /\ s[1] \in AnyValue /\ DOMAIN t = 1 .. Len(s) - 1 /\ Len(s) - 1 \in Nat
      /\ IsFiniteSet(D) /\ \A i \in D : t[i] \in AnyValue
  BY TailFacts
<1>3. \A d \in SUBSET D : d # {} => Latest(d) \in d
  BY <1>2, LatestIn
<1>4. Common(any({}), all({}), s[1].fields) = s[1]
  BY <1>2 DEF AnyValue, Common
<1>5. ASSUME NEW d \in SUBSET D, NEW x \in d
      PROVE  any(d) = any(d \ {x}) \cup t[x].lo /\ all(d) = all(d \ {x}) \cap t[x].hi
  BY <1>2 DEF AnyValue
<1>6. ASSUME NEW d \in SUBSET D, d # {}
      PROVE  card[d] = [lo |-> card[d \ {Latest(d)}].lo \cup t[Latest(d)].lo,
                        hi |-> card[d \ {Latest(d)}].hi \cap t[Latest(d)].hi, fields |-> card[d \ {Latest(d)}].fields]
  <2>1. PICK x \in d : x = Latest(d)
    BY <1>3, <1>6
  <2>2. /\ card[d \ {x}] = Common(any(d \ {x}), all(d \ {x}), s[1].fields)
        /\ card[d] = Common(any(d), all(d), s[1].fields)
    OBVIOUS
  <2>3. any(d) = any(d \ {x}) \cup t[x].lo /\ all(d) = all(d \ {x}) \cap t[x].hi
    BY <1>5
  <2> HIDE DEF any, all, card
  <2>4. card[d \ {x}].lo = any(d \ {x}) /\ card[d \ {x}].hi = all(d \ {x}) /\ card[d \ {x}].fields = s[1].fields
    BY <2>2 DEF Common
  <2>5. card[d] = [lo |-> any(d \ {x}) \cup t[x].lo, hi |-> all(d \ {x}) \cap t[x].hi, fields |-> s[1].fields]
    BY <2>2, <2>3 DEF Common
  <2> QED
    BY <2>1, <2>4, <2>5, Zenon
<1>7. card[{}] = s[1]
  BY <1>4
<1>8. card = sums(card)
  <2>1. card = [d \in SUBSET D |-> card[d]]
    OBVIOUS
  <2> HIDE DEF card
  <2> QED
    BY <1>6, <1>7, <2>1
<1> HIDE DEF card
<1>9. iter = sums(iter)
  BY <1>8, Zenon
<1> HIDE DEF iter
<1>10. /\ iter[{}] = s[1]
       /\ \A d \in SUBSET D : d # {} =>
            iter[d] = [lo |-> iter[d \ {Latest(d)}].lo \cup t[Latest(d)].lo,
                       hi |-> iter[d \ {Latest(d)}].hi \cap t[Latest(d)].hi, fields |-> iter[d \ {Latest(d)}].fields]
  <2>1. {} \in SUBSET D
    OBVIOUS
  <2>2. iter[{}] = sums(iter)[{}] /\ \A d \in SUBSET D : iter[d] = sums(iter)[d]
    BY <1>9, Zenon
  <2> QED
    BY <2>1, <2>2
<1> HIDE DEF sums
<1>11. iter[D] = card[D]
  <2>1. \A d \in SUBSET D : d # {} => \E x \in d : iter[d \ {x}] = card[d \ {x}] => iter[d] = card[d]
    <3> SUFFICES ASSUME NEW d \in SUBSET D, d # {}
                 PROVE  \E x \in d : iter[d \ {x}] = card[d \ {x}] => iter[d] = card[d]
      OBVIOUS
    <3>1. Latest(d) \in d
      BY <1>3
    <3> QED
      BY <1>6, <1>10, <3>1, ZenonT(60)
  <2> QED
    <3>1. iter[{}] = card[{}] /\ IsFiniteSet(D)
      BY <1>2, <1>7, <1>10
    <3> HIDE DEF D
    <3> QED
      BY <2>1, <3>1, SameFold
<1>12. card[D] = Common(any(D), all(D), s[1].fields)
  BY DEF card
<1>13. /\ any(D) = {b \in {0, 1} : \E i \in DOMAIN s : b \in s[i].lo}
       /\ all(D) = {b \in {0, 1} : \A i \in DOMAIN s : b \in s[i].hi}
  BY TailFacts
<1> QED
  BY <1>1, <1>11, <1>12, <1>13

\* The size of the VMCS must agree; bit 0 is of what any has, bit 1 of what all have.
BasicNext(v, w) ==
  IF v = Common({0, 1}, {}, [a |-> -1, b |-> 0]) \/ v.fields.a # w.fields.a
  THEN Common({0, 1}, {}, [a |-> -1, b |-> 0])
  ELSE Common((v.lo \cup (w.lo \cap {0})) \ ({1} \ w.lo), v.hi, v.fields)

LEMMA CommonBasic ==
  ASSUME NEW s \in Seq(AnyValue), s # <<>>, \A i \in DOMAIN s : s[i].fields.a \in Nat
  PROVE  Msr!FindCommonBasic(s) =
           IF \A i \in DOMAIN s : s[i].fields.a = s[1].fields.a
           THEN Common({b \in {0, 1} : IF b = 0 THEN \E i \in DOMAIN s : b \in s[i].lo
                                       ELSE \A i \in DOMAIN s : b \in s[i].lo},
                       s[1].hi, s[1].fields)
           ELSE Msr!INVALID_VMX_BASIC
<1> DEFINE t == Tail(s)
           D == DOMAIN t
           sums(g) == [d \in SUBSET D |-> IF d = {} THEN s[1]
                                          ELSE BasicNext(g[d \ {Latest(d)}], t[Latest(d)])]
           iter == CHOOSE g : g = sums(g)
           no == Common({0, 1}, {}, [a |-> -1, b |-> 0])
           mix(d) == {b \in {0, 1} : IF b = 0 THEN b \in s[1].lo \/ \E i \in d : b \in t[i].lo
                                     ELSE b \in s[1].lo /\ \A i \in d : b \in t[i].lo}
           same(d) == \A i \in d : t[i].fields.a = s[1].fields.a
           card == [d \in SUBSET D |-> IF same(d) THEN Common(mix(d), s[1].hi, s[1].fields) ELSE no]
<1>1. Msr!FindCommonBasic(s) = iter[D]
  BY Zenon DEF Msr!FindCommonBasic, Msr!Combine, Msr!FoldLeft, Msr!MapThenFoldSet, Msr!Max,
               Msr!Value, Msr!INVALID_VMX_BASIC, Msr!Bits, Latest, BasicNext, Common
<1>2. /\ s[1] \in AnyValue /\ DOMAIN t = 1 .. Len(s) - 1 /\ Len(s) - 1 \in Nat
      /\ IsFiniteSet(D) /\ \A i \in D : t[i] \in AnyValue
  BY TailFacts
<1>3. \A d \in SUBSET D : d # {} => Latest(d) \in d
  BY <1>2, LatestIn
<1>4. Common(mix({}), s[1].hi, s[1].fields) = s[1] /\ same({})
  BY <1>2 DEF AnyValue, Common
<1>5. ASSUME NEW d \in SUBSET D, NEW x \in d
      PROVE  /\ mix(d) = (mix(d \ {x}) \cup (t[x].lo \cap {0})) \ ({1} \ t[x].lo)
             /\ same(d) <=> same(d \ {x}) /\ s[1].fields.a = t[x].fields.a
  <2>1. s[1].lo \subseteq {0, 1}
    BY <1>2 DEF AnyValue
  <2>2. \A i \in d : i = x \/ i \in d \ {x}
    OBVIOUS
  <2>3. \A b \in {0, 1} : b \in mix(d) <=> b \in (mix(d \ {x}) \cup (t[x].lo \cap {0})) \ ({1} \ t[x].lo)
    <3>1. 0 \in mix(d) <=> 0 \in mix(d \ {x}) \/ 0 \in t[x].lo
      BY <2>2
    <3>2. 1 \in mix(d) <=> 1 \in mix(d \ {x}) /\ 1 \in t[x].lo
      BY <2>2
    <3> HIDE DEF mix
    <3> QED
      BY <3>1, <3>2
  <2>4. mix(d) \subseteq {0, 1} /\ mix(d \ {x}) \subseteq {0, 1}
    OBVIOUS
  <2>5. mix(d) = (mix(d \ {x}) \cup (t[x].lo \cap {0})) \ ({1} \ t[x].lo)
    <3> HIDE DEF mix
    <3> QED
      BY <2>3, <2>4
  <2>6. same(d) <=> same(d \ {x}) /\ s[1].fields.a = t[x].fields.a
    BY <2>2
  <2> QED
    BY <2>5, <2>6
<1>6. ASSUME NEW d \in SUBSET D, d # {}
      PROVE  card[d] = BasicNext(card[d \ {Latest(d)}], t[Latest(d)])
  <2>1. PICK x \in d : x = Latest(d)
    BY <1>3, <1>6
  <2>2. /\ card[d \ {x}] = IF same(d \ {x}) THEN Common(mix(d \ {x}), s[1].hi, s[1].fields) ELSE no
        /\ card[d] = IF same(d) THEN Common(mix(d), s[1].hi, s[1].fields) ELSE no
    OBVIOUS
  <2>3. /\ mix(d) = (mix(d \ {x}) \cup (t[x].lo \cap {0})) \ ({1} \ t[x].lo)
        /\ same(d) <=> same(d \ {x}) /\ s[1].fields.a = t[x].fields.a
    BY <1>5
  <2>4. s[1].fields.a \in Nat
    BY TailFacts
  <2> HIDE DEF mix, same, card
  <2>5. CASE ~same(d \ {x})
    <3>1. card[d \ {x}] = no /\ card[d] = no
      BY <2>2, <2>3, <2>5, Zenon
    <3>2. BasicNext(no, t[x]) = no
      BY Zenon DEF BasicNext
    <3> QED
      BY <2>1, <3>1, <3>2, Zenon
  <2>6. CASE same(d \ {x})
    <3>1. PICK v : v = Common(mix(d \ {x}), s[1].hi, s[1].fields)
      OBVIOUS
    <3>2. v.lo = mix(d \ {x}) /\ v.hi = s[1].hi /\ v.fields = s[1].fields /\ v # no
      BY <2>4, <3>1 DEF Common
    <3>3. card[d] = IF s[1].fields.a = t[x].fields.a THEN Common(mix(d), s[1].hi, s[1].fields) ELSE no
      BY <2>2, <2>3, <2>6, Zenon
    <3>4. BasicNext(v, t[x]) = IF s[1].fields.a = t[x].fields.a
                               THEN Common((mix(d \ {x}) \cup (t[x].lo \cap {0})) \ ({1} \ t[x].lo), s[1].hi, s[1].fields)
                               ELSE no
      BY <3>2, Zenon DEF BasicNext
    <3>5. card[d \ {x}] = v
      BY <2>2, <2>6, <3>1, Zenon
    <3> QED
      BY <2>1, <2>3, <3>3, <3>4, <3>5, Zenon
  <2> QED
    BY <2>5, <2>6
<1>7. card[{}] = s[1]
  BY <1>4
<1>8. card = sums(card)
  <2>1. card = [d \in SUBSET D |-> card[d]]
    OBVIOUS
  <2> HIDE DEF card
  <2> QED
    BY <1>6, <1>7, <2>1
<1> HIDE DEF card
<1>9. iter = sums(iter)
  BY <1>8, Zenon
<1> HIDE DEF iter
<1>10. /\ iter[{}] = s[1]
       /\ \A d \in SUBSET D : d # {} => iter[d] = BasicNext(iter[d \ {Latest(d)}], t[Latest(d)])
  <2>1. {} \in SUBSET D
    OBVIOUS
  <2>2. iter[{}] = sums(iter)[{}] /\ \A d \in SUBSET D : iter[d] = sums(iter)[d]
    BY <1>9, Zenon
  <2> QED
    BY <2>1, <2>2
<1> HIDE DEF sums
<1>11. iter[D] = card[D]
  <2>1. \A d \in SUBSET D : d # {} => \E x \in d : iter[d \ {x}] = card[d \ {x}] => iter[d] = card[d]
    <3> SUFFICES ASSUME NEW d \in SUBSET D, d # {}
                 PROVE  \E x \in d : iter[d \ {x}] = card[d \ {x}] => iter[d] = card[d]
      OBVIOUS
    <3>1. Latest(d) \in d
      BY <1>3
    <3> QED
      BY <1>6, <1>10, <3>1
  <2> QED
    <3>1. iter[{}] = card[{}] /\ IsFiniteSet(D)
      BY <1>2, <1>7, <1>10
    <3> HIDE DEF D
    <3> QED
      BY <2>1, <3>1, SameFold
<1>12. card[D] = IF same(D) THEN Common(mix(D), s[1].hi, s[1].fields) ELSE no
  BY DEF card
<1>13. mix(D) = {b \in {0, 1} : IF b = 0 THEN \E i \in DOMAIN s : b \in s[i].lo
                                ELSE \A i \in DOMAIN s : b \in s[i].lo}
  BY TailFacts, SMTT(40)
<1>14. same(D) <=> \A i \in DOMAIN s : s[i].fields.a = s[1].fields.a
  BY TailFacts
<1>15. no = Msr!INVALID_VMX_BASIC
  BY DEF Msr!INVALID_VMX_BASIC, Msr!Value, Msr!Bits, Common
<1> HIDE DEF same, mix, no
<1> QED
  BY <1>1, <1>11, <1>12, <1>13, <1>14, <1>15

\* The least of the numbers of a field.
LEMMA CommonLeast ==
  ASSUME NEW s \in Seq(AnyValue), s # <<>>
  PROVE  /\ \A i \in DOMAIN s : Msr!Least(s, "b") <= s[i].fields.b
         /\ \E i \in DOMAIN s : Msr!Least(s, "b") = s[i].fields.b
<1>0. PICK q : q = [i \in DOMAIN s |-> s[i].fields["b"]]
  OBVIOUS
<1>01. /\ q \in Seq(Int) /\ q # <<>> /\ DOMAIN q = DOMAIN s
       /\ \A i \in DOMAIN s : q[i] = s[i].fields.b
  <2>1. \A i \in DOMAIN s : s[i].fields["b"] \in Int /\ s[i].fields["b"] = s[i].fields.b
    <3> TAKE i \in DOMAIN s
    <3>1. s[i] \in AnyValue
      OBVIOUS
    <3>2. PICK f \in [a : Int, b : Int] : f = s[i].fields
      BY <3>1 DEF AnyValue
    <3>3. f["b"] \in Int /\ f["b"] = f.b
      OBVIOUS
    <3> QED
      BY <3>2, <3>3
  <2>2. DOMAIN s = 1 .. Len(s) /\ Len(s) \in Nat /\ Len(s) # 0
    OBVIOUS
  <2>3. q \in Seq(Int) /\ Len(q) = Len(s)
    BY <1>0, <2>1, <2>2
  <2> QED
    BY <1>0, <2>1, <2>2, <2>3
<1> DEFINE t == Tail(q)
           D == DOMAIN t
           sums(g) == [d \in SUBSET D |-> IF d = {} THEN q[1]
                                          ELSE IF t[Latest(d)] < g[d \ {Latest(d)}] THEN t[Latest(d)]
                                               ELSE g[d \ {Latest(d)}]]
           iter == CHOOSE g : g = sums(g)
           small(d, m) == /\ m = q[1] \/ \E i \in d : m = t[i]
                          /\ m <= q[1] /\ \A i \in d : m <= t[i]
           card == [d \in SUBSET D |-> CHOOSE m : small(d, m)]
<1>1. Msr!Least(s, "b") = iter[D]
  BY <1>0, Zenon DEF Msr!Least, Msr!Combine, Msr!FoldLeft, Msr!MapThenFoldSet, Msr!Max, Latest
<1>2. /\ q[1] \in Int /\ DOMAIN t = 1 .. Len(q) - 1 /\ Len(q) - 1 \in Nat
      /\ IsFiniteSet(D) /\ \A i \in D : t[i] \in Int
  BY <1>01, TailFacts
<1>3. \A d \in SUBSET D : d # {} => Latest(d) \in d
  BY <1>2, LatestIn
<1>4. \A d \in SUBSET D : \A m, n : small(d, m) /\ small(d, n) => m = n
  BY <1>2
<1>5. ASSUME NEW d \in SUBSET D, NEW x \in d, NEW m, small(d \ {x}, m)
      PROVE  small(d, IF t[x] < m THEN t[x] ELSE m)
  <2>1. m \in Int
    BY <1>2, <1>5
  <2> QED
    BY <1>2, <1>5, <2>1, SMTT(40)
<1>6. small({}, q[1])
  BY <1>2
<1>7. \A d \in SUBSET D : \E m : small(d, m)
  <2> DEFINE bad == {d \in SUBSET D : ~ \E m : small(d, m)}
  <2>1. SUFFICES ASSUME bad # {} PROVE FALSE
    OBVIOUS
  <2> HIDE DEF small
  <2>2. PICK d \in bad : \A x \in d : d \ {x} \notin bad
    BY <1>2, <2>1, LeastIn
  <2>3. d # {}
    BY <1>6
  <2>4. PICK x : x \in d
    BY <2>3
  <2>5. PICK m : small(d \ {x}, m)
    BY <2>2, <2>4
  <2> QED
    BY <1>5, <2>4, <2>5
<1> HIDE DEF small
<1>8. \A d \in SUBSET D : small(d, card[d])
  <2> SUFFICES ASSUME NEW d \in SUBSET D PROVE small(d, card[d])
    OBVIOUS
  <2>1. card[d] = CHOOSE m : small(d, m)
    OBVIOUS
  <2> QED
    BY <1>7, <2>1, Zenon
<1>9. card = [d \in SUBSET D |-> card[d]]
  OBVIOUS
<1> HIDE DEF card
<1>10. card[{}] = q[1]
  <2>1. {} \in SUBSET D
    OBVIOUS
  <2> QED
    BY <1>4, <1>6, <1>8, <2>1
<1>11. ASSUME NEW d \in SUBSET D, d # {}
       PROVE  card[d] = IF t[Latest(d)] < card[d \ {Latest(d)}] THEN t[Latest(d)] ELSE card[d \ {Latest(d)}]
  <2>1. PICK x \in d : x = Latest(d)
    BY <1>3, <1>11
  <2>2. small(d \ {x}, card[d \ {x}])
    BY <1>8
  <2>3. small(d, IF t[x] < card[d \ {x}] THEN t[x] ELSE card[d \ {x}])
    BY <1>5, <2>2
  <2> QED
    BY <1>4, <1>8, <2>1, <2>3
<1>12. card = sums(card)
  BY <1>9, <1>10, <1>11
<1>13. iter = sums(iter)
  BY <1>12, Zenon
<1> HIDE DEF iter
<1>14. /\ iter[{}] = q[1]
       /\ \A d \in SUBSET D : d # {} =>
            iter[d] = IF t[Latest(d)] < iter[d \ {Latest(d)}] THEN t[Latest(d)] ELSE iter[d \ {Latest(d)}]
  <2>1. {} \in SUBSET D
    OBVIOUS
  <2>2. iter[{}] = sums(iter)[{}] /\ \A d \in SUBSET D : iter[d] = sums(iter)[d]
    BY <1>13, Zenon
  <2> QED
    BY <2>1, <2>2
<1> HIDE DEF sums
<1>15. iter[D] = card[D]
  <2>1. \A d \in SUBSET D : d # {} => \E x \in d : iter[d \ {x}] = card[d \ {x}] => iter[d] = card[d]
    <3> SUFFICES ASSUME NEW d \in SUBSET D, d # {}
                 PROVE  \E x \in d : iter[d \ {x}] = card[d \ {x}] => iter[d] = card[d]
      OBVIOUS
    <3>1. Latest(d) \in d
      BY <1>3
    <3> QED
      BY <1>11, <1>14, <3>1
  <2> QED
    <3>1. iter[{}] = card[{}] /\ IsFiniteSet(D)
      BY <1>2, <1>10, <1>14
    <3> HIDE DEF D
    <3> QED
      BY <2>1, <3>1, SameFold
<1>16. small(D, iter[D])
  BY <1>8, <1>15
<1>17. PICK m : m = Msr!Least(s, "b") /\ small(D, m)
  BY <1>1, <1>16
<1> USE DEF small
<1>18. \A i \in DOMAIN q : i = 1 \/ \E j \in D : t[j] = q[i]
  BY <1>01, TailFacts
<1>19. 1 \in DOMAIN q /\ \A i \in D : i + 1 \in DOMAIN q /\ t[i] = q[i + 1]
  BY <1>01, TailFacts
<1>20. \A i \in DOMAIN q : m <= q[i]
  BY <1>17, <1>18
<1>21. \E i \in DOMAIN q : m = q[i]
  BY <1>17, <1>19
<1> QED
  BY <1>01, <1>17, <1>20, <1>21

-----------------------------------------------------------------------------
(* What the common value says of all.                                       *)

PermitsOf(m, v, x) ==
  CASE m = "Ctls"   -> v.lo \subseteq x /\ x \subseteq v.hi
    [] m = "Fixed0" -> v.lo \subseteq x
    [] OTHER        -> x \subseteq v.lo

Agreed(All) == \A x, y \in All : x.fields.a = y.fields.a

\* A value that permits nothing and has the least number of those before one that disagrees.
LeastBefore(v, s) ==
  /\ v.lo = {} /\ v.fields.a = 0
  /\ \E i \in DOMAIN s :
       LET before == {s[j] : j \in 1 .. i - 1}
       IN /\ before # {} /\ s[i].fields.a # s[1].fields.a
          /\ \A y \in before : y.fields.a = s[1].fields.a
          /\ \A y \in before : v.fields.b <= y.fields.b
          /\ \E y \in before : v.fields.b = y.fields.b

\* CommonToAll of a value, the values it is of, and these in the order of their replies.
CommonTo(v, m, All, s) ==
  CASE m \in {"Ctls", "Fixed0", "Fixed1", "Join"} ->
         \A x \in SUBSET {0, 1} : PermitsOf(m, v, x) <=> \A y \in All : PermitsOf(m, y, x)
    [] m = "ArchCap" ->
         \A bit \in {0, 1} : bit \in v.lo <=>
           IF bit = 0 THEN \E y \in All : bit \in y.lo ELSE \A y \in All : bit \in y.lo
    [] m = "Basic" ->
         IF Agreed(All)
         THEN /\ 0 \in v.lo <=> \E y \in All : 0 \in y.lo
              /\ 1 \in v.lo <=> \A y \in All : 1 \in y.lo
              /\ \A y \in All : v.fields.a = y.fields.a
         ELSE v = Msr!INVALID_VMX_BASIC
    [] m = "Enum" ->
         /\ \A y \in All : v.fields.b <= y.fields.b
         /\ \E y \in All : v.fields.b = y.fields.b
    [] m = "Misc" ->
         IF Agreed(All)
         THEN /\ \A x \in SUBSET {0} : PermitsOf(m, v, x) <=> \A y \in All : PermitsOf(m, y, x)
              /\ \A y \in All : v.fields.a = y.fields.a
              /\ \A y \in All : v.fields.b <= y.fields.b
              /\ \E y \in All : v.fields.b = y.fields.b
         ELSE LeastBefore(v, s)
    [] OTHER -> TRUE

LEMMA CtlsRight ==
  ASSUME NEW s \in Seq(AnyValue), s # <<>>, NEW All, \A y : y \in All <=> \E i \in DOMAIN s : y = s[i]
  PROVE  CommonTo(Msr!FindCommon("Ctls", s), "Ctls", All, s)
<1>1. PICK v : v = Msr!FindCommonCtls(s)
  OBVIOUS
<1>2. /\ v.lo = {b \in {0, 1} : \E i \in DOMAIN s : b \in s[i].lo}
      /\ v.hi = {b \in {0, 1} : \A i \in DOMAIN s : b \in s[i].hi}
  BY <1>1, CommonCtls DEF Common
<1>3. \A i \in DOMAIN s : s[i].lo \subseteq {0, 1} /\ s[i].hi \subseteq {0, 1}
  <2>1. \A i \in DOMAIN s : s[i] \in AnyValue
    OBVIOUS
  <2> QED
    BY <2>1 DEF AnyValue
<1>4. ASSUME NEW x \in SUBSET {0, 1}
      PROVE  (v.lo \subseteq x /\ x \subseteq v.hi) <=> \A y \in All : y.lo \subseteq x /\ x \subseteq y.hi
  BY <1>2, <1>3
<1>5. Msr!FindCommon("Ctls", s) = v
  BY <1>1 DEF Msr!FindCommon
<1> QED
  BY <1>4, <1>5 DEF CommonTo, PermitsOf

LEMMA Fixed0Right ==
  ASSUME NEW s \in Seq(AnyValue), s # <<>>, NEW All, \A y : y \in All <=> \E i \in DOMAIN s : y = s[i]
  PROVE  CommonTo(Msr!FindCommon("Fixed0", s), "Fixed0", All, s)
<1>1. PICK v : v = Msr!FindCommonFixed0(s)
  OBVIOUS
<1>2. v.lo = {b \in {0, 1} : \E i \in DOMAIN s : b \in s[i].lo}
  BY <1>1, CommonFixed0 DEF Common
<1>3. \A i \in DOMAIN s : s[i].lo \subseteq {0, 1}
  <2>1. \A i \in DOMAIN s : s[i] \in AnyValue
    OBVIOUS
  <2> QED
    BY <2>1 DEF AnyValue
<1>4. ASSUME NEW x \in SUBSET {0, 1}
      PROVE  v.lo \subseteq x <=> \A y \in All : y.lo \subseteq x
  BY <1>2, <1>3
<1>5. Msr!FindCommon("Fixed0", s) = v
  BY <1>1 DEF Msr!FindCommon
<1> QED
  BY <1>4, <1>5 DEF CommonTo, PermitsOf

\* A value whose bits are those that all have.
LEMMA JoinedRight ==
  ASSUME NEW s \in Seq(AnyValue), s # <<>>, NEW All, \A y : y \in All <=> \E i \in DOMAIN s : y = s[i],
         NEW v, v.lo = {b \in {0, 1} : \A i \in DOMAIN s : b \in s[i].lo}, NEW x \in SUBSET {0, 1}
  PROVE  x \subseteq v.lo <=> \A y \in All : x \subseteq y.lo
<1>1. \A i \in DOMAIN s : s[i].lo \subseteq {0, 1}
  <2>1. \A i \in DOMAIN s : s[i] \in AnyValue
    OBVIOUS
  <2> QED
    BY <2>1 DEF AnyValue
<1> QED
  BY <1>1

LEMMA JoinRight ==
  ASSUME NEW s \in Seq(AnyValue), s # <<>>, NEW All, \A y : y \in All <=> \E i \in DOMAIN s : y = s[i],
         NEW m \in {"Fixed1", "Join"}
  PROVE  CommonTo(Msr!FindCommon(m, s), m, All, s)
<1>1. PICK v : v = Msr!FindCommonJoin(s)
  OBVIOUS
<1>2. v.lo = {b \in {0, 1} : \A i \in DOMAIN s : b \in s[i].lo}
  BY <1>1, CommonJoin DEF Common
<1>3. \A x \in SUBSET {0, 1} : x \subseteq v.lo <=> \A y \in All : x \subseteq y.lo
  BY <1>2, JoinedRight
<1>4. Msr!FindCommonFixed1(s) = Msr!FindCommonJoin(s)
  BY Zenon DEF Msr!FindCommonFixed1, Msr!FindCommonJoin
<1>5. Msr!FindCommon(m, s) = v
  BY <1>1, <1>4 DEF Msr!FindCommon, Msr!GenFindCommonCap
<1> QED
  BY <1>3, <1>5 DEF CommonTo, PermitsOf

LEMMA ArchCapRight ==
  ASSUME NEW s \in Seq(AnyValue), s # <<>>, NEW All, \A y : y \in All <=> \E i \in DOMAIN s : y = s[i]
  PROVE  CommonTo(Msr!FindCommon("ArchCap", s), "ArchCap", All, s)
<1>1. PICK q : q = [i \in DOMAIN s |-> Msr!Flip(s[i], Msr!RSBA)]
  OBVIOUS
<1>2. /\ q \in Seq(AnyValue) /\ q # <<>> /\ DOMAIN q = DOMAIN s
      /\ \A i \in DOMAIN s : (0 \in q[i].lo <=> 0 \notin s[i].lo) /\ (1 \in q[i].lo <=> 1 \in s[i].lo)
  <2>1. ASSUME NEW v \in AnyValue
        PROVE  /\ Msr!Flip(v, Msr!RSBA) \in AnyValue
               /\ 0 \in Msr!Flip(v, Msr!RSBA).lo <=> 0 \notin v.lo
               /\ 1 \in Msr!Flip(v, Msr!RSBA).lo <=> 1 \in v.lo
    BY DEF Msr!Flip, Msr!RSBA, Msr!Value, AnyValue
  <2>2. DOMAIN s = 1 .. Len(s) /\ Len(s) \in Nat /\ Len(s) # 0 /\ \A i \in DOMAIN s : s[i] \in AnyValue
    OBVIOUS
  <2>3. q \in Seq(AnyValue) /\ Len(q) = Len(s) /\ DOMAIN q = DOMAIN s
    BY <1>1, <2>1, <2>2
  <2>4. \A i \in DOMAIN s : q[i] = Msr!Flip(s[i], Msr!RSBA)
    BY <1>1
  <2> QED
    BY <2>1, <2>2, <2>3, <2>4
<1>3. PICK w : w = Msr!FindCommonJoin(q)
  OBVIOUS
<1>4. w = Common({b \in {0, 1} : \A i \in DOMAIN q : b \in q[i].lo}, q[1].hi, q[1].fields)
  BY <1>2, <1>3, CommonJoin
<1>5. PICK v : v = Msr!Flip(w, Msr!RSBA)
  OBVIOUS
<1>6. (0 \in v.lo <=> 0 \notin w.lo) /\ (1 \in v.lo <=> 1 \in w.lo)
  BY <1>4, <1>5 DEF Msr!Flip, Msr!RSBA, Msr!Value, Common
<1>7. /\ 0 \in w.lo <=> \A i \in DOMAIN s : 0 \notin s[i].lo
      /\ 1 \in w.lo <=> \A i \in DOMAIN s : 1 \in s[i].lo
  BY <1>2, <1>4 DEF Common
<1>8. Msr!FindCommon("ArchCap", s) = v
  <2>1. Msr!FindCommonArchCap(s) = v
    BY <1>1, <1>3, <1>5, Zenon DEF Msr!FindCommonArchCap, Msr!FindCommonJoin
  <2> QED
    BY <2>1 DEF Msr!FindCommon, Msr!GenFindCommonCap
<1>9. /\ 0 \in v.lo <=> \E y \in All : 0 \in y.lo
      /\ 1 \in v.lo <=> \A y \in All : 1 \in y.lo
  BY <1>6, <1>7
<1> QED
  BY <1>8, <1>9 DEF CommonTo

LEMMA BasicRight ==
  ASSUME NEW s \in Seq(AnyValue), s # <<>>, NEW All, \A y : y \in All <=> \E i \in DOMAIN s : y = s[i],
         \A i \in DOMAIN s : s[i].fields.a \in Nat
  PROVE  CommonTo(Msr!FindCommon("Basic", s), "Basic", All, s)
<1>1. PICK v : v = Msr!FindCommonBasic(s)
  OBVIOUS
<1>2. Msr!FindCommon("Basic", s) = v
  BY <1>1 DEF Msr!FindCommon
<1>3. 1 \in DOMAIN s
  OBVIOUS
<1>4. Agreed(All) <=> \A i \in DOMAIN s : s[i].fields.a = s[1].fields.a
  BY <1>3 DEF Agreed
<1>5. v = IF Agreed(All)
          THEN Common({b \in {0, 1} : IF b = 0 THEN \E i \in DOMAIN s : b \in s[i].lo
                                      ELSE \A i \in DOMAIN s : b \in s[i].lo},
                      s[1].hi, s[1].fields)
          ELSE Msr!INVALID_VMX_BASIC
  BY <1>1, <1>4, CommonBasic
<1>6. CASE Agreed(All)
  <2>1. /\ 0 \in v.lo <=> \E i \in DOMAIN s : 0 \in s[i].lo
        /\ 1 \in v.lo <=> \A i \in DOMAIN s : 1 \in s[i].lo
        /\ v.fields = s[1].fields
    BY <1>5, <1>6 DEF Common
  <2>2. /\ 0 \in v.lo <=> \E y \in All : 0 \in y.lo
        /\ 1 \in v.lo <=> \A y \in All : 1 \in y.lo
        /\ \A y \in All : v.fields.a = y.fields.a
    BY <1>4, <1>6, <2>1
  <2> QED
    BY <1>2, <1>6, <2>2 DEF CommonTo
<1>7. CASE ~Agreed(All)
  <2>1. v = Msr!INVALID_VMX_BASIC
    BY <1>5, <1>7
  <2> QED
    BY <1>2, <1>7, <2>1 DEF CommonTo
<1> QED
  BY <1>6, <1>7

\* A number that is the least of the CPUs'.
LEMMA LeastRight ==
  ASSUME NEW s \in Seq(AnyValue), s # <<>>, NEW All, \A y : y \in All <=> \E i \in DOMAIN s : y = s[i],
         NEW n, n = Msr!Least(s, "b")
  PROVE  (\A y \in All : n <= y.fields.b) /\ (\E y \in All : n = y.fields.b)
BY CommonLeast

LEMMA EnumRight ==
  ASSUME NEW s \in Seq(AnyValue), s # <<>>, NEW All, \A y : y \in All <=> \E i \in DOMAIN s : y = s[i]
  PROVE  CommonTo(Msr!FindCommon("Enum", s), "Enum", All, s)
<1>1. PICK n : n = Msr!Least(s, "b")
  OBVIOUS
<1>2. PICK v : v = [s[1] EXCEPT !.fields.b = n]
  OBVIOUS
<1>3. Msr!FindCommon("Enum", s) = v
  BY <1>1, <1>2 DEF Msr!FindCommon, Msr!FindCommonEnum
<1>4. v.fields.b = n
  <2>1. PICK f \in AnyValue : f = s[1]
    OBVIOUS
  <2> QED
    BY <1>2, <2>1 DEF AnyValue
<1>5. (\A y \in All : n <= y.fields.b) /\ (\E y \in All : n = y.fields.b)
  BY <1>1, LeastRight
<1> QED
  BY <1>3, <1>4, <1>5 DEF CommonTo

\* Where the identifiers differ, the numbers of the replies before the first that does are looked at.
LEMMA MiscApart ==
  ASSUME NEW s \in Seq(AnyValue), s # <<>>, \E i \in DOMAIN s : s[i].fields.a # s[1].fields.a
  PROVE  LeastBefore(Msr!FindCommonMisc(s), s)
<1> DEFINE differ == {i \in DOMAIN s : s[i].fields.a # s[1].fields.a}
<1>1. PICK d : d = CHOOSE i \in differ : \A j \in differ : i <= j
  OBVIOUS
<1>2. DOMAIN s = 1 .. Len(s) /\ Len(s) \in Nat /\ differ # {} /\ differ \in SUBSET Nat
  OBVIOUS
<1>3. d \in differ /\ \A j \in differ : d <= j
  <2>1. \E i \in differ : \A j \in differ : i <= j
    BY <1>2, LeastNumber
  <2> HIDE DEF differ
  <2> QED
    BY <1>1, <2>1, Zenon
<1>4. d \in 2 .. Len(s) /\ s[d].fields.a # s[1].fields.a
      /\ \A j \in 1 .. d - 1 : s[j].fields.a = s[1].fields.a
  <2>1. d \in 1 .. Len(s) /\ s[d].fields.a # s[1].fields.a
    BY <1>2, <1>3
  <2>2. ASSUME NEW j \in 1 .. d - 1 PROVE s[j].fields.a = s[1].fields.a
    <3>1. j \in DOMAIN s /\ ~(d <= j)
      BY <1>2, <2>1
    <3> QED
      BY <1>3, <3>1
  <2>3. d # 1
    BY <2>1
  <2> QED
    BY <1>2, <2>1, <2>2, <2>3
<1>5. PICK q : q = SubSeq(s, 1, d - 1)
  OBVIOUS
<1>6. q \in Seq(AnyValue) /\ q # <<>> /\ DOMAIN q = 1 .. d - 1 /\ \A i \in 1 .. d - 1 : q[i] = s[i]
  BY <1>2, <1>4, <1>5
<1>7. PICK n : n = Msr!Least(q, "b")
  OBVIOUS
<1>8. (\A i \in 1 .. d - 1 : n <= s[i].fields.b) /\ \E i \in 1 .. d - 1 : n = s[i].fields.b
  BY <1>6, <1>7, CommonLeast
<1>9. Msr!FindCommonMisc(s) = [Msr!NoValue EXCEPT !.fields.b = n]
  <2>1. differ # {}
    BY <1>2
  <2>2. n = Msr!Least(SubSeq(s, 1, (CHOOSE i \in differ : \A j \in differ : i <= j) - 1), "b")
    BY <1>1, <1>5, <1>7, Zenon
  <2> QED
    BY <2>1, <2>2 DEF Msr!FindCommonMisc
<1>10. PICK v : v = [Msr!NoValue EXCEPT !.fields.b = n]
  OBVIOUS
<1>11. v.lo = {} /\ v.fields.a = 0 /\ v.fields.b = n
  BY <1>10 DEF Msr!NoValue, Msr!NoFields, Msr!Value
<1>12. PICK before : before = {s[j] : j \in 1 .. d - 1}
  OBVIOUS
<1>13. /\ before # {} /\ \A y \in before : y.fields.a = s[1].fields.a
       /\ \A y \in before : v.fields.b <= y.fields.b
       /\ \E y \in before : v.fields.b = y.fields.b
  BY <1>4, <1>8, <1>11, <1>12
<1>14. d \in DOMAIN s
  BY <1>2, <1>4
<1> HIDE DEF differ
<1> QED
  BY <1>4, <1>9, <1>10, <1>11, <1>12, <1>13, <1>14 DEF LeastBefore

LEMMA MiscRight ==
  ASSUME NEW s \in Seq(AnyValue), s # <<>>, NEW All, \A y : y \in All <=> \E i \in DOMAIN s : y = s[i]
  PROVE  CommonTo(Msr!FindCommon("Misc", s), "Misc", All, s)
<1>1. CASE ~Agreed(All)
  <2>1. \E i \in DOMAIN s : s[i].fields.a # s[1].fields.a
    BY <1>1 DEF Agreed
  <2>2. LeastBefore(Msr!FindCommonMisc(s), s)
    BY <2>1, MiscApart
  <2>3. Msr!FindCommon("Misc", s) = Msr!FindCommonMisc(s)
    BY DEF Msr!FindCommon
  <2> QED
    BY <1>1, <2>2, <2>3 DEF CommonTo
<1>2. CASE Agreed(All)
  <2>1. PICK n : n = Msr!Least(s, "b")
    OBVIOUS
  <2>2. PICK w : w = Msr!FindCommonJoin(s)
    OBVIOUS
  <2>3. PICK v : v = [w EXCEPT !.fields.b = n]
    OBVIOUS
  <2>4. {i \in DOMAIN s : s[i].fields.a # s[1].fields.a} = {}
    <3>1. 1 \in DOMAIN s
      OBVIOUS
    <3> QED
      BY <1>2, <3>1 DEF Agreed
  <2>5. Msr!FindCommonMisc(s) = v
    BY <2>1, <2>2, <2>3, <2>4 DEF Msr!FindCommonMisc
  <2>6. Msr!FindCommon("Misc", s) = v
    BY <2>5 DEF Msr!FindCommon
  <2>7. w = Common({b \in {0, 1} : \A i \in DOMAIN s : b \in s[i].lo}, s[1].hi, s[1].fields)
    BY <2>2, CommonJoin
  <2>8. s[1].fields \in [a : Int, b : Int]
    <3>1. s[1] \in AnyValue
      OBVIOUS
    <3> QED
      BY <3>1 DEF AnyValue
  <2>9. v.fields.b = n /\ v.fields.a = s[1].fields.a
        /\ v.lo = {b \in {0, 1} : \A i \in DOMAIN s : b \in s[i].lo}
    BY <2>3, <2>7, <2>8 DEF Common
  <2>10. (\A y \in All : n <= y.fields.b) /\ (\E y \in All : n = y.fields.b)
    BY <2>1, LeastRight
  <2>11. \A x \in SUBSET {0} : x \subseteq v.lo <=> \A y \in All : x \subseteq y.lo
    BY <2>9, JoinedRight
  <2>12. \A y \in All : v.fields.a = y.fields.a
    <3>1. s[1] \in All
      OBVIOUS
    <3> QED
      BY <1>2, <2>9, <3>1 DEF Agreed
  <2> QED
    BY <1>2, <2>6, <2>9, <2>10, <2>11, <2>12 DEF CommonTo, PermitsOf
<1> QED
  BY <1>1, <1>2

LEMMA FindCommonRight ==
  ASSUME NEW s \in Seq(AnyValue), s # <<>>, NEW All, \A y : y \in All <=> \E i \in DOMAIN s : y = s[i],
         NEW m, m = "Basic" => \A i \in DOMAIN s : s[i].fields.a \in Nat
  PROVE  CommonTo(Msr!FindCommon(m, s), m, All, s)
<1>1. CASE m \in {"Ctls", "Fixed0", "Fixed1", "Join", "ArchCap", "Basic", "Enum", "Misc"}
  <2>1. m \in {"Fixed1", "Join"} => CommonTo(Msr!FindCommon(m, s), m, All, s)
    BY JoinRight
  <2>2. m = "Basic" => CommonTo(Msr!FindCommon(m, s), m, All, s)
    BY BasicRight
  <2> QED
    BY <1>1, <2>1, <2>2, CtlsRight, Fixed0Right, ArchCapRight, EnumRight, MiscRight
<1>2. CASE m \notin {"Ctls", "Fixed0", "Fixed1", "Join", "ArchCap", "Basic", "Enum", "Misc"}
  BY <1>2 DEF CommonTo
<1> QED
  BY <1>1, <1>2

-----------------------------------------------------------------------------
(* The query, and what it finds.                                            *)

\* The CPUs that have replied are counted; a query that computes a value has one slot for each;
\* the value is right.
Queried ==
  /\ Answered
  /\ member \in Members /\ msr \in [AllCPUs -> Msr!Values(member)]
  /\ purpose \in {"none", "uniformity", "query"} /\ result.status \in {"none", "ok", "small"}
  /\ index = Cardinality(replied)
  /\ numLogicalCPUs \in {0, Cardinality(AllCPUs)} \cup Capacities
  /\ (purpose = "uniformity" /\ result.status = "none") => numLogicalCPUs = Cardinality(AllCPUs)
  /\ Msr!CommonToAll

LEMMA ValuesTyped ==
  ASSUME NEW m, NEW v \in Msr!Values(m)
  PROVE  v \in AnyValue /\ (m = "Basic" => v.fields.a \in Nat)
<1>1. MaxField \in Nat
  BY AllCPUsAssumption DEF Msr!QueryAssumption
<1>2. \A lo \in SUBSET {0, 1}, hi \in SUBSET {0, 1}, a, b \in Nat :
        /\ Common(lo, hi, [a |-> a, b |-> b]) \in AnyValue
        /\ Common(lo, hi, [a |-> a, b |-> b]).fields.a \in Nat
  BY DEF Common, AnyValue
<1>3. \E lo \in SUBSET {0, 1}, hi \in SUBSET {0, 1}, a, b \in Nat : v = Common(lo, hi, [a |-> a, b |-> b])
  <2> USE DEF Common, Msr!Value, Msr!NoFields, Msr!Bits, Msr!Fields
  <2>0. 0 .. MaxField \subseteq Nat /\ {0, 1} \subseteq Nat /\ 0 \in Nat
    BY <1>1
  <2>1. CASE m = "Ctls"
    <3>1. PICK zeros \in SUBSET {0, 1}, ones \in SUBSET {0, 1} : v = Msr!Value(zeros, ones, Msr!NoFields)
      BY <2>1 DEF Msr!Values
    <3> QED
      BY <2>0, <3>1
  <2>2. CASE m = "Basic"
    <3>1. PICK can \in SUBSET {0, 1}, id \in 0 .. MaxField : v = Msr!Value(can, {}, [a |-> id, b |-> 0])
      BY <2>2 DEF Msr!Values
    <3> QED
      BY <2>0, <3>1
  <2>3. CASE m = "Misc"
    <3>1. PICK can \in SUBSET {0}, id \in {0, 1}, n \in 0 .. MaxField : v = Msr!Value(can, {}, [a |-> id, b |-> n])
      BY <2>3 DEF Msr!Values
    <3>2. can \in SUBSET {0, 1} /\ {} \in SUBSET {0, 1} /\ id \in Nat /\ n \in Nat
      BY <2>0
    <3> QED
      BY <3>1, <3>2
  <2>4. CASE m = "Enum"
    <3>1. PICK n \in 0 .. MaxField : v = Msr!Value({}, {}, [a |-> 0, b |-> n])
      BY <2>4 DEF Msr!Values
    <3> QED
      BY <2>0, <3>1
  <2>5. CASE m \notin {"Ctls", "Basic", "Misc", "Enum"}
    <3>1. PICK lo \in SUBSET {0, 1} : v = Msr!Value(lo, {}, Msr!NoFields)
      BY <2>5 DEF Msr!Values
    <3> QED
      BY <2>0, <3>1
  <2> QED
    BY <2>1, <2>2, <2>3, <2>4, <2>5
<1> QED
  BY <1>2, <1>3

\* CommonToAll in these terms.
CommonFound ==
  (purpose = "uniformity" /\ result.status = "ok") =>
    CommonTo(result.value, member, {msr[c] : c \in AllCPUs}, Msr!Replies)

LEMMA CommonMeans == Msr!CommonToAll <=> CommonFound
BY DEF CommonFound, LeastBefore, Msr!CommonToAll, Msr!Permits, Msr!RSBA, Msr!Bits, CommonTo, PermitsOf, Agreed

\* Every CPU has replied.
LEMMA FinishStep ==
  ASSUME Queried, Msr!Finish
  PROVE  Queried'
<1>1. /\ purpose # "none" /\ replied = AllCPUs /\ result.status = "none"
      /\ UNCHANGED <<member, msr, purpose, index, logicalCPUs, replied>>
  BY DEF Msr!Finish
<1>2. Answered'
  BY AnsweredStep DEF Queried, Msr!Next
<1>3. index = Cardinality(AllCPUs) /\ index \in Nat /\ numLogicalCPUs \in Nat
  BY <1>1 DEF Queried, Answered
<1>4. CASE index > numLogicalCPUs
  <2>1. result'.status = "small" /\ numLogicalCPUs' = numLogicalCPUs
    BY <1>4 DEF Msr!Finish
  <2> QED
    BY <1>1, <1>2, <2>1 DEF Queried, Msr!CommonToAll
<1>5. CASE ~(index > numLogicalCPUs)
  <2>1. /\ result'.status = "ok" /\ numLogicalCPUs' = index
        /\ purpose = "uniformity" => result'.value = Msr!FindCommon(member, Msr!Replies)
    BY <1>5 DEF Msr!Finish
  <2>2. ASSUME purpose = "uniformity"
        PROVE  CommonTo(result'.value, member, {msr[c] : c \in AllCPUs}, Msr!Replies')
    <3>1. numLogicalCPUs = index
      BY <1>1, <1>3, <2>2 DEF Queried
    <3>2. PICK s : s = Msr!Replies
      OBVIOUS
    <3>3. /\ \A c \in AllCPUs : \E i \in 1 .. index : logicalCPUs[i].msrVal = msr[c]
          /\ \A i \in 1 .. index : \E c \in AllCPUs : logicalCPUs[i].msrVal = msr[c]
      BY <1>1, <1>3, <3>1 DEF Queried, Answered
    <3>4. s = [i \in 1 .. index |-> logicalCPUs[i].msrVal]
      BY <3>1, <3>2 DEF Msr!Replies
    <3>5. \A c \in AllCPUs : msr[c] \in AnyValue /\ (member = "Basic" => msr[c].fields.a \in Nat)
      BY ValuesTyped DEF Queried
    <3>6. s \in Seq(AnyValue) /\ Len(s) = index /\ DOMAIN s = 1 .. index
      BY <1>3, <3>3, <3>4, <3>5
    <3>7. s # <<>>
      <4>1. Caller \in AllCPUs /\ IsFiniteSet(AllCPUs)
        BY AllCPUsAssumption DEF Sync!CounterAssumption, Sync!IsFiniteSet, IsFiniteSet
      <4>2. Cardinality(AllCPUs) # 0
        BY <4>1, FS_EmptySet
      <4> QED
        BY <1>3, <3>6, <4>2
    <3>8. \A y : y \in {msr[c] : c \in AllCPUs} <=> \E i \in DOMAIN s : y = s[i]
      BY <3>3, <3>4, <3>6
    <3>9. member = "Basic" => \A i \in DOMAIN s : s[i].fields.a \in Nat
      BY <3>3, <3>4, <3>5, <3>6
    <3>10. CommonTo(Msr!FindCommon(member, s), member, {msr[c] : c \in AllCPUs}, s)
      BY <3>6, <3>7, <3>8, <3>9, FindCommonRight
    <3>11. Msr!Replies' = s
      BY <1>1, <2>1, <3>4 DEF Msr!Replies
    <3> QED
      BY <2>1, <2>2, <3>2, <3>10, <3>11
  <2>3. Msr!CommonToAll'
    <3>1. /\ result'.status = "ok" /\ purpose' = purpose /\ member' = member
          /\ {msr'[c] : c \in AllCPUs} = {msr[c] : c \in AllCPUs}
      BY <1>1, <2>1
    <3>2. CommonFound'
      BY <2>2, <3>1, Zenon DEF CommonFound
    <3> QED
      BY <3>2, CommonMeans, PTL
  <2> QED
    BY <1>1, <1>2, <1>3, <2>1, <2>3 DEF Queried
<1> QED
  BY <1>3, <1>4, <1>5

LEMMA QueriedStep == Queried /\ [Msr!Next]_msrVars => Queried'
<1> SUFFICES ASSUME Queried, [Msr!Next]_msrVars PROVE Queried'
  OBVIOUS
<1>1. Answered'
  BY AnsweredStep DEF Queried
<1>2. CASE UNCHANGED msrVars
  <2>1. /\ Msr!Replies' = Msr!Replies /\ result' = result /\ member' = member /\ purpose' = purpose
        /\ {msr'[c] : c \in AllCPUs} = {msr[c] : c \in AllCPUs}
    BY <1>2 DEF msrVars, Msr!Replies
  <2>2. CommonFound
    BY CommonMeans DEF Queried
  <2>3. CommonFound'
    BY <2>1, <2>2, Zenon DEF CommonFound
  <2>4. Msr!CommonToAll'
    BY <2>3, CommonMeans, PTL
  <2> QED
    BY <1>1, <1>2, <2>4 DEF Queried, msrVars
<1>3. ASSUME NEW why \in {"uniformity", "query"}, NEW slots \in Nat, Msr!Start(why, slots),
             slots \in {Cardinality(AllCPUs)} \cup Capacities,
             why = "uniformity" => slots = Cardinality(AllCPUs)
      PROVE  Queried'
  <2>1. /\ purpose' = why /\ result' = result /\ result.status = "none" /\ member' = member /\ msr' = msr
        /\ numLogicalCPUs' = slots /\ index' = 0 /\ replied' = {}
    BY <1>3 DEF Msr!Start, Queried, Answered
  <2>2. index' = Cardinality(replied')
    BY <2>1, FS_EmptySet
  <2>3. Msr!CommonToAll'
    BY <2>1 DEF Msr!CommonToAll
  <2> QED
    BY <1>1, <1>3, <2>1, <2>2, <2>3 DEF Queried
<1>4. CASE Msr!CheckMSRUniformity
  <2>1. Msr!Cardinality(AllCPUs) = Cardinality(AllCPUs)
    BY Zenon DEF Msr!Cardinality, Cardinality
  <2> QED
    BY <1>3, <1>4, <2>1, SlotsNatural DEF Msr!CheckMSRUniformity
<1>5. CASE Msr!GetAllMSRs
  <2>1. PICK n \in Capacities : Msr!Start("query", n)
    BY <1>5 DEF Msr!GetAllMSRs
  <2> QED
    BY <1>3, <2>1, SlotsNatural
<1>6. ASSUME NEW c \in AllCPUs, Msr!GetMSR(c) PROVE Queried'
  <2>1. /\ purpose # "none" /\ c \notin replied /\ replied' = replied \cup {c} /\ index' = index + 1
        /\ UNCHANGED <<member, msr, purpose, numLogicalCPUs, result>>
    BY <1>6 DEF Msr!GetMSR
  <2>2. IsFiniteSet(replied)
    <3>1. IsFiniteSet(AllCPUs) /\ replied \subseteq AllCPUs
      BY AllCPUsAssumption DEF Sync!CounterAssumption, Sync!IsFiniteSet, IsFiniteSet,
         Queried, Answered
    <3> QED
      BY <3>1, FS_Subset
  <2>3. index' = Cardinality(replied')
    BY <2>1, <2>2, FS_AddElement DEF Queried
  <2>4. Msr!CommonToAll'
    <3>1. replied # AllCPUs
      BY <2>1
    <3>2. result.status = "none"
      BY <3>1 DEF Queried, Answered
    <3> QED
      BY <2>1, <3>2 DEF Msr!CommonToAll
  <2> QED
    BY <1>1, <2>1, <2>3, <2>4 DEF Queried
<1>7. CASE Msr!Finish
  BY <1>7, FinishStep
<1> QED
  BY <1>2, <1>4, <1>5, <1>6, <1>7 DEF Msr!Next

LEMMA InitQueried == Msr!Init => Queried
<1> SUFFICES ASSUME Msr!Init PROVE Queried
  OBVIOUS
<1>1. Cardinality({}) = 0
  BY FS_EmptySet
<1> QED
  BY <1>1, InitAnswered DEF Msr!Init, Queried, Msr!CommonToAll

LEMMA QueriedEnough == Queried => Msr!CommonToAll /\ Msr!TypeOK
<1> SUFFICES ASSUME Queried PROVE Msr!TypeOK
  BY DEF Queried
<1>1. Msr!Cardinality(AllCPUs) = Cardinality(AllCPUs)
  BY Zenon DEF Msr!Cardinality, Cardinality
<1>2. index \in 0 .. Cardinality(AllCPUs)
  <2>1. IsFiniteSet(AllCPUs) /\ replied \subseteq AllCPUs
    BY AllCPUsAssumption DEF Sync!CounterAssumption, Sync!IsFiniteSet, IsFiniteSet, Queried,
       Answered
  <2>2. Cardinality(replied) <= Cardinality(AllCPUs) /\ Cardinality(AllCPUs) \in Nat /\ index \in Nat
    BY <2>1, FS_Subset, FS_CardinalityType DEF Queried, Answered
  <2> QED
    BY <2>2 DEF Queried
<1> QED
  BY <1>1, <1>2 DEF Queried, Answered, Msr!TypeOK

-----------------------------------------------------------------------------
(* The types of the parts.                                                  *)

\* No more have entered than there are, in the word and in what was read of it.
WordsBounded ==
  /\ ptscOffsetInfo.inVMMCnt <= Cardinality(TimedVCPUs)
  /\ \A v \in TimedVCPUs : old[v] \in InfoWords => old[v].inVMMCnt <= Cardinality(TimedVCPUs)

\* What is read of the word is the word, and who does not agree with the others leaves it alone.
LEMMA WordRead ==
  ASSUME GuestClocks, [Ptsc!Next]_ptscVars
  PROVE  /\ \A v \in TimedVCPUs : old'[v] \in {old[v], ptscOffsetInfo, Ptsc!NotRead}
         /\ hwTSCsSynced' = hwTSCsSynced
         /\ ~hwTSCsSynced => ptscOffsetInfo' = ptscOffsetInfo
<1>1. GuestTypes /\ (~hwTSCsSynced => OwnOffset)
  BY DEF GuestClocks
<1>2. CASE UNCHANGED ptscVars
  BY <1>2 DEF ptscVars
<1>3. CASE Ptsc!Tick \/ Ptsc!Poll \/ Ptsc!Compare \/ \E v \in TimedVCPUs : Ptsc!Migrate(v)
  BY <1>3 DEF Ptsc!Tick, Ptsc!Poll, Ptsc!Compare, Ptsc!Migrate, Ptsc!host, Ptsc!env,
     Ptsc!shared,
     Ptsc!locals, Ptsc!info
<1>4. ASSUME NEW v \in TimedVCPUs,
             \/ Ptsc!ReadPTSC(v) \/ Ptsc!Check(v) \/ Ptsc!ReadTSC(v) \/ Ptsc!ReadInfo(v)
             \/ Ptsc!FromClock(v) \/ Ptsc!FromCounter(v) \/ Ptsc!WriteOffset(v) \/ Ptsc!Exchange(v)
             \/ Ptsc!Enter(v) \/ Ptsc!Leave(v) \/ Ptsc!ReadLatest(v) \/ Ptsc!SetLatest(v) \/ Ptsc!Dec(v)
      PROVE  /\ \A w \in TimedVCPUs : old'[w] \in {old[w], ptscOffsetInfo, Ptsc!NotRead}
             /\ hwTSCsSynced' = hwTSCsSynced
             /\ ~hwTSCsSynced => ptscOffsetInfo' = ptscOffsetInfo
  <2>1. hwTSCsSynced' = hwTSCsSynced
    BY <1>1, <1>4, OnlyOwn
  <2>2. ~hwTSCsSynced => ptscPc[v] \notin {"exchange", "dec"}
    BY <1>1 DEF OwnOffset
  <2>3. ~hwTSCsSynced => ptscOffsetInfo' = ptscOffsetInfo
    BY <1>4, <2>2 DEF Ptsc!ReadPTSC, Ptsc!Check, Ptsc!ReadTSC, Ptsc!ReadInfo, Ptsc!FromClock,
       Ptsc!FromCounter, Ptsc!WriteOffset, Ptsc!Exchange, Ptsc!Enter, Ptsc!Leave,
       Ptsc!ReadLatest, Ptsc!SetLatest, Ptsc!Dec, Ptsc!shared, Ptsc!info
  <2>4. \/ old' = old \/ old' = [old EXCEPT ![v] = ptscOffsetInfo]
        \/ old' = [old EXCEPT ![v] = Ptsc!NotRead]
    BY <1>4 DEF Ptsc!ReadPTSC, Ptsc!Check, Ptsc!ReadTSC, Ptsc!ReadInfo, Ptsc!FromClock,
       Ptsc!FromCounter, Ptsc!WriteOffset, Ptsc!Exchange, Ptsc!Enter, Ptsc!Leave,
       Ptsc!ReadLatest, Ptsc!SetLatest, Ptsc!Dec, Ptsc!locals, Ptsc!Forget
  <2>5. \A w \in TimedVCPUs : old'[w] \in {old[w], ptscOffsetInfo, Ptsc!NotRead}
    BY <1>1, <2>4 DEF GuestTypes
  <2> QED
    BY <2>1, <2>3, <2>5
<1> QED
  BY <1>2, <1>3, <1>4 DEF Ptsc!Next

LEMMA WordsStep ==
  ASSUME GuestClocks, GuestClocks', WordsBounded, [Ptsc!Next]_ptscVars
  PROVE  WordsBounded'
<1>1. ptscOffsetInfo'.inVMMCnt <= Cardinality(TimedVCPUs)
  <2>1. CASE hwTSCsSynced
    <3>1. hwTSCsSynced'
      BY <2>1, WordRead
    <3>2. ptscOffsetInfo'.inVMMCnt = Cardinality(Entered')
      BY <3>1 DEF GuestClocks, OneOffset
    <3>3. Entered' \in SUBSET TimedVCPUs
      BY DEF Entered
    <3> QED
      BY <3>2, <3>3, GuestConstants, FS_Subset
  <2>2. CASE ~hwTSCsSynced
    BY <2>2, WordRead DEF WordsBounded
  <2> QED
    BY <2>1, <2>2
<1>2. ASSUME NEW v \in TimedVCPUs, old'[v] \in InfoWords
      PROVE  old'[v].inVMMCnt <= Cardinality(TimedVCPUs)
  <2>1. old'[v] \in {old[v], ptscOffsetInfo, Ptsc!NotRead}
    BY WordRead
  <2>2. CASE old'[v] = old[v]
    BY <1>2, <2>2 DEF WordsBounded
  <2>3. CASE old'[v] = ptscOffsetInfo
    BY <2>3 DEF WordsBounded
  <2>4. CASE old'[v] = Ptsc!NotRead
    BY <2>4, GuestConstants, FS_CardinalityType DEF Ptsc!NotRead
  <2> QED
    BY <2>1, <2>2, <2>3, <2>4
<1> QED
  BY <1>1, <1>2 DEF WordsBounded

LEMMA InitWords == Ptsc!Init => WordsBounded
<1> SUFFICES ASSUME Ptsc!Init PROVE WordsBounded
  OBVIOUS
<1>1. Cardinality(TimedVCPUs) \in Nat
  BY GuestConstants, FS_CardinalityType
<1>2. PICK v \in TimedVCPUs : ptscOffsetInfo = [vcpu |-> v, inVMMCnt |-> 0]
  BY DEF Ptsc!Init
<1>3. \A w \in TimedVCPUs : old[w] = Ptsc!NotRead
  BY DEF Ptsc!Init
<1> QED
  BY <1>1, <1>2, <1>3 DEF WordsBounded, Ptsc!NotRead

LEMMA GuestsTyped == GuestClocks /\ WordsBounded => Ptsc!TypeOK
<1> SUFFICES ASSUME GuestClocks, WordsBounded PROVE Ptsc!TypeOK
  OBVIOUS
<1>1. GuestTypes /\ Cardinality(TimedVCPUs) \in Nat
  BY GuestConstants, FS_CardinalityType DEF GuestClocks
<1>2. Ptsc!Cardinality(TimedVCPUs) = Cardinality(TimedVCPUs)
  BY Zenon DEF Ptsc!Cardinality, Cardinality
<1>3. \A w \in InfoWords : w.inVMMCnt <= Cardinality(TimedVCPUs) =>
        w \in [vcpu : TimedVCPUs, inVMMCnt : 0 .. Ptsc!Cardinality(TimedVCPUs)]
  BY <1>1, <1>2 DEF InfoWords
<1>4. ptscOffsetInfo \in [vcpu : TimedVCPUs, inVMMCnt : 0 .. Ptsc!Cardinality(TimedVCPUs)]
  BY <1>1, <1>3 DEF WordsBounded, GuestTypes
<1>5. old \in [TimedVCPUs -> {Ptsc!NotRead} \cup
                             [vcpu : TimedVCPUs, inVMMCnt : 0 .. Ptsc!Cardinality(TimedVCPUs)]]
  <2>1. \A v \in TimedVCPUs : old[v] \in {Ptsc!NotRead} \cup InfoWords
    BY <1>1 DEF GuestTypes
  <2>2. \A v \in TimedVCPUs : old[v] \in {Ptsc!NotRead} \cup
                             [vcpu : TimedVCPUs, inVMMCnt : 0 .. Ptsc!Cardinality(TimedVCPUs)]
    BY <1>3, <2>1 DEF WordsBounded
  <2> QED
    BY <1>1, <2>2 DEF GuestTypes
<1>6. /\ hwTSCsSynced \in BOOLEAN /\ neverSwitchToRefClock \in BOOLEAN /\ useRefClock \in BOOLEAN
      /\ polling \in BOOLEAN /\ reused \in BOOLEAN
  BY <1>1, Zenon DEF GuestTypes
<1>7. {hwTSCsSynced, neverSwitchToRefClock, useRefClock, polling, reused} \subseteq BOOLEAN
  BY <1>6, Zenon
<1>8. /\ tscOffset \in Int /\ refAdd \in Int /\ tsc \in Nat /\ uptime \in Nat
      /\ {tscOffset, refAdd} \subseteq Int /\ {tsc, uptime} \subseteq Nat
  BY <1>1, GuestConstants DEF GuestTypes
<1> QED
  BY <1>1, <1>4, <1>5, <1>7, <1>8, Zenon DEF GuestTypes, PtscSteps, Ptsc!TypeOK

\* The CPUs that have shown up, and those that have reported.
Shown    == {c \in AllCPUs : tscPc[c] \notin {"enter", "ready"}}
Reported == {c \in AllCPUs : HasReported(c)}

\* The counts are those of CPUs, and the extremes are values that were read or what they start as.
HookBounded ==
  /\ tscPc[Caller] # "out" =>
       ready = Cardinality(Shown) /\ failures <= Cardinality(Reported) /\ round < Rounds
  /\ numCPUs \in {0, Cardinality(AllCPUs)}
  /\ ready <= Cardinality(AllCPUs) /\ failures <= Cardinality(AllCPUs)
  /\ done <= Cardinality(AllCPUs)
  /\ min \in TSCs \cup {Sync!Most} /\ max \in TSCs \cup {0}
  /\ tscs \in [AllCPUs -> TSCs \cup {0}] /\ olds \in [AllCPUs -> TSCs \cup {0, Sync!Most}]
  /\ round \in 0 .. Rounds /\ delta \in Nat /\ okay \in BOOLEAN

\* What is counted is no more than the CPUs.
LEMMA CountsBounded ==
  /\ IsFiniteSet(Shown) /\ Cardinality(Shown) \in Nat /\ Cardinality(Shown) <= Cardinality(AllCPUs)
  /\ IsFiniteSet(Reported) /\ Cardinality(Reported) \in Nat
  /\ Cardinality(Reported) <= Cardinality(AllCPUs)
  /\ Cardinality(Left) \in Nat /\ Cardinality(Left) <= Cardinality(AllCPUs)
<1>1. Shown \in SUBSET AllCPUs /\ Reported \in SUBSET AllCPUs /\ Left \in SUBSET AllCPUs
  BY DEF Shown, Reported, Left
<1> QED
  BY <1>1, CounterFacts, FS_Subset, FS_CardinalityType

\* A CPU's own step that shows up or reports, or does neither.
LEMMA HookCounts ==
  ASSUME Joined, HookBounded, NEW c \in AllCPUs, Sync!Hook(c)
  PROVE  ready' = Cardinality(Shown') /\ failures' <= Cardinality(Reported')
<1>1. /\ HookTypes /\ tscPc[Caller] # "out" /\ tscPc[c] # "out"
      /\ ready = Cardinality(Shown) /\ failures <= Cardinality(Reported)
      /\ failures \in Nat /\ ready \in Nat
  BY CounterFacts DEF Joined, HookTypes, HookBounded, Sync!Hook, Sync!Enter, Sync!Ready,
     Sync!Wait,
     Sync!Expire, Sync!ReadMin, Sync!SetMin, Sync!ReadMax, Sync!SetMax, Sync!Report, Sync!Done
<1>2. \A d \in AllCPUs \ {c} : tscPc'[d] = tscPc[d]
  BY <1>1 DEF HookTypes, Sync!Hook, Sync!Enter, Sync!Ready, Sync!Wait, Sync!ReadTSC, Sync!Goto,
     Sync!Expire, Sync!ReadMin, Sync!SetMin, Sync!ReadMax, Sync!SetMax, Sync!Report, Sync!Done
<1>3. CASE Sync!Ready(c)
  <2>1. tscPc[c] = "ready" /\ tscPc'[c] = "wait" /\ ready' = ready + 1 /\ failures' = failures
    BY <1>1, <1>3 DEF Sync!Ready, Sync!Goto, HookTypes
  <2>2. Shown' = Shown \cup {c} /\ c \notin Shown /\ Reported' = Reported
    BY <1>2, <2>1 DEF Shown, Reported, HasReported
  <2> QED
    BY <1>1, <2>1, <2>2, CountsBounded, FS_AddElement
<1>4. CASE Sync!Report(c)
  <2>1. tscPc[c] = "report" /\ tscPc'[c] = "done" /\ ready' = ready
        /\ failures' \in {failures, failures + 1}
    BY <1>1, <1>4 DEF Sync!Report, Sync!Goto, HookTypes
  <2>2. Reported' = Reported \cup {c} /\ c \notin Reported /\ Shown' = Shown
    BY <1>2, <2>1 DEF Shown, Reported, HasReported
  <2>3. Cardinality(Reported') = Cardinality(Reported) + 1
    BY <2>2, CountsBounded, FS_AddElement
  <2> QED
    BY <1>1, <2>1, <2>2, <2>3, CountsBounded
<1>5. CASE ~(Sync!Ready(c) \/ Sync!Report(c))
  <2>1. ready' = ready /\ failures' = failures
    BY <1>5 DEF Sync!Hook, Sync!Enter, Sync!Wait, Sync!ReadTSC, Sync!Expire, Sync!ReadMin,
       Sync!SetMin, Sync!ReadMax, Sync!SetMax, Sync!Done, Sync!args
  <2>2. \/ tscPc[c] = "enter" /\ tscPc'[c] = "ready"
        \/ /\ tscPc[c] \in {"wait", "readmin", "setmin", "readmax", "setmax"}
           /\ tscPc'[c] \in {"readmin", "setmin", "readmax", "setmax", "report"}
        \/ tscPc[c] = "done" /\ tscPc'[c] \in {"finished", "out"}
    BY <1>1, <1>5 DEF HookTypes, Sync!Hook, Sync!Enter, Sync!Wait, Sync!ReadTSC, Sync!Goto,
       Sync!Expire, Sync!ReadMin, Sync!SetMin, Sync!ReadMax, Sync!SetMax, Sync!Done
  <2>3. Shown' = Shown /\ Reported' = Reported
    BY <1>2, <2>2 DEF Shown, Reported, HasReported
  <2> QED
    BY <1>1, <2>1, <2>3
<1> QED
  BY <1>3, <1>4, <1>5

LEMMA HookStep ==
  ASSUME Joined, HookBounded, NEW c \in AllCPUs, Sync!Hook(c)
  PROVE  HookBounded'
<1>1. ready' = Cardinality(Shown') /\ failures' <= Cardinality(Reported')
  BY HookCounts
<1>2. Joined'
  <2>1. [Sync!Next]_tscVars
    BY DEF Sync!Next
  <2> QED
    BY <2>1, JoinedStep
<1>3. HookTypes /\ HookTypes' /\ tscPc[Caller] # "out" /\ tscPc[c] # "out" /\ Extreme /\ Counted
  BY <1>2, CounterFacts DEF Joined, HookTypes, Sync!Hook, Sync!Enter, Sync!Ready, Sync!Wait,
     Sync!Expire, Sync!ReadMin, Sync!SetMin, Sync!ReadMax, Sync!SetMax, Sync!Report, Sync!Done
<1>4. ready' <= Cardinality(AllCPUs) /\ failures' <= Cardinality(AllCPUs)
  <2>1. /\ Cardinality(Shown') \in Nat /\ Cardinality(Shown') <= Cardinality(AllCPUs)
        /\ Cardinality(Reported') \in Nat /\ Cardinality(Reported') <= Cardinality(AllCPUs)
    <3>1. Shown' \in SUBSET AllCPUs /\ Reported' \in SUBSET AllCPUs
      BY DEF Shown, Reported
    <3> QED
      BY <3>1, CounterFacts, FS_Subset, FS_CardinalityType
  <2> QED
    BY <1>1, <1>3, <2>1, CounterFacts DEF HookTypes
<1>5. done' <= Cardinality(AllCPUs)
  <2>1. CASE Sync!Done(c)
    <3>1. tscPc[c] = "done" /\ c \notin Left /\ done' = done + 1
      BY <2>1 DEF Sync!Done, Left, HasLeft
    <3>2. Left \cup {c} \in SUBSET AllCPUs /\ Left \in SUBSET AllCPUs
      BY DEF Left
    <3>3. Cardinality(Left \cup {c}) = Cardinality(Left) + 1
      BY <3>1, <3>2, CounterFacts, FS_Subset, FS_AddElement
    <3>4. Cardinality(Left \cup {c}) <= Cardinality(AllCPUs)
      BY <3>2, CounterFacts, FS_Subset
    <3> QED
      BY <1>3, <3>1, <3>3, <3>4 DEF Counted
  <2>2. CASE ~Sync!Done(c)
    <3>1. done' = done
      BY <2>2 DEF Sync!Hook, Sync!Enter, Sync!Ready, Sync!Wait, Sync!ReadTSC, Sync!Expire,
         Sync!ReadMin, Sync!SetMin, Sync!ReadMax, Sync!SetMax, Sync!Report, Sync!args
    <3> QED
      BY <3>1 DEF HookBounded
  <2> QED
    BY <2>1, <2>2
<1>6. numCPUs' \in {0, Cardinality(AllCPUs)}
  BY CounterFacts DEF HookBounded, Sync!Hook, Sync!Enter, Sync!Ready, Sync!Wait, Sync!ReadTSC,
     Sync!Expire, Sync!ReadMin, Sync!SetMin, Sync!ReadMax, Sync!SetMax, Sync!Report, Sync!Done,
     Sync!args
<1>7. HasRead(c) => tscs[c] \in TSCs
  BY <1>3 DEF Extreme
<1>8. tscs' \in [AllCPUs -> TSCs \cup {0}]
  BY DEF HookBounded, Sync!Hook, Sync!Enter, Sync!Ready, Sync!Wait, Sync!ReadTSC,
     Sync!Expire, Sync!ReadMin, Sync!SetMin, Sync!ReadMax, Sync!SetMax, Sync!Report, Sync!Done,
     Sync!local
<1>9. min' \in TSCs \cup {Sync!Most} /\ max' \in TSCs \cup {0}
  BY <1>7 DEF HookBounded, HasRead, PastMin, PastMax, Sync!Hook, Sync!Enter, Sync!Ready,
     Sync!Wait,
     Sync!ReadTSC, Sync!Expire, Sync!ReadMin, Sync!SetMin, Sync!ReadMax, Sync!SetMax,
     Sync!Report,
     Sync!Done
<1>10. olds' \in [AllCPUs -> TSCs \cup {0, Sync!Most}]
  BY DEF HookBounded, Sync!Hook, Sync!Enter, Sync!Ready, Sync!Wait, Sync!ReadTSC,
     Sync!Expire, Sync!ReadMin, Sync!SetMin, Sync!ReadMax, Sync!SetMax, Sync!Report, Sync!Done,
     Sync!local
<1>11. UNCHANGED <<round, delta, okay>>
  BY DEF Sync!Hook, Sync!Enter, Sync!Ready, Sync!Wait, Sync!ReadTSC,
     Sync!Expire, Sync!ReadMin, Sync!SetMin, Sync!ReadMax, Sync!SetMax, Sync!Report, Sync!Done,
     Sync!call
<1> QED
  BY <1>1, <1>3, <1>4, <1>5, <1>6, <1>8, <1>9, <1>10, <1>11 DEF HookBounded

LEMMA BoundedStep == Joined /\ HookBounded /\ [Sync!Next]_tscVars => HookBounded'
<1> SUFFICES ASSUME Joined, HookBounded, [Sync!Next]_tscVars PROVE HookBounded'
  OBVIOUS
<1>1. CASE UNCHANGED tscVars
  BY <1>1 DEF tscVars, HookBounded, Shown, Reported, HasReported
<1>2. CASE Sync!Call
  <2>1. /\ tscPc' = [c \in AllCPUs |-> "enter"] /\ numCPUs' = 0 /\ ready' = 0 /\ failures' = 0
        /\ done' = 0 /\ min' = Sync!Most /\ max' = 0
        /\ tscs' = tscs /\ olds' = olds /\ UNCHANGED <<round, delta, okay>>
    BY <1>2 DEF Sync!Call, Sync!call
  <2>2. Shown' = {} /\ Reported' = {}
    BY <2>1 DEF Shown, Reported, HasReported
  <2>3. Cardinality(Shown') = 0 /\ Cardinality(Reported') = 0
    BY <2>2, FS_EmptySet
  <2>4. round < Rounds
    BY <1>2 DEF Sync!Call
  <2> QED
    BY <2>1, <2>3, <2>4, CounterFacts DEF HookBounded
<1>3. CASE Sync!Return
  <2>1. /\ tscPc[Caller] = "finished" /\ done = numCPUs /\ tscPc' = [tscPc EXCEPT ![Caller] = "out"]
        /\ UNCHANGED <<numCPUs, ready, failures, done, min, max, tscs, olds>> /\ round' = round + 1
        /\ \/ delta' = max - min /\ okay' = TRUE
           \/ delta' = delta /\ okay' = okay
    BY <1>3 DEF Sync!Return, Sync!Goto, Sync!args, Sync!local
  <2>2. tscPc'[Caller] = "out"
    BY <2>1, CounterFacts DEF Joined, HookTypes
  <2>3. min <= max
    <3>1. PastMin(Caller) /\ PastMax(Caller) /\ Caller \in AllCPUs
      BY <2>1, CounterFacts DEF PastMin, PastMax, HasReported
    <3>2. min <= tscs[Caller] /\ tscs[Caller] <= max /\ {min, max, tscs[Caller]} \subseteq Nat
      BY <2>1, <3>1 DEF Joined, Extreme, HookTypes
    <3> QED
      BY <3>2
  <2>4. delta' \in Nat /\ okay' \in BOOLEAN
    <3>1. min \in Nat /\ max \in Nat /\ delta \in Nat /\ okay \in BOOLEAN
      BY DEF HookBounded, Joined, HookTypes
    <3>2. delta' \in Nat
      BY <2>1, <2>3, <3>1
    <3> QED
      BY <2>1, <3>1, <3>2, Zenon
  <2>5. round + 1 \in 0 .. Rounds
    <3>1. Rounds \in Nat /\ round \in 0 .. Rounds /\ round < Rounds
      BY <2>1, AllCPUsAssumption DEF HookBounded, Sync!CounterAssumption
    <3> QED
      BY <3>1
  <2> QED
    BY <2>1, <2>2, <2>4, <2>5 DEF HookBounded
<1> QED
  BY <1>1, <1>2, <1>3, HookStep DEF Sync!Next

LEMMA InitBounded == Sync!Init => HookBounded
<1> SUFFICES ASSUME Sync!Init PROVE HookBounded
  OBVIOUS
<1>1. tscPc[Caller] = "out" /\ Rounds \in Nat
  BY CounterFacts, AllCPUsAssumption DEF Sync!Init, Sync!CounterAssumption
<1>2. okay \in BOOLEAN
  BY Zenon DEF Sync!Init
<1>3. \A X : 0 \in X => [c \in AllCPUs |-> 0] \in [AllCPUs -> X]
  OBVIOUS
<1>4. tscs \in [AllCPUs -> TSCs \cup {0}] /\ olds \in [AllCPUs -> TSCs \cup {0, Sync!Most}]
  BY <1>3 DEF Sync!Init
<1>5. {numCPUs, ready, failures, done, round, delta} = {0} /\ min = Sync!Most /\ max = 0
  BY DEF Sync!Init
<1> QED
  BY <1>1, <1>2, <1>4, <1>5, CounterFacts DEF HookBounded

LEMMA HooksTyped == Joined /\ HookBounded => Sync!TypeOK
<1> SUFFICES ASSUME Joined, HookBounded PROVE Sync!TypeOK
  OBVIOUS
<1> QED
  BY CounterFacts DEF Joined, HookTypes, HookSteps, HookBounded, Sync!TypeOK

\* What the host's uptime is counted with, whatever the time of day is set to.
LEMMA InitUptimeTypes == Uptime!Init => UptimeTypes
BY UptimeConstants DEF UptimeTypes, Uptime!Init, Uptime!Threads, UptimeThreads, UptimeSteps

-----------------------------------------------------------------------------
(* The theorems about what is known of the time and of the CPUs.            *)

\* A step of the model is a step of each part or leaves it alone.
LEMMA StepOfParts ==
  ASSUME [MCNext]_<<part, vars, ptscVars, uptimeVars, msrVars, tscVars, patchVars>>
  PROVE  /\ [Ptsc!Next]_ptscVars /\ [Uptime!Next]_uptimeVars /\ [Msr!Next]_msrVars
         /\ [Sync!Next]_tscVars /\ [Next]_vars /\ [Tables!Next]_patchVars
BY DEF MCNext

\* All VCPUs of a machine that run have the same time, and it is not before what any of them has seen,
\* unless a word was exchanged that had changed and changed back; where the counters of the CPUs
\* do not agree, no VCPU's time goes back unless the clock was set back by a second or more
\* (TaskUpdatePTSCParameters, TaskUpdateLatestPTSC).
THEOREM GuestClocksTrueHolds == MCSpec => []GuestClocksTrue
<1>1. MCInit => GuestClocks
  BY InitGuestClocks DEF MCInit
<1>2. GuestClocks /\ [MCNext]_<<part, vars, ptscVars, uptimeVars, msrVars, tscVars, patchVars>> =>
        GuestClocks'
  BY GuestClocksStep, StepOfParts
<1>3. GuestClocks => GuestClocksTrue
  BY GuestClocksEnough DEF GuestClocksTrue
<1> QED
  BY <1>1, <1>2, <1>3, PTL DEF MCSpec

\* A query of a register that succeeds has one reply of each CPU (Vmx86GetMSR), and when the caller
\* of LinuxDriverSyncCallOnEachCPU finds no failure, every CPU has read its counter after all had
\* shown up, and the extremes are those of all that was read; nobody uses the counts after that.
THEOREM AllAnsweredHolds == MCSpec => []AllAnswered
<1>1. MCInit => Answered /\ Joined
  BY InitAnswered, InitJoined DEF MCInit
<1>2. Answered /\ Joined /\ [MCNext]_<<part, vars, ptscVars, uptimeVars, msrVars, tscVars, patchVars>> =>
        Answered' /\ Joined'
  BY AnsweredStep, JoinedStep, StepOfParts
<1>3. Answered /\ Joined => AllAnswered
  BY AnsweredEnough, JoinedEnough DEF AllAnswered
<1> QED
  BY <1>1, <1>2, <1>3, PTL DEF MCSpec

\* What is found out is right, whatever the time of day is set to and however late a thread is.  The
\* uptime is off by no more than a second for each time that the counted time has followed it, and
\* one; and while every change of the time of day was by more than a second and the delays of the
\* threads that have moved the base, by no more than these delays (HostIFReadUptimeWork).  What stands
\* for all CPUs' registers is what every CPU can do, but for a number of IA32_VMX_MISC that is known
\* exactly where the CPUs disagree (Vmx86CheckMSRUniformity).  And the monitor's page tables map the
\* pages of the switch and nothing else of the host's, or the patching has failed for a reason: a
\* page where it cannot be patched, or a table the monitor no longer tracks (Task_InitCrosspage).
THEOREM ResultsTrueHolds == MCSpec => []ResultsTrue
<1>1. MCInit => Tracking /\ Queried /\ Patching
  BY InitTracking, InitQueried, InitPatching DEF MCInit
<1>2. Tracking /\ Queried /\ Patching
      /\ [MCNext]_<<part, vars, ptscVars, uptimeVars, msrVars, tscVars, patchVars>>
      => Tracking' /\ Queried' /\ Patching'
  BY StepOfParts, TrackingStep, QueriedStep, PatchingStep
<1>3. Tracking /\ Queried /\ Patching => ResultsTrue
  BY TrackingEnough, QueriedEnough, PatchingEnough DEF ResultsTrue
<1> QED
  BY <1>1, <1>2, <1>3, PTL DEF MCSpec

\* Every variable of every part has its type, whatever the clocks do; so no counter leaves the
\* range it is kept in.
THEOREM TypesHold == MCSpec => []TypesOK
<1> DEFINE Typed ==
      /\ IInv /\ host \in Hosts /\ GuestClocks /\ WordsBounded /\ UptimeTypes
      /\ Queried /\ Joined /\ HookBounded /\ Patching /\ OwnLosses
<1>1. MCInit => Typed
  BY InitSwitch, InitPages, InitHost, InitGuestClocks, InitWords, InitUptimeTypes,
     InitQueried, InitJoined,
     InitBounded, InitPatching, InitOwnLosses DEF MCInit, IInv
<1>2. Typed /\ [MCNext]_<<part, vars, ptscVars, uptimeVars, msrVars, tscVars, patchVars>> => Typed'
  <2> SUFFICES ASSUME Typed, [MCNext]_<<part, vars, ptscVars, uptimeVars, msrVars, tscVars, patchVars>>
               PROVE  Typed'
    OBVIOUS
  <2>1. IInv' /\ host' \in Hosts
    BY StepOfParts, SwitchStep, PagesStep, HostKept DEF IInv, SwitchInv
  <2>2. GuestClocks' /\ WordsBounded'
    BY StepOfParts, GuestClocksStep, WordsStep
  <2>3. UptimeTypes' /\ Queried' /\ Patching' /\ OwnLosses'
    BY StepOfParts, UptimeTypesStep, QueriedStep, PatchingStep, OwnLossesStep
  <2>4. Joined' /\ HookBounded'
    BY StepOfParts, JoinedStep, BoundedStep
  <2> QED
    BY <2>1, <2>2, <2>3, <2>4
<1>3. Typed => TypesOK
  BY TypesEnough, GuestsTyped, UptimeTyped, QueriedEnough, HooksTyped, PatchesTyped
     DEF TypesOK, IInv, SwitchInv
<1> QED
  BY <1>1, <1>2, <1>3, PTL DEF MCSpec
=============================================================================
