----------------------------- MODULE WorldSwitch -----------------------------
(***************************************************************************)
(* The world switch of a Linux host (vmmon, common/task.c: Task_Switch):   *)
(* the state of a CPU is saved piece by piece, the monitor runs on it, and *)
(* it is restored in the opposite order.  Interrupts are off, but an NMI   *)
(* or a machine check comes between any two steps: on the switch's own IDT *)
(* (crosspage.c) it is logged, and raised for the host once its IDT is     *)
(* back.  The page that the CPU's virtualization needs is allocated by the *)
(* loop that calls the switch (moduleloop.c), which is turned back for it. *)
(*                                                                         *)
(* An item of a CPU's state is the host's or not; trace stands for PEBS    *)
(* and the processor trace, cr for CR0, CR2 and CR4, gdt for the tables,   *)
(* TR and the segments, drs for DR0 to DR3, lvt for the four vectors of    *)
(* the local APIC.  The monitor is outside: what it may do is assumed.     *)
(***************************************************************************)
EXTENDS Integers, FiniteSets

CONSTANTS
  VCPUs, CPUs,
  Hosts,        \* the states of the host's CPUs
  MaxEvents,    \* how many exceptions come (bound)
  Pages         \* machine pages

\* What a host may use of a CPU: an area (VMCS, or host save area) is another hypervisor's, and
\* VT has none while it is off.  dr7 says whether debug registers break, or guard DR7 itself.
HostStates ==
  { h \in [kind : {"VT", "SVM"}, hvOn : BOOLEAN, area : {"none", "other"}, trace : BOOLEAN,
           dr7 : {"none", "break", "guard"}, nmi : BOOLEAN] :
      h.kind = "VT" /\ ~h.hvOn => h.area = "none" }

ASSUME HostsAssumption == Hosts \subseteq HostStates

\* 0 stands for INVALID_MPN.
ASSUME PagesAssumption == Pages \subseteq Nat \ {0}

ASSUME MaxEventsAssumption == MaxEvents \in Nat

VARIABLES
  host,         \* the host's state of every CPU
  lvt,          \* of a CPU: "open", or "masked"
  hw,           \* the state of a CPU
  blocked, latched, \* of a CPU: NMIs are blocked, and one waits
  rootPage,     \* hvRootPage, of a CPU; 0 is INVALID_MPN
  memory,       \* pages allocated
  cpu, pc,      \* of a VCPU's thread
  local, page,  \* its locals
  crosspage,    \* of a VCPU
  events, pending, due \* history: exceptions taken and not yet by the host, and what a call returned

cpus == <<lvt, hw, blocked, latched, pending>>
vars == <<host, cpus, rootPage, memory, cpu, pc, local, page, crosspage, events, due>>

Exceptions == {"NMI", "MC"}

DRs == {"drs", "dr6", "dr7"}

HostState ==
  [trace |-> host.trace, idt |-> "host", cr |-> "host", gdt |-> "host",
   dr |-> [drs |-> "host", dr6 |-> "host", dr7 |-> host.dr7],
   hv |-> host.hvOn, area |-> host.area, root |-> 0]

NoLocal == [masked |-> FALSE, pCPU |-> "none", root |-> 0, trace |-> FALSE, off |-> FALSE,
            foreign |-> "none", cr |-> "none"]

NoDRs == [drs |-> "none", dr6 |-> "none", dr7 |-> "none"]

Init ==
  /\ host \in Hosts
  /\ lvt = [c \in CPUs |-> "open"]
  /\ hw = [c \in CPUs |-> HostState]
  /\ blocked = [c \in CPUs |-> FALSE] /\ latched = [c \in CPUs |-> FALSE]
  /\ pending = [c \in CPUs |-> {}]
  /\ rootPage = [c \in CPUs |-> 0] /\ memory = {}
  /\ cpu \in [VCPUs -> CPUs] /\ pc = [v \in VCPUs |-> "out"]
  /\ local = [v \in VCPUs |-> NoLocal] /\ page = [v \in VCPUs |-> 0]
  /\ crosspage = [v \in VCPUs |->
       [call |-> "none", pcpuNum |-> "none", retval |-> "none", retry |-> FALSE,
        exception |-> {}, hostDR |-> NoDRs, inHost |-> {}, shadow |-> NoDRs, inShadow |-> {}]]
  /\ events = 0 /\ due = [v \in VCPUs |-> "none"]

Goto(v, label) == pc' = [pc EXCEPT ![v] = label]
At(v, label) == pc[v] = label

HW(v, item, value) == hw' = [hw EXCEPT ![cpu[v]][item] = value]

\* Interrupts are off on the CPU that VCPU v's thread runs on.
Off(v) == pc[v] \notin {"out", "cli", "unmask", "handle", "write"}

\* No other thread has the CPU.
Runs(v) == \A w \in VCPUs \ {v} : cpu[w] = cpu[v] => ~Off(w)

\* A step of v's thread from one label to another.
Step(v, from, to) == At(v, from) /\ Runs(v) /\ Goto(v, to)

-----------------------------------------------------------------------------
(* The host.                                                                *)

Migrate(v) ==
  /\ ~Off(v) /\ \E c \in CPUs \ {cpu[v]} : cpu' = [cpu EXCEPT ![v] = c]
  /\ UNCHANGED <<host, cpus, rootPage, memory, pc, local, page, crosspage, events, due>>

\* An exception on the switch's IDT is logged, in the monitor handed over or logged; on the
\* host's IDT the host takes it at once, and nothing changes.  An NMI blocks the next ones,
\* of which one waits.
Raised(v, e) ==
  LET c == cpu[v] IN
  /\ Off(v) /\ hw[c].idt = "switch" /\ events < MaxEvents /\ events' = events + 1
  /\ IF e = "NMI" /\ blocked[c]
     THEN latched' = [latched EXCEPT ![c] = TRUE] /\ UNCHANGED <<crosspage, pending, blocked>>
     ELSE /\ blocked' = [blocked EXCEPT ![c] = @ \/ e = "NMI"]
          /\ pending' = [pending EXCEPT ![c] = @ \cup {e}]
          /\ \/ crosspage' = [crosspage EXCEPT ![v].exception = @ \cup {e}]
             \/ /\ At(v, "monitor") /\ crosspage[v].call = "none"
                /\ crosspage' = [crosspage EXCEPT ![v].call = e]
          /\ UNCHANGED latched
  /\ UNCHANGED <<host, lvt, hw, rootPage, memory, cpu, pc, local, page, due>>

\* RAISE_INTERRUPT: the host takes it, and the end of its handler unblocks NMIs.
Raise(v, e) ==
  LET c == cpu[v] IN
  /\ pending' = [pending EXCEPT ![c] = @ \ {e}]
  /\ IF e = "NMI" THEN /\ blocked' = [blocked EXCEPT ![c] = FALSE]
                       /\ latched' = [latched EXCEPT ![c] = FALSE]
     ELSE UNCHANGED <<blocked, latched>>

-----------------------------------------------------------------------------
(* Task_Switch, to the monitor.                                             *)

TaskDisableNMI(v) ==
  /\ Step(v, "out", "cli")
  /\ local' = [local EXCEPT ![v].masked = host.nmi /\ lvt[cpu[v]] = "open"]
  /\ lvt' = IF host.nmi THEN [lvt EXCEPT ![cpu[v]] = "masked"] ELSE lvt
  /\ UNCHANGED <<host, hw, blocked, latched, pending, rootPage, memory, cpu, page, crosspage,
                 events, due>>

\* Mutant: the CPU is looked up before interrupts are off.
ClearInterruptsLate(v) ==
  /\ Step(v, "cli", "look")
  /\ \E c \in CPUs : local' = [local EXCEPT ![v].pCPU = c, ![v].root = rootPage[c]]
  /\ UNCHANGED <<host, cpus, rootPage, memory, cpu, page, crosspage, events, due>>

ClearInterrupts(v) ==
  /\ Step(v, "cli", "look")
  /\ local' = [local EXCEPT ![v].pCPU = cpu[v], ![v].root = rootPage[cpu[v]]]
  /\ UNCHANGED <<host, cpus, rootPage, memory, cpu, page, crosspage, events, due>>

\* No page can be allocated with interrupts off.
TurnBack(v) ==
  /\ Step(v, "look", "flags") /\ local[v].root = 0
  /\ crosspage' = [crosspage EXCEPT ![v].call = "alloc", ![v].pcpuNum = local[v].pCPU]
  /\ UNCHANGED <<host, cpus, rootPage, memory, cpu, local, page, events, due>>

Proceed(v) ==
  /\ Step(v, "look", "trace") /\ local[v].root # 0
  /\ UNCHANGED <<host, cpus, rootPage, memory, cpu, local, page, crosspage, events, due>>

UnchangedByPiece == UNCHANGED <<host, lvt, blocked, latched, pending, rootPage, memory, cpu, page,
                                events, due>>

StopTrace(v) ==
  /\ Step(v, "trace", "idt")
  /\ local' = [local EXCEPT ![v].trace = hw[cpu[v]].trace]
  /\ HW(v, "trace", FALSE)
  /\ UnchangedByPiece /\ UNCHANGED crosspage

SwitchIDT(v) ==
  /\ Step(v, "idt", "cr") /\ HW(v, "idt", "switch")
  /\ UnchangedByPiece /\ UNCHANGED <<local, crosspage>>

SwitchCR(v) ==
  /\ Step(v, "cr", "dr")
  /\ local' = [local EXCEPT ![v].cr = hw[cpu[v]].cr]
  /\ HW(v, "cr", "switch")
  /\ UnchangedByPiece /\ UNCHANGED crosspage

\* Mutant: the debug exception of a guarded register is forgotten.
SaveDRPlain(v) ==
  /\ Step(v, "dr", "hv")
  /\ LET dr == [hw[cpu[v]].dr EXCEPT !.dr7 = IF @ = "guard" THEN "none" ELSE @]
     IN /\ crosspage' = [crosspage EXCEPT ![v].hostDR = dr, ![v].inHost = DRs]
        /\ HW(v, "dr", dr)
  /\ UnchangedByPiece /\ UNCHANGED local

\* TaskSaveDebugRegisters.  Reading DR7 while it is guarded raises a debug exception, which
\* ends the guard and leaves its mark in DR6: both are taken back in what is saved.
SaveDR(v) ==
  /\ Step(v, "dr", "hv")
  /\ LET dr   == hw[cpu[v]].dr
         kept == CASE dr.dr7 = "guard" -> {"drs"}
                   [] dr.dr7 = "break" -> {"drs", "dr6"}
                   [] OTHER            -> DRs
     IN /\ crosspage' = [crosspage EXCEPT ![v].hostDR = [dr EXCEPT !.drs = "none"],
                                          ![v].inHost = kept]
        /\ HW(v, "dr", [dr EXCEPT !.dr6 = IF dr.dr7 = "guard" THEN "mark" ELSE @,
                                  !.dr7 = "none"])
  /\ UnchangedByPiece /\ UNCHANGED local

\* VT: VMXON, unless another hypervisor is on, whose VMCS is kept; SVM: the bit and the area.
EnterHV(v) ==
  LET c == cpu[v] IN
  /\ Step(v, "hv", "in")
  /\ local' = [local EXCEPT ![v].off = ~hw[c].hv,
                            ![v].foreign = IF host.kind = "VT" /\ ~hw[c].hv THEN "none"
                                           ELSE hw[c].area]
  /\ hw' = [hw EXCEPT ![c].hv = TRUE,
                      ![c].area = IF host.kind = "VT" THEN @ ELSE "own",
                      ![c].root = IF host.kind = "VT" /\ hw[c].hv THEN 0 ELSE local[v].root]
  /\ UnchangedByPiece /\ UNCHANGED crosspage

SwitchToMonitor(v) ==
  /\ Step(v, "in", "monitor") /\ HW(v, "gdt", "cross")
  /\ crosspage' = [crosspage EXCEPT ![v].call = "none"]
  /\ UnchangedByPiece /\ UNCHANGED local

-----------------------------------------------------------------------------
(* The monitor.                                                             *)

\* It saves those of the host's debug registers that it changes, and says which it left; what
\* it loads may be what the host had.
ChangesDRs(v) ==
  LET c == cpu[v] x == crosspage[v] IN
  \E shadow \in [drs : {"host", "guest"}, dr6 : {"guest"}, dr7 : {"none"}],
     kept \in {x.inHost, x.inHost \ {"drs"}, {}} :
    LET dr == [r \in DRs |-> IF r \in kept THEN hw[c].dr[r] ELSE shadow[r]]
    IN /\ hw' = [hw EXCEPT ![c].dr = dr, ![c].area = "own"]
       /\ crosspage' = [crosspage EXCEPT
            ![v].shadow = shadow, ![v].inHost = kept,
            ![v].inShadow = {r \in DRs : dr[r] = shadow[r]},
            ![v].hostDR.drs = IF "drs" \in kept THEN @ ELSE "host",
            ![v].call = IF @ # "none" THEN @ ELSE "other"]

\* It calls, or hands an exception over that came while it ran.
MonitorCalls(v) ==
  /\ Step(v, "monitor", "off") /\ ChangesDRs(v)
  /\ UnchangedByPiece /\ UNCHANGED local

\* It hands an interrupt over.
MonitorInterrupted(v) ==
  /\ Step(v, "monitor", "off") /\ crosspage[v].call = "none"
  /\ crosspage' = [crosspage EXCEPT ![v].call = "INTR"]
  /\ pending' = [pending EXCEPT ![cpu[v]] = @ \cup {"INTR"}]
  /\ HW(v, "area", "own")
  /\ UNCHANGED <<host, lvt, blocked, latched, rootPage, memory, cpu, local, page, events, due>>

\* It finds an exception logged on the way, and turns back to be switched to again.
MonitorTurnsBack(v) ==
  /\ Step(v, "monitor", "off") /\ crosspage[v].exception # {} /\ crosspage[v].call = "none"
  /\ crosspage' = [crosspage EXCEPT ![v].retry = TRUE]
  /\ UnchangedByPiece /\ UNCHANGED <<hw, local>>

-----------------------------------------------------------------------------
(* Task_Switch, back to the host.                                           *)

\* Mutant: as if no other hypervisor were on.
LeaveHVAlways(v) ==
  /\ Step(v, "off", "cr2")
  /\ hw' = [hw EXCEPT ![cpu[v]].hv = FALSE, ![cpu[v]].area = "none", ![cpu[v]].root = 0]
  /\ UnchangedByPiece /\ UNCHANGED <<local, crosspage>>

LeaveHV(v) ==
  LET c == cpu[v] IN
  /\ Step(v, "off", "cr2")
  /\ hw' = [hw EXCEPT
       ![c].hv = ~local[v].off, ![c].root = 0,
       ![c].area = IF host.kind = "VT" /\ local[v].foreign = "none"
                   THEN (IF local[v].off THEN "none" ELSE @) ELSE local[v].foreign]
  /\ UnchangedByPiece /\ UNCHANGED <<local, crosspage>>

RestoreCR(v) ==
  /\ Step(v, "cr2", "gdt") /\ HW(v, "cr", local[v].cr)
  /\ UnchangedByPiece /\ UNCHANGED <<local, crosspage>>

\* TaskRestoreHostGDTTRLDT and the segments.
RestoreGDT(v) ==
  /\ Step(v, "gdt", "drs") /\ HW(v, "gdt", "host")
  /\ UnchangedByPiece /\ UNCHANGED <<local, crosspage>>

\* Mutant: the registers the monitor left are taken for the host's.
RestoreDRChanged(v) ==
  /\ Step(v, "drs", "hidt")
  /\ HW(v, "dr", [r \in DRs |-> IF r \in crosspage[v].inHost \cup crosspage[v].inShadow
                                THEN hw[cpu[v]].dr[r] ELSE crosspage[v].hostDR[r]])
  /\ UnchangedByPiece /\ UNCHANGED <<local, crosspage>>

\* What is saved of them is not used again.
ForgetDRs(v) ==
  crosspage' = [crosspage EXCEPT ![v].hostDR = NoDRs, ![v].inHost = {}, ![v].shadow = NoDRs,
                                 ![v].inShadow = {}]

\* TaskRestoreDebugRegisters: a register that already has the value is not written.
RestoreDR(v) ==
  LET x == crosspage[v] IN
  /\ Step(v, "drs", "hidt")
  /\ HW(v, "dr", [r \in DRs |->
       IF r \notin x.inHost /\ (r \notin x.inShadow \/ x.hostDR[r] # x.shadow[r])
       THEN x.hostDR[r] ELSE hw[cpu[v]].dr[r]])
  /\ ForgetDRs(v) /\ UnchangedByPiece /\ UNCHANGED local

RestoreIDT(v) ==
  /\ Step(v, "hidt", "htrace") /\ HW(v, "idt", "host")
  /\ UnchangedByPiece /\ UNCHANGED <<local, crosspage>>

RestartTrace(v) ==
  /\ Step(v, "htrace", "nmi")
  /\ hw' = [hw EXCEPT ![cpu[v]].trace = @ \/ local[v].trace]
  /\ UnchangedByPiece /\ UNCHANGED <<local, crosspage>>

UnchangedByRaise == UNCHANGED <<host, lvt, hw, rootPage, memory, cpu, local, page, events, due>>

\* An exception that was logged is raised for the host.
RaiseLogged(v, e, from, to) ==
  /\ Step(v, from, to)
  /\ IF e \in crosspage[v].exception
     THEN /\ Raise(v, e)
          /\ crosspage' = [crosspage EXCEPT ![v].exception = @ \ {e}]
     ELSE UNCHANGED <<pending, blocked, latched, crosspage>>
  /\ UnchangedByRaise

\* Mutant: an NMI that came with a machine check is not raised.
RaiseOne(v) ==
  \/ RaiseLogged(v, "MC", "nmi", "forward") /\ "MC" \in crosspage[v].exception
  \/ RaiseLogged(v, "NMI", "nmi", "forward") /\ "MC" \notin crosspage[v].exception

RaiseNMI(v) == RaiseLogged(v, "NMI", "nmi", "mc")
RaiseMC(v)  == RaiseLogged(v, "MC", "mc", "forward")

\* Mutant: an NMI the monitor hands over is left to the next switch.
ForwardLater(v) ==
  /\ At(v, "forward") /\ Runs(v)
  /\ Goto(v, IF crosspage[v].retry THEN "trace" ELSE "interrupt")
  /\ crosspage' = [crosspage EXCEPT ![v].retry = FALSE]
  /\ UNCHANGED <<pending, blocked, latched>> /\ UnchangedByRaise

\* An NMI the monitor hands over is raised, and the monitor switched to again at once.
Forward(v) ==
  LET again == crosspage[v].call = "NMI" IN
  /\ At(v, "forward") /\ Runs(v)
  /\ IF again THEN Raise(v, "NMI") ELSE UNCHANGED <<pending, blocked, latched>>
  /\ Goto(v, IF again \/ crosspage[v].retry THEN "trace" ELSE "interrupt")
  /\ crosspage' = [crosspage EXCEPT ![v].retry = FALSE]
  /\ UnchangedByRaise

\* An interrupt or a machine check the monitor hands over, before interrupts are on.
RaiseInterrupt(v) ==
  /\ Step(v, "interrupt", "flags")
  /\ IF crosspage[v].call \in {"INTR", "MC"} THEN Raise(v, crosspage[v].call)
     ELSE UNCHANGED <<pending, blocked, latched>>
  /\ UNCHANGED crosspage /\ UnchangedByRaise

RestoreFlags(v) ==
  /\ Step(v, "flags", "unmask")
  /\ UNCHANGED <<host, cpus, rootPage, memory, cpu, local, page, crosspage, events, due>>

TaskRestoreNMI(v) ==
  /\ Step(v, "unmask", "handle")
  /\ lvt' = IF local[v].masked THEN [lvt EXCEPT ![cpu[v]] = "open"] ELSE lvt
  /\ local' = [local EXCEPT ![v] = NoLocal]
  /\ UNCHANGED <<host, hw, blocked, latched, pending, rootPage, memory, cpu, page, crosspage,
                 events, due>>

-----------------------------------------------------------------------------
(* The loop in Vmx86_RunVM, and TaskAllocHVRootPage.                        *)

\* What is handled is not used again.
Handled(x) == [x EXCEPT !.call = "none", !.pcpuNum = "none"]

\* Mutant: the call is returned as its result.
HandleCallCode(v) ==
  /\ Step(v, "handle", "out") /\ crosspage[v].call # "alloc"
  /\ LET r == crosspage[v].call
     IN /\ crosspage' = [crosspage EXCEPT ![v] = [Handled(@) EXCEPT !.retval = r]]
        /\ due' = [due EXCEPT ![v] = r]
  /\ UNCHANGED <<host, cpus, rootPage, memory, cpu, local, page, events>>

\* A call's result; an interrupt's is MODULECALL_USERRETURN.
HandleCall(v) ==
  /\ Step(v, "handle", "out") /\ crosspage[v].call # "alloc"
  /\ LET r == IF crosspage[v].call = "other" THEN "result" ELSE "return"
     IN /\ crosspage' = [crosspage EXCEPT ![v] = [Handled(@) EXCEPT !.retval = r]]
        /\ due' = [due EXCEPT ![v] = r]
  /\ UNCHANGED <<host, cpus, rootPage, memory, cpu, local, page, events>>

\* Mutant: the call was not the monitor's, but its result is replaced.
HasPageReturns(v) ==
  /\ Step(v, "handle", "out") /\ crosspage[v].call = "alloc"
  /\ rootPage[crosspage[v].pcpuNum] # 0
  /\ crosspage' = [crosspage EXCEPT ![v] = [Handled(@) EXCEPT !.retval = "return"]]
  /\ UNCHANGED <<host, cpus, rootPage, memory, cpu, local, page, events, due>>

HasPage(v) ==
  /\ Step(v, "handle", "out") /\ crosspage[v].call = "alloc"
  /\ rootPage[crosspage[v].pcpuNum] # 0
  /\ crosspage' = [crosspage EXCEPT ![v] = Handled(@)]
  /\ UNCHANGED <<host, cpus, rootPage, memory, cpu, local, page, events, due>>

AllocPage(v) ==
  /\ Step(v, "handle", "write") /\ crosspage[v].call = "alloc"
  /\ rootPage[crosspage[v].pcpuNum] = 0
  /\ \E p \in Pages \ memory :
       /\ \A q \in Pages \ memory : p <= q
       /\ memory' = memory \cup {p} /\ page' = [page EXCEPT ![v] = p]
  /\ UNCHANGED <<host, cpus, rootPage, cpu, local, crosspage, events, due>>

\* The user gets an error, and may run the VCPU again.
AllocFails(v) ==
  /\ Step(v, "handle", "out") /\ crosspage[v].call = "alloc"
  /\ rootPage[crosspage[v].pcpuNum] = 0
  /\ crosspage' = [crosspage EXCEPT ![v] = Handled(@)]
  /\ UNCHANGED <<host, cpus, rootPage, memory, cpu, local, page, events, due>>

\* Mutant: the slot is written, whoever was first.
SetRootPageBlindly(v) ==
  /\ Step(v, "write", "handle")
  /\ rootPage' = [rootPage EXCEPT ![crosspage[v].pcpuNum] = page[v]]
  /\ page' = [page EXCEPT ![v] = 0]
  /\ UNCHANGED <<host, cpus, memory, cpu, local, crosspage, events, due>>

\* Whoever is first sets the slot; the other gives its page back.
SetRootPage(v) ==
  LET c == crosspage[v].pcpuNum IN
  /\ Step(v, "write", "handle")
  /\ IF rootPage[c] = 0 THEN rootPage' = [rootPage EXCEPT ![c] = page[v]] /\ UNCHANGED memory
     ELSE memory' = memory \ {page[v]} /\ UNCHANGED rootPage
  /\ page' = [page EXCEPT ![v] = 0]
  /\ UNCHANGED <<host, cpus, cpu, local, crosspage, events, due>>

WriteFails(v) ==
  /\ Step(v, "write", "out")
  /\ memory' = memory \ {page[v]} /\ page' = [page EXCEPT ![v] = 0]
  /\ crosspage' = [crosspage EXCEPT ![v] = Handled(@)]
  /\ UNCHANGED <<host, cpus, rootPage, cpu, local, events, due>>

Next ==
  \E v \in VCPUs :
    \/ Migrate(v) \/ \E e \in Exceptions : Raised(v, e)
    \/ TaskDisableNMI(v) \/ ClearInterrupts(v) \/ TurnBack(v) \/ Proceed(v) \/ StopTrace(v)
    \/ SwitchIDT(v) \/ SwitchCR(v) \/ SaveDR(v) \/ EnterHV(v) \/ SwitchToMonitor(v)
    \/ MonitorCalls(v) \/ MonitorInterrupted(v) \/ MonitorTurnsBack(v)
    \/ LeaveHV(v) \/ RestoreCR(v) \/ RestoreGDT(v) \/ RestoreDR(v) \/ RestoreIDT(v)
    \/ RestartTrace(v) \/ RaiseNMI(v) \/ RaiseMC(v) \/ Forward(v) \/ RaiseInterrupt(v)
    \/ RestoreFlags(v) \/ TaskRestoreNMI(v)
    \/ HandleCall(v) \/ HasPage(v) \/ AllocPage(v) \/ AllocFails(v) \/ SetRootPage(v)
    \/ WriteFails(v)

Spec == Init /\ [][Next]_vars

-----------------------------------------------------------------------------
(* Properties.                                                              *)

Areas == {"none", "other", "own"}

\* The type of every variable.
TypeOK ==
  /\ host \in Hosts
  /\ lvt \in [CPUs -> {"open", "masked"}]
  /\ {blocked, latched} \subseteq [CPUs -> BOOLEAN]
  /\ \A c \in CPUs :
       /\ {hw[c].trace, hw[c].hv} \subseteq BOOLEAN /\ hw[c].idt \in {"host", "switch"}
       /\ hw[c].area \in Areas /\ hw[c].root \in Pages \cup {0}
       /\ pending[c] \subseteq Exceptions \cup {"INTR"}
  /\ rootPage \in [CPUs -> Pages \cup {0}] /\ memory \subseteq Pages
  /\ cpu \in [VCPUs -> CPUs] /\ page \in [VCPUs -> Pages \cup {0}]
  /\ \A v \in VCPUs :
       /\ crosspage[v].call \in {"none", "other", "INTR", "alloc"} \cup Exceptions
       /\ crosspage[v].pcpuNum \in CPUs \cup {"none"}
       /\ crosspage[v].exception \subseteq Exceptions
       /\ {crosspage[v].retval, due[v]} \subseteq {"none", "result", "return"}
  /\ events \in 0 .. MaxEvents

InHost(c) == \A v \in VCPUs : cpu[v] = c => ~Off(v)

\* While a CPU has the host's IDT, and so the host takes what comes, it has all of the host's
\* state, but for the traces, which are back before interrupts are on; the only exception is
\* the current VMCS of a hypervisor that had none.  A CPU's virtualization uses its own page.
HostIntact ==
  \A c \in CPUs :
    /\ hw[c].idt = "host" =>
         [hw[c] EXCEPT !.trace = host.trace,
                       !.area = IF host.area = "none" THEN "none" ELSE @] = HostState
    /\ InHost(c) => hw[c].trace = host.trace
    /\ hw[c].root # 0 => hw[c].root = rootPage[c]

\* No exception that came during a switch, and no interrupt the monitor handed over, is still
\* to be raised when interrupts are on, and NMIs are not left blocked.
AllRaised ==
  /\ \A c \in CPUs : InHost(c) => pending[c] = {} /\ ~blocked[c] /\ ~latched[c]
  /\ \A v \in VCPUs : ~Off(v) => crosspage[v].exception = {}

\* The host gets its CPU back as it was, and every exception and interrupt that came meanwhile.
HostUnaware == HostIntact /\ AllRaised

\* A switch that was turned back for a page is not seen by the monitor: it finds the result of
\* its own last call.  And every page allocated is a CPU's, or about to be or to be given back.
TurnedBackUnseen ==
  /\ \A v \in VCPUs : At(v, "monitor") => crosspage[v].retval = due[v]
  /\ memory \cup {0} = {0} \cup {rootPage[c] : c \in CPUs} \cup {page[v] : v \in VCPUs}

\* "Disable and restore APIC NMI delivery": violated.
NMIDeliveryRestored ==
  (\A v \in VCPUs : At(v, "out")) => \A c \in CPUs : lvt[c] = "open"
=============================================================================
