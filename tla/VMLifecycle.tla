---------------------------- MODULE VMLifecycle ----------------------------
(***************************************************************************)
(* The life of virtual machines in vmmon (linux/driver.c, vmx86.c): the    *)
(* open files of the device, each with at most one machine; the list of    *)
(* machines and their IDs; the pseudo TSC, which lives as long as a file   *)
(* is open; the fast clock, which runs as fast as some machine asks for;   *)
(* and the bootstrap of the monitor, which takes a pseudo TSC.             *)
(*                                                                         *)
(* Threads make ioctls with the file's vmDriverRWSema held, for writing    *)
(* to create or release the machine and for reading otherwise.  What is    *)
(* done with the global lock held is one action; the lock of the fast      *)
(* clock is held over several.  What the deletion of a machine does to     *)
(* the counts of locked pages is in VMAdmission.                           *)
(***************************************************************************)
EXTENDS Integers, FiniteSetsExt, SequencesExt

CONSTANTS
  Files,         \* files of /dev/vmmon
  VMs,           \* VMDriver objects
  Threads,       \* threads that make system calls on the files
  MAX_VMS,
  MAX_INT32,     \* where fdCount saturates
  Rates,         \* clock rates that machines ask for
  MIN_RATE,      \* no clock thread is needed up to this rate
  NULL           \* no machine, no thread, no file

ASSUME LifecycleAssumption ==
  /\ IsFiniteSet(VMs) /\ NULL \notin Files \cup VMs \cup Threads
  /\ MAX_VMS \in Nat \ {0} /\ MAX_INT32 \in Nat \ {0}
  /\ Rates \subseteq Nat /\ 0 \in Rates /\ MIN_RATE \in Nat

VARIABLES
  open,          \* the files that are open
  vm,            \* Device.vm of each file
  vmDriverList,  \* sequence of machines
  vmCount,
  userID,        \* VMDriver.userID, 0 until registered
  vmIDList, vmIDsAllocated, vmIDsUnused,
  fdCount,
  initialized,   \* pseudoTSC.initialized
  booted,        \* machines whose bootstrap has succeeded
  vmRate,        \* VMDriver.fastClockRate
  globalFastClockRate,
  hostRate,      \* linuxState.fastClockRate
  clock,         \* linuxState.fastClockThread: none, running, or parked
  fastClockMutex,
  pc, op         \* the next step of a thread, and its locals

files  == <<open, vm, fdCount, initialized>>
ids    == <<vmIDList, vmIDsAllocated, vmIDsUnused>>
list   == <<vmDriverList, vmCount, userID, ids>>
rates  == <<vmRate, globalFastClockRate, hostRate, clock, fastClockMutex>>
vars   == <<files, list, booted, rates, pc, op>>

INVALID_VMID == -1
IDs    == 0 .. MAX_VMS - 1
Listed == ToSet(vmDriverList)
NoOp   == [call |-> "none", file |-> NULL, mode |-> "none", vm |-> NULL,
           rate |-> 0, max |-> 0]

\* Vmx86_InitIDList, as the module is loaded.
Init ==
  /\ open = {} /\ vm = [f \in Files |-> NULL] /\ fdCount = 0
  /\ initialized = FALSE
  /\ vmDriverList = <<>> /\ vmCount = 0 /\ userID = [m \in VMs |-> 0]
  /\ vmIDList = [i \in IDs |-> IF i = MAX_VMS - 1 THEN INVALID_VMID ELSE i + 1]
  /\ vmIDsUnused = 0 /\ vmIDsAllocated = INVALID_VMID
  /\ booted = {}
  /\ vmRate = [m \in VMs |-> 0] /\ globalFastClockRate = 0 /\ hostRate = 0
  /\ clock = "none" /\ fastClockMutex = NULL
  /\ pc = [t \in Threads |-> "idle"] /\ op = [t \in Threads |-> NoOp]

-----------------------------------------------------------------------------
(* Files and their locks.                                                    *)

Goto(t, label) == pc' = [pc EXCEPT ![t] = label]

\* The thread leaves the system call, and the lock of the file.
Return(t) == Goto(t, "idle") /\ op' = [op EXCEPT ![t] = NoOp]

Inside(f) == {t \in Threads : op[t].file = f}

MayLock(f, mode) ==
  \A t \in Inside(f) : mode = "read" /\ op[t].mode = "read"

\* Mutant: a machine is released with the lock held for reading.
ModeOfCreateOnly(call) == IF call = "create" THEN "write" ELSE "read"

\* needsWriteLock.
ModeOf(call) == IF call \in {"create", "release"} THEN "write" ELSE "read"

\* LinuxDriver_Open, and Vmx86_Open.
Open(f) ==
  /\ f \notin open /\ Inside(f) = {}
  /\ open' = open \cup {f}
  /\ fdCount' = IF fdCount < MAX_INT32 THEN fdCount + 1 ELSE fdCount
  /\ UNCHANGED <<vm, initialized, list, booted, rates, pc, op>>

\* LinuxDriver_Ioctl up to the call; all but ptsc and create need a machine.
Enter(t, f, call, rate) ==
  /\ pc[t] = "idle" /\ f \in open
  /\ MayLock(f, ModeOf(call))
  /\ call = "create" => vm[f] = NULL
  /\ call \notin {"create", "ptsc"} => vm[f] # NULL
  /\ call # "setrate" => rate = 0
  /\ Goto(t, call)
  /\ op' = [op EXCEPT ![t] = [call |-> call, file |-> f, mode |-> ModeOf(call),
                              vm |-> vm[f], rate |-> rate, max |-> 0]]
  /\ UNCHANGED <<files, list, booted, rates>>

\* LinuxDriver_Close, after the last reference to the file: no ioctl is inside.
Close(t, f) ==
  /\ pc[t] = "idle" /\ f \in open /\ Inside(f) = {}
  /\ open' = open \ {f}
  /\ op' = [op EXCEPT ![t] = [call |-> "close", file |-> f, mode |-> "write",
                              vm |-> vm[f], rate |-> 0, max |-> 0]]
  /\ Goto(t, IF vm[f] = NULL THEN "lastclose" ELSE "release")
  /\ UNCHANGED <<vm, fdCount, initialized, list, booted, rates>>

\* Mutant: the saturated counter is decremented.
LastCloseUnsaturated(t) ==
  /\ pc[t] = "lastclose"
  /\ fdCount' = fdCount - 1
  /\ initialized' = (initialized /\ fdCount' # 0)
  /\ Return(t)
  /\ UNCHANGED <<open, vm, list, booted, rates>>

\* Vmx86_Close.
LastClose(t) ==
  /\ pc[t] = "lastclose"
  /\ fdCount' = IF fdCount < MAX_INT32 THEN fdCount - 1 ELSE fdCount
  /\ initialized' = (initialized /\ fdCount' # 0)
  /\ Return(t)
  /\ UNCHANGED <<open, vm, list, booted, rates>>

\* Vmx86_InitPseudoTSC.
InitPseudoTSC(t) ==
  /\ pc[t] = "ptsc"
  /\ initialized' = TRUE
  /\ Return(t)
  /\ UNCHANGED <<open, vm, fdCount, list, booted, rates>>

-----------------------------------------------------------------------------
(* IDs.                                                                      *)

\* The IDs from head on: the least set that has it and what follows.
Chain(head) ==
  {id \in IDs : \A S \in SUBSET IDs :
     /\ head \in IDs => head \in S
     /\ \A i \in S : vmIDList[i] \in IDs => vmIDList[i] \in S
     => id \in S}

\* Vmx86AllocVMID.
AllocVMID ==
  /\ vmIDsUnused' = vmIDList[vmIDsUnused]
  /\ vmIDList' = [vmIDList EXCEPT ![vmIDsUnused] = vmIDsAllocated]
  /\ vmIDsAllocated' = vmIDsUnused

\* Mutant: the ID before a freed one still points to it.
FreeVMIDLinked(id) ==
  /\ vmIDsUnused' = id
  /\ vmIDList' = [vmIDList EXCEPT ![id] = vmIDsUnused]
  /\ vmIDsAllocated' = IF id = vmIDsAllocated THEN vmIDList[id] ELSE vmIDsAllocated

\* Vmx86FreeVMID: the head of the list, or a later one.
FreeVMID(id) ==
  IF id = vmIDsAllocated
  THEN /\ vmIDsAllocated' = vmIDList[id]
       /\ vmIDList' = [vmIDList EXCEPT ![id] = vmIDsUnused]
       /\ vmIDsUnused' = id
  ELSE IF \E i \in Chain(vmIDsAllocated) : vmIDList[i] = id
  THEN LET i == CHOOSE i \in Chain(vmIDsAllocated) : vmIDList[i] = id
       IN  /\ vmIDList' = [vmIDList EXCEPT ![i] = vmIDList[id], ![id] = vmIDsUnused]
           /\ vmIDsUnused' = id
           /\ UNCHANGED vmIDsAllocated
  ELSE UNCHANGED ids

-----------------------------------------------------------------------------
(* Machines come and go.                                                     *)

\* In use: on the list, or held by a thread that makes or frees it.
InUse(m) == m \in Listed \/ \E t \in Threads : op[t].vm = m

\* Vmx86_CreateVM fails, for want of memory or of a free ID; what it has made
\* it frees, and no clock rate was asked for.
CreateFails(t) ==
  /\ pc[t] = "create"
  /\ Return(t)
  /\ UNCHANGED <<files, list, booted, rates>>

\* Vmx86_CreateVM, Vmx86RegisterVMOnList.
Register(t, m) ==
  /\ pc[t] = "create" /\ ~InUse(m)
  /\ vmCount < MAX_VMS
  /\ vmCount' = vmCount + 1
  /\ AllocVMID
  /\ userID' = [userID EXCEPT ![m] = vmIDsUnused + 1]
  /\ vmDriverList' = Append(vmDriverList, m)
  /\ op' = [op EXCEPT ![t].vm = m]
  /\ Goto(t, "attach")
  /\ UNCHANGED <<files, booted, rates>>

\* device->vm = vm.
Attach(t) ==
  /\ pc[t] = "attach"
  /\ vm' = [vm EXCEPT ![op[t].file] = op[t].vm]
  /\ Return(t)
  /\ UNCHANGED <<open, fdCount, initialized, list, booted, rates>>

\* The list without machine m.
Unlisted(m) ==
  RemoveAt(vmDriverList, CHOOSE i \in DOMAIN vmDriverList : vmDriverList[i] = m)

\* Vmx86_ReleaseVM, Vmx86DeleteVMFromList.  The file forgets the machine
\* before this (the ioctl) or after it (close), with its lock held.
Delete(t) ==
  /\ pc[t] = "release"
  /\ vm' = [vm EXCEPT ![op[t].file] = NULL]
  /\ IF op[t].vm \in Listed
     THEN /\ vmDriverList' = Unlisted(op[t].vm)
          /\ vmCount' = vmCount - 1
          /\ FreeVMID(userID[op[t].vm] - 1)
     ELSE UNCHANGED <<vmDriverList, vmCount, ids>>
  /\ op' = [op EXCEPT ![t].rate = 0]
  /\ Goto(t, "setrate")
  /\ UNCHANGED <<userID, open, fdCount, initialized, booted, rates>>

\* Vmx86FreeAllVMResources, after the clock: the crosspages, and the rest.
FreeVM(t) ==
  LET m == op[t].vm IN
  /\ pc[t] = "free"
  /\ booted' = booted \ {m}
  /\ userID' = [userID EXCEPT ![m] = 0]
  /\ vmRate' = [vmRate EXCEPT ![m] = 0]
  /\ IF op[t].call = "close"
     THEN Goto(t, "lastclose") /\ op' = [op EXCEPT ![t].vm = NULL]
     ELSE Return(t)
  /\ UNCHANGED <<files, vmDriverList, vmCount, ids, globalFastClockRate, hostRate,
                 clock, fastClockMutex>>

-----------------------------------------------------------------------------
(* Vmx86_ProcessBootstrap.                                                   *)

\* The blob or the page tables are wrong, or there is no pseudo TSC.
BootFails(t) ==
  /\ pc[t] \in {"bootstrap", "crosspage"}
  /\ Return(t)
  /\ UNCHANGED <<files, list, booted, rates>>

\* Mutant: the pseudo TSC is not asked for.
AllocCrossPagesAnyway(t) ==
  /\ pc[t] = "bootstrap"
  /\ Goto(t, "crosspage")
  /\ UNCHANGED <<files, list, booted, rates, op>>

\* The pseudo TSC is there; Vmx86AllocCrossPages.
AllocCrossPages(t) ==
  /\ pc[t] = "bootstrap" /\ initialized
  /\ Goto(t, "crosspage")
  /\ UNCHANGED <<files, list, booted, rates, op>>

\* Task_InitCrosspage and MonLoader_Process succeed.
Boot(t) ==
  /\ pc[t] = "crosspage"
  /\ booted' = booted \cup {op[t].vm}
  /\ Return(t)
  /\ UNCHANGED <<files, list, rates>>

-----------------------------------------------------------------------------
(* Vmx86_SetHostClockRate, for an ioctl or for a machine that is freed.      *)

\* The end of it: the ioctl returns, the machine is freed.
RateDone(t) ==
  IF op[t].call = "setrate" THEN Return(t) ELSE Goto(t, "free") /\ UNCHANGED op

\* The quick test.
RateIs(t) ==
  /\ pc[t] = "setrate" /\ vmRate[op[t].vm] = op[t].rate
  /\ RateDone(t)
  /\ UNCHANGED <<files, list, booted, rates>>

RateDiffers(t) ==
  /\ pc[t] = "setrate" /\ vmRate[op[t].vm] # op[t].rate
  /\ Goto(t, "fastclock")
  /\ UNCHANGED <<files, list, booted, rates, op>>

\* HostIF_FastClockLock, and the test again.
FastClockLock(t) ==
  /\ pc[t] = "fastclock" /\ fastClockMutex = NULL
  /\ IF vmRate[op[t].vm] = op[t].rate
     THEN RateDone(t) /\ UNCHANGED fastClockMutex
     ELSE Goto(t, "max") /\ fastClockMutex' = t /\ UNCHANGED op
  /\ UNCHANGED <<files, list, booted, vmRate, globalFastClockRate, hostRate, clock>>

\* Mutant: only the machine's own rate.
OwnRate(t) ==
  /\ pc[t] = "max"
  /\ op' = [op EXCEPT ![t].max = op[t].rate]
  /\ Goto(t, "commit")
  /\ UNCHANGED <<files, list, booted, rates>>

\* The highest rate of the machines on the list, with the global lock held.
MaxRate(t) ==
  /\ pc[t] = "max"
  /\ op' = [op EXCEPT ![t].max =
              Max({op[t].rate} \cup {vmRate[m] : m \in Listed \ {op[t].vm}})]
  /\ Goto(t, "commit")
  /\ UNCHANGED <<files, list, booted, rates>>

\* The lock is released.
RateSet(t) ==
  /\ vmRate' = [vmRate EXCEPT ![op[t].vm] = op[t].rate]
  /\ fastClockMutex' = NULL
  /\ RateDone(t)

KeepClock(t) ==
  /\ pc[t] = "commit" /\ op[t].max = globalFastClockRate
  /\ RateSet(t)
  /\ UNCHANGED <<files, list, booted, globalFastClockRate, hostRate, clock>>

\* HostIF_SetFastClockRate stores the rate first.
StoreHostRate(t) ==
  /\ pc[t] = "commit" /\ op[t].max # globalFastClockRate
  /\ hostRate' = op[t].max
  /\ Goto(t, "thread")
  /\ UNCHANGED <<files, list, booted, vmRate, globalFastClockRate, clock,
                 fastClockMutex, op>>

\* HostIF_SetFastClockRate starts the thread or stops it, if need be.
SetFastClockRate(t) ==
  /\ pc[t] = "thread"
  /\ clock' = IF hostRate <= MIN_RATE THEN "none"
              ELSE IF clock = "none" THEN "running" ELSE clock
  /\ globalFastClockRate' = op[t].max
  /\ RateSet(t)
  /\ UNCHANGED <<files, list, booted, hostRate>>

\* Mutant: the rates are those asked for, though there is no thread.
NoClockThreadIgnored(t) ==
  /\ pc[t] = "thread" /\ hostRate > MIN_RATE /\ clock = "none"
  /\ globalFastClockRate' = op[t].max
  /\ RateSet(t)
  /\ UNCHANGED <<files, list, booted, hostRate, clock>>

\* kthread_run fails: the rates stay.
NoClockThread(t) ==
  /\ pc[t] = "thread" /\ hostRate > MIN_RATE /\ clock = "none"
  /\ fastClockMutex' = NULL
  /\ RateDone(t)
  /\ UNCHANGED <<files, list, booted, vmRate, globalFastClockRate, hostRate, clock>>

\* HostIFFastClockThread leaves its loop and waits to be stopped.
ClockParks ==
  /\ clock = "running" /\ hostRate <= MIN_RATE
  /\ clock' = "parked"
  /\ UNCHANGED <<files, list, booted, vmRate, globalFastClockRate, hostRate,
                 fastClockMutex, pc, op>>

-----------------------------------------------------------------------------
Calls == {"create", "release", "ptsc", "bootstrap", "setrate"}

Step(t) ==
  \/ \E f \in Files, call \in Calls, rate \in Rates : Enter(t, f, call, rate)
  \/ \E f \in Files : Close(t, f)
  \/ LastClose(t) \/ InitPseudoTSC(t)
  \/ CreateFails(t) \/ (\E m \in VMs : Register(t, m)) \/ Attach(t)
  \/ Delete(t) \/ FreeVM(t)
  \/ BootFails(t) \/ AllocCrossPages(t) \/ Boot(t)
  \/ RateIs(t) \/ RateDiffers(t) \/ FastClockLock(t) \/ MaxRate(t)
  \/ KeepClock(t) \/ StoreHostRate(t) \/ SetFastClockRate(t) \/ NoClockThread(t)

Next == (\E f \in Files : Open(f)) \/ (\E t \in Threads : Step(t)) \/ ClockParks

Spec == Init /\ [][Next]_vars

-----------------------------------------------------------------------------
(* Properties.                                                              *)

\* The type of every variable.
TypeOK ==
  /\ open \subseteq Files /\ vm \in [Files -> VMs \cup {NULL}]
  /\ vmDriverList \in Seq(VMs) /\ vmCount \in 0 .. MAX_VMS
  /\ userID \in [VMs -> 0 .. MAX_VMS] /\ vmIDList \in [IDs -> IDs \cup {INVALID_VMID}]
  /\ {vmIDsAllocated, vmIDsUnused} \subseteq IDs \cup {INVALID_VMID}
  /\ fdCount \in 0 .. MAX_INT32 /\ initialized \in BOOLEAN
  /\ booted \subseteq VMs
  /\ vmRate \in [VMs -> Rates] /\ {globalFastClockRate, hostRate} \subseteq Rates
  /\ clock \in {"none", "running", "parked"} /\ fastClockMutex \in Threads \cup {NULL}

\* Each machine on the list belongs to one open file, or to the one thread that
\* creates or releases it; the chain of allocated IDs holds the IDs of the
\* machines on the list, one each, and the other chain the rest
\* (Vmx86AllocVMID and Vmx86FreeVMID share one array).
ListExact ==
  /\ vmCount = Len(vmDriverList) /\ vmCount = Cardinality(Listed)
  /\ Chain(vmIDsAllocated) = {userID[m] - 1 : m \in Listed}
  /\ Cardinality(Chain(vmIDsAllocated)) = vmCount
  /\ Chain(vmIDsUnused) = IDs \ Chain(vmIDsAllocated)
  /\ \A m \in Listed :
       Cardinality({f \in Files : vm[f] = m}
                   \cup {t \in Threads : op[t].vm = m /\ pc[t] = "attach"}) = 1

\* The machine that a thread read at the start of its ioctl is on the list
\* while the thread is inside: nobody frees it (vmDriverRWSema).
UsesListedVM ==
  \A t \in Threads : op[t].mode = "read" /\ op[t].vm # NULL => op[t].vm \in Listed

\* A machine that has booted has a pseudo TSC: no close of another file, however
\* many are open, resets it (fdCount saturates, and the last close comes after
\* the machine's release).
BootedOnPseudoTSC == (booted # {} => initialized) /\ (fdCount = 0 => vmCount = 0)

\* While nobody changes it, the fast clock is at the highest rate of the
\* machines on the list, or above it while a machine that asked for more is
\* being released; and there is a thread that keeps it exactly when the rate
\* needs one, at that rate, and it has not left its loop.
ClockKeepsUp ==
  fastClockMutex = NULL =>
    /\ \A m \in Listed : vmRate[m] <= globalFastClockRate
    /\ \/ globalFastClockRate = Max({0} \cup {vmRate[m] : m \in Listed})
       \/ \E t \in Threads : pc[t] \in {"setrate", "fastclock"} /\ op[t].call # "setrate"
    /\ clock = IF globalFastClockRate > MIN_RATE THEN "running" ELSE "none"
    /\ clock = "running" => hostRate = globalFastClockRate

\* Whatever the threads do with the files: the machines and their IDs, what a machine runs on,
\* and the rate of the clock.
MachinesExact == ListExact /\ UsesListedVM /\ BootedOnPseudoTSC /\ ClockKeepsUp
=============================================================================
