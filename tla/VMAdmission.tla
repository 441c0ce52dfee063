----------------------------- MODULE VMAdmission -----------------------------
(***************************************************************************)
(* The pages that virtual machines lock (vmmon, vmx86.c): how many there   *)
(* are, how many there may be, and which machines are admitted.            *)
(*                                                                         *)
(* A thread of a virtual machine reserves pages with the global lock and   *)
(* the lock of its machine held, then has the host lock or allocate them   *)
(* with the machine's lock only, and gives back what it did not get;       *)
(* releasing pages goes the other way.  What is done under one of these    *)
(* locks is one action.  A machine is not released while an ioctl of its   *)
(* file is under way (vmDriverRWSema).                                     *)
(*                                                                         *)
(* Sizes are numbers of pages.  The anonymous pages of a machine count     *)
(* like its nonpaged ones and are not told apart; every machine asks for   *)
(* the same mainMemSize and has the same overhead.                         *)
(***************************************************************************)
EXTENDS Integers, FiniteSets

CONSTANTS
  VMs,            \* VMDriver objects
  Threads,        \* threads inside an ioctl
  MAX_VMS,        \* at most so many machines
  MAX_LOCKED_PAGES,
  PageCntSize,    \* PageCnt is unsigned and wraps here
  Percents,       \* minVmMemPct that is asked for
  Limits,         \* limits that the UI sets, and that the host estimates
  Nonpaged,       \* nonpaged sizes of a machine
  MainMemSize, PerVMOverhead,
  Batches,        \* numbers of pages asked for at a time
  Retries,        \* attempts to get below the global limit (3 in the code)
  None,           \* no machine
  MaxPages        \* no more is asked for beyond so many locked pages (bound)

ASSUME SizesAssumption ==
  /\ None \notin VMs /\ IsFiniteSet(VMs) /\ IsFiniteSet(Threads)
  /\ MAX_VMS \in Nat /\ MAX_LOCKED_PAGES \in Nat /\ PageCntSize \in Nat \ {0}
  /\ Percents \subseteq 0 .. 100 /\ Percents # {}
  /\ Limits \subseteq Nat /\ Limits # {} /\ Nonpaged \subseteq Nat
  /\ MainMemSize \in Nat /\ PerVMOverhead \in Nat
  /\ Batches \subseteq Nat /\ Retries \in Nat \ {0} /\ MaxPages \in Nat

VARIABLES
  listed,          \* vmDriverList; vmCount is its size
  freeing,         \* off the list, its resources not yet freed
  asked,           \* machines that have asked for admission
  admitted,        \* memInfo.admitted
  nonpaged,        \* memInfo.nonpaged plus anonymous
  minAllocation,   \* memInfo.minAllocation
  locked,          \* memInfo.locked
  numLockedPages,
  minVmMemPct,
  configured,      \* lockedPageLimit.configured
  host,            \* what HostIF_EstimateLockedPageLimit finds
  pages,           \* pages the host has locked or allocated for a machine
  pc, op           \* the next step of a thread, and its locals

usage  == <<asked, admitted, nonpaged, minAllocation>>
counts == <<locked, numLockedPages>>
limits == <<minVmMemPct, configured, host>>
vars   == <<listed, freeing, usage, counts, limits, pages, pc, op>>

NoOp == [vm |-> None, num |-> 0, ignore |-> FALSE, retries |-> 0]

Init ==
  /\ listed = {} /\ freeing = {}
  /\ asked = {} /\ admitted = {}
  /\ nonpaged = [v \in VMs |-> 0] /\ minAllocation = [v \in VMs |-> 0]
  /\ locked = [v \in VMs |-> 0] /\ numLockedPages = 0
  /\ minVmMemPct = 0 /\ configured = 0 /\ host \in Limits
  /\ pages = [v \in VMs |-> 0]
  /\ pc = [t \in Threads |-> "idle"] /\ op = [t \in Threads |-> NoOp]

-----------------------------------------------------------------------------
(* The limit, and the allocations that machines must and may have.           *)

MainMem(v)  == IF v \in asked THEN MainMemSize ELSE 0
Overhead(v) == IF v \in asked THEN PerVMOverhead ELSE 0

Lesser(i, j) == IF i <= j THEN i ELSE j

\* The sum of the numbers f[x] of pages: how many pages it counts, x by x.
SumOf(f, S) == Cardinality(UNION {{x} \X (1 .. f[x]) : x \in S})

\* Vmx86LockedPageLimit of NULL, and of a machine whose overhead is given.
OverallLimit == Lesser(Lesser(configured, host), MAX_LOCKED_PAGES)

LockedPageLimit(overhead) ==
  LET extraCost == Cardinality(listed) * overhead
  IN  IF extraCost < OverallLimit THEN OverallLimit - extraCost ELSE 0

MinAllocation(mainMem, size, pct) == (pct * mainMem) \div 100 + size

MaxAllocation(v) == MainMem(v) + nonpaged[v]

GlobalMinAllocation(pct) ==
  SumOf([v \in VMs |-> MinAllocation(MainMem(v), nonpaged[v], pct)], listed \cap admitted)

\* Vmx86HasFreePages, for the machine and for all.
VMHasFreePages(v, n) ==
  v \in admitted => MaxAllocation(v) > locked[v] /\ MaxAllocation(v) - locked[v] >= n

HostHasFreePages(v, n) ==
  LET limit == LockedPageLimit(Overhead(v))
  IN  limit > numLockedPages /\ limit - numLockedPages >= n

-----------------------------------------------------------------------------
(* Virtual machines come and go.                                             *)

CreateVM(v) ==
  /\ v \notin listed \cup freeing
  /\ Cardinality(listed) < MAX_VMS
  /\ listed' = listed \cup {v}
  /\ UNCHANGED <<freeing, usage, counts, limits, pages, pc, op>>

\* No thread is inside an ioctl of v's file.
Quiet(v) == \A t \in Threads : pc[t] # "idle" => op[t].vm # v

\* Mutant: the pages of the machine still count.
DeleteKeepingPages(v) ==
  /\ v \in listed /\ Quiet(v)
  /\ listed' = listed \ {v} /\ freeing' = freeing \cup {v}
  /\ configured' = IF listed' = {} THEN 0 ELSE configured
  /\ UNCHANGED <<usage, counts, minVmMemPct, host, pages, pc, op>>

\* Mutant: the limit is reset while other machines run.
DeleteResetting(v) ==
  /\ v \in listed /\ Quiet(v)
  /\ listed' = listed \ {v} /\ freeing' = freeing \cup {v}
  /\ numLockedPages' = numLockedPages - locked[v]
  /\ configured' = 0
  /\ UNCHANGED <<usage, locked, minVmMemPct, host, pages, pc, op>>

\* Vmx86DeleteVMFromList.
DeleteVM(v) ==
  /\ v \in listed /\ Quiet(v)
  /\ listed' = listed \ {v} /\ freeing' = freeing \cup {v}
  /\ numLockedPages' = numLockedPages - locked[v]
  /\ configured' = IF listed' = {} THEN 0 ELSE configured
  /\ UNCHANGED <<usage, locked, minVmMemPct, host, pages, pc, op>>

\* Vmx86FreeAllVMResources: the VMDriver is freed; a new one starts from zero.
FreeVM(v) ==
  /\ v \in freeing
  /\ freeing' = freeing \ {v}
  /\ asked' = asked \ {v} /\ admitted' = admitted \ {v}
  /\ nonpaged' = [nonpaged EXCEPT ![v] = 0]
  /\ minAllocation' = [minAllocation EXCEPT ![v] = 0]
  /\ locked' = [locked EXCEPT ![v] = 0]
  /\ pages' = [pages EXCEPT ![v] = 0]
  /\ UNCHANGED <<listed, numLockedPages, limits, pc, op>>

-----------------------------------------------------------------------------
(* Limits and admission, under the global lock and the machine's.            *)

SetConfiguredLockedPagesLimit(limit) ==
  /\ limit >= configured
  /\ configured' = limit
  /\ UNCHANGED <<listed, freeing, usage, counts, minVmMemPct, host, pages, pc, op>>

\* Vmx86UpdateMinAllocations, and Vmx86SetMemoryUsage for v.
MinAllocationsOf(updated, v, size, allPct, pct) ==
  [u \in VMs |->
     IF u = v THEN MinAllocation(MainMemSize, size, pct)
     ELSE IF updated /\ u \in listed \cap admitted
            THEN MinAllocation(MainMem(u), nonpaged[u], allPct)
     ELSE minAllocation[u]]

\* Mutant: what the others need is reckoned at the percentage of before.
AdmitAtOldPct(v, size, pct) ==
  /\ v \in listed
  /\ LET needed == GlobalMinAllocation(minVmMemPct)
         fits   == needed <= OverallLimit
         mine   == MinAllocation(MainMemSize, size, pct)
         admit  == fits /\ needed + mine <= LockedPageLimit(PerVMOverhead)
     IN  /\ minVmMemPct' = IF fits THEN pct ELSE minVmMemPct
         /\ minAllocation' = MinAllocationsOf(fits, v, size, pct, pct)
         /\ admitted' = IF admit THEN admitted \cup {v} ELSE admitted \ {v}
  /\ asked' = asked \cup {v}
  /\ nonpaged' = [nonpaged EXCEPT ![v] = size]
  /\ UNCHANGED <<listed, freeing, counts, configured, host, pages, pc, op>>

\* Mutant: the percentage is set even when the machines do not fit under it.
AdmitAnyPct(v, size, pct) ==
  /\ v \in listed
  /\ LET needed == GlobalMinAllocation(pct)
         fits   == needed <= OverallLimit
         mine   == MinAllocation(MainMemSize, size, pct)
         admit  == fits /\ needed + mine <= LockedPageLimit(PerVMOverhead)
     IN  /\ minVmMemPct' = pct
         /\ minAllocation' = MinAllocationsOf(fits, v, size, pct, pct)
         /\ admitted' = IF admit THEN admitted \cup {v} ELSE admitted \ {v}
  /\ asked' = asked \cup {v}
  /\ nonpaged' = [nonpaged EXCEPT ![v] = size]
  /\ UNCHANGED <<listed, freeing, counts, configured, host, pages, pc, op>>

\* Vmx86_Admit.
Admit(v, size, pct) ==
  /\ v \in listed
  /\ LET needed == GlobalMinAllocation(pct)
         fits   == needed <= OverallLimit
         mine   == MinAllocation(MainMemSize, size, pct)
         admit  == fits /\ needed + mine <= LockedPageLimit(PerVMOverhead)
     IN  /\ minVmMemPct' = IF fits THEN pct ELSE minVmMemPct
         /\ minAllocation' = MinAllocationsOf(fits, v, size, pct, pct)
         /\ admitted' = IF admit THEN admitted \cup {v} ELSE admitted \ {v}
  /\ asked' = asked \cup {v}
  /\ nonpaged' = [nonpaged EXCEPT ![v] = size]
  /\ UNCHANGED <<listed, freeing, counts, configured, host, pages, pc, op>>

\* Vmx86_Readmit to another nonpaged size; pagedGrows says that the delta of
\* the paged memory, which is kept nowhere else, is positive.
Readmit(v, size, pagedGrows) ==
  /\ v \in listed
  /\ LET others == GlobalMinAllocation(minVmMemPct)
                      - MinAllocation(MainMem(v), nonpaged[v], minVmMemPct)
         mine   == MinAllocation(MainMem(v), size, minVmMemPct)
     IN  /\ \/ (others + mine) % PageCntSize <= LockedPageLimit(Overhead(v))
            \/ size <= nonpaged[v] /\ ~pagedGrows
         /\ minAllocation' = [minAllocation EXCEPT ![v] = mine]
  /\ nonpaged' = [nonpaged EXCEPT ![v] = size]
  /\ UNCHANGED <<listed, freeing, asked, admitted, counts, limits, pages, pc, op>>

\* The host estimates another limit (external).
HostChanges ==
  /\ host' \in Limits \ {host}
  /\ UNCHANGED <<listed, freeing, usage, counts, minVmMemPct, configured, pages, pc, op>>

-----------------------------------------------------------------------------
(* Locking and unlocking of pages by thread t.                               *)

Goto(t, step) == pc' = [pc EXCEPT ![t] = step]

\* The ioctl returns.
End(t) == Goto(t, "idle") /\ op' = [op EXCEPT ![t] = NoOp]

\* Without pages: it returns, or goes on if the limits are ignored.
Denied(t) ==
  IF op[t].ignore THEN Goto(t, "force") /\ UNCHANGED op ELSE End(t)

Reserved(v, n) ==
  /\ locked' = [locked EXCEPT ![v] = @ + n]
  /\ numLockedPages' = numLockedPages + n

\* Vmx86_LockPage, Vmx86_AllocLowPage, Vmx86_AllocLockedPages.
Lock(t, v, n, ignoreLimits) ==
  /\ pc[t] = "idle" /\ v \in listed
  /\ numLockedPages + n <= MaxPages
  /\ op' = [op EXCEPT ![t] =
       [vm |-> v, num |-> n, ignore |-> ignoreLimits, retries |-> Retries]]
  /\ Goto(t, "reserve")
  /\ UNCHANGED <<listed, freeing, usage, counts, limits, pages>>

\* Vmx86ReserveFreePages is Reserve, a turn of its loop, and ReserveAnyway, its end when
\* the limits are ignored.
\* Mutant: it does not look at the number of its turns.
ReserveEndlessly(t) ==
  LET v == op[t].vm
      n == op[t].num
  IN  /\ pc[t] = "reserve"
      /\ \/ /\ VMHasFreePages(v, n) /\ HostHasFreePages(v, n)
            /\ Reserved(v, n)
            /\ Goto(t, "host")
            /\ UNCHANGED op
         \/ ~VMHasFreePages(v, n) /\ Denied(t) /\ UNCHANGED counts
         \/ /\ VMHasFreePages(v, n) /\ ~HostHasFreePages(v, n)
            /\ op' = [op EXCEPT ![t].retries = @ - 1]
            /\ UNCHANGED <<pc, counts>>
      /\ UNCHANGED <<listed, freeing, usage, limits, pages>>

Reserve(t) ==
  LET v == op[t].vm
      n == op[t].num
      left == op[t].retries - 1
  IN  /\ pc[t] = "reserve"
      /\ \/ /\ VMHasFreePages(v, n) /\ HostHasFreePages(v, n)
            /\ Reserved(v, n)
            /\ Goto(t, "host")
            /\ UNCHANGED op
         \/ ~VMHasFreePages(v, n) /\ Denied(t) /\ UNCHANGED counts
         \/ /\ VMHasFreePages(v, n) /\ ~HostHasFreePages(v, n)
            /\ IF left > 0 THEN op' = [op EXCEPT ![t].retries = left] /\ UNCHANGED pc
               ELSE Denied(t)
            /\ UNCHANGED counts
      /\ UNCHANGED <<listed, freeing, usage, limits, pages>>

ReserveAnyway(t) ==
  /\ pc[t] = "force"
  /\ Reserved(op[t].vm, op[t].num)
  /\ Goto(t, "host")
  /\ UNCHANGED <<listed, freeing, usage, limits, pages, op>>

\* Mutant: a batch that was got in part is not given back in part.
GetAllOrNone(t, got) ==
  /\ pc[t] = "host" /\ got <= op[t].num
  /\ pages' = [pages EXCEPT ![op[t].vm] = @ + got]
  /\ IF got > 0 THEN End(t) ELSE Goto(t, "unreserve") /\ UNCHANGED op
  /\ UNCHANGED <<listed, freeing, usage, counts, limits>>

\* HostIF_LockPage, AllocLowPage, AllocLockedPages: the host may get less than
\* was asked for, and the rest is to be given back.
Get(t, got) ==
  /\ pc[t] = "host" /\ got <= op[t].num
  /\ pages' = [pages EXCEPT ![op[t].vm] = @ + got]
  /\ IF got < op[t].num THEN op' = [op EXCEPT ![t].num = @ - got] /\ Goto(t, "unreserve")
     ELSE End(t)
  /\ UNCHANGED <<listed, freeing, usage, counts, limits>>

\* Vmx86_UnlockPage, UnlockPageByMPN, FreeLockedPages of pages that are held.
Unlock(t, v, n) ==
  /\ pc[t] = "idle" /\ v \in listed /\ pages[v] >= n
  /\ pages' = [pages EXCEPT ![v] = @ - n]
  /\ op' = [op EXCEPT ![t] = [vm |-> v, num |-> n, ignore |-> FALSE, retries |-> 0]]
  /\ Goto(t, "unreserve")
  /\ UNCHANGED <<listed, freeing, usage, counts, limits>>

UnreserveFreePages(t) ==
  /\ pc[t] = "unreserve"
  /\ Reserved(op[t].vm, -op[t].num)
  /\ End(t)
  /\ UNCHANGED <<listed, freeing, usage, limits, pages>>

-----------------------------------------------------------------------------
Going(t) ==
  \/ Reserve(t) \/ ReserveAnyway(t) \/ UnreserveFreePages(t)
  \/ \E got \in 0 .. op[t].num : Get(t, got)

Next ==
  \/ \E v \in VMs : CreateVM(v) \/ DeleteVM(v) \/ FreeVM(v)
  \/ \E limit \in Limits : SetConfiguredLockedPagesLimit(limit)
  \/ \E v \in VMs, size \in Nonpaged, pct \in Percents : Admit(v, size, pct)
  \/ \E v \in VMs, size \in Nonpaged, grows \in BOOLEAN : Readmit(v, size, grows)
  \/ HostChanges
  \/ \E t \in Threads, v \in VMs, n \in Batches :
       (\E ignoreLimits \in BOOLEAN : Lock(t, v, n, ignoreLimits)) \/ Unlock(t, v, n)
  \/ \E t \in Threads : Going(t)

Spec == Init /\ [][Next]_vars

-----------------------------------------------------------------------------
(* Properties.                                                              *)

\* The type of every variable; that retries is a number says that a reservation is
\* not tried for ever.
TypeOK ==
  /\ listed \subseteq VMs /\ freeing \subseteq VMs
  /\ asked \subseteq VMs /\ admitted \subseteq asked
  /\ nonpaged \in [VMs -> Nat] /\ minAllocation \in [VMs -> Nat]
  /\ locked \in [VMs -> Int] /\ numLockedPages \in Int
  /\ minVmMemPct \in 0 .. 100 /\ configured \in Nat /\ host \in Nat
  /\ pages \in [VMs -> Nat]
  /\ pc \in [Threads -> {"idle", "reserve", "force", "host", "unreserve"}]
  /\ op \in [Threads -> [vm : VMs \cup {None}, num : Nat, ignore : BOOLEAN, retries : Nat]]

\* numLockedPages is the sum of what the registered machines have locked.
LockedSum == numLockedPages = SumOf(locked, listed)

\* The pages a machine is charged for are those the host holds for it and those that
\* its threads have reserved for or are about to give back, also when a batch was
\* got only in part.
PendingThreads(v) == {t \in Threads : pc[t] \in {"host", "unreserve"} /\ op[t].vm = v}

Pending(v) == SumOf([t \in Threads |-> op[t].num], PendingThreads(v))

LockedBacked == \A v \in listed : locked[v] = pages[v] + Pending(v)

\* The counts of locked pages are exact, machine by machine and together.
LockedExact == LockedSum /\ LockedBacked

\* What the admitted machines must have together.
GlobalMin == SumOf(minAllocation, listed \cap admitted)

\* "We allow vm to power on if there is room for the minimum allocation for all
\* running vms in memory": the machines are never made to need more than fits.
AdmissionFits == [][GlobalMin' > GlobalMin => GlobalMin' <= OverallLimit']_vars

\* The minimum allocation of an admitted machine is that of the percentage in force,
\* whichever machine asked for it and whether or not that was admitted.
MinAllocationsCurrent ==
  \A v \in listed \cap admitted :
    minAllocation[v] = MinAllocation(MainMem(v), nonpaged[v], minVmMemPct)

\* "This limit can be raised at any time but not lowered", as long as a machine runs.
LimitNotLowered == [][configured' < configured => listed' = {}]_vars
=============================================================================
