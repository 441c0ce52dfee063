----------------------------- MODULE VMMonProofs -----------------------------
(***************************************************************************)
(* What the machines of vmmon are, for any number of files, machines,      *)
(* threads, IDs and rates (MachinesExact of VMLifecycle); then what vmmon  *)
(* knows of the pages of the host (PagesExact of MCVMMon); and at the end, *)
(* what the parts of vmmon promise in the model that joins them.           *)
(*                                                                         *)
(* None of MachinesExact's parts is inductive.  That a machine is used     *)
(* only while it is on the list needs who is in which file with which      *)
(* lock, and which thread has taken which machine off the list (Owned).    *)
(* That the chains of IDs are exact needs that nothing else points into    *)
(* them (Numbered), since AllocVMID and FreeVMID rewrite the array both    *)
(* live in.  That the pseudo TSC stays needs the count of the open files,  *)
(* with those whose close is under way, as long as it is not saturated     *)
(* (Counted).  And that the clock keeps up needs what a thread has         *)
(* computed with the lock held, while others take machines off the list    *)
(* without it: the rate stays that of a machine on the list or of one      *)
(* whose release has not asked for none yet (Clocked).                     *)
(*                                                                         *)
(* Nor are those of PagesExact.  The tracker is a set because the three    *)
(* indices of a page tell it from all others, and its count is that set's  *)
(* because GetNext climbs to the next member (TrackInv).  What is pinned   *)
(* is known because no two blocks share a page, no two entries an address, *)
(* and a count is the sum of its holders (PinsInv).  What is recorded of   *)
(* an area is pinned because an area has one array from the first moment   *)
(* it has one, and one thread that fills it (AreaInv).  And a registration *)
(* of statistics variables is whole because each step of it leaves what    *)
(* its entries should be by then, alone with its VCPU (StatInv).           *)
(*                                                                         *)
(* A monitor that is booted is the one its table describes (MonitorLoaded) *)
(* because the frames of the kernel, of the loader and of the monitor are  *)
(* apart from the first (LoadPlaced, LoadFrames), and because each entry,  *)
(* once its turn is over, is where it should be and stays there (LoadDone).*)
(***************************************************************************)
EXTENDS MCVMMon, FiniteSetTheorems, SequenceTheorems, WellFoundedInduction, TLAPS

\* The locals of a thread, and where it is in which call.
Ops == [call : Calls \cup {"none", "close"}, file : Files \cup {NULL},
        mode : {"none", "read", "write"}, vm : VMs \cup {NULL}, rate : Rates, max : Rates]

Labels == {"idle", "create", "attach", "release", "setrate", "fastclock", "max", "commit",
           "thread", "free", "lastclose", "ptsc", "bootstrap", "crosspage"}

Typed == TypeOK /\ pc \in [Threads -> Labels] /\ op \in [Threads -> Ops]

\* The steps of Vmx86_SetHostClockRate, and those with the lock of the fast clock.
InRate(t)  == pc[t] \in {"setrate", "fastclock", "max", "commit", "thread"}
Locking(t) == pc[t] \in {"max", "commit", "thread"}

\* The thread frees the machine it has taken off the list.
Frees(t) == op[t].call \in {"release", "close"} /\ (InRate(t) \/ pc[t] = "free")

Closing == {t \in Threads : op[t].call = "close"}

\* What a thread is about, by its step.
OpsExact ==
  \A t \in Threads :
    /\ pc[t] = "idle" => op[t] = NoOp
    /\ pc[t] # "idle" => /\ op[t].call # "none" /\ op[t].file # NULL
                         /\ op[t].mode = IF op[t].call \in {"create", "release", "close"}
                                         THEN "write" ELSE "read"
    /\ pc[t] \in {"create", "attach"} => op[t].call = "create"
    /\ pc[t] \in {"release", "free"} => op[t].call \in {"release", "close"}
    /\ pc[t] = "lastclose" => op[t].call = "close" /\ op[t].vm = NULL
    /\ pc[t] = "ptsc" => op[t].call = "ptsc"
    /\ pc[t] \in {"bootstrap", "crosspage"} => op[t].call = "bootstrap"
    /\ InRate(t) => op[t].call \in {"setrate", "release", "close"}
    /\ op[t].call \in {"bootstrap", "setrate"} => op[t].vm # NULL
    /\ pc[t] = "create" => op[t].vm = NULL

\* vmDriverRWSema: who writes is alone in the file, which is open but for the thread that
\* closes it; a closed file has no machine.
Alone ==
  \A t, u \in Threads : t # u /\ op[t].file = op[u].file /\ op[t].file # NULL =>
    op[t].mode = "read" /\ op[u].mode = "read"

Opened ==
  /\ \A t \in Threads : op[t].file # NULL => (op[t].file \in open <=> op[t].call # "close")
  /\ \A f \in Files \ open : vm[f] # NULL => \E t \in Threads : op[t].file = f /\ pc[t] = "release"

\* Who has which machine: a file has one on the list, and its own ...
FilesOwn ==
  /\ \A f \in Files : vm[f] # NULL => vm[f] \in Listed
  /\ \A f, g \in Files : vm[f] = vm[g] /\ vm[f] # NULL => f = g

\* ... a thread has its file's, or while its file has none it has made one or frees one ...
ThreadsOwn ==
  /\ \A t \in Threads : op[t].mode = "read" \/ pc[t] = "release" => op[t].vm = vm[op[t].file]
  /\ \A t \in Threads : pc[t] \in {"create", "attach", "lastclose"} \/ Frees(t) =>
       vm[op[t].file] = NULL
  /\ \A t \in Threads : pc[t] = "release" => op[t].vm # NULL
  /\ \A t \in Threads : Frees(t) => op[t].vm # NULL /\ op[t].vm \notin Listed
  /\ \A t \in Threads : pc[t] = "attach" => op[t].vm \in Listed

\* ... which nobody else has ...
NobodyElse ==
  /\ \A t \in Threads : pc[t] = "attach" => \A f \in Files : vm[f] # op[t].vm
  /\ \A t, u \in Threads : t # u /\ op[t].vm = op[u].vm /\ op[t].vm # NULL =>
       op[t].mode = "read" /\ op[u].mode = "read"

\* ... and each machine on the list is someone's.
SomeonesOwn ==
  \A m \in Listed : \/ \E f \in Files : vm[f] = m
                    \/ \E t \in Threads : pc[t] = "attach" /\ op[t].vm = m

\* The list, and the two chains of IDs in one array.
Numbered ==
  /\ \A e, j \in DOMAIN vmDriverList : vmDriverList[e] = vmDriverList[j] => e = j
  /\ vmCount = Len(vmDriverList)
  /\ \A m \in Listed : userID[m] # 0
  /\ \A m, n \in Listed : userID[m] = userID[n] => m = n
  /\ Chain(vmIDsAllocated) = {userID[m] - 1 : m \in Listed}
  /\ Chain(vmIDsUnused) = IDs \ Chain(vmIDsAllocated)
  /\ \A e, j \in IDs : vmIDList[e] = vmIDList[j] /\ vmIDList[e] # INVALID_VMID => e = j
  /\ \A e \in IDs : vmIDList[e] # INVALID_VMID => vmIDList[e] \notin {vmIDsAllocated, vmIDsUnused}

\* Until the count is saturated it is that of the open files and of those that are closed.
Counted ==
  /\ IsFiniteSet(open) /\ IsFiniteSet(Closing)
  /\ fdCount < MAX_INT32 => fdCount = Cardinality(open) + Cardinality(Closing)

\* What has booted is on the list or being freed, and has a pseudo TSC.
BootedExact ==
  /\ \A m \in booted : m \in Listed \/ \E t \in Threads : Frees(t) /\ op[t].vm = m
  /\ booted # {} => initialized
  /\ \A t \in Threads : pc[t] = "crosspage" => initialized

\* The machines whose rate may count: those on the list and those about to have none.
Releasing == {op[t].vm : t \in {t \in Threads : InRate(t) /\ op[t].call # "setrate"}}

\* Who has the lock of the fast clock, and machines that ask for no rate.
RatesAsked ==
  /\ \A t \in Threads : Locking(t) <=> fastClockMutex = t
  /\ \A m \in VMs : m \notin Listed /\ (\A t \in Threads : op[t].vm # m) => vmRate[m] = 0
  /\ \A t \in Threads : InRate(t) /\ op[t].call # "setrate" => op[t].rate = 0

\* The rate is that of a machine, and not below any.
RateOfMachine ==
  /\ \A m \in Listed : vmRate[m] <= globalFastClockRate
  /\ globalFastClockRate # 0 =>
       \E m \in Listed \cup Releasing : vmRate[m] = globalFastClockRate

\* So is the one a thread with the lock has computed.
MaxOfMachine ==
  \A t \in Threads : pc[t] \in {"commit", "thread"} =>
    /\ \A m \in Listed \ {op[t].vm} : vmRate[m] <= op[t].max
    /\ op[t].rate <= op[t].max
    /\ op[t].max # op[t].rate =>
         \E m \in (Listed \cup Releasing) \ {op[t].vm} : vmRate[m] = op[t].max
    /\ op[t].call # "setrate" => op[t].max <= globalFastClockRate

\* The clock's thread, when the lock is free or its holder has not stored a rate yet, and after.
ClockExact ==
  /\ (\A t \in Threads : pc[t] # "thread") =>
       /\ clock = IF globalFastClockRate > MIN_RATE THEN "running" ELSE "none"
       /\ clock = "running" => hostRate = globalFastClockRate
  /\ \A t \in Threads : pc[t] = "thread" =>
       /\ hostRate = op[t].max
       /\ clock = "none" <=> globalFastClockRate <= MIN_RATE
       /\ clock = "parked" => hostRate <= MIN_RATE

Owned   == Alone /\ Opened /\ FilesOwn /\ ThreadsOwn /\ NobodyElse /\ SomeonesOwn
Clocked == RatesAsked /\ RateOfMachine /\ MaxOfMachine /\ ClockExact

IInv == Typed /\ OpsExact /\ Owned /\ Numbered /\ Counted /\ BootedExact /\ Clocked
-----------------------------------------------------------------------------
(* What the steps of a thread leave as it is.                                *)

\* A step that leaves the list alone.
LEMMA NumberedKept == ASSUME Numbered, UNCHANGED list PROVE Numbered'
BY DEF Numbered, Chain, Listed, list, ids

\* A thread leaves a call in which it had its file's machine or none.
LEMMA Returned ==
  ASSUME IInv, NEW t \in Threads, Return(t), UNCHANGED <<open, vm, fdCount, list>>,
         \/ pc[t] \in {"create", "ptsc", "bootstrap", "crosspage"}
         \/ InRate(t) /\ op[t].call = "setrate"
  PROVE  /\ pc' \in [Threads -> Labels] /\ op' \in [Threads -> Ops]
         /\ OpsExact' /\ Owned' /\ Numbered' /\ Counted'
<1> USE DEF IInv, Typed
<1>1. /\ \A u \in Threads \ {t} : pc'[u] = pc[u] /\ op'[u] = op[u]
      /\ pc'[t] = "idle" /\ op'[t] = NoOp
      /\ UNCHANGED <<open, vm, fdCount, vmDriverList>> /\ Listed' = Listed
  BY DEF Return, Goto, list, Listed
<1>2. pc' \in [Threads -> Labels] /\ op' \in [Threads -> Ops]
  BY LifecycleAssumption DEF Return, Goto, Ops, Labels, NoOp
<1>3. OpsExact'
  BY <1>1 DEF OpsExact, InRate, NoOp
<1>4. NoOp.call = "none" /\ NoOp.file = NULL /\ NoOp.vm = NULL /\ NoOp.mode = "none"
  BY DEF NoOp
<1>5. op[t].call \in {"create", "ptsc", "bootstrap", "setrate"} /\ pc[t] \notin {"attach", "release", "free"}
  BY DEF OpsExact, InRate
<1>6. Alone'
  BY <1>1, <1>4 DEF Owned, Alone
<1>7. Opened'
  BY <1>1, <1>4, <1>5 DEF Owned, Opened
<1>8. FilesOwn'
  BY <1>1 DEF Owned, FilesOwn
<1>9. ThreadsOwn'
  BY <1>1, <1>4 DEF Owned, ThreadsOwn, Frees, InRate
<1>10. NobodyElse'
  BY <1>1, <1>4 DEF Owned, NobodyElse
<1>11. SomeonesOwn'
  BY <1>1, <1>5 DEF Owned, SomeonesOwn
<1>12. Numbered'
  BY NumberedKept
<1>13. Counted'
  <2>1. Closing' = Closing
    BY <1>1, <1>4, <1>5 DEF Closing
  <2> QED
    BY <1>1, <2>1 DEF Counted
<1> QED
  BY <1>2, <1>3, <1>6, <1>7, <1>8, <1>9, <1>10, <1>11, <1>12, <1>13 DEF Owned

\* A thread goes on in its call.
LEMMA WentOn ==
  ASSUME IInv, NEW t \in Threads, NEW label \in Labels, Goto(t, label),
         UNCHANGED <<open, vm, fdCount, list>>,
         op' = op \/ \E r \in Rates : op' = [op EXCEPT ![t].max = r],
         \/ pc[t] = "bootstrap" /\ label = "crosspage"
         \/ InRate(t) /\ label \in {"fastclock", "max", "commit", "thread"}
         \/ InRate(t) /\ label = "free" /\ op[t].call # "setrate"
  PROVE  /\ pc' \in [Threads -> Labels] /\ op' \in [Threads -> Ops]
         /\ OpsExact' /\ Owned' /\ Numbered' /\ Counted'
<1> USE DEF IInv, Typed
<1>1. /\ \A u \in Threads \ {t} : pc'[u] = pc[u] /\ op'[u] = op[u]
      /\ pc'[t] = label
      /\ UNCHANGED <<open, vm, fdCount, vmDriverList>> /\ Listed' = Listed
  BY DEF Goto, list, Listed
<1>2. pc' \in [Threads -> Labels] /\ op' \in [Threads -> Ops]
  BY DEF Goto, Ops, Labels
<1>3. /\ op'[t].call = op[t].call /\ op'[t].file = op[t].file /\ op'[t].mode = op[t].mode
      /\ op'[t].vm = op[t].vm /\ op'[t].rate = op[t].rate
  BY DEF Ops
<1>4. OpsExact'
  BY <1>1, <1>3 DEF OpsExact, InRate
<1>5. Frees(t)' <=> Frees(t)
  BY <1>1, <1>3 DEF Frees, InRate, OpsExact
<1>6. /\ pc[t] \notin {"idle", "create", "attach", "release", "lastclose"}
      /\ label \notin {"idle", "create", "attach", "release", "lastclose"}
  BY DEF InRate
<1>7. Alone'
  BY <1>1, <1>3 DEF Owned, Alone
<1>8. Opened'
  BY <1>1, <1>3, <1>6 DEF Owned, Opened
<1>9. FilesOwn'
  BY <1>1 DEF Owned, FilesOwn
<1>10. ThreadsOwn'
  BY <1>1, <1>3, <1>5, <1>6 DEF Owned, ThreadsOwn, Frees, InRate
<1>11. NobodyElse'
  BY <1>1, <1>3, <1>6 DEF Owned, NobodyElse
<1>12. SomeonesOwn'
  BY <1>1, <1>6 DEF Owned, SomeonesOwn
<1>13. Numbered'
  BY NumberedKept
<1>14. Counted'
  <2>1. Closing' = Closing
    BY <1>1, <1>3 DEF Closing
  <2> QED
    BY <1>1, <2>1 DEF Counted
<1> QED
  BY <1>2, <1>4, <1>7, <1>8, <1>9, <1>10, <1>11, <1>12, <1>13, <1>14 DEF Owned

\* The clock does not matter to a step before or after Vmx86_SetHostClockRate that leaves
\* the list alone; no machine that asks for a rate is forgotten.
LEMMA ClockKept ==
  ASSUME IInv, NEW t \in Threads, UNCHANGED rates, Listed' = Listed,
         \A u \in Threads \ {t} : pc'[u] = pc[u] /\ op'[u] = op[u],
         ~InRate(t), pc'[t] \notin {"fastclock", "max", "commit", "thread"},
         pc'[t] = "setrate" => op'[t].call = "setrate",
         op[t].vm \in {op'[t].vm, NULL} \cup Listed
  PROVE  Clocked'
<1> USE DEF IInv, Typed, Clocked, rates
<1>1. Releasing' = Releasing
  BY DEF Releasing, InRate
<1>2. RatesAsked'
  <2>1. \A u \in Threads : Locking(u)' <=> fastClockMutex' = u
    BY DEF RatesAsked, Locking, InRate
  <2>2. \A m \in VMs : m \notin Listed /\ (\A u \in Threads : op'[u].vm # m) => vmRate[m] = 0
    BY LifecycleAssumption DEF RatesAsked
  <2>3. \A u \in Threads : InRate(u)' /\ op'[u].call # "setrate" => op'[u].rate = 0
    BY DEF RatesAsked, InRate
  <2> QED
    BY <2>1, <2>2, <2>3 DEF RatesAsked
<1>3. RateOfMachine'
  BY <1>1 DEF RateOfMachine
<1>4. MaxOfMachine'
  BY <1>1 DEF MaxOfMachine
<1>5. ClockExact'
  BY DEF ClockExact, InRate
<1> QED
  BY <1>2, <1>3, <1>4, <1>5

-----------------------------------------------------------------------------
(* Files, and what calls do before and after the rates are set.              *)

\* A machine that has booted stays on the list or with the thread that frees it.
LEMMA BootedKept ==
  ASSUME IInv, NEW t \in Threads, Listed' = Listed, booted' \subseteq booted, initialized => initialized',
         \A u \in Threads \ {t} : pc'[u] = pc[u] /\ op'[u] = op[u],
         Frees(t) => Frees(t)' /\ op'[t].vm = op[t].vm,
         pc'[t] = "crosspage" => initialized
  PROVE  BootedExact'
BY DEF IInv, BootedExact, Frees, InRate

LEMMA OpenInv == ASSUME IInv, NEW f \in Files, Open(f) PROVE IInv'
<1> USE DEF IInv, Typed
<1>1. /\ f \notin open /\ open' = open \cup {f} /\ \A t \in Threads : op[t].file # f
      /\ fdCount' = IF fdCount < MAX_INT32 THEN fdCount + 1 ELSE fdCount
      /\ UNCHANGED <<vm, initialized, list, booted, rates, pc, op>>
      /\ Listed' = Listed
  BY DEF Open, Inside, list, Listed
<1>2. Typed'
  BY <1>1, LifecycleAssumption DEF TypeOK, list, ids, rates
<1>3. OpsExact'
  BY <1>1 DEF OpsExact, InRate
<1>4. Owned'
  <2>1. Alone' /\ FilesOwn' /\ NobodyElse' /\ SomeonesOwn'
    BY <1>1 DEF Owned, Alone, FilesOwn, NobodyElse, SomeonesOwn
  <2>2. Opened' /\ ThreadsOwn'
    BY <1>1 DEF Owned, Opened, ThreadsOwn, Frees, InRate
  <2> QED
    BY <2>1, <2>2 DEF Owned
<1>5. Numbered'
  BY <1>1, NumberedKept
<1>6. Counted'
  <2>1. Closing' = Closing
    BY <1>1 DEF Closing
  <2>2. IsFiniteSet(open') /\ Cardinality(open') = Cardinality(open) + 1
    BY <1>1, FS_AddElement DEF Counted
  <2>3. Cardinality(open) \in Nat /\ Cardinality(Closing) \in Nat
    BY FS_CardinalityType DEF Counted
  <2> QED
    BY <1>1, <2>1, <2>2, <2>3, LifecycleAssumption DEF Counted, TypeOK
<1>7. BootedExact'
  BY <1>1 DEF BootedExact, Frees, InRate
<1>8. Clocked'
  BY <1>1 DEF Clocked, RatesAsked, RateOfMachine, MaxOfMachine, ClockExact, Locking, InRate,
              Releasing, rates
<1> QED
  BY <1>2, <1>3, <1>4, <1>5, <1>6, <1>7, <1>8

\* Calls that fail, that make the pseudo TSC, and that boot a machine.
LEMMA ReturningInv ==
  ASSUME IInv, NEW t \in Threads, CreateFails(t) \/ InitPseudoTSC(t) \/ BootFails(t) \/ Boot(t)
  PROVE  IInv'
<1> USE DEF IInv, Typed
<1>1. /\ pc[t] \in {"create", "ptsc", "bootstrap", "crosspage"}
      /\ Return(t) /\ UNCHANGED <<open, vm, fdCount, list, rates>>
      /\ initialized' \in {initialized, TRUE}
      /\ \/ booted' = booted
         \/ booted' = booted \cup {op[t].vm} /\ pc[t] = "crosspage"
  <2>1. CASE CreateFails(t)
    BY <2>1 DEF CreateFails, files
  <2>2. CASE InitPseudoTSC(t)
    BY <2>2 DEF InitPseudoTSC
  <2>3. CASE BootFails(t)
    BY <2>3 DEF BootFails, files
  <2>4. CASE Boot(t)
    BY <2>4 DEF Boot, files
  <2> QED
    BY <2>1, <2>2, <2>3, <2>4
<1>2. /\ \A u \in Threads \ {t} : pc'[u] = pc[u] /\ op'[u] = op[u]
      /\ pc'[t] = "idle" /\ op'[t] = NoOp /\ Listed' = Listed
  BY <1>1 DEF Return, Goto, list, Listed
<1>3. /\ pc' \in [Threads -> Labels] /\ op' \in [Threads -> Ops]
      /\ OpsExact' /\ Owned' /\ Numbered' /\ Counted'
  BY <1>1, Returned
<1>4. op[t].vm = NULL \/ op[t].vm \in Listed
  BY <1>1 DEF Owned, FilesOwn, ThreadsOwn, OpsExact, Ops
<1>5. pc[t] = "crosspage" => op[t].vm \in Listed /\ initialized
  BY <1>4 DEF OpsExact, BootedExact
<1>6. Typed'
  <2>1. Listed \subseteq VMs
    BY DEF TypeOK, Listed, ToSet
  <2> QED
    BY <1>1, <1>3, <1>5, <2>1 DEF TypeOK, list, ids, rates
<1>7. BootedExact'
  <2>1. initialized => initialized'
    BY <1>1
  <2>2. booted' \subseteq booted \cup Listed' /\ (booted' # {} => initialized')
    BY <1>1, <1>2, <1>5, <2>1 DEF BootedExact
  <2>3. ~Frees(t) /\ \A u \in Threads \ {t} : Frees(u)' <=> Frees(u)
    BY <1>1, <1>2 DEF Frees, InRate
  <2>4. \A m \in booted' : m \in Listed' \/ \E u \in Threads : Frees(u)' /\ op'[u].vm = m
    BY <1>2, <2>2, <2>3 DEF BootedExact
  <2>5. \A u \in Threads : pc'[u] = "crosspage" => initialized'
    BY <1>2, <2>1 DEF BootedExact
  <2> QED
    BY <2>2, <2>4, <2>5 DEF BootedExact
<1>8. Clocked'
  BY <1>1, <1>2, <1>4, ClockKept DEF InRate
<1> QED
  BY <1>3, <1>6, <1>7, <1>8

LEMMA AllocCrossPagesInv == ASSUME IInv, NEW t \in Threads, AllocCrossPages(t) PROVE IInv'
<1> USE DEF IInv, Typed
<1>1. /\ pc[t] = "bootstrap" /\ initialized /\ Goto(t, "crosspage")
      /\ UNCHANGED <<files, list, booted, rates, op>>
      /\ \A u \in Threads \ {t} : pc'[u] = pc[u] /\ op'[u] = op[u]
      /\ pc'[t] = "crosspage" /\ op'[t] = op[t] /\ Listed' = Listed
  BY DEF AllocCrossPages, Goto, list, Listed
<1>2. /\ pc' \in [Threads -> Labels] /\ op' \in [Threads -> Ops]
      /\ OpsExact' /\ Owned' /\ Numbered' /\ Counted'
  <2>1. "crosspage" \in Labels
    BY DEF Labels
  <2> QED
    BY <1>1, <2>1, WentOn DEF files
<1>3. Typed'
  BY <1>1, <1>2 DEF TypeOK, files, list, ids, rates
<1>4. BootedExact'
  BY <1>1, BootedKept DEF files, Frees, InRate
<1>5. Clocked'
  BY <1>1, ClockKept DEF InRate
<1> QED
  BY <1>2, <1>3, <1>4, <1>5

\* Who has the machine of a file is in a call on that file.
LEMMA HasFile ==
  ASSUME IInv, NEW u \in Threads, NEW f \in Files, op[u].vm = vm[f], vm[f] # NULL
  PROVE  op[u].file = f
<1> USE DEF IInv, Typed
<1>1. pc[u] \notin {"idle", "create", "attach", "lastclose"} /\ ~Frees(u)
  BY DEF OpsExact, NoOp, Owned, FilesOwn, ThreadsOwn, NobodyElse
<1>2. op[u].mode = "read" \/ pc[u] = "release"
  BY <1>1 DEF OpsExact, Frees, InRate, Labels
<1>3. vm[op[u].file] = vm[f] /\ op[u].file \in Files
  BY <1>1, <1>2 DEF OpsExact, Owned, ThreadsOwn, Ops
<1> QED
  BY <1>3 DEF Owned, FilesOwn

LEMMA EnterInv ==
  ASSUME IInv, NEW t \in Threads, NEW f \in Files, NEW c \in Calls, NEW rate \in Rates,
         Enter(t, f, c, rate)
  PROVE  IInv'
<1> USE DEF IInv, Typed
<1>1. PICK mode \in {"read", "write"} :
        mode = IF c \in {"create", "release"} THEN "write" ELSE "read"
  OBVIOUS
<1>2. op' = [op EXCEPT ![t] = [call |-> c, file |-> f, mode |-> mode, vm |-> vm[f],
                               rate |-> rate, max |-> 0]]
  BY <1>1 DEF Enter, ModeOf
<1>3. /\ \A u \in Threads \ {t} : pc'[u] = pc[u] /\ op'[u] = op[u]
      /\ pc[t] = "idle" /\ pc'[t] = c /\ UNCHANGED <<files, list, booted, rates>>
      /\ Listed' = Listed /\ f \in open
      /\ c = "create" => vm[f] = NULL
      /\ c \notin {"create", "ptsc"} => vm[f] # NULL
      /\ op'[t].call = c /\ op'[t].file = f /\ op'[t].mode = mode /\ op'[t].vm = vm[f]
      /\ op'[t].rate = rate
  BY <1>2 DEF Enter, Goto, list, Listed
<1>4. \A u \in Threads : op[u].file = f => mode = "read" /\ op[u].mode = "read"
  BY <1>1 DEF Enter, MayLock, Inside, ModeOf
<1>5. c \in {"create", "release", "ptsc", "bootstrap", "setrate"}
  BY DEF Calls
<1>6. op[t].call = "none" /\ op[t].file = NULL /\ op[t].vm = NULL /\ op[t].mode = "none"
  BY <1>3 DEF OpsExact, NoOp
<1>7. Typed'
  <2>1. [call |-> c, file |-> f, mode |-> mode, vm |-> vm[f], rate |-> rate, max |-> 0] \in Ops
    BY <1>1, LifecycleAssumption DEF Ops, TypeOK
  <2>2. op' \in [Threads -> Ops]
    BY <1>2, <2>1
  <2>3. pc' \in [Threads -> Labels]
    BY <1>5 DEF Enter, Goto, Labels
  <2> QED
    BY <1>3, <2>2, <2>3 DEF TypeOK, files, list, ids, rates
<1>8. OpsExact'
  BY <1>1, <1>3, <1>5, LifecycleAssumption DEF OpsExact, InRate
<1>9. Alone'
  BY <1>3, <1>4 DEF Owned, Alone
<1>10. Opened'
  BY <1>3, <1>5, <1>6 DEF Owned, Opened, files
<1>11. FilesOwn'
  BY <1>3 DEF Owned, FilesOwn, files
<1>12. ThreadsOwn'
  BY <1>1, <1>3, <1>5, <1>6 DEF Owned, ThreadsOwn, Frees, InRate, files
<1>13. NobodyElse'
  <2>1. \A u \in Threads : pc'[u] = "attach" => \A g \in Files : vm'[g] # op'[u].vm
    BY <1>3, <1>5 DEF Owned, NobodyElse, files
  <2>2. \A u \in Threads \ {t} : op[u].vm = vm[f] /\ vm[f] # NULL => mode = "read" /\ op[u].mode = "read"
    BY <1>4, HasFile
  <2>3. \A u, v \in Threads : u # v /\ op'[u].vm = op'[v].vm /\ op'[u].vm # NULL =>
          op'[u].mode = "read" /\ op'[v].mode = "read"
    BY <1>3, <2>2 DEF Owned, NobodyElse
  <2> QED
    BY <2>1, <2>3 DEF NobodyElse
<1>14. SomeonesOwn'
  BY <1>3, <1>5 DEF Owned, SomeonesOwn, files
<1>15. Numbered'
  BY <1>3, NumberedKept
<1>16. Counted'
  <2>1. Closing' = Closing
    BY <1>3, <1>5, <1>6 DEF Closing
  <2> QED
    BY <1>3, <2>1 DEF Counted, files
<1>17. BootedExact'
  BY <1>3, <1>5, <1>6, BootedKept DEF files, Frees
<1>18. Clocked'
  BY <1>3, <1>5, <1>6, ClockKept DEF InRate
<1> QED
  BY <1>7, <1>8, <1>9, <1>10, <1>11, <1>12, <1>13, <1>14, <1>15, <1>16, <1>17, <1>18 DEF Owned


LEMMA CloseInv == ASSUME IInv, NEW t \in Threads, NEW f \in Files, Close(t, f) PROVE IInv'
<1> USE DEF IInv, Typed
<1>1. /\ \A u \in Threads \ {t} : pc'[u] = pc[u] /\ op'[u] = op[u] /\ op[u].file # f
      /\ pc[t] = "idle" /\ pc'[t] = IF vm[f] = NULL THEN "lastclose" ELSE "release"
      /\ UNCHANGED <<vm, fdCount, initialized, list, booted, rates>>
      /\ Listed' = Listed /\ f \in open /\ open' = open \ {f}
  BY DEF Close, Goto, Inside, list, Listed
<1>2. op' = [op EXCEPT ![t] = [call |-> "close", file |-> f, mode |-> "write", vm |-> vm[f],
                               rate |-> 0, max |-> 0]]
  BY DEF Close
<1>3. /\ op'[t].call = "close" /\ op'[t].file = f /\ op'[t].mode = "write"
      /\ op'[t].vm = vm[f] /\ op'[t].rate = 0
  BY <1>2
<1>4. op[t].call = "none" /\ op[t].file = NULL /\ op[t].vm = NULL /\ op[t].mode = "none"
  BY <1>1 DEF OpsExact, NoOp
<1>5. Typed'
  <2>1. [call |-> "close", file |-> f, mode |-> "write", vm |-> vm[f], rate |-> 0, max |-> 0] \in Ops
    BY LifecycleAssumption DEF Ops, TypeOK
  <2>2. op' \in [Threads -> Ops]
    BY <1>2, <2>1
  <2>3. pc' \in [Threads -> Labels]
    BY DEF Close, Goto, Labels
  <2> QED
    BY <1>1, <2>2, <2>3 DEF TypeOK, list, ids, rates
<1>6. OpsExact'
  BY <1>1, <1>3, LifecycleAssumption DEF OpsExact, InRate
<1>7. Alone'
  BY <1>1, <1>3 DEF Owned, Alone
<1>8. Opened'
  BY <1>1, <1>3, <1>4 DEF Owned, Opened
<1>9. FilesOwn'
  BY <1>1 DEF Owned, FilesOwn
<1>10. ThreadsOwn'
  BY <1>1, <1>3 DEF Owned, ThreadsOwn, Frees, InRate
<1>11. NobodyElse'
  <2>1. \A u \in Threads \ {t} : vm[f] # NULL => op[u].vm # vm[f]
    BY <1>1, HasFile
  <2> QED
    BY <1>1, <1>3, <2>1 DEF Owned, NobodyElse
<1>12. SomeonesOwn'
  BY <1>1, <1>3 DEF Owned, SomeonesOwn
<1>13. Numbered'
  BY <1>1, NumberedKept
<1>14. Counted'
  <2>1. Closing' = Closing \cup {t} /\ t \notin Closing
    BY <1>1, <1>3, <1>4 DEF Closing
  <2>2. IsFiniteSet(Closing') /\ Cardinality(Closing') = Cardinality(Closing) + 1
    BY <2>1, FS_AddElement DEF Counted
  <2>3. IsFiniteSet(open') /\ Cardinality(open') = Cardinality(open) - 1
    BY <1>1, FS_RemoveElement DEF Counted
  <2>4. Cardinality(open) \in Nat /\ Cardinality(Closing) \in Nat
    BY FS_CardinalityType DEF Counted
  <2> QED
    BY <1>1, <2>2, <2>3, <2>4 DEF Counted
<1>15. BootedExact'
  BY <1>1, BootedKept DEF Frees, InRate
<1>16. Clocked'
  BY <1>1, <1>4, ClockKept DEF InRate
<1> QED
  BY <1>5, <1>6, <1>7, <1>8, <1>9, <1>10, <1>11, <1>12, <1>13, <1>14, <1>15, <1>16 DEF Owned

\* The last close of all comes after every machine is gone, and nobody boots one.
LEMMA LastCloseInv == ASSUME IInv, NEW t \in Threads, LastClose(t) PROVE IInv'
<1> USE DEF IInv, Typed
<1>1. /\ \A u \in Threads \ {t} : pc'[u] = pc[u] /\ op'[u] = op[u]
      /\ pc[t] = "lastclose" /\ pc'[t] = "idle" /\ op'[t] = NoOp
      /\ fdCount' = IF fdCount < MAX_INT32 THEN fdCount - 1 ELSE fdCount
      /\ initialized' = (initialized /\ fdCount' # 0)
      /\ UNCHANGED <<open, vm, list, booted, rates>> /\ Listed' = Listed
  BY DEF LastClose, Return, Goto, list, Listed
<1>2. NoOp.call = "none" /\ NoOp.file = NULL /\ NoOp.vm = NULL /\ NoOp.mode = "none"
  BY DEF NoOp
<1>3. op[t].call = "close" /\ op[t].vm = NULL
  BY <1>1 DEF OpsExact
<1>4. /\ Closing' = Closing \ {t} /\ t \in Closing
      /\ IsFiniteSet(Closing') /\ Cardinality(Closing') = Cardinality(Closing) - 1
  <2>1. Closing' = Closing \ {t} /\ t \in Closing
    BY <1>1, <1>2, <1>3 DEF Closing
  <2> QED
    BY <2>1, FS_RemoveElement DEF Counted
<1>5. Cardinality(open) \in Nat /\ Cardinality(Closing) \in Nat /\ Cardinality(Closing') \in Nat
  BY <1>4, FS_CardinalityType DEF Counted
<1>6. fdCount' \in 0 .. MAX_INT32
  BY <1>1, <1>4, <1>5, LifecycleAssumption DEF Counted, TypeOK
<1>7. fdCount' < MAX_INT32 => fdCount' = Cardinality(open) + Cardinality(Closing')
  BY <1>1, <1>4, <1>5, LifecycleAssumption DEF Counted, TypeOK
<1>8. fdCount' = 0 => open = {} /\ Closing' = {}
  BY <1>4, <1>5, <1>7, FS_EmptySet, LifecycleAssumption DEF Counted
<1>9. Typed'
  <2>1. pc' \in [Threads -> Labels] /\ op' \in [Threads -> Ops]
    BY LifecycleAssumption DEF LastClose, Return, Goto, Ops, Labels, NoOp
  <2> QED
    BY <1>1, <1>6, <2>1 DEF TypeOK, list, ids, rates
<1>10. OpsExact'
  BY <1>1, <1>2 DEF OpsExact, InRate
<1>11. Alone' /\ Opened'
  BY <1>1, <1>2 DEF Owned, Alone, Opened
<1>12. FilesOwn' /\ NobodyElse' /\ SomeonesOwn'
  BY <1>1, <1>2 DEF Owned, FilesOwn, NobodyElse, SomeonesOwn
<1>13. ThreadsOwn'
  BY <1>1, <1>2 DEF Owned, ThreadsOwn, Frees, InRate
<1>14. Numbered'
  BY <1>1, NumberedKept
<1>15. Counted'
  BY <1>1, <1>4, <1>7 DEF Counted
<1>16. BootedExact'
  <2>1. \A u \in Threads \ {t} : op[u].file # NULL => fdCount' # 0
    BY <1>1, <1>4, <1>8 DEF Closing, Owned, Opened
  <2>2. \A u \in Threads : pc[u] \in {"attach", "release", "crosspage"} \/ Frees(u) =>
          u # t /\ op[u].file # NULL
    BY <1>1 DEF OpsExact, Frees, InRate
  <2>3. Listed # {} => fdCount' # 0
    <3>1. ASSUME NEW m \in Listed, NEW f \in Files, vm[f] = m PROVE fdCount' # 0
      <4>1. m # NULL
        BY LifecycleAssumption DEF TypeOK, Listed, ToSet
      <4>2. f \in open \/ \E u \in Threads : op[u].file = f /\ pc[u] = "release"
        BY <3>1, <4>1 DEF Owned, Opened
      <4> QED
        BY <1>8, <2>1, <2>2, <4>2
    <3>2. ASSUME NEW m \in Listed, \A f \in Files : vm[f] # m PROVE fdCount' # 0
      <4>1. \E u \in Threads : pc[u] = "attach"
        BY <3>2 DEF Owned, SomeonesOwn
      <4> QED
        BY <2>1, <2>2, <4>1
    <3> QED
      BY <3>1, <3>2
  <2>4. booted # {} => fdCount' # 0
    BY <2>1, <2>2, <2>3 DEF BootedExact
  <2>5. \A u \in Threads : Frees(u)' <=> Frees(u)
    BY <1>1 DEF Frees, InRate
  <2>6. \A m \in booted' : m \in Listed' \/ \E u \in Threads : Frees(u)' /\ op'[u].vm = m
    BY <1>1, <2>2, <2>5 DEF BootedExact
  <2>7. booted' # {} => initialized'
    BY <1>1, <2>4 DEF BootedExact
  <2>8. \A u \in Threads : pc'[u] = "crosspage" => initialized'
    BY <1>1, <2>1, <2>2 DEF BootedExact
  <2> QED
    BY <2>6, <2>7, <2>8 DEF BootedExact
<1>17. Clocked'
  BY <1>1, <1>3, ClockKept DEF InRate
<1> QED
  BY <1>9, <1>10, <1>11, <1>12, <1>13, <1>14, <1>15, <1>16, <1>17 DEF Owned
-----------------------------------------------------------------------------
(* Machines come and go.                                                     *)

LEMMA AttachInv == ASSUME IInv, NEW t \in Threads, Attach(t) PROVE IInv'
<1> USE DEF IInv, Typed
<1>1. PICK f \in Files : f = op[t].file
  BY DEF Attach, OpsExact, Ops
<1>2. /\ \A u \in Threads \ {t} : pc'[u] = pc[u] /\ op'[u] = op[u]
      /\ pc[t] = "attach" /\ pc'[t] = "idle" /\ op'[t] = NoOp
      /\ vm' = [vm EXCEPT ![f] = op[t].vm]
      /\ UNCHANGED <<open, fdCount, initialized, list, booted, rates>> /\ Listed' = Listed
  BY <1>1 DEF Attach, Return, Goto, list, Listed
<1>3. NoOp.call = "none" /\ NoOp.file = NULL /\ NoOp.vm = NULL /\ NoOp.mode = "none"
  BY DEF NoOp
<1>4. op[t].call = "create" /\ op[t].mode = "write" /\ op[t].vm \in Listed /\ vm[f] = NULL
  BY <1>1, <1>2 DEF OpsExact, Owned, ThreadsOwn
<1>5. Listed \subseteq VMs /\ NULL \notin Listed
  BY LifecycleAssumption DEF TypeOK, Listed, ToSet
<1>6. /\ \A g \in Files \ {f} : vm'[g] = vm[g]
      /\ vm'[f] = op[t].vm
  BY <1>2 DEF TypeOK
<1>7. \A u \in Threads \ {t} : op[u].file # f
  BY <1>1, <1>4, LifecycleAssumption DEF Owned, Alone
<1>8. f \in open
  BY <1>1, <1>4, LifecycleAssumption DEF Owned, Opened
<1>9. Typed'
  <2>1. pc' \in [Threads -> Labels] /\ op' \in [Threads -> Ops]
    BY LifecycleAssumption DEF Attach, Return, Goto, Ops, Labels, NoOp
  <2>2. vm' \in [Files -> VMs \cup {NULL}]
    BY <1>2, <1>4, <1>5 DEF TypeOK
  <2> QED
    BY <1>2, <2>1, <2>2 DEF TypeOK, list, ids, rates
<1>10. OpsExact'
  BY <1>2, <1>3 DEF OpsExact, InRate
<1>11. Alone'
  BY <1>2, <1>3 DEF Owned, Alone
<1>12. Opened'
  BY <1>1, <1>2, <1>3, <1>6, <1>8 DEF Owned, Opened
<1>13. FilesOwn'
  BY <1>2, <1>4, <1>6 DEF Owned, FilesOwn, NobodyElse
<1>14. ThreadsOwn'
  <2>1. \A u \in Threads \ {t} : pc[u] # "idle" => op[u].file \in Files \ {f}
    BY <1>7 DEF OpsExact, Ops
  <2>2. \A u \in Threads : op'[u].mode = "read" \/ pc'[u] = "release" => op'[u].vm = vm'[op'[u].file]
    BY <1>2, <1>3, <1>6, <2>1 DEF Owned, ThreadsOwn, OpsExact
  <2>3. \A u \in Threads : Frees(u)' => u # t /\ Frees(u)
    BY <1>2 DEF Frees, InRate
  <2>4. \A u \in Threads : pc'[u] \in {"create", "attach", "lastclose"} \/ Frees(u)' =>
          vm'[op'[u].file] = NULL
    BY <1>2, <1>6, <2>1, <2>3 DEF Owned, ThreadsOwn, Frees, InRate
  <2> QED
    BY <1>2, <2>2, <2>3, <2>4 DEF Owned, ThreadsOwn
<1>15. NobodyElse'
  BY <1>2, <1>3, <1>4, <1>5, <1>6 DEF Owned, NobodyElse
<1>16. SomeonesOwn'
  BY <1>2, <1>4, <1>5, <1>6 DEF Owned, SomeonesOwn
<1>17. Numbered'
  BY <1>2, NumberedKept
<1>18. Counted'
  <2>1. Closing' = Closing
    BY <1>2, <1>3, <1>4 DEF Closing
  <2> QED
    BY <1>2, <2>1 DEF Counted
<1>19. BootedExact'
  BY <1>2, BootedKept DEF Frees, InRate
<1>20. Clocked'
  BY <1>2, <1>4, ClockKept DEF InRate
<1> QED
  BY <1>9, <1>10, <1>11, <1>12, <1>13, <1>14, <1>15, <1>16, <1>17, <1>18, <1>19, <1>20 DEF Owned

LEMMA FreeVMInv == ASSUME IInv, NEW t \in Threads, FreeVM(t) PROVE IInv'
<1> USE DEF IInv, Typed
<1>1. PICK m \in VMs : m = op[t].vm
  BY DEF FreeVM, OpsExact, Owned, ThreadsOwn, Frees, Ops
<1>2. /\ \A u \in Threads \ {t} : pc'[u] = pc[u] /\ op'[u] = op[u]
      /\ pc[t] = "free"
      /\ \/ op[t].call = "close" /\ pc'[t] = "lastclose" /\ op' = [op EXCEPT ![t].vm = NULL]
         \/ op[t].call = "release" /\ pc'[t] = "idle" /\ op'[t] = NoOp
      /\ booted' = booted \ {m} /\ userID' = [userID EXCEPT ![m] = 0]
      /\ vmRate' = [vmRate EXCEPT ![m] = 0]
      /\ UNCHANGED <<files, vmDriverList, vmCount, ids, globalFastClockRate, hostRate,
                     clock, fastClockMutex>>
      /\ Listed' = Listed
  BY <1>1 DEF FreeVM, Return, Goto, Listed, OpsExact
<1>3. NoOp.call = "none" /\ NoOp.file = NULL /\ NoOp.vm = NULL /\ NoOp.mode = "none"
  BY DEF NoOp
<1>4. /\ op[t].mode = "write" /\ m \notin Listed /\ vm[op[t].file] = NULL
      /\ op[t].call # "none" /\ op[t].file # NULL /\ m # NULL
  BY <1>1, <1>2, LifecycleAssumption DEF OpsExact, Owned, ThreadsOwn, Frees
<1>5. \A u \in Threads \ {t} : op[u].vm # m
  BY <1>1, <1>4 DEF Owned, NobodyElse
<1>6. /\ op' \in [Threads -> Ops] /\ OpsExact' /\ Closing' = Closing
      /\ Alone' /\ Opened' /\ ThreadsOwn' /\ NobodyElse' /\ SomeonesOwn'
  <2>1. CASE op[t].call = "close"
    <3>1. /\ pc'[t] = "lastclose" /\ op'[t].call = "close" /\ op'[t].file = op[t].file
          /\ op'[t].mode = "write" /\ op'[t].vm = NULL
      BY <1>2, <1>4, <2>1 DEF Ops
    <3>2. op' \in [Threads -> Ops]
      BY <1>2, <2>1 DEF Ops
    <3>3. OpsExact'
      BY <1>2, <1>4, <3>1 DEF OpsExact, InRate
    <3>4. Alone' /\ Opened'
      BY <1>2, <1>4, <2>1, <3>1 DEF Owned, Alone, Opened, files
    <3>5. ThreadsOwn'
      BY <1>2, <1>4, <3>1 DEF Owned, ThreadsOwn, Frees, InRate, files
    <3>6. NobodyElse' /\ SomeonesOwn'
      BY <1>2, <3>1 DEF Owned, NobodyElse, SomeonesOwn, files
    <3>7. Closing' = Closing
      BY <1>2, <2>1, <3>1 DEF Closing
    <3> QED
      BY <3>2, <3>3, <3>4, <3>5, <3>6, <3>7
  <2>2. CASE op[t].call = "release"
    <3>1. pc'[t] = "idle" /\ op'[t] = NoOp
      BY <1>2, <2>2
    <3>2. op' \in [Threads -> Ops]
      BY <1>2, <2>2, LifecycleAssumption DEF FreeVM, Return, Ops, NoOp
    <3>3. OpsExact'
      BY <1>2, <1>3, <3>1 DEF OpsExact, InRate
    <3>4. Alone' /\ Opened'
      BY <1>2, <1>3, <3>1 DEF Owned, Alone, Opened, files
    <3>5. ThreadsOwn'
      BY <1>2, <1>3, <3>1 DEF Owned, ThreadsOwn, Frees, InRate, files
    <3>6. NobodyElse' /\ SomeonesOwn'
      BY <1>2, <1>3, <3>1 DEF Owned, NobodyElse, SomeonesOwn, files
    <3>7. Closing' = Closing
      BY <1>2, <1>3, <2>2, <3>1 DEF Closing
    <3> QED
      BY <3>2, <3>3, <3>4, <3>5, <3>6, <3>7
  <2> QED
    BY <1>2, <2>1, <2>2
<1>7. Typed'
  <2>1. pc' \in [Threads -> Labels]
    BY DEF FreeVM, Return, Goto, Labels
  <2>2. /\ userID' \in [VMs -> 0 .. MAX_VMS] /\ vmRate' \in [VMs -> Rates] /\ booted' \subseteq VMs
    BY <1>2, LifecycleAssumption DEF TypeOK
  <2> QED
    BY <1>2, <1>6, <2>1, <2>2 DEF TypeOK, files, ids
<1>8. FilesOwn'
  BY <1>2 DEF Owned, FilesOwn, files
<1>9. Numbered'
  <2>1. Listed \subseteq VMs \ {m}
    BY <1>4 DEF TypeOK, Listed, ToSet
  <2>2. \A n \in Listed : userID'[n] = userID[n]
    BY <1>2, <2>1 DEF TypeOK
  <2>3. {userID'[n] - 1 : n \in Listed'} = {userID[n] - 1 : n \in Listed}
    BY <1>2, <2>2
  <2>4. Chain(vmIDsAllocated)' = Chain(vmIDsAllocated) /\ Chain(vmIDsUnused)' = Chain(vmIDsUnused)
    BY <1>2 DEF Chain, ids
  <2> QED
    BY <1>2, <2>2, <2>3, <2>4 DEF Numbered, ids
<1>10. Counted'
  BY <1>2, <1>6 DEF Counted, files
<1>11. BootedExact'
  <2>1. \A u \in Threads \ {t} : Frees(u)' <=> Frees(u)
    BY <1>2 DEF Frees, InRate
  <2>2. \A n \in booted' : n \in Listed' \/ \E u \in Threads : Frees(u)' /\ op'[u].vm = n
    BY <1>1, <1>2, <2>1 DEF BootedExact
  <2>3. booted' # {} => initialized'
    BY <1>2 DEF BootedExact, files
  <2>4. \A u \in Threads : pc'[u] = "crosspage" => initialized'
    BY <1>2 DEF BootedExact, files
  <2> QED
    BY <2>2, <2>3, <2>4 DEF BootedExact
<1>12. Clocked'
  <2>1. \A n \in VMs : vmRate'[n] = IF n = m THEN 0 ELSE vmRate[n]
    BY <1>2 DEF TypeOK
  <2>2. Listed \subseteq VMs \ {m}
    BY <1>4 DEF TypeOK, Listed, ToSet
  <2>3. \A u \in Threads : (InRate(u)' <=> InRate(u)) /\ (InRate(u) => u # t)
    BY <1>2 DEF InRate
  <2>4. Releasing' = Releasing /\ Releasing \subseteq VMs \ {m}
    <3>1. Releasing' = Releasing
      BY <1>2, <2>3 DEF Releasing
    <3>2. \A u \in Threads : InRate(u) /\ op[u].call # "setrate" => op[u].vm \in VMs \ {m}
      BY <1>5, <2>3 DEF OpsExact, Owned, ThreadsOwn, Frees, Ops
    <3> QED
      BY <3>1, <3>2 DEF Releasing
  <2>5. RatesAsked'
    <3>1. \A u \in Threads : Locking(u)' <=> fastClockMutex' = u
      BY <1>2 DEF Clocked, RatesAsked, Locking
    <3>2. \A n \in VMs : n \notin Listed' /\ (\A u \in Threads : op'[u].vm # n) => vmRate'[n] = 0
      BY <1>1, <1>2, <2>1 DEF Clocked, RatesAsked
    <3>3. \A u \in Threads : InRate(u)' /\ op'[u].call # "setrate" => op'[u].rate = 0
      BY <1>2, <2>3 DEF Clocked, RatesAsked
    <3> QED
      BY <3>1, <3>2, <3>3 DEF RatesAsked
  <2>6. \A n \in Listed \cup Releasing : vmRate'[n] = vmRate[n]
    BY <2>1, <2>2, <2>4
  <2>7. RateOfMachine'
    BY <1>2, <2>4, <2>6 DEF Clocked, RateOfMachine
  <2>8. MaxOfMachine'
    BY <1>2, <2>4, <2>6 DEF Clocked, MaxOfMachine
  <2>9. ClockExact'
    BY <1>2 DEF Clocked, ClockExact
  <2> QED
    BY <2>5, <2>7, <2>8, <2>9 DEF Clocked
<1> QED
  BY <1>6, <1>7, <1>8, <1>9, <1>10, <1>11, <1>12 DEF Owned
-----------------------------------------------------------------------------
(* Vmx86_SetHostClockRate.                                                   *)

\* A finite set of rates has a highest one.
LEMMA MaxExists ==
  ASSUME NEW S \in SUBSET Nat, IsFiniteSet(S), S # {}
  PROVE  Max(S) \in S /\ \A x \in S : x <= Max(S)
<1> DEFINE From(a) == {x \in S : x >= a}
           T == {From(a) : a \in S}
<1>1. T \subseteq SUBSET S /\ T # {}
  OBVIOUS
<1>2. IsWellFoundedOn(StrictSubsetOrdering(S), SUBSET S)
  BY FS_StrictSubsetOrderingWellFounded, FS_FiniteSubsetsOfFinite
<1>3. PICK U \in T : \A V \in T : <<V, U>> \notin StrictSubsetOrdering(S)
  BY <1>1, <1>2, WFMin
<1>4. PICK a \in S : U = From(a)
  OBVIOUS
<1>5. ASSUME NEW b \in S, b > a PROVE FALSE
  <2>1. a \in Nat /\ b \in Nat /\ S \subseteq Nat
    OBVIOUS
  <2>2. a \in From(a) /\ a \notin From(b)
    BY <1>5, <2>1
  <2>3. \A x \in S : x >= b => x >= a
    BY <1>5, <2>1
  <2>4. From(b) \subseteq From(a)
    BY <2>3
  <2>5. From(a) \in SUBSET S /\ From(b) \in SUBSET S /\ From(b) \in T /\ From(a) # From(b)
    BY <2>2
  <2> HIDE DEF From
  <2>6. <<From(b), From(a)>> \in StrictSubsetOrdering(S)
    BY <2>4, <2>5 DEF StrictSubsetOrdering
  <2> QED
    BY <1>3, <1>4, <2>5, <2>6
<1>6. \E x \in S : \A y \in S : x >= y
  BY <1>5
<1> QED
  BY <1>6 DEF Max

\* So have the machines on the list but one, and the one's new rate.
LEMMA MaxOfRates ==
  ASSUME IInv, NEW m, NEW rate \in Rates, NEW max,
         max = Max({rate} \cup {vmRate[n] : n \in Listed \ {m}})
  PROVE  /\ max = rate \/ \E n \in Listed \ {m} : max = vmRate[n]
         /\ rate <= max /\ \A n \in Listed \ {m} : vmRate[n] <= max
<1> DEFINE M == Listed \ {m}
           R == {vmRate[n] : n \in M}
           f == [n \in M |-> vmRate[n]]
<1>1. Listed \subseteq VMs
  BY DEF IInv, Typed, TypeOK, Listed, ToSet
<1>2. R \subseteq Nat /\ rate \in Nat
  BY <1>1, LifecycleAssumption DEF IInv, Typed, TypeOK
<1>3. IsFiniteSet(M)
  BY <1>1, FS_Subset, LifecycleAssumption
<1>4. f \in Surjection(M, R)
  BY DEF Surjection
<1>5. IsFiniteSet({rate} \cup R)
  BY <1>3, <1>4, FS_Surjection, FS_Singleton, FS_Union
<1>6. {rate} \cup R \in SUBSET Nat /\ {rate} \cup R # {}
  BY <1>2
<1>7. max \in {rate} \cup R /\ \A x \in {rate} \cup R : x <= max
  BY <1>5, <1>6, MaxExists
<1> QED
  BY <1>7

\* The machine whose rate is set: on the list for an ioctl, or off it.
LEMMA RateMachine ==
  ASSUME IInv, NEW t \in Threads, InRate(t)
  PROVE  /\ op[t].vm \in VMs /\ op[t].rate \in Rates /\ op[t].max \in Rates
         /\ op[t].call \in {"setrate", "release", "close"}
         /\ op[t].call = "setrate" => op[t].vm \in Listed
         /\ op[t].call # "setrate" => op[t].vm \notin Listed /\ op[t].rate = 0
<1> USE DEF IInv, Typed
<1>1. op[t].call \in {"setrate", "release", "close"} /\ op[t] \in Ops
  BY DEF OpsExact
<1>2. CASE op[t].call = "setrate"
  <2>1. op[t].mode = "read" /\ op[t].vm # NULL /\ op[t].file \in Files
    BY <1>1, <1>2 DEF OpsExact, InRate, Ops
  <2>2. op[t].vm \in Listed
    BY <2>1 DEF Owned, FilesOwn, ThreadsOwn
  <2> QED
    BY <1>1, <1>2, <2>1, <2>2 DEF Ops
<1>3. CASE op[t].call # "setrate"
  <2>1. Frees(t)
    BY <1>1, <1>3 DEF Frees
  <2>2. op[t].vm # NULL /\ op[t].vm \notin Listed /\ op[t].rate = 0
    BY <1>3, <2>1 DEF Owned, ThreadsOwn, Clocked, RatesAsked
  <2> QED
    BY <1>1, <1>3, <2>2 DEF Ops
<1> QED
  BY <1>2, <1>3

\* The thread's call is done with the rate: the ioctl returns, the machine is freed.
LEMMA RateDoneInv ==
  ASSUME IInv, NEW t \in Threads, InRate(t), RateDone(t),
         UNCHANGED <<files, list, booted>>
  PROVE  /\ \A u \in Threads \ {t} : pc'[u] = pc[u] /\ op'[u] = op[u]
         /\ \/ op[t].call = "setrate" /\ pc'[t] = "idle" /\ op'[t] = NoOp
            \/ op[t].call # "setrate" /\ pc'[t] = "free" /\ op'[t] = op[t]
         /\ pc' \in [Threads -> Labels] /\ op' \in [Threads -> Ops]
         /\ OpsExact' /\ Owned' /\ Numbered' /\ Counted' /\ BootedExact' /\ Listed' = Listed
<1> USE DEF IInv, Typed
<1>1. /\ \A u \in Threads \ {t} : pc'[u] = pc[u] /\ op'[u] = op[u]
      /\ \/ op[t].call = "setrate" /\ pc'[t] = "idle" /\ op'[t] = NoOp
         \/ op[t].call # "setrate" /\ pc'[t] = "free" /\ op'[t] = op[t]
      /\ Listed' = Listed
  BY DEF RateDone, Return, Goto, Listed, list
<1>2. /\ pc' \in [Threads -> Labels] /\ op' \in [Threads -> Ops]
      /\ OpsExact' /\ Owned' /\ Numbered' /\ Counted'
  <2>1. CASE op[t].call = "setrate"
    BY <2>1, Returned DEF RateDone, files
  <2>2. CASE op[t].call # "setrate"
    <3>1. "free" \in Labels
      BY DEF Labels
    <3> QED
      BY <2>2, <3>1, WentOn DEF RateDone, files
  <2> QED
    BY <2>1, <2>2
<1>3. BootedExact'
  <2>1. Frees(t) => Frees(t)' /\ op'[t].vm = op[t].vm
    BY <1>1 DEF Frees
  <2> QED
    BY <1>1, <2>1, BootedKept DEF files
<1> QED
  BY <1>1, <1>2, <1>3

\* Or goes on with it.
LEMMA RateGoesOn ==
  ASSUME IInv, NEW t \in Threads, InRate(t),
         NEW label \in {"fastclock", "max", "commit", "thread"}, Goto(t, label),
         op' = op \/ \E r \in Rates : op' = [op EXCEPT ![t].max = r],
         UNCHANGED <<files, list, booted>>
  PROVE  /\ \A u \in Threads \ {t} : pc'[u] = pc[u] /\ op'[u] = op[u]
         /\ pc'[t] = label /\ op'[t].call = op[t].call /\ op'[t].vm = op[t].vm
         /\ op'[t].rate = op[t].rate
         /\ pc' \in [Threads -> Labels] /\ op' \in [Threads -> Ops]
         /\ OpsExact' /\ Owned' /\ Numbered' /\ Counted' /\ BootedExact' /\ Listed' = Listed
         /\ Releasing' = Releasing
<1> USE DEF IInv, Typed
<1>1. /\ \A u \in Threads \ {t} : pc'[u] = pc[u] /\ op'[u] = op[u]
      /\ pc'[t] = label /\ op'[t].call = op[t].call /\ op'[t].vm = op[t].vm
      /\ op'[t].rate = op[t].rate /\ Listed' = Listed
  BY DEF Goto, Listed, list, Ops
<1>2. /\ pc' \in [Threads -> Labels] /\ op' \in [Threads -> Ops]
      /\ OpsExact' /\ Owned' /\ Numbered' /\ Counted'
  <2>1. label \in Labels
    BY DEF Labels
  <2> QED
    BY <2>1, WentOn DEF files
<1>3. BootedExact'
  <2>1. Frees(t) => Frees(t)' /\ op'[t].vm = op[t].vm
    BY <1>1 DEF Frees, InRate
  <2> QED
    BY <1>1, <2>1, BootedKept DEF files
<1>4. Releasing' = Releasing
  <2>1. \A u \in Threads : InRate(u)' /\ op'[u].call # "setrate" <=> InRate(u) /\ op[u].call # "setrate"
    BY <1>1 DEF InRate
  <2>2. \A u \in Threads : op'[u].vm = op[u].vm
    BY <1>1
  <2> QED
    BY <2>1, <2>2 DEF Releasing
<1> QED
  BY <1>1, <1>2, <1>3, <1>4

\* A thread that finds its rate set already leaves the others' rates as they are.
LEMMA RateFoundInv ==
  ASSUME IInv, NEW t \in Threads, pc[t] \in {"setrate", "fastclock"},
         vmRate[op[t].vm] = op[t].rate, RateDone(t), UNCHANGED <<files, list, booted, rates>>
  PROVE  IInv'
<1> USE DEF IInv, Typed
<1>1. InRate(t)
  BY DEF InRate
<1>2. /\ \A u \in Threads \ {t} : pc'[u] = pc[u] /\ op'[u] = op[u]
      /\ \/ op[t].call = "setrate" /\ pc'[t] = "idle" /\ op'[t] = NoOp
         \/ op[t].call # "setrate" /\ pc'[t] = "free" /\ op'[t] = op[t]
      /\ pc' \in [Threads -> Labels] /\ op' \in [Threads -> Ops]
      /\ OpsExact' /\ Owned' /\ Numbered' /\ Counted' /\ BootedExact' /\ Listed' = Listed
      /\ UNCHANGED rates
  BY <1>1, RateDoneInv
<1>3. /\ op[t].vm \in VMs /\ (op[t].call = "setrate" => op[t].vm \in Listed)
      /\ (op[t].call # "setrate" => op[t].rate = 0)
  BY <1>1, RateMachine
<1>4. Typed'
  BY <1>2 DEF TypeOK, files, list, ids, rates
<1>5. /\ \A u \in Threads : InRate(u)' <=> InRate(u) /\ u # t
      /\ \A u \in Threads : InRate(u)' => op'[u] = op[u]
  BY <1>2 DEF InRate
<1>6. \A m \in Releasing : vmRate[m] # 0 => m \in Releasing'
  <2>1. \A u \in Threads : InRate(u) /\ op[u].call # "setrate" /\ vmRate[op[u].vm] # 0 => u # t
    BY <1>3
  <2>2. \A u \in Threads : InRate(u) /\ op[u].call # "setrate" /\ vmRate[op[u].vm] # 0 =>
          InRate(u)' /\ op'[u].call # "setrate" /\ op'[u].vm = op[u].vm
    BY <1>5, <2>1
  <2> QED
    BY <2>2 DEF Releasing
<1>7. RatesAsked'
  <2>1. \A u \in Threads : Locking(u)' <=> fastClockMutex' = u
    BY <1>2 DEF Clocked, RatesAsked, Locking, rates
  <2>2. \A m \in VMs : m \notin Listed' /\ (\A u \in Threads : op'[u].vm # m) => vmRate'[m] = 0
    BY <1>2, <1>3 DEF Clocked, RatesAsked, rates
  <2>3. \A u \in Threads : InRate(u)' /\ op'[u].call # "setrate" => op'[u].rate = 0
    BY <1>5 DEF Clocked, RatesAsked
  <2> QED
    BY <2>1, <2>2, <2>3 DEF RatesAsked
<1>8. RateOfMachine'
  BY <1>2, <1>6 DEF Clocked, RateOfMachine, rates
<1>9. MaxOfMachine'
  <2> SUFFICES ASSUME NEW u \in Threads, pc'[u] \in {"commit", "thread"}
               PROVE  /\ \A m \in Listed \ {op[u].vm} : vmRate[m] <= op[u].max
                      /\ op[u].rate <= op[u].max
                      /\ op[u].max # op[u].rate =>
                           \E m \in (Listed \cup Releasing') \ {op[u].vm} : vmRate[m] = op[u].max
                      /\ op[u].call # "setrate" => op[u].max <= globalFastClockRate
                      /\ op'[u] = op[u]
    BY <1>2 DEF MaxOfMachine, rates
  <2>1. op'[u] = op[u] /\ pc[u] \in {"commit", "thread"}
    BY <1>2
  <2>2. op[u].rate \in Nat /\ op[u].max \in Nat
    BY LifecycleAssumption DEF Ops
  <2>3. op[u].max # op[u].rate => op[u].max # 0
    BY <2>1, <2>2 DEF Clocked, MaxOfMachine
  <2> QED
    BY <1>6, <2>1, <2>3 DEF Clocked, MaxOfMachine
<1>10. ClockExact'
  BY <1>2 DEF Clocked, ClockExact, rates
<1> QED
  BY <1>2, <1>4, <1>7, <1>8, <1>9, <1>10 DEF Clocked

LEMMA RateIsInv == ASSUME IInv, NEW t \in Threads, RateIs(t) PROVE IInv'
BY RateFoundInv DEF RateIs

LEMMA RateDiffersInv == ASSUME IInv, NEW t \in Threads, RateDiffers(t) PROVE IInv'
<1> USE DEF IInv, Typed
<1>1. InRate(t) /\ pc[t] = "setrate" /\ Goto(t, "fastclock")
      /\ UNCHANGED <<files, list, booted, rates, op>>
  BY DEF RateDiffers, InRate
<1>2. /\ \A u \in Threads \ {t} : pc'[u] = pc[u] /\ op'[u] = op[u]
      /\ pc'[t] = "fastclock" /\ op'[t] = op[t]
      /\ pc' \in [Threads -> Labels] /\ op' \in [Threads -> Ops]
      /\ OpsExact' /\ Owned' /\ Numbered' /\ Counted' /\ BootedExact' /\ Listed' = Listed
      /\ Releasing' = Releasing
  BY <1>1, RateGoesOn
<1>3. Typed'
  BY <1>1, <1>2 DEF TypeOK, files, list, ids, rates
<1>4. RatesAsked'
  BY <1>1, <1>2 DEF Clocked, RatesAsked, Locking, InRate, rates
<1>5. RateOfMachine' /\ MaxOfMachine'
  BY <1>1, <1>2 DEF Clocked, RateOfMachine, MaxOfMachine, rates
<1>6. ClockExact'
  BY <1>1, <1>2 DEF Clocked, ClockExact, rates
<1> QED
  BY <1>2, <1>3, <1>4, <1>5, <1>6 DEF Clocked

LEMMA FastClockLockInv == ASSUME IInv, NEW t \in Threads, FastClockLock(t) PROVE IInv'
<1> USE DEF IInv, Typed
<1>1. CASE vmRate[op[t].vm] = op[t].rate
  BY <1>1, RateFoundInv DEF FastClockLock, rates
<1>2. CASE vmRate[op[t].vm] # op[t].rate
  <2>1. InRate(t) /\ pc[t] = "fastclock" /\ Goto(t, "max")
        /\ fastClockMutex = NULL /\ fastClockMutex' = t
        /\ UNCHANGED <<files, list, booted, vmRate, globalFastClockRate, hostRate, clock, op>>
    BY <1>2 DEF FastClockLock, InRate
  <2>2. /\ \A u \in Threads \ {t} : pc'[u] = pc[u] /\ op'[u] = op[u]
        /\ pc'[t] = "max" /\ op'[t] = op[t]
        /\ pc' \in [Threads -> Labels] /\ op' \in [Threads -> Ops]
        /\ OpsExact' /\ Owned' /\ Numbered' /\ Counted' /\ BootedExact' /\ Listed' = Listed
        /\ Releasing' = Releasing
    BY <2>1, RateGoesOn
  <2>3. Typed'
    BY <2>1, <2>2 DEF TypeOK, files, list, ids
  <2>4. RatesAsked'
    <3>1. \A u \in Threads : ~Locking(u)
      BY <2>1, LifecycleAssumption DEF Clocked, RatesAsked
    <3>2. \A u \in Threads : Locking(u)' <=> u = t
      BY <2>2, <3>1 DEF Locking
    <3>3. \A m \in VMs : m \notin Listed' /\ (\A u \in Threads : op'[u].vm # m) => vmRate'[m] = 0
      BY <2>1, <2>2 DEF Clocked, RatesAsked
    <3>4. \A u \in Threads : InRate(u)' /\ op'[u].call # "setrate" => op'[u].rate = 0
      BY <2>1, <2>2 DEF Clocked, RatesAsked, InRate
    <3> QED
      BY <2>1, <3>2, <3>3, <3>4 DEF RatesAsked
  <2>5. RateOfMachine' /\ MaxOfMachine'
    BY <2>1, <2>2 DEF Clocked, RateOfMachine, MaxOfMachine
  <2>6. ClockExact'
    BY <2>1, <2>2 DEF Clocked, ClockExact
  <2> QED
    BY <2>2, <2>3, <2>4, <2>5, <2>6 DEF Clocked
<1> QED
  BY <1>1, <1>2

\* The thread that has the lock is the only one that has it.
LEMMA OneHolder ==
  ASSUME IInv, NEW t \in Threads, Locking(t)
  PROVE  \A u \in Threads \ {t} : pc[u] \notin {"max", "commit", "thread"}
BY DEF IInv, Clocked, RatesAsked, Locking

LEMMA MaxRateInv == ASSUME IInv, NEW t \in Threads, MaxRate(t) PROVE IInv'
<1> USE DEF IInv, Typed
<1>1. InRate(t) /\ Locking(t) /\ pc[t] = "max" /\ Goto(t, "commit")
      /\ UNCHANGED <<files, list, booted, rates>>
  BY DEF MaxRate, InRate, Locking
<1>2. PICK max : /\ max = Max({op[t].rate} \cup {vmRate[m] : m \in Listed \ {op[t].vm}})
                 /\ op' = [op EXCEPT ![t].max = max]
  BY DEF MaxRate
<1>3. /\ op[t].rate \in Rates /\ op[t].vm \in VMs
      /\ op[t].call # "setrate" => op[t].rate = 0
  BY <1>1, RateMachine
<1>4. /\ max = op[t].rate \/ \E n \in Listed \ {op[t].vm} : max = vmRate[n]
      /\ op[t].rate <= max /\ \A n \in Listed \ {op[t].vm} : vmRate[n] <= max
  <2>1. \A m : \A rate \in Rates : \A x : x = Max({rate} \cup {vmRate[n] : n \in Listed \ {m}}) =>
          /\ x = rate \/ \E n \in Listed \ {m} : x = vmRate[n]
          /\ rate <= x /\ \A n \in Listed \ {m} : vmRate[n] <= x
    BY MaxOfRates
  <2>2. \A x : x = Max({op[t].rate} \cup {vmRate[n] : n \in Listed \ {op[t].vm}}) =>
          /\ x = op[t].rate \/ \E n \in Listed \ {op[t].vm} : x = vmRate[n]
          /\ op[t].rate <= x /\ \A n \in Listed \ {op[t].vm} : vmRate[n] <= x
    BY <1>3, <2>1, Zenon
  <2> QED
    BY <1>2, <2>2, Zenon
<1>5. Listed \subseteq VMs
  BY DEF TypeOK, Listed, ToSet
<1>6. max \in Rates
  BY <1>3, <1>4, <1>5 DEF TypeOK
<1>7. /\ \A u \in Threads \ {t} : pc'[u] = pc[u] /\ op'[u] = op[u]
      /\ pc'[t] = "commit" /\ op'[t].call = op[t].call /\ op'[t].vm = op[t].vm
      /\ op'[t].rate = op[t].rate
      /\ pc' \in [Threads -> Labels] /\ op' \in [Threads -> Ops]
      /\ OpsExact' /\ Owned' /\ Numbered' /\ Counted' /\ BootedExact' /\ Listed' = Listed
      /\ Releasing' = Releasing
  BY <1>1, <1>2, <1>6, RateGoesOn
<1>8. op'[t].max = max
  BY <1>2 DEF Ops
<1>9. Typed'
  BY <1>1, <1>7 DEF TypeOK, files, list, ids, rates
<1>10. RatesAsked'
  <2>1. \A u \in Threads : Locking(u)' <=> fastClockMutex' = u
    BY <1>1, <1>7 DEF Clocked, RatesAsked, Locking, rates
  <2>2. \A m \in VMs : m \notin Listed' /\ (\A u \in Threads : op'[u].vm # m) => vmRate'[m] = 0
    BY <1>1, <1>7 DEF Clocked, RatesAsked, rates
  <2>3. \A u \in Threads : InRate(u)' /\ op'[u].call # "setrate" => op'[u].rate = 0
    BY <1>1, <1>7 DEF Clocked, RatesAsked, InRate
  <2> QED
    BY <2>1, <2>2, <2>3 DEF RatesAsked
<1>11. RateOfMachine'
  BY <1>1, <1>7 DEF Clocked, RateOfMachine, rates
<1>12. MaxOfMachine'
  <2>1. \A u \in Threads : pc'[u] \in {"commit", "thread"} => u = t
    BY <1>1, <1>7, OneHolder
  <2>2. op[t].call # "setrate" => max <= globalFastClockRate
    <3>1. globalFastClockRate \in Nat
      BY LifecycleAssumption DEF TypeOK
    <3> QED
      BY <1>3, <1>4, <3>1 DEF Clocked, RateOfMachine
  <2> QED
    BY <1>1, <1>4, <1>7, <1>8, <2>1, <2>2 DEF MaxOfMachine, rates
<1>13. ClockExact'
  <2>1. \A u \in Threads : pc[u] # "thread" /\ pc'[u] # "thread"
    BY <1>1, <1>7, OneHolder
  <2> QED
    BY <1>1, <2>1 DEF Clocked, ClockExact, rates
<1> QED
  BY <1>7, <1>9, <1>10, <1>11, <1>12, <1>13 DEF Clocked

LEMMA StoreHostRateInv == ASSUME IInv, NEW t \in Threads, StoreHostRate(t) PROVE IInv'
<1> USE DEF IInv, Typed
<1>1. InRate(t) /\ Locking(t) /\ pc[t] = "commit" /\ Goto(t, "thread") /\ hostRate' = op[t].max
      /\ UNCHANGED <<files, list, booted, vmRate, globalFastClockRate, clock, fastClockMutex, op>>
  BY DEF StoreHostRate, InRate, Locking
<1>2. /\ \A u \in Threads \ {t} : pc'[u] = pc[u] /\ op'[u] = op[u]
      /\ pc'[t] = "thread" /\ op'[t] = op[t]
      /\ pc' \in [Threads -> Labels] /\ op' \in [Threads -> Ops]
      /\ OpsExact' /\ Owned' /\ Numbered' /\ Counted' /\ BootedExact' /\ Listed' = Listed
      /\ Releasing' = Releasing
  BY <1>1, RateGoesOn
<1>3. Typed'
  BY <1>1, <1>2, RateMachine DEF TypeOK, files, list, ids
<1>4. RatesAsked'
  BY <1>1, <1>2 DEF Clocked, RatesAsked, Locking, InRate
<1>5. RateOfMachine' /\ MaxOfMachine'
  BY <1>1, <1>2 DEF Clocked, RateOfMachine, MaxOfMachine
<1>6. ClockExact'
  <2>1. \A u \in Threads : pc[u] # "thread" /\ (pc'[u] = "thread" <=> u = t)
    BY <1>1, <1>2, OneHolder
  <2>2. globalFastClockRate \in Nat /\ MIN_RATE \in Nat
    BY LifecycleAssumption DEF TypeOK
  <2> QED
    BY <1>1, <1>2, <2>1, <2>2 DEF Clocked, ClockExact
<1> QED
  BY <1>2, <1>3, <1>4, <1>5, <1>6 DEF Clocked

\* Once the thread with the lock has set the clock to the rate it computed.
LEMMA RateSetInv ==
  ASSUME IInv, NEW t \in Threads, pc[t] \in {"commit", "thread"}, RateSet(t),
         globalFastClockRate' = op[t].max,
         UNCHANGED <<files, list, booted, hostRate>>,
         clock' = IF op[t].max > MIN_RATE THEN "running" ELSE "none",
         clock' = "running" => hostRate = op[t].max
  PROVE  IInv'
<1> USE DEF IInv, Typed
<1>1. InRate(t) /\ Locking(t)
  BY DEF InRate, Locking
<1>2. PICK m \in VMs : m = op[t].vm
  BY <1>1, RateMachine
<1>3. /\ \A u \in Threads \ {t} : pc'[u] = pc[u] /\ op'[u] = op[u]
      /\ \/ op[t].call = "setrate" /\ pc'[t] = "idle" /\ op'[t] = NoOp
         \/ op[t].call # "setrate" /\ pc'[t] = "free" /\ op'[t] = op[t]
      /\ pc' \in [Threads -> Labels] /\ op' \in [Threads -> Ops]
      /\ OpsExact' /\ Owned' /\ Numbered' /\ Counted' /\ BootedExact' /\ Listed' = Listed
  BY <1>1, RateDoneInv DEF RateSet
<1>4. /\ op[t].rate \in Rates /\ op[t].max \in Rates
      /\ (op[t].call = "setrate" => m \in Listed)
      /\ (op[t].call # "setrate" => op[t].rate = 0)
  BY <1>1, <1>2, RateMachine
<1>5. Listed \subseteq VMs
  BY DEF TypeOK, Listed, ToSet
<1>6. vmRate' = [vmRate EXCEPT ![m] = op[t].rate] /\ fastClockMutex' = NULL
  BY <1>2 DEF RateSet
<1>7. \A n \in VMs : vmRate'[n] = IF n = m THEN op[t].rate ELSE vmRate[n]
  BY <1>6 DEF TypeOK
<1>8. \A u \in Threads : pc'[u] \notin {"max", "commit", "thread"}
  BY <1>1, <1>3, OneHolder
<1>9. Typed'
  <2>1. vmRate' \in [VMs -> Rates]
    BY <1>4, <1>6 DEF TypeOK
  <2>2. clock' \in {"none", "running", "parked"}
    OBVIOUS
  <2> QED
    BY <1>3, <1>4, <1>6, <2>1, <2>2 DEF TypeOK, files, list, ids
<1>10. RatesAsked'
  <2>1. \A u \in Threads : Locking(u)' <=> fastClockMutex' = u
    BY <1>6, <1>8, LifecycleAssumption DEF Locking
  <2>2. \A n \in VMs : n \notin Listed' /\ (\A u \in Threads : op'[u].vm # n) => vmRate'[n] = 0
    <3>1. op[t].call # "setrate" => op'[t].vm = m
      BY <1>2, <1>3
    <3>2. \A n \in VMs : n \notin Listed' /\ (\A u \in Threads : op'[u].vm # n) =>
            n # m /\ \A u \in Threads : op[u].vm # n
      BY <1>2, <1>3, <1>4, <3>1
    <3> QED
      BY <1>3, <1>7, <3>2 DEF Clocked, RatesAsked
  <2>3. \A u \in Threads : InRate(u)' /\ op'[u].call # "setrate" => op'[u].rate = 0
    BY <1>3 DEF Clocked, RatesAsked, InRate
  <2> QED
    BY <2>1, <2>2, <2>3 DEF RatesAsked
<1>11. RateOfMachine'
  <2>1. \A n \in Listed : vmRate'[n] <= op[t].max
    BY <1>2, <1>5, <1>7 DEF Clocked, MaxOfMachine
  <2>2. ASSUME op[t].max # 0, op[t].max = op[t].rate
        PROVE  \E n \in Listed \cup Releasing' : vmRate'[n] = op[t].max
    BY <1>4, <1>7, <2>2
  <2>3. ASSUME op[t].max # op[t].rate
        PROVE  \E n \in Listed \cup Releasing' : vmRate'[n] = op[t].max
    <3>1. PICK n \in (Listed \cup Releasing) \ {m} : vmRate[n] = op[t].max
      BY <1>2, <2>3 DEF Clocked, MaxOfMachine
    <3>2. n \in VMs
      <4>1. \A u \in Threads : InRate(u) => op[u].vm \in VMs
        BY RateMachine
      <4> QED
        BY <1>5, <4>1 DEF Releasing
    <3>3. n \in Listed \cup Releasing'
      <4>1. CASE n \in Listed
        BY <4>1
      <4>2. CASE n \in Releasing
        <5>1. PICK u \in Threads : InRate(u) /\ op[u].call # "setrate" /\ op[u].vm = n
          BY <4>2 DEF Releasing
        <5>2. InRate(u)' /\ op'[u].call # "setrate" /\ op'[u].vm = n
          BY <1>2, <1>3, <5>1 DEF InRate
        <5> QED
          BY <5>2 DEF Releasing
      <4> QED
        BY <4>1, <4>2
    <3> QED
      BY <1>7, <3>1, <3>2, <3>3
  <2> QED
    BY <1>3, <2>1, <2>2, <2>3 DEF RateOfMachine
<1>12. MaxOfMachine'
  BY <1>8 DEF MaxOfMachine
<1>13. ClockExact'
  BY <1>8 DEF ClockExact
<1> QED
  BY <1>3, <1>9, <1>10, <1>11, <1>12, <1>13 DEF Clocked

LEMMA KeepClockInv == ASSUME IInv, NEW t \in Threads, KeepClock(t) PROVE IInv'
<1>1. pc[t] = "commit" /\ Locking(t)
  BY DEF KeepClock, Locking
<1>2. \A u \in Threads : pc[u] # "thread"
  BY <1>1, OneHolder
<1>3. clock = (IF globalFastClockRate > MIN_RATE THEN "running" ELSE "none")
      /\ (clock = "running" => hostRate = globalFastClockRate)
  BY <1>2 DEF IInv, Clocked, ClockExact
<1>4. /\ op[t].max = globalFastClockRate /\ RateSet(t)
      /\ UNCHANGED <<files, list, booted, globalFastClockRate, hostRate, clock>>
  BY DEF KeepClock
<1> QED
  BY <1>1, <1>3, <1>4, RateSetInv

LEMMA SetFastClockRateInv == ASSUME IInv, NEW t \in Threads, SetFastClockRate(t) PROVE IInv'
<1>1. /\ pc[t] = "thread" /\ RateSet(t) /\ globalFastClockRate' = op[t].max
      /\ UNCHANGED <<files, list, booted, hostRate>>
      /\ clock' = IF hostRate <= MIN_RATE THEN "none" ELSE IF clock = "none" THEN "running" ELSE clock
  BY DEF SetFastClockRate
<1>2. hostRate = op[t].max /\ (clock = "parked" => hostRate <= MIN_RATE)
      /\ clock \in {"none", "running", "parked"} /\ hostRate \in Nat /\ MIN_RATE \in Nat
  BY <1>1, LifecycleAssumption DEF IInv, Typed, TypeOK, Clocked, ClockExact
<1>3. clock' = IF op[t].max > MIN_RATE THEN "running" ELSE "none"
  BY <1>1, <1>2
<1> QED
  BY <1>1, <1>2, <1>3, RateSetInv

\* Only an ioctl finds no thread: a machine that goes takes the rate down.
LEMMA NoClockThreadInv == ASSUME IInv, NEW t \in Threads, NoClockThread(t) PROVE IInv'
<1> USE DEF IInv, Typed
<1>1. /\ pc[t] = "thread" /\ InRate(t) /\ Locking(t) /\ RateDone(t) /\ hostRate > MIN_RATE
      /\ clock = "none" /\ fastClockMutex' = NULL
      /\ UNCHANGED <<files, list, booted, vmRate, globalFastClockRate, hostRate, clock>>
  BY DEF NoClockThread, InRate, Locking
<1>2. globalFastClockRate <= MIN_RATE /\ op[t].call = "setrate"
  <2>1. hostRate = op[t].max /\ globalFastClockRate <= MIN_RATE
    BY <1>1 DEF Clocked, ClockExact
  <2>2. hostRate \in Nat /\ globalFastClockRate \in Nat /\ MIN_RATE \in Nat
    BY LifecycleAssumption DEF TypeOK
  <2>3. op[t].call # "setrate" => op[t].max <= globalFastClockRate
    BY <1>1 DEF Clocked, MaxOfMachine
  <2> QED
    BY <1>1, <2>1, <2>2, <2>3
<1>3. /\ \A u \in Threads \ {t} : pc'[u] = pc[u] /\ op'[u] = op[u]
      /\ pc'[t] = "idle" /\ op'[t] = NoOp
      /\ pc' \in [Threads -> Labels] /\ op' \in [Threads -> Ops]
      /\ OpsExact' /\ Owned' /\ Numbered' /\ Counted' /\ BootedExact' /\ Listed' = Listed
  BY <1>1, <1>2, RateDoneInv
<1>4. \A u \in Threads : pc'[u] \notin {"max", "commit", "thread"}
  BY <1>1, <1>3, OneHolder
<1>5. op[t].vm \in Listed
  BY <1>1, <1>2, RateMachine
<1>6. Typed'
  BY <1>1, <1>3 DEF TypeOK, files, list, ids
<1>7. Releasing' = Releasing
  <2>1. \A u \in Threads : InRate(u)' /\ op'[u].call # "setrate" <=> InRate(u) /\ op[u].call # "setrate"
    BY <1>2, <1>3 DEF InRate, NoOp
  <2>2. \A u \in Threads : InRate(u)' => op'[u].vm = op[u].vm
    BY <1>3 DEF InRate
  <2> QED
    BY <2>1, <2>2 DEF Releasing
<1>8. RatesAsked'
  <2>1. \A u \in Threads : Locking(u)' <=> fastClockMutex' = u
    BY <1>1, <1>4, LifecycleAssumption DEF Locking
  <2>2. \A m \in VMs : m \notin Listed' /\ (\A u \in Threads : op'[u].vm # m) => vmRate'[m] = 0
    BY <1>1, <1>3, <1>5 DEF Clocked, RatesAsked
  <2>3. \A u \in Threads : InRate(u)' /\ op'[u].call # "setrate" => op'[u].rate = 0
    BY <1>3 DEF Clocked, RatesAsked, InRate
  <2> QED
    BY <2>1, <2>2, <2>3 DEF RatesAsked
<1>9. RateOfMachine'
  BY <1>1, <1>3, <1>7 DEF Clocked, RateOfMachine
<1>10. MaxOfMachine'
  BY <1>4 DEF MaxOfMachine
<1>11. ClockExact'
  <2>1. globalFastClockRate \in Nat /\ MIN_RATE \in Nat
    BY LifecycleAssumption DEF TypeOK
  <2> QED
    BY <1>1, <1>2, <1>4, <2>1 DEF ClockExact
<1> QED
  BY <1>3, <1>6, <1>8, <1>9, <1>10, <1>11 DEF Clocked

\* The clock's thread leaves its loop only for a thread that is about to stop it.
LEMMA ClockParksInv == ASSUME IInv, ClockParks PROVE IInv'
<1> USE DEF IInv, Typed
<1>1. /\ clock = "running" /\ hostRate <= MIN_RATE /\ clock' = "parked"
      /\ UNCHANGED <<files, list, booted, vmRate, globalFastClockRate, hostRate,
                     fastClockMutex, pc, op>>
      /\ Listed' = Listed
  BY DEF ClockParks, Listed, list
<1>2. hostRate \in Nat /\ globalFastClockRate \in Nat /\ MIN_RATE \in Nat
  BY LifecycleAssumption DEF TypeOK
<1>3. Typed'
  BY <1>1 DEF TypeOK, files, list, ids
<1>4. OpsExact'
  BY <1>1 DEF OpsExact, InRate
<1>5. Owned'
  BY <1>1 DEF Owned, Alone, Opened, FilesOwn, ThreadsOwn, NobodyElse, SomeonesOwn, Frees,
     InRate, files
<1>6. Numbered'
  BY <1>1, NumberedKept
<1>7. Counted' /\ BootedExact'
  BY <1>1 DEF Counted, Closing, BootedExact, Frees, InRate, files
<1>8. RatesAsked' /\ RateOfMachine' /\ MaxOfMachine'
  BY <1>1 DEF Clocked, RatesAsked, RateOfMachine, MaxOfMachine, Releasing, Locking, InRate
<1>9. ClockExact'
  <2>1. \E t \in Threads : pc[t] = "thread"
    BY <1>1, <1>2 DEF Clocked, ClockExact
  <2> QED
    BY <1>1, <2>1 DEF Clocked, ClockExact
<1> QED
  BY <1>3, <1>4, <1>5, <1>6, <1>7, <1>8, <1>9 DEF Clocked
-----------------------------------------------------------------------------
(* Chains of IDs in an array, from a head on.                                *)

Nexts == [IDs -> IDs \cup {INVALID_VMID}]
Heads == IDs \cup {INVALID_VMID}

ClosedFrom(next, head, S) ==
  /\ head \in IDs => head \in S
  /\ \A e \in S : next[e] \in IDs => next[e] \in S

Linked(next, head) == {id \in IDs : \A S \in SUBSET IDs : ClosedFrom(next, head, S) => id \in S}

\* A chain has its head and what follows, and is the least such set.
LEMMA LinkedClosed ==
  ASSUME NEW next, NEW head
  PROVE  ClosedFrom(next, head, Linked(next, head)) /\ Linked(next, head) \in SUBSET IDs
<1>1. head \in IDs => head \in Linked(next, head)
  BY DEF Linked, ClosedFrom
<1>2. ASSUME NEW e \in Linked(next, head), next[e] \in IDs PROVE next[e] \in Linked(next, head)
  BY <1>2 DEF Linked, ClosedFrom
<1> QED
  BY <1>1, <1>2 DEF ClosedFrom, Linked

LEMMA LinkedLeast ==
  ASSUME NEW next, NEW head, NEW S \in SUBSET IDs, ClosedFrom(next, head, S)
  PROVE  Linked(next, head) \subseteq S
BY DEF Linked

\* What is in a chain is its head or follows another in it.
LEMMA LinkedFollows ==
  ASSUME NEW next, NEW head, NEW id \in Linked(next, head), id # head
  PROVE  \E e \in Linked(next, head) : next[e] = id
<1> DEFINE L == Linked(next, head)
           S == {j \in L : j = head \/ \E e \in L : next[e] = j}
<1>1. ClosedFrom(next, head, L) /\ L \in SUBSET IDs
  BY LinkedClosed
<1>2. S \in SUBSET IDs
  BY <1>1
<1>3. ClosedFrom(next, head, S)
  BY <1>1 DEF ClosedFrom
<1>4. L \subseteq S
  BY <1>2, <1>3, LinkedLeast
<1> QED
  BY <1>4

\* The chain of a head is the head and the chain of the next.
LEMMA LinkedHead ==
  ASSUME NEW next, NEW head \in IDs
  PROVE  Linked(next, head) = {head} \cup Linked(next, next[head])
<1> DEFINE L == Linked(next, head)
           N == Linked(next, next[head])
<1>1. ClosedFrom(next, head, L) /\ L \in SUBSET IDs
  BY LinkedClosed
<1>2. ClosedFrom(next, next[head], N) /\ N \in SUBSET IDs
  BY LinkedClosed
<1>3. ClosedFrom(next, head, {head} \cup N) /\ {head} \cup N \in SUBSET IDs
  BY <1>2 DEF ClosedFrom
<1>4. L \subseteq {head} \cup N
  BY <1>3, LinkedLeast
<1>5. ClosedFrom(next, next[head], L)
  BY <1>1 DEF ClosedFrom
<1>6. N \subseteq L
  BY <1>1, <1>5, LinkedLeast
<1> QED
  BY <1>1, <1>4, <1>6 DEF ClosedFrom

\* A chain depends on what it has.
LEMMA LinkedKept ==
  ASSUME NEW next, NEW new, NEW head, \A e \in Linked(next, head) : new[e] = next[e]
  PROVE  Linked(new, head) = Linked(next, head)
<1> DEFINE L == Linked(next, head)
           M == Linked(new, head)
<1>1. ClosedFrom(next, head, L) /\ L \in SUBSET IDs
  BY LinkedClosed
<1>2. ClosedFrom(new, head, M) /\ M \in SUBSET IDs
  BY LinkedClosed
<1>3. ClosedFrom(new, head, L)
  BY <1>1 DEF ClosedFrom
<1>4. M \subseteq L
  BY <1>1, <1>3, LinkedLeast
<1>5. ClosedFrom(next, head, M)
  <2>1. \A e \in M : new[e] = next[e]
    BY <1>4
  <2> QED
    BY <1>2, <2>1 DEF ClosedFrom
<1>6. L \subseteq M
  BY <1>2, <1>5, LinkedLeast
<1> QED
  BY <1>4, <1>6

\* Two chains in one array that nothing else points into.
Unshared(next, a, b) ==
  /\ \A e, j \in IDs : next[e] = next[j] /\ next[e] # INVALID_VMID => e = j
  /\ \A e \in IDs : next[e] # INVALID_VMID => next[e] \notin {a, b}

\* The head of one chain becomes the head of the other.
LEMMA HeadMoves ==
  ASSUME NEW next \in Nexts, NEW h \in IDs, NEW q \in Heads, Unshared(next, h, q),
         Linked(next, h) \cap Linked(next, q) = {},
         NEW new, new = [next EXCEPT ![h] = q]
  PROVE  /\ Linked(new, next[h]) = Linked(next, h) \ {h}
         /\ Linked(new, h) = Linked(next, q) \cup {h}
         /\ new \in Nexts /\ Unshared(new, next[h], h)
<1>1. /\ \A e \in IDs \ {h} : new[e] = next[e]
      /\ new[h] = q /\ new \in Nexts
  BY DEF Nexts, Heads
<1>2. h \in Linked(next, h) /\ h \notin Linked(next, q)
  BY LinkedClosed DEF ClosedFrom
<1>3. INVALID_VMID \notin IDs
  BY LifecycleAssumption DEF INVALID_VMID, IDs
<1>4. h \notin Linked(next, next[h])
  <2>1. SUFFICES ASSUME h \in Linked(next, next[h]) PROVE FALSE
    OBVIOUS
  <2>2. h # next[h]
    BY <1>3 DEF Unshared
  <2>3. PICK e \in Linked(next, next[h]) : next[e] = h
    BY <2>1, <2>2, LinkedFollows
  <2>4. e \in IDs
    BY LinkedClosed
  <2> QED
    BY <1>3, <2>3, <2>4 DEF Unshared
<1>5. Linked(new, next[h]) = Linked(next, h) \ {h}
  <2>1. Linked(next, h) = {h} \cup Linked(next, next[h])
    BY LinkedHead
  <2>2. Linked(next, next[h]) \in SUBSET IDs
    BY LinkedClosed
  <2>3. \A n : (\A e \in Linked(next, n) : new[e] = next[e]) => Linked(new, n) = Linked(next, n)
    BY LinkedKept
  <2>4. Linked(new, next[h]) = Linked(next, next[h])
    BY <1>1, <1>4, <2>2, <2>3
  <2> QED
    BY <1>4, <2>1, <2>4
<1>6. Linked(new, h) = Linked(next, q) \cup {h}
  <2>1. Linked(next, q) \in SUBSET IDs
    BY LinkedClosed
  <2>2. \A e \in Linked(next, q) : new[e] = next[e]
    BY <1>1, <1>2, <2>1
  <2>3. Linked(new, q) = Linked(next, q)
    BY <2>2, LinkedKept
  <2>4. Linked(new, h) = {h} \cup Linked(new, new[h])
    BY LinkedHead
  <2> QED
    BY <1>1, <2>3, <2>4
<1>7. q \in IDs => q # h
  BY <1>2, LinkedClosed DEF ClosedFrom
<1>8. Unshared(new, next[h], h)
  BY <1>1, <1>3, <1>7 DEF Unshared, Nexts, Heads
<1> QED
  BY <1>1, <1>5, <1>6, <1>8

\* What follows p in the one chain becomes the head of the other.
LEMMA LaterMoves ==
  ASSUME NEW next \in Nexts, NEW a \in Heads, NEW q \in Heads, Unshared(next, a, q),
         Linked(next, a) \cap Linked(next, q) = {},
         NEW p \in Linked(next, a), NEW id \in Linked(next, a), next[p] = id, id # a,
         NEW new \in Nexts, \A j \in IDs \ {p, id} : new[j] = next[j],
         p # id => new[p] = next[id], new[id] = q
  PROVE  /\ Linked(new, a) = Linked(next, a) \ {id}
         /\ Linked(new, id) = Linked(next, q) \cup {id}
         /\ Unshared(new, a, id)
<1> DEFINE A == Linked(next, a)
           U == Linked(next, q)
           N == Linked(new, a)
<1>1. ClosedFrom(next, a, A) /\ A \in SUBSET IDs /\ U \in SUBSET IDs
  BY LinkedClosed
<1>2. INVALID_VMID \notin IDs
  BY LifecycleAssumption DEF INVALID_VMID, IDs
<1>3. \A j \in IDs : next[j] = id => j = p
  BY <1>1, <1>2 DEF Unshared
<1>4. p # id
  <2>1. SUFFICES ASSUME p = id PROVE FALSE
    OBVIOUS
  <2>2. ClosedFrom(next, a, A \ {id}) /\ A \ {id} \in SUBSET IDs
    BY <1>1, <1>3, <2>1 DEF ClosedFrom
  <2>3. A \subseteq A \ {id}
    BY <2>2, LinkedLeast
  <2> QED
    BY <2>3
<1>5. /\ \A j \in IDs \ {p, id} : new[j] = next[j]
      /\ new[p] = next[id] /\ new[id] = q
  BY <1>4
<1>6. next[id] # id
  BY <1>1, <1>3, <1>4
<1>7. ClosedFrom(new, a, A \ {id}) /\ A \ {id} \in SUBSET IDs
  <2>1. \A j \in A \ {id} : new[j] \in IDs => new[j] \in A /\ new[j] # id
    BY <1>1, <1>3, <1>5, <1>6 DEF ClosedFrom
  <2> QED
    BY <1>1, <2>1 DEF ClosedFrom
<1>8. N \subseteq A \ {id}
  BY <1>7, LinkedLeast
<1>9. ClosedFrom(new, a, N)
  BY LinkedClosed
<1>10. A \subseteq N \cup {id}
  <2> DEFINE S == N \cup {j \in {id} : p \in N}
  <2>1. \A j \in S : next[j] \in IDs => next[j] \in S
    <3>1. ASSUME NEW j \in S, next[j] \in IDs, j = id PROVE next[j] \in S
      BY <1>5, <1>8, <1>9, <3>1 DEF ClosedFrom
    <3>2. ASSUME NEW j \in S, next[j] \in IDs, j = p PROVE next[j] \in S
      BY <1>4, <3>2
    <3>3. ASSUME NEW j \in S, next[j] \in IDs, j # id, j # p PROVE next[j] \in S
      BY <1>1, <1>5, <1>8, <1>9, <3>3 DEF ClosedFrom
    <3> QED
      BY <3>1, <3>2, <3>3
  <2>2. ClosedFrom(next, a, S) /\ S \in SUBSET IDs
    BY <1>1, <1>8, <1>9, <2>1 DEF ClosedFrom
  <2>3. A \subseteq S
    BY <2>2, LinkedLeast
  <2> QED
    BY <2>3
<1>11. Linked(new, id) = U \cup {id}
  <2>1. \A n : (\A e \in Linked(next, n) : new[e] = next[e]) => Linked(new, n) = Linked(next, n)
    BY LinkedKept
  <2>2. Linked(new, q) = U
    BY <1>1, <1>5, <2>1
  <2>3. Linked(new, id) = {id} \cup Linked(new, new[id])
    BY <1>1, LinkedHead
  <2> QED
    BY <1>5, <2>2, <2>3
<1>12. a \in IDs => a \in A
  BY <1>1 DEF ClosedFrom
<1>13. q \in IDs => q \in U
  BY LinkedClosed DEF ClosedFrom
<1>14. q \in IDs => q # a /\ q # id
  BY <1>1, <1>12, <1>13
<1>15. Unshared(new, a, id)
  <2>1. \A j, k \in IDs : new[j] = new[k] /\ new[j] # INVALID_VMID => j = k
    <3>1. \A j \in IDs \ {p, id} : new[j] # INVALID_VMID => new[j] # next[id] /\ new[j] # q
      BY <1>1, <1>5 DEF Unshared
    <3>2. next[id] # INVALID_VMID => next[id] # q
      BY <1>1 DEF Unshared
    <3>3. \A j, k \in IDs \ {p, id} : new[j] = new[k] /\ new[j] # INVALID_VMID => j = k
      BY <1>5 DEF Unshared
    <3> QED
      BY <1>5, <3>1, <3>2, <3>3
  <2>2. ASSUME NEW j \in IDs, new[j] # INVALID_VMID PROVE new[j] \notin {a, id}
    <3>1. CASE j = p
      BY <1>1, <1>5, <1>6, <2>2, <3>1 DEF Unshared
    <3>2. CASE j = id
      BY <1>5, <1>14, <2>2, <3>2 DEF Heads
    <3>3. CASE j # p /\ j # id
      BY <1>3, <1>5, <2>2, <3>3 DEF Unshared
    <3> QED
      BY <3>1, <3>2, <3>3
  <2> QED
    BY <2>1, <2>2 DEF Unshared
<1> QED
  BY <1>8, <1>10, <1>11, <1>15
-----------------------------------------------------------------------------
(* The list of machines, and its IDs.                                        *)

LEMMA ChainIsLinked == ASSUME NEW h PROVE Chain(h) = Linked(vmIDList, h)
BY DEF Chain, Linked, ClosedFrom

\* As many machines and IDs as the list is long.
LEMMA ListCounts ==
  ASSUME Typed, Numbered
  PROVE  /\ Listed \in SUBSET VMs /\ IsFiniteSet(Listed) /\ Cardinality(Listed) = vmCount
         /\ Cardinality(Chain(vmIDsAllocated)) = vmCount
<1> DEFINE n == Len(vmDriverList)
           f == [e \in 1 .. n |-> vmDriverList[e]]
           N == {userID[m] - 1 : m \in Listed}
           g == [m \in Listed |-> userID[m] - 1]
<1>1. Listed \subseteq VMs /\ n \in Nat /\ DOMAIN vmDriverList = 1 .. n
  BY DEF Typed, TypeOK, Listed, ToSet
<1>2. f \in Surjection(1 .. n, Listed)
  BY <1>1 DEF Surjection, Listed, ToSet
<1>3. f \in Injection(1 .. n, Listed)
  BY <1>1, <1>2 DEF Numbered, Injection, IsInjective, Surjection
<1>4. IsFiniteSet(1 .. n) /\ Cardinality(1 .. n) = n
  <2>1. \A k \in Nat : IsFiniteSet(1 .. k) /\ Cardinality(1 .. k) = k
    BY FS_Interval
  <2> QED
    BY <1>1, <2>1
<1>5. IsFiniteSet(Listed) /\ Cardinality(Listed) = n
  BY <1>2, <1>3, <1>4, FS_Surjection
<1>6. g \in Surjection(Listed, N)
  BY DEF Surjection
<1>7. g \in Injection(Listed, N)
  <2>1. \A m \in Listed : userID[m] \in Nat
    BY <1>1, LifecycleAssumption DEF Typed, TypeOK
  <2>2. \A m, k \in Listed : userID[m] - 1 = userID[k] - 1 => m = k
    BY <2>1 DEF Numbered
  <2> QED
    BY <1>6, <2>2 DEF Injection, IsInjective, Surjection
<1>8. Cardinality(N) = Cardinality(Listed)
  BY <1>5, <1>6, <1>7, FS_Surjection
<1> QED
  BY <1>1, <1>5, <1>8 DEF Numbered

\* The numbers of a list and of two chains that nothing else points into.
LEMMA NumberedAs ==
  ASSUME Numbered, Typed
  PROVE  /\ Linked(vmIDList, vmIDsAllocated) = {userID[m] - 1 : m \in Listed}
         /\ Linked(vmIDList, vmIDsUnused) = IDs \ Linked(vmIDList, vmIDsAllocated)
         /\ Unshared(vmIDList, vmIDsAllocated, vmIDsUnused)
         /\ vmIDList \in Nexts /\ vmIDsAllocated \in Heads /\ vmIDsUnused \in Heads
BY ChainIsLinked DEF Numbered, Unshared, Typed, TypeOK, Nexts, Heads

LEMMA NumberedNext ==
  ASSUME \A e, j \in DOMAIN vmDriverList' : vmDriverList'[e] = vmDriverList'[j] => e = j,
         vmCount' = Len(vmDriverList'),
         \A m \in Listed' : userID'[m] # 0,
         \A m, n \in Listed' : userID'[m] = userID'[n] => m = n,
         Linked(vmIDList', vmIDsAllocated') = {userID'[m] - 1 : m \in Listed'},
         Linked(vmIDList', vmIDsUnused') = IDs \ Linked(vmIDList', vmIDsAllocated'),
         Unshared(vmIDList', vmIDsAllocated', vmIDsUnused')
  PROVE  Numbered'
<1>1. /\ Chain(vmIDsAllocated)' = Linked(vmIDList', vmIDsAllocated')
      /\ Chain(vmIDsUnused)' = Linked(vmIDList', vmIDsUnused')
  BY DEF Chain, Linked, ClosedFrom
<1> QED
  BY <1>1 DEF Numbered, Unshared

\* A machine joins the list, with the first unused ID.
LEMMA RegisterNumbers ==
  ASSUME Typed, Numbered, NEW m \in VMs, m \notin Listed, vmCount < MAX_VMS,
         vmCount' = vmCount + 1, AllocVMID, userID' = [userID EXCEPT ![m] = vmIDsUnused + 1],
         vmDriverList' = Append(vmDriverList, m)
  PROVE  /\ Numbered' /\ Listed' = Listed \cup {m}
         /\ vmDriverList' \in Seq(VMs) /\ userID' \in [VMs -> 0 .. MAX_VMS]
         /\ vmIDList' \in Nexts /\ {vmIDsAllocated', vmIDsUnused'} \subseteq Heads
<1> DEFINE A == Linked(vmIDList, vmIDsAllocated)
           U == Linked(vmIDList, vmIDsUnused)
<1>1. /\ A = {userID[k] - 1 : k \in Listed} /\ U = IDs \ A
      /\ Unshared(vmIDList, vmIDsAllocated, vmIDsUnused)
      /\ vmIDList \in Nexts /\ vmIDsAllocated \in Heads /\ vmIDsUnused \in Heads
  BY NumberedAs
<1>2. PICK h \in IDs : h = vmIDsUnused
  <2>1. SUFFICES ASSUME vmIDsUnused = INVALID_VMID PROVE FALSE
    BY <1>1 DEF Heads
  <2>2. INVALID_VMID \notin IDs
    BY LifecycleAssumption DEF INVALID_VMID, IDs
  <2>3. Linked(vmIDList, INVALID_VMID) \subseteq {}
    <3>1. ClosedFrom(vmIDList, INVALID_VMID, {}) /\ {} \in SUBSET IDs
      BY <2>2 DEF ClosedFrom
    <3> QED
      BY <3>1, LinkedLeast
  <2>4. A = IDs
    BY <1>1, <2>1, <2>3 DEF Linked
  <2>5. Cardinality(IDs) = MAX_VMS
    BY FS_Interval, LifecycleAssumption DEF IDs
  <2>6. Cardinality(A) = vmCount
    BY ListCounts, ChainIsLinked
  <2> QED
    BY <2>4, <2>5, <2>6, LifecycleAssumption DEF Typed, TypeOK
<1>3. /\ vmIDsUnused' = vmIDList[h] /\ vmIDsAllocated' = h
      /\ vmIDList' = [vmIDList EXCEPT ![h] = vmIDsAllocated]
  BY <1>2 DEF AllocVMID
<1>4. Unshared(vmIDList, h, vmIDsAllocated) /\ U \cap A = {}
  BY <1>1, <1>2 DEF Unshared
<1>5. /\ Linked(vmIDList', vmIDsUnused') = U \ {h} /\ Linked(vmIDList', vmIDsAllocated') = A \cup {h}
      /\ vmIDList' \in Nexts /\ Unshared(vmIDList', vmIDsUnused', vmIDsAllocated')
  <2>1. Linked(vmIDList, h) \cap Linked(vmIDList, vmIDsAllocated) = {}
    BY <1>2, <1>4
  <2>2. \A new : new = [vmIDList EXCEPT ![h] = vmIDsAllocated] =>
          /\ Linked(new, vmIDList[h]) = Linked(vmIDList, h) \ {h}
          /\ Linked(new, h) = Linked(vmIDList, vmIDsAllocated) \cup {h}
          /\ new \in Nexts /\ Unshared(new, vmIDList[h], h)
    BY <1>1, <1>4, <2>1, HeadMoves
  <2> QED
    BY <1>2, <1>3, <2>2
<1>6. h \in U /\ h \notin A
  BY <1>1, <1>2, LinkedClosed DEF ClosedFrom
<1>7. /\ vmDriverList' \in Seq(VMs) /\ Len(vmDriverList') = Len(vmDriverList) + 1
      /\ \A e \in 1 .. Len(vmDriverList) : vmDriverList'[e] = vmDriverList[e]
      /\ vmDriverList'[Len(vmDriverList) + 1] = m
      /\ DOMAIN vmDriverList = 1 .. Len(vmDriverList) /\ Len(vmDriverList) \in Nat
      /\ DOMAIN vmDriverList' = 1 .. Len(vmDriverList) + 1
  BY DEF Typed, TypeOK
<1>8. Listed' = Listed \cup {m}
  <2>1. \A x \in Listed' : x \in Listed \cup {m}
    BY <1>7 DEF Listed, ToSet
  <2>2. \A x \in Listed \cup {m} : x \in Listed'
    BY <1>7 DEF Listed, ToSet
  <2> QED
    BY <2>1, <2>2
<1>9. \A e, j \in DOMAIN vmDriverList' : vmDriverList'[e] = vmDriverList'[j] => e = j
  <2>1. \A e \in 1 .. Len(vmDriverList) : vmDriverList[e] # m
    BY <1>7 DEF Listed, ToSet
  <2> QED
    BY <1>7, <2>1 DEF Numbered
<1>10. \A k \in VMs : userID'[k] = IF k = m THEN h + 1 ELSE userID[k]
  BY <1>2 DEF Typed, TypeOK
<1>11. h \in Nat /\ h < MAX_VMS /\ MAX_VMS \in Nat
  BY LifecycleAssumption DEF IDs
<1>12. userID' \in [VMs -> 0 .. MAX_VMS]
  <2>1. h + 1 \in 0 .. MAX_VMS
    BY <1>11
  <2> QED
    BY <1>2, <2>1 DEF Typed, TypeOK
<1>13. Listed \subseteq VMs /\ \A k \in Listed : userID[k] \in Nat
  BY ListCounts, LifecycleAssumption DEF Typed, TypeOK
<1>14. \A k \in Listed' : userID'[k] # 0
  BY <1>8, <1>10, <1>11, <1>13 DEF Numbered
<1>15. \A k \in Listed : userID[k] # h + 1
  BY <1>1, <1>6, <1>11, <1>13
<1>16. \A k, n \in Listed' : userID'[k] = userID'[n] => k = n
  BY <1>8, <1>10, <1>13, <1>15 DEF Numbered
<1>17. A \cup {h} = {userID'[k] - 1 : k \in Listed'}
  <2>1. \A k \in Listed : userID'[k] = userID[k]
    BY <1>10, <1>13
  <2>2. userID'[m] - 1 = h
    BY <1>10, <1>11
  <2> QED
    BY <1>1, <1>8, <2>1, <2>2
<1>18. U \ {h} = IDs \ (A \cup {h})
  BY <1>1
<1>19. Unshared(vmIDList', vmIDsAllocated', vmIDsUnused')
  BY <1>5 DEF Unshared
<1>20. {vmIDsAllocated', vmIDsUnused'} \subseteq Heads
  BY <1>1, <1>2, <1>3 DEF Heads, Nexts
<1>21. vmCount' = Len(vmDriverList')
  BY <1>7 DEF Numbered
<1>22. Numbered'
  BY <1>5, <1>9, <1>14, <1>16, <1>17, <1>18, <1>19, <1>21, NumberedNext
<1> QED
  BY <1>5, <1>7, <1>8, <1>12, <1>20, <1>22

\* A machine leaves it.
LEMMA UnlistedExact ==
  ASSUME Typed, \A e, j \in DOMAIN vmDriverList : vmDriverList[e] = vmDriverList[j] => e = j,
         NEW m \in Listed, vmDriverList' = Unlisted(m)
  PROVE  /\ vmDriverList' \in Seq(VMs) /\ Listed' = Listed \ {m}
         /\ Len(vmDriverList') = Len(vmDriverList) - 1
         /\ \A e, j \in DOMAIN vmDriverList' : vmDriverList'[e] = vmDriverList'[j] => e = j
<1>1. vmDriverList \in Seq(VMs) /\ DOMAIN vmDriverList = 1 .. Len(vmDriverList)
      /\ Len(vmDriverList) \in Nat
  BY DEF Typed, TypeOK
<1>2. PICK k : k = CHOOSE e \in DOMAIN vmDriverList : vmDriverList[e] = m
  OBVIOUS
<1>3. k \in DOMAIN vmDriverList /\ vmDriverList[k] = m
  BY <1>2 DEF Listed, ToSet
<1>4. vmDriverList' = RemoveAt(vmDriverList, k)
  BY <1>2 DEF Unlisted
<1>5. SubSeq(vmDriverList, 1, k - 1) \in Seq(VMs)
      /\ SubSeq(vmDriverList, k + 1, Len(vmDriverList)) \in Seq(VMs)
  BY <1>1, <1>3
<1>6. vmDriverList' \in Seq(VMs)
  BY <1>4, <1>5 DEF RemoveAt
<1>7. Len(vmDriverList') = Len(vmDriverList) - 1
  BY <1>1, <1>3, <1>4 DEF RemoveAt
<1>8. \A e \in 1 .. Len(vmDriverList) - 1 :
        IF e < k THEN vmDriverList'[e] = vmDriverList[e]
                 ELSE vmDriverList'[e] = vmDriverList[e + 1]
  BY <1>1, <1>3, <1>4, SMTT(40) DEF RemoveAt
<1>9. DOMAIN vmDriverList' = 1 .. Len(vmDriverList) - 1
  BY <1>6, <1>7
<1>10. \A e \in DOMAIN vmDriverList' : IF e < k THEN vmDriverList'[e] = vmDriverList[e]
                                                ELSE vmDriverList'[e] = vmDriverList[e + 1]
  BY <1>8, <1>9
<1>11. \A e, j \in DOMAIN vmDriverList' : vmDriverList'[e] = vmDriverList'[j] => e = j
  BY <1>1, <1>3, <1>9, <1>10
<1>12. Listed' = Listed \ {m}
  <2>1. ASSUME NEW x \in Listed' PROVE x \in Listed \ {m}
    <3>1. PICK e \in DOMAIN vmDriverList' : x = vmDriverList'[e]
      BY DEF Listed, ToSet
    <3>2. PICK j \in DOMAIN vmDriverList : x = vmDriverList[j] /\ j # k
      BY <1>1, <1>3, <1>9, <1>10, <3>1
    <3> QED
      BY <1>3, <3>2 DEF Listed, ToSet
  <2>2. ASSUME NEW x \in Listed, x # m PROVE x \in Listed'
    <3>1. PICK j \in DOMAIN vmDriverList : x = vmDriverList[j]
      BY DEF Listed, ToSet
    <3>2. j # k
      BY <1>3, <2>2, <3>1
    <3>3. \E e \in DOMAIN vmDriverList' : x = vmDriverList'[e]
      <4>1. CASE j < k
        BY <1>1, <1>3, <1>9, <1>10, <3>1, <4>1
      <4>2. CASE j > k
        <5>1. j - 1 \in DOMAIN vmDriverList' /\ ~(j - 1 < k) /\ (j - 1) + 1 = j
          BY <1>1, <1>3, <1>9, <4>2
        <5> QED
          BY <1>10, <3>1, <5>1
      <4> QED
        BY <1>1, <1>3, <3>2, <4>1, <4>2
    <3> QED
      BY <3>3 DEF Listed, ToSet
  <2> QED
    BY <2>1, <2>2
<1> QED
  BY <1>6, <1>7, <1>11, <1>12

\* And its ID the chain of the allocated ones, from its head or from later on.
LEMMA IDFreed ==
  ASSUME Typed, Numbered, NEW id \in Linked(vmIDList, vmIDsAllocated), FreeVMID(id)
  PROVE  /\ Linked(vmIDList', vmIDsAllocated') = Linked(vmIDList, vmIDsAllocated) \ {id}
         /\ Linked(vmIDList', vmIDsUnused') = Linked(vmIDList, vmIDsUnused) \cup {id}
         /\ Unshared(vmIDList', vmIDsAllocated', vmIDsUnused')
         /\ vmIDList' \in Nexts /\ {vmIDsAllocated', vmIDsUnused'} \subseteq Heads
<1> DEFINE A == Linked(vmIDList, vmIDsAllocated)
           U == Linked(vmIDList, vmIDsUnused)
<1>1. /\ U = IDs \ A /\ Unshared(vmIDList, vmIDsAllocated, vmIDsUnused)
      /\ vmIDList \in Nexts /\ vmIDsAllocated \in Heads /\ vmIDsUnused \in Heads
  BY NumberedAs
<1>2. A \cap U = {} /\ A \in SUBSET IDs /\ id \in IDs
  BY <1>1, LinkedClosed
<1>3. CASE id = vmIDsAllocated
  <2>1. /\ vmIDsAllocated' = vmIDList[id] /\ vmIDsUnused' = id
        /\ vmIDList' = [vmIDList EXCEPT ![id] = vmIDsUnused]
    BY <1>3 DEF FreeVMID
  <2>2. Unshared(vmIDList, id, vmIDsUnused) /\ Linked(vmIDList, id) \cap Linked(vmIDList, vmIDsUnused) = {}
    BY <1>1, <1>2, <1>3
  <2>3. \A new : new = [vmIDList EXCEPT ![id] = vmIDsUnused] =>
          /\ Linked(new, vmIDList[id]) = Linked(vmIDList, id) \ {id}
          /\ Linked(new, id) = Linked(vmIDList, vmIDsUnused) \cup {id}
          /\ new \in Nexts /\ Unshared(new, vmIDList[id], id)
    BY <1>1, <1>2, <2>2, HeadMoves
  <2>4. vmIDList[id] \in Heads /\ id \in Heads
    BY <1>1, <1>2 DEF Nexts, Heads
  <2> QED
    BY <1>3, <2>1, <2>3, <2>4
<1>4. CASE id # vmIDsAllocated
  <2>1. \E e \in A : vmIDList[e] = id
    BY <1>4, LinkedFollows
  <2>2. PICK p : p = CHOOSE e \in Chain(vmIDsAllocated) : vmIDList[e] = id
    OBVIOUS
  <2>3. p \in A /\ vmIDList[p] = id
    BY <2>1, <2>2, ChainIsLinked
  <2>4. /\ vmIDList' = [vmIDList EXCEPT ![p] = vmIDList[id], ![id] = vmIDsUnused]
        /\ vmIDsUnused' = id /\ vmIDsAllocated' = vmIDsAllocated
    BY <1>4, <2>1, <2>2, ChainIsLinked DEF FreeVMID
  <2>5. /\ vmIDList' \in Nexts /\ \A j \in IDs \ {p, id} : vmIDList'[j] = vmIDList[j]
        /\ p # id => vmIDList'[p] = vmIDList[id]
        /\ vmIDList'[id] = vmIDsUnused
    BY <1>1, <1>2, <2>3, <2>4 DEF Nexts, Heads
  <2>6. /\ Linked(vmIDList', vmIDsAllocated) = A \ {id}
        /\ Linked(vmIDList', id) = U \cup {id}
        /\ Unshared(vmIDList', vmIDsAllocated, id)
    BY <1>1, <1>2, <1>4, <2>3, <2>5, LaterMoves
  <2> QED
    BY <1>1, <1>2, <2>4, <2>5, <2>6 DEF Heads
<1> QED
  BY <1>3, <1>4

LEMMA DeleteNumbers ==
  ASSUME Typed, Numbered, NEW m \in Listed, vmDriverList' = Unlisted(m),
         vmCount' = vmCount - 1, FreeVMID(userID[m] - 1), UNCHANGED userID
  PROVE  /\ Numbered' /\ Listed' = Listed \ {m}
         /\ vmDriverList' \in Seq(VMs) /\ vmCount' \in 0 .. MAX_VMS
         /\ vmIDList' \in Nexts /\ {vmIDsAllocated', vmIDsUnused'} \subseteq Heads
<1>1. PICK id : id = userID[m] - 1
  OBVIOUS
<1>2. /\ Linked(vmIDList, vmIDsAllocated) = {userID[k] - 1 : k \in Listed}
      /\ Linked(vmIDList, vmIDsUnused) = IDs \ Linked(vmIDList, vmIDsAllocated)
  BY NumberedAs
<1>3. id \in Linked(vmIDList, vmIDsAllocated) /\ id \in IDs
  BY <1>1, <1>2, LinkedClosed
<1>4. /\ vmDriverList' \in Seq(VMs) /\ Listed' = Listed \ {m}
      /\ Len(vmDriverList') = Len(vmDriverList) - 1
      /\ \A e, j \in DOMAIN vmDriverList' : vmDriverList'[e] = vmDriverList'[j] => e = j
  BY UnlistedExact DEF Numbered
<1>5. /\ Linked(vmIDList', vmIDsAllocated') = Linked(vmIDList, vmIDsAllocated) \ {id}
      /\ Linked(vmIDList', vmIDsUnused') = Linked(vmIDList, vmIDsUnused) \cup {id}
      /\ Unshared(vmIDList', vmIDsAllocated', vmIDsUnused')
      /\ vmIDList' \in Nexts /\ {vmIDsAllocated', vmIDsUnused'} \subseteq Heads
  BY <1>1, <1>3, IDFreed
<1>6. vmCount' = Len(vmDriverList') /\ vmCount' \in 0 .. MAX_VMS
  <2>1. Len(vmDriverList') \in Nat
    BY <1>4
  <2> QED
    BY <1>4, <2>1, LifecycleAssumption DEF Numbered, Typed, TypeOK
<1>7. Listed \subseteq VMs /\ \A k \in Listed : userID[k] \in Nat
  BY ListCounts, LifecycleAssumption DEF Typed, TypeOK
<1>8. \A k \in Listed \ {m} : userID[k] - 1 # id
  BY <1>1, <1>7 DEF Numbered
<1>9. Linked(vmIDList', vmIDsAllocated') = {userID'[k] - 1 : k \in Listed'}
  BY <1>1, <1>2, <1>4, <1>5, <1>8
<1>10. Linked(vmIDList', vmIDsUnused') = IDs \ Linked(vmIDList', vmIDsAllocated')
  BY <1>2, <1>3, <1>5
<1>11. Numbered'
  BY <1>4, <1>5, <1>6, <1>9, <1>10, NumberedNext DEF Numbered
<1> QED
  BY <1>4, <1>5, <1>6, <1>11
-----------------------------------------------------------------------------
(* Vmx86RegisterVMOnList and Vmx86DeleteVMFromList.                          *)

LEMMA RegisterInv == ASSUME IInv, NEW t \in Threads, NEW m \in VMs, Register(t, m) PROVE IInv'
<1> USE DEF IInv, Typed
<1>1. /\ \A u \in Threads \ {t} : pc'[u] = pc[u] /\ op'[u] = op[u]
      /\ pc[t] = "create" /\ pc'[t] = "attach"
      /\ m \notin Listed /\ \A u \in Threads : op[u].vm # m
      /\ op'[t].vm = m /\ op'[t].call = op[t].call /\ op'[t].file = op[t].file
      /\ op'[t].mode = op[t].mode /\ op'[t].rate = op[t].rate
      /\ UNCHANGED <<files, booted, rates>>
  BY DEF Register, Goto, InUse, Ops
<1>2. /\ Numbered' /\ Listed' = Listed \cup {m}
      /\ vmDriverList' \in Seq(VMs) /\ userID' \in [VMs -> 0 .. MAX_VMS]
      /\ vmIDList' \in Nexts /\ {vmIDsAllocated', vmIDsUnused'} \subseteq Heads
  BY <1>1, RegisterNumbers DEF Register
<1>3. m # NULL /\ op[t].call = "create" /\ op[t].mode = "write" /\ op[t].file # NULL
  BY <1>1, LifecycleAssumption DEF OpsExact
<1>4. \A f \in Files : vm[f] # m
  BY <1>1, <1>3 DEF Owned, FilesOwn
<1>5. Typed'
  <2>1. pc' \in [Threads -> Labels] /\ op' \in [Threads -> Ops]
    BY ZenonT(60) DEF Register, Goto, Ops, Labels
  <2>2. vmCount' \in 0 .. MAX_VMS
    BY LifecycleAssumption DEF Register, TypeOK
  <2> QED
    BY <1>1, <1>2, <2>1, <2>2 DEF TypeOK, files, rates, Nexts, Heads
<1>6. OpsExact'
  BY <1>1, <1>3 DEF OpsExact, InRate
<1>7. Alone' /\ Opened'
  BY <1>1, <1>3 DEF Owned, Alone, Opened, files
<1>8. FilesOwn'
  BY <1>1, <1>2 DEF Owned, FilesOwn, files
<1>9. \A u \in Threads : Frees(u)' <=> Frees(u)
  BY <1>1, <1>3 DEF Frees, InRate
<1>10. ThreadsOwn'
  <2>1. \A u \in Threads : op'[u].mode = "read" \/ pc'[u] = "release" => op'[u].vm = vm'[op'[u].file]
    BY <1>1, <1>3 DEF Owned, ThreadsOwn, files
  <2>2. \A u \in Threads : pc'[u] \in {"create", "attach", "lastclose"} \/ Frees(u)' =>
          vm'[op'[u].file] = NULL
    BY <1>1, <1>9 DEF Owned, ThreadsOwn, files
  <2>3. \A u \in Threads : pc'[u] = "release" => op'[u].vm # NULL
    BY <1>1 DEF Owned, ThreadsOwn
  <2>4. \A u \in Threads : Frees(u)' => op'[u].vm # NULL /\ op'[u].vm \notin Listed'
    BY <1>1, <1>2, <1>3, <1>9 DEF Owned, ThreadsOwn, Frees
  <2>5. \A u \in Threads : pc'[u] = "attach" => op'[u].vm \in Listed'
    BY <1>1, <1>2 DEF Owned, ThreadsOwn
  <2> QED
    BY <2>1, <2>2, <2>3, <2>4, <2>5 DEF ThreadsOwn
<1>11. NobodyElse'
  BY <1>1, <1>4 DEF Owned, NobodyElse, files
<1>12. SomeonesOwn'
  BY <1>1, <1>2 DEF Owned, SomeonesOwn, files
<1>13. Counted'
  <2>1. Closing' = Closing
    BY <1>1 DEF Closing
  <2> QED
    BY <1>1, <2>1 DEF Counted, files
<1>14. BootedExact'
  BY <1>1, <1>2, <1>3, <1>9 DEF BootedExact, Frees, files
<1>15. Clocked'
  <2>1. \A u \in Threads : (InRate(u)' <=> InRate(u)) /\ (InRate(u) => u # t)
    BY <1>1 DEF InRate
  <2>2. Releasing' = Releasing
    BY <1>1, <2>1 DEF Releasing
  <2>3. RatesAsked'
    <3>1. \A u \in Threads : Locking(u)' <=> fastClockMutex' = u
      BY <1>1 DEF Clocked, RatesAsked, Locking, rates
    <3>2. \A n \in VMs : n \notin Listed' /\ (\A u \in Threads : op'[u].vm # n) => vmRate'[n] = 0
      <4>1. op[t].vm = NULL
        BY <1>1 DEF OpsExact
      <4>2. \A n \in VMs : n # NULL
        BY LifecycleAssumption
      <4>3. \A n \in VMs : n \notin Listed' /\ (\A u \in Threads : op'[u].vm # n) =>
              n \notin Listed /\ \A u \in Threads : op[u].vm # n
        BY <1>1, <1>2, <4>1, <4>2
      <4> QED
        BY <1>1, <4>3 DEF Clocked, RatesAsked, rates
    <3>3. \A u \in Threads : InRate(u)' /\ op'[u].call # "setrate" => op'[u].rate = 0
      BY <1>1, <2>1 DEF Clocked, RatesAsked
    <3> QED
      BY <3>1, <3>2, <3>3 DEF RatesAsked
  <2>4. vmRate[m] = 0 /\ globalFastClockRate \in Nat
    BY <1>1, LifecycleAssumption DEF Clocked, RatesAsked, TypeOK
  <2>5. RateOfMachine'
    BY <1>1, <1>2, <2>2, <2>4 DEF Clocked, RateOfMachine, rates
  <2>6. MaxOfMachine'
    <3> SUFFICES ASSUME NEW u \in Threads, pc[u] \in {"commit", "thread"}, op'[u] = op[u]
                 PROVE  /\ \A n \in (Listed \cup {m}) \ {op[u].vm} : vmRate[n] <= op[u].max
                        /\ op[u].rate <= op[u].max
                        /\ op[u].max # op[u].rate =>
                             \E n \in (Listed \cup {m} \cup Releasing) \ {op[u].vm} :
                               vmRate[n] = op[u].max
                        /\ op[u].call # "setrate" => op[u].max <= globalFastClockRate
      BY <1>1, <1>2, <2>2 DEF MaxOfMachine, rates
    <3>1. op[u].max \in Nat
      BY LifecycleAssumption DEF Ops
    <3> QED
      BY <2>4, <3>1 DEF Clocked, MaxOfMachine
  <2>7. ClockExact'
    BY <1>1 DEF Clocked, ClockExact, rates
  <2> QED
    BY <2>3, <2>5, <2>6, <2>7 DEF Clocked
<1> QED
  BY <1>2, <1>5, <1>6, <1>7, <1>8, <1>10, <1>11, <1>12, <1>13, <1>14, <1>15 DEF Owned

LEMMA DeleteInv == ASSUME IInv, NEW t \in Threads, Delete(t) PROVE IInv'
<1> USE DEF IInv, Typed
<1>1. PICK f \in Files : f = op[t].file
  BY DEF Delete, OpsExact, Ops
<1>2. PICK m \in Listed : m = op[t].vm /\ vm[f] = m
  BY <1>1 DEF Delete, Owned, ThreadsOwn, FilesOwn
<1>3. /\ \A u \in Threads \ {t} : pc'[u] = pc[u] /\ op'[u] = op[u]
      /\ pc[t] = "release" /\ pc'[t] = "setrate"
      /\ op'[t].vm = m /\ op'[t].call = op[t].call /\ op'[t].file = f
      /\ op'[t].mode = op[t].mode /\ op'[t].rate = 0
      /\ vm' = [vm EXCEPT ![f] = NULL]
      /\ UNCHANGED <<userID, open, fdCount, initialized, booted, rates>>
  BY <1>1, <1>2 DEF Delete, Goto, Ops
<1>4. /\ vmDriverList' = Unlisted(m) /\ vmCount' = vmCount - 1 /\ FreeVMID(userID[m] - 1)
  BY <1>2 DEF Delete
<1>5. /\ Numbered' /\ Listed' = Listed \ {m}
      /\ vmDriverList' \in Seq(VMs) /\ vmCount' \in 0 .. MAX_VMS
      /\ vmIDList' \in Nexts /\ {vmIDsAllocated', vmIDsUnused'} \subseteq Heads
  BY <1>3, <1>4, DeleteNumbers
<1>6. m \in VMs /\ m # NULL
  BY ListCounts, LifecycleAssumption
<1>7. op[t].call \in {"release", "close"} /\ op[t].mode = "write" /\ op[t].file # NULL
  BY <1>3 DEF OpsExact
<1>8. \A u \in Threads \ {t} : op[u].vm # m /\ op[u].file # f
  BY <1>1, <1>2, <1>6, <1>7 DEF Owned, Alone, NobodyElse
<1>9. vm'[f] = NULL /\ \A g \in Files \ {f} : vm'[g] = vm[g] /\ vm[g] # m
  BY <1>2, <1>3, <1>6 DEF Owned, FilesOwn, TypeOK
<1>10. Typed'
  <2>1. pc' \in [Threads -> Labels] /\ op' \in [Threads -> Ops]
    BY LifecycleAssumption DEF Delete, Goto, Ops, Labels
  <2>2. vm' \in [Files -> VMs \cup {NULL}]
    BY <1>3 DEF TypeOK
  <2> QED
    BY <1>3, <1>5, <2>1, <2>2 DEF TypeOK, rates, Nexts, Heads
<1>11. OpsExact'
  BY <1>1, <1>3, <1>7 DEF OpsExact, InRate
<1>12. Alone'
  BY <1>1, <1>3 DEF Owned, Alone
<1>13. Opened'
  BY <1>1, <1>3, <1>9 DEF Owned, Opened
<1>14. FilesOwn'
  BY <1>5, <1>9 DEF Owned, FilesOwn
<1>15. /\ \A u \in Threads \ {t} : Frees(u)' <=> Frees(u)
       /\ Frees(t)' /\ ~Frees(t)
  BY <1>3, <1>7 DEF Frees, InRate
<1>16. ThreadsOwn'
  <2>1. \A u \in Threads \ {t} : pc[u] # "idle" => vm'[op[u].file] = vm[op[u].file]
    BY <1>8, <1>9 DEF OpsExact, Ops
  <2>2. \A u \in Threads \ {t} : pc[u] = "idle" => op[u].mode = "none" /\ ~Frees(u)
    BY DEF OpsExact, NoOp, Frees, InRate
  <2>3. \A u \in Threads : op'[u].mode = "read" \/ pc'[u] = "release" => op'[u].vm = vm'[op'[u].file]
    BY <1>3, <1>7, <2>1, <2>2 DEF Owned, ThreadsOwn
  <2>4. \A u \in Threads : pc'[u] \in {"create", "attach", "lastclose"} \/ Frees(u)' =>
          vm'[op'[u].file] = NULL
    BY <1>3, <1>9, <1>15, <2>1, <2>2 DEF Owned, ThreadsOwn
  <2>5. \A u \in Threads : pc'[u] = "release" => op'[u].vm # NULL
    BY <1>3 DEF Owned, ThreadsOwn
  <2>6. \A u \in Threads : Frees(u)' => op'[u].vm # NULL /\ op'[u].vm \notin Listed'
    BY <1>3, <1>5, <1>6, <1>15 DEF Owned, ThreadsOwn
  <2>7. \A u \in Threads : pc'[u] = "attach" => op'[u].vm \in Listed'
    BY <1>3, <1>5, <1>8 DEF Owned, ThreadsOwn
  <2> QED
    BY <2>3, <2>4, <2>5, <2>6, <2>7 DEF ThreadsOwn
<1>17. NobodyElse'
  <2>1. \A u \in Threads : pc'[u] = "attach" => \A g \in Files : vm'[g] # op'[u].vm
    <3>1. NULL \notin Listed
      BY ListCounts, LifecycleAssumption
    <3>2. \A u \in Threads : pc'[u] = "attach" => u # t /\ op[u].vm \in Listed
      BY <1>3 DEF Owned, ThreadsOwn
    <3> QED
      BY <1>3, <1>9, <3>1, <3>2 DEF Owned, NobodyElse
  <2>2. \A u, v \in Threads : u # v /\ op'[u].vm = op'[v].vm /\ op'[u].vm # NULL =>
          op'[u].mode = "read" /\ op'[v].mode = "read"
    BY <1>3, <1>8 DEF Owned, NobodyElse
  <2> QED
    BY <2>1, <2>2 DEF NobodyElse
<1>18. SomeonesOwn'
  BY <1>2, <1>3, <1>5, <1>9 DEF Owned, SomeonesOwn
<1>19. Counted'
  <2>1. Closing' = Closing
    BY <1>3 DEF Closing
  <2> QED
    BY <1>3, <2>1 DEF Counted
<1>20. BootedExact'
  <2>1. \A n \in booted' : n \in Listed' \/ \E u \in Threads : Frees(u)' /\ op'[u].vm = n
    BY <1>3, <1>5, <1>15 DEF BootedExact
  <2> QED
    BY <1>3, <2>1 DEF BootedExact
<1>21. Clocked'
  <2>1. /\ \A u \in Threads \ {t} : InRate(u)' <=> InRate(u)
        /\ InRate(t)' /\ ~InRate(t) /\ op'[t].call # "setrate"
    BY <1>3, <1>7 DEF InRate
  <2>2. Releasing' = Releasing \cup {m}
    <3>1. \A x \in Releasing' : x \in Releasing \cup {m}
      BY <1>3, <2>1 DEF Releasing
    <3>2. \A x \in Releasing \cup {m} : x \in Releasing'
      BY <1>3, <2>1 DEF Releasing
    <3> QED
      BY <3>1, <3>2
  <2>3. Listed' \cup Releasing' = Listed \cup Releasing
    BY <1>5, <2>2
  <2>4. RatesAsked'
    <3>1. \A u \in Threads : Locking(u)' <=> fastClockMutex' = u
      BY <1>3 DEF Clocked, RatesAsked, Locking, rates
    <3>2. \A n \in VMs : n \notin Listed' /\ (\A u \in Threads : op'[u].vm # n) => vmRate'[n] = 0
      BY <1>2, <1>3, <1>5 DEF Clocked, RatesAsked, rates
    <3>3. \A u \in Threads : InRate(u)' /\ op'[u].call # "setrate" => op'[u].rate = 0
      BY <1>3, <2>1 DEF Clocked, RatesAsked
    <3> QED
      BY <3>1, <3>2, <3>3 DEF RatesAsked
  <2>5. RateOfMachine'
    BY <1>3, <1>5, <2>3 DEF Clocked, RateOfMachine, rates
  <2>6. MaxOfMachine'
    BY <1>3, <1>5, <2>3 DEF Clocked, MaxOfMachine, rates
  <2>7. ClockExact'
    BY <1>3 DEF Clocked, ClockExact, rates
  <2> QED
    BY <2>4, <2>5, <2>6, <2>7 DEF Clocked
<1> QED
  BY <1>5, <1>10, <1>11, <1>12, <1>13, <1>14, <1>16, <1>17, <1>18, <1>19, <1>20, <1>21 DEF Owned
-----------------------------------------------------------------------------
(* The invariant.                                                            *)

\* As the module is loaded every ID is in the chain of the unused ones.
LEMMA AllUnused ==
  ASSUME Init PROVE Linked(vmIDList, vmIDsUnused) = IDs /\ Linked(vmIDList, vmIDsAllocated) = {}
<1>1. /\ vmIDList = [e \in IDs |-> IF e = MAX_VMS - 1 THEN INVALID_VMID ELSE e + 1]
      /\ vmIDsUnused = 0 /\ vmIDsAllocated = INVALID_VMID
      /\ MAX_VMS \in Nat \ {0} /\ IDs = 0 .. MAX_VMS - 1 /\ INVALID_VMID = -1
  BY LifecycleAssumption DEF Init, IDs, INVALID_VMID
<1>2. Linked(vmIDList, vmIDsUnused) = IDs
  <2> DEFINE L == Linked(vmIDList, vmIDsUnused)
             T == {e \in IDs : \A j \in 0 .. e : j \in L}
  <2>1. ClosedFrom(vmIDList, vmIDsUnused, L) /\ L \in SUBSET IDs
    BY LinkedClosed
  <2>2. 0 \in L
    BY <1>1, <2>1 DEF ClosedFrom
  <2>3. T \in SUBSET Nat /\ T \in SUBSET IDs /\ 0 \in T /\ IsFiniteSet(T)
    <3>1. IsFiniteSet(IDs)
      BY <1>1, FS_Interval
    <3>2. T \in SUBSET IDs
      OBVIOUS
    <3>3. IsFiniteSet(T)
      BY <3>1, <3>2, FS_Subset
    <3> QED
      BY <1>1, <2>2, <3>2, <3>3
  <2>4. PICK a \in T : \A e \in T : e <= a
    BY <2>3, MaxExists
  <2>5. a \in IDs /\ \A j \in 0 .. a : j \in L
    OBVIOUS
  <2>6. a = MAX_VMS - 1
    <3>1. SUFFICES ASSUME a # MAX_VMS - 1 PROVE FALSE
      OBVIOUS
    <3>2. a + 1 \in IDs /\ vmIDList[a] = a + 1
      BY <1>1, <2>5, <3>1
    <3>3. a \in L
      BY <1>1, <2>5
    <3>4. a + 1 \in L
      BY <2>1, <3>2, <3>3 DEF ClosedFrom
    <3>5. \A j \in 0 .. a + 1 : j \in L
      BY <1>1, <2>5, <3>4
    <3>6. a + 1 \in T
      BY <3>2, <3>5
    <3>7. a + 1 <= a
      BY <2>4, <3>6
    <3> QED
      BY <1>1, <2>5, <3>7
  <2> QED
    BY <1>1, <2>1, <2>5, <2>6
<1>3. Linked(vmIDList, vmIDsAllocated) = {}
  <2>1. ClosedFrom(vmIDList, vmIDsAllocated, {}) /\ {} \in SUBSET IDs
    BY <1>1 DEF ClosedFrom
  <2> QED
    BY <2>1, LinkedLeast
<1> QED
  BY <1>2, <1>3

LEMMA InitInv == Init => IInv
<1> SUFFICES ASSUME Init PROVE IInv
  OBVIOUS
<1>1. /\ open = {} /\ vm = [f \in Files |-> NULL] /\ fdCount = 0
      /\ initialized = FALSE /\ booted = {} /\ vmDriverList = <<>> /\ vmCount = 0
      /\ userID = [m \in VMs |-> 0] /\ vmRate = [m \in VMs |-> 0]
      /\ globalFastClockRate = 0 /\ hostRate = 0 /\ clock = "none" /\ fastClockMutex = NULL
      /\ pc = [t \in Threads |-> "idle"] /\ op = [t \in Threads |-> NoOp]
  BY DEF Init
<1>2. NoOp.call = "none" /\ NoOp.file = NULL /\ NoOp.vm = NULL /\ NoOp.mode = "none"
  BY DEF NoOp
<1>3. Listed = {}
  BY <1>1 DEF Listed, ToSet
<1>4. Typed
  <2>1. NoOp \in Ops
    BY LifecycleAssumption DEF NoOp, Ops
  <2>2. op \in [Threads -> Ops] /\ pc \in [Threads -> Labels]
    BY <1>1, <2>1 DEF Labels
  <2>3. vmIDList \in [IDs -> IDs \cup {INVALID_VMID}]
    BY LifecycleAssumption DEF Init, IDs, INVALID_VMID
  <2>4. {vmIDsAllocated, vmIDsUnused} \subseteq IDs \cup {INVALID_VMID}
    BY LifecycleAssumption DEF Init, IDs, INVALID_VMID
  <2>5. /\ vmRate \in [VMs -> Rates] /\ userID \in [VMs -> 0 .. MAX_VMS]
        /\ vmCount \in 0 .. MAX_VMS /\ fdCount \in 0 .. MAX_INT32
    BY <1>1, LifecycleAssumption
  <2>6. vm \in [Files -> VMs \cup {NULL}] /\ vmDriverList \in Seq(VMs)
    BY <1>1
  <2>7. {globalFastClockRate, hostRate} \subseteq Rates
    BY <1>1, LifecycleAssumption
  <2>8. clock \in {"none", "running", "parked"} /\ fastClockMutex \in Threads \cup {NULL}
    BY <1>1
  <2> QED
    BY <1>1, <2>2, <2>3, <2>4, <2>5, <2>6, <2>7, <2>8 DEF Typed, TypeOK
<1>5. OpsExact
  BY <1>1, <1>2 DEF OpsExact, InRate
<1>6. Owned
  <2>1. Alone /\ Opened
    BY <1>1, <1>2 DEF Alone, Opened
  <2>2. FilesOwn /\ NobodyElse /\ SomeonesOwn
    BY <1>1, <1>2, <1>3 DEF FilesOwn, NobodyElse, SomeonesOwn
  <2>3. ThreadsOwn
    BY <1>1, <1>2 DEF ThreadsOwn, Frees, InRate
  <2> QED
    BY <2>1, <2>2, <2>3 DEF Owned
<1>7. Numbered
  <2>1. Chain(vmIDsUnused) = IDs /\ Chain(vmIDsAllocated) = {}
    BY AllUnused, ChainIsLinked
  <2>2. /\ vmIDList = [e \in IDs |-> IF e = MAX_VMS - 1 THEN INVALID_VMID ELSE e + 1]
        /\ vmIDsUnused = 0 /\ vmIDsAllocated = INVALID_VMID
        /\ MAX_VMS \in Nat \ {0} /\ IDs = 0 .. MAX_VMS - 1 /\ INVALID_VMID = -1
    BY LifecycleAssumption DEF Init, IDs, INVALID_VMID
  <2>3. \A e, j \in IDs : vmIDList[e] = vmIDList[j] /\ vmIDList[e] # INVALID_VMID => e = j
    BY <2>2
  <2>4. \A e \in IDs : vmIDList[e] # INVALID_VMID => vmIDList[e] \notin {vmIDsAllocated, vmIDsUnused}
    BY <2>2
  <2>5. Len(vmDriverList) = 0 /\ DOMAIN vmDriverList = {}
    BY <1>1
  <2> QED
    BY <1>1, <1>3, <2>1, <2>3, <2>4, <2>5 DEF Numbered
<1>8. Counted
  <2>1. Closing = {}
    BY <1>1, <1>2 DEF Closing
  <2> QED
    BY <1>1, <2>1, FS_EmptySet DEF Counted
<1>9. BootedExact
  BY <1>1 DEF BootedExact
<1>10. Clocked
  BY <1>1, <1>3, LifecycleAssumption DEF Clocked, RatesAsked, RateOfMachine, MaxOfMachine,
     ClockExact,
                                        Locking, InRate
<1> QED
  BY <1>4, <1>5, <1>6, <1>7, <1>8, <1>9, <1>10 DEF IInv

LEMMA StutterInv == IInv /\ UNCHANGED vars => IInv'
<1> SUFFICES ASSUME IInv, UNCHANGED vars PROVE IInv'
  OBVIOUS
<1> USE DEF IInv, Typed, vars
<1>1. Listed' = Listed /\ UNCHANGED <<files, list, booted, rates, pc, op>>
  BY DEF Listed, list
<1>2. Typed' /\ OpsExact'
  BY <1>1 DEF TypeOK, files, list, ids, rates, OpsExact, InRate
<1>3. Owned'
  BY <1>1 DEF Owned, Alone, Opened, FilesOwn, ThreadsOwn, NobodyElse, SomeonesOwn, Frees,
     InRate, files
<1>4. Numbered'
  BY <1>1, NumberedKept
<1>5. Counted' /\ BootedExact'
  BY <1>1 DEF Counted, Closing, BootedExact, Frees, InRate, files
<1>6. Clocked'
  BY <1>1 DEF Clocked, RatesAsked, RateOfMachine, MaxOfMachine, ClockExact, Releasing, Locking,
              InRate, rates
<1> QED
  BY <1>2, <1>3, <1>4, <1>5, <1>6

LEMMA NextInv == IInv /\ [Next]_vars => IInv'
<1> SUFFICES ASSUME IInv, [Next]_vars PROVE IInv'
  OBVIOUS
<1>1. CASE \E f \in Files : Open(f)
  BY <1>1, OpenInv
<1>2. ASSUME NEW t \in Threads, Step(t) PROVE IInv'
  <2>1. CASE \E f \in Files, c \in Calls, rate \in Rates : Enter(t, f, c, rate)
    BY <2>1, EnterInv
  <2>2. CASE \E f \in Files : Close(t, f)
    BY <2>2, CloseInv
  <2>3. CASE LastClose(t)
    BY <2>3, LastCloseInv
  <2>4. CASE CreateFails(t) \/ InitPseudoTSC(t) \/ BootFails(t) \/ Boot(t)
    BY <2>4, ReturningInv
  <2>5. CASE \E m \in VMs : Register(t, m)
    BY <2>5, RegisterInv
  <2>6. CASE Attach(t)
    BY <2>6, AttachInv
  <2>7. CASE Delete(t)
    BY <2>7, DeleteInv
  <2>8. CASE FreeVM(t)
    BY <2>8, FreeVMInv
  <2>9. CASE AllocCrossPages(t)
    BY <2>9, AllocCrossPagesInv
  <2>10. CASE RateIs(t)
    BY <2>10, RateIsInv
  <2>11. CASE RateDiffers(t)
    BY <2>11, RateDiffersInv
  <2>12. CASE FastClockLock(t)
    BY <2>12, FastClockLockInv
  <2>13. CASE MaxRate(t)
    BY <2>13, MaxRateInv
  <2>14. CASE KeepClock(t)
    BY <2>14, KeepClockInv
  <2>15. CASE StoreHostRate(t)
    BY <2>15, StoreHostRateInv
  <2>16. CASE SetFastClockRate(t)
    BY <2>16, SetFastClockRateInv
  <2>17. CASE NoClockThread(t)
    BY <2>17, NoClockThreadInv
  <2> QED
    BY <1>2, <2>1, <2>2, <2>3, <2>4, <2>5, <2>6, <2>7, <2>8, <2>9, <2>10, <2>11, <2>12, <2>13,
       <2>14, <2>15, <2>16, <2>17 DEF Step
<1>3. CASE ClockParks
  BY <1>3, ClockParksInv
<1>4. CASE UNCHANGED vars
  BY <1>4, StutterInv
<1> QED
  BY <1>1, <1>2, <1>3, <1>4 DEF Next
-----------------------------------------------------------------------------
(* What follows from it.                                                     *)

\* Each machine on the list is one file's or one thread's.
LEMMA OneOwner ==
  ASSUME IInv, NEW m \in Listed
  PROVE  Cardinality({f \in Files : vm[f] = m}
                     \cup {t \in Threads : op[t].vm = m /\ pc[t] = "attach"}) = 1
<1> USE DEF IInv, Typed
<1> DEFINE F == {f \in Files : vm[f] = m}
           T == {t \in Threads : op[t].vm = m /\ pc[t] = "attach"}
<1>1. m # NULL
  BY ListCounts, LifecycleAssumption
<1>2. \E x : F \cup T = {x}
  <2>1. CASE \E f \in Files : vm[f] = m
    <3>1. PICK f \in Files : vm[f] = m
      BY <2>1
    <3>2. F = {f}
      BY <1>1, <3>1 DEF Owned, FilesOwn
    <3>3. T = {}
      BY <3>1 DEF Owned, NobodyElse
    <3> QED
      BY <3>2, <3>3
  <2>2. CASE \A f \in Files : vm[f] # m
    <3>1. PICK t \in Threads : pc[t] = "attach" /\ op[t].vm = m
      BY <2>2 DEF Owned, SomeonesOwn
    <3>2. op[t].mode = "write"
      BY <3>1 DEF OpsExact
    <3>3. T = {t}
      BY <1>1, <3>1, <3>2 DEF Owned, NobodyElse
    <3>4. F = {}
      BY <2>2
    <3> QED
      BY <3>3, <3>4
  <2> QED
    BY <2>1, <2>2
<1> QED
  BY <1>2, FS_Singleton

LEMMA IInvListExact == IInv => ListExact
<1> SUFFICES ASSUME IInv PROVE ListExact
  OBVIOUS
<1>1. /\ Cardinality(Listed) = vmCount /\ Cardinality(Chain(vmIDsAllocated)) = vmCount
  BY ListCounts DEF IInv
<1>2. \A m \in Listed : Cardinality({f \in Files : vm[f] = m}
                          \cup {t \in Threads : op[t].vm = m /\ pc[t] = "attach"}) = 1
  BY OneOwner
<1> QED
  BY <1>1, <1>2 DEF IInv, Numbered, ListExact

LEMMA IInvUsesListedVM == IInv => UsesListedVM
BY DEF IInv, Typed, UsesListedVM, OpsExact, NoOp, Owned, FilesOwn, ThreadsOwn, Ops

LEMMA IInvBooted == IInv => BootedOnPseudoTSC
<1> SUFFICES ASSUME IInv PROVE BootedOnPseudoTSC
  OBVIOUS
<1> USE DEF IInv, Typed
<1>1. ASSUME fdCount = 0 PROVE vmCount = 0
  <2>1. open = {} /\ Closing = {}
    <3>1. Cardinality(open) \in Nat /\ Cardinality(Closing) \in Nat
      BY FS_CardinalityType DEF Counted
    <3>2. Cardinality(open) = 0 /\ Cardinality(Closing) = 0
      BY <1>1, <3>1, LifecycleAssumption DEF Counted
    <3> QED
      BY <3>2, FS_EmptySet DEF Counted
  <2>2. \A t \in Threads : op[t].file = NULL
    BY <2>1 DEF Closing, Owned, Opened
  <2>3. \A t \in Threads : pc[t] = "idle"
    BY <2>2 DEF OpsExact
  <2>4. \A f \in Files : vm[f] = NULL
    BY <2>1, <2>3 DEF Owned, Opened
  <2>5. Listed = {}
    BY <2>3, <2>4, ListCounts, LifecycleAssumption DEF Owned, SomeonesOwn
  <2> QED
    BY <2>5, ListCounts, FS_EmptySet
<1> QED
  BY <1>1 DEF BootedOnPseudoTSC, BootedExact

LEMMA IInvClock == IInv => ClockKeepsUp
<1> SUFFICES ASSUME IInv, fastClockMutex = NULL PROVE ClockKeepsUp
  BY DEF ClockKeepsUp
<1> USE DEF IInv, Typed
<1>1. \A t \in Threads : pc[t] \notin {"max", "commit", "thread"}
  BY LifecycleAssumption DEF Clocked, RatesAsked, Locking
<1>2. PICK max : max = Max({0} \cup {vmRate[m] : m \in Listed})
  OBVIOUS
<1>3. /\ max = 0 \/ \E m \in Listed : max = vmRate[m]
      /\ 0 <= max /\ \A m \in Listed : vmRate[m] <= max
  <2>1. Listed \ {NULL} = Listed
    BY ListCounts, LifecycleAssumption
  <2>2. \A n : \A rate \in Rates : \A x : x = Max({rate} \cup {vmRate[m] : m \in Listed \ {n}}) =>
          /\ x = rate \/ \E m \in Listed \ {n} : x = vmRate[m]
          /\ rate <= x /\ \A m \in Listed \ {n} : vmRate[m] <= x
    BY MaxOfRates
  <2>3. \A x : x = Max({0} \cup {vmRate[m] : m \in Listed \ {NULL}}) =>
          /\ x = 0 \/ \E m \in Listed \ {NULL} : x = vmRate[m]
          /\ 0 <= x /\ \A m \in Listed \ {NULL} : vmRate[m] <= x
    BY <2>2, LifecycleAssumption, Zenon
  <2> QED
    BY <1>2, <2>1, <2>3
<1>4. \A m \in Listed : vmRate[m] <= globalFastClockRate
  BY DEF Clocked, RateOfMachine
<1>5. \/ globalFastClockRate = max
      \/ \E t \in Threads : pc[t] \in {"setrate", "fastclock"} /\ op[t].call # "setrate"
  <2>1. globalFastClockRate \in Nat /\ \A m \in Listed : vmRate[m] \in Nat
    BY ListCounts, LifecycleAssumption DEF TypeOK
  <2>2. max <= globalFastClockRate /\ max \in Nat
    BY <1>3, <1>4, <2>1
  <2>3. CASE globalFastClockRate = 0
    BY <2>2, <2>3
  <2>4. CASE globalFastClockRate # 0
    <3>1. PICK m \in Listed \cup Releasing : vmRate[m] = globalFastClockRate
      BY <2>4 DEF Clocked, RateOfMachine
    <3>2. CASE m \in Listed
      BY <1>3, <2>1, <2>2, <3>1, <3>2
    <3>3. CASE m \in Releasing
      BY <1>1, <3>3 DEF Releasing, InRate
    <3> QED
      BY <3>1, <3>2, <3>3
  <2> QED
    BY <2>3, <2>4
<1>6. /\ clock = IF globalFastClockRate > MIN_RATE THEN "running" ELSE "none"
      /\ clock = "running" => hostRate = globalFastClockRate
  BY <1>1 DEF Clocked, ClockExact
<1> QED
  BY <1>2, <1>4, <1>5, <1>6 DEF ClockKeepsUp

\* IInv is an invariant.
LEMMA Invariance == Spec => []IInv
<1>1. Init => IInv
  BY InitInv
<1>2. IInv /\ [Next]_vars => IInv'
  BY NextInv
<1> QED
  BY <1>1, <1>2, PTL DEF Spec

\* Every variable keeps its type: the count of machines and their IDs do not go past
\* MAX_VMS, nor the count of open files past where it saturates.
THEOREM TypeCorrect == Spec => []TypeOK
<1>1. IInv => TypeOK
  BY DEF IInv, Typed
<1> QED
  BY <1>1, Invariance, PTL

\* Whatever the threads do with the files: each machine on the list belongs to one open file or
\* one thread and has an ID of its own; a thread inside an ioctl uses a machine that is on the
\* list; what has booted has a pseudo TSC; and the clock is as fast as some machine asks for.
THEOREM MachinesExactHolds == Spec => []MachinesExact
<1>1. IInv => MachinesExact
  BY IInvListExact, IInvUsesListedVM, IInvBooted, IInvClock DEF MachinesExact
<1> QED
  BY <1>1, Invariance, PTL

-----------------------------------------------------------------------------
(* Numbers.                                                                  *)

EarlierNat == {p \in Nat \X Nat : p[1] < p[2]}

\* A set of numbers has a least one.
LEMMA LeastExists ==
  ASSUME NEW S \in SUBSET Nat, S # {}
  PROVE  \E m \in S : \A n \in S : m <= n
<1>1. EarlierNat = OpToRel(<, Nat)
  BY DEF EarlierNat, OpToRel
<1>2. IsWellFoundedOn(EarlierNat, Nat)
  BY <1>1, NatLessThanWellFounded
<1>3. \E m \in S : \A n \in S : ~(<<n, m>> \in EarlierNat)
  BY <1>2, WFMin
<1>4. \A m, n \in Nat : n < m => <<n, m>> \in EarlierNat
  BY DEF EarlierNat
<1>5. \A m, n \in Nat : ~(n < m) => m <= n
  OBVIOUS
<1>6. PICK m \in S : \A n \in S : ~(<<n, m>> \in EarlierNat)
  BY <1>3
<1>7. \A n \in S : m <= n
  BY <1>4, <1>5, <1>6
<1> QED
  BY <1>7

LEMMA Divided ==
  ASSUME NEW m \in Nat, NEW d \in Nat \ {0}
  PROVE  \E q \in Nat, r \in 0 .. d - 1 : q = m \div d /\ r = m % d /\ m = q * d + r
<1>1. m \div d \in Nat
  OBVIOUS
<1>2. m % d \in 0 .. d - 1
  OBVIOUS
<1>3. m % d = m - d * (m \div d)
  OBVIOUS
<1>4. PICK q \in Nat, r \in 0 .. d - 1 : q = m \div d /\ r = m % d
  BY <1>1, <1>2
<1>5. d * q = q * d /\ d * q \in Nat
  OBVIOUS
<1>6. r = m - d * q
  BY <1>3, <1>4
<1>7. m = q * d + r
  BY <1>5, <1>6
<1> QED
  BY <1>4, <1>7

LEMMA Product == \A a, b \in Nat : a * b \in Nat
OBVIOUS

\* What has the larger quotient is larger by as much as a divisor.
LEMMA Carries ==
  ASSUME NEW a \in Nat, NEW b \in Nat, NEW d \in Nat \ {0}, a < b
  PROVE  a * d + d <= b * d
OBVIOUS

LEMMA QuotientOrder ==
  ASSUME NEW a \in Nat, NEW b \in Nat, NEW d \in Nat \ {0}, NEW r \in 0 .. d - 1, NEW s \in 0 .. d - 1
  PROVE  a * d + r < b * d + s <=> a < b \/ (a = b /\ r < s)
<1>1. a * d \in Nat /\ b * d \in Nat
  OBVIOUS
<1>2. CASE a < b
  BY <1>1, <1>2, Carries
<1>3. CASE b < a
  <2>1. b * d + d <= a * d
    BY <1>3, Carries
  <2> QED
    BY <1>1, <1>3, <2>1
<1>4. CASE a = b
  BY <1>1, <1>4
<1> QED
  BY <1>2, <1>3, <1>4

-----------------------------------------------------------------------------
(* Pages and their places in the directories.                                *)

L1 == PHYSTRACK_L1_ENTRIES
L2 == PHYSTRACK_L2_ENTRIES
L3 == PHYSTRACK_L3_ENTRIES

PosOf(m) == <<Track!P1(m), Track!P2(m), Track!P3(m)>>

LEMMA Entries ==
  /\ L1 \in Nat \ {0} /\ L2 \in Nat \ {0} /\ L3 \in Nat \ {0}
  /\ Track!Idx1 = 0 .. L1 - 1 /\ Track!Idx2 = 0 .. L2 - 1 /\ Track!Idx3 = 0 .. L3 - 1
  /\ Track!MPNs = 0 .. L1 * L2 * L3 - 1
  /\ L1 * L2 * L3 \in Nat
<1>1. L1 \in Nat \ {0} /\ L2 \in Nat \ {0} /\ L3 \in Nat \ {0}
  BY TrackersAssumption DEF Track!TrackerAssumption, L1, L2, L3
<1>2. L1 * L2 * L3 \in Nat
  BY <1>1
<1> QED
  BY <1>1, <1>2 DEF Track!Idx1, Track!Idx2, Track!Idx3, Track!MPNs, L1, L2, L3

\* Places as GetNext goes through them: the first index may be one beyond.
Places == Nat \X Track!Idx2 \X Track!Idx3

LEMMA PlaceOf ==
  ASSUME NEW m \in Nat
  PROVE  /\ PosOf(m) \in Places /\ Track!ToMPN(PosOf(m)) = m
         /\ Track!P1(m) \in Nat /\ Track!P2(m) \in Track!Idx2 /\ Track!P3(m) \in Track!Idx3
         /\ m \in Track!MPNs => Track!P1(m) \in Track!Idx1
<1>1. PICK q \in Nat, z \in 0 .. L3 - 1 : q = m \div L3 /\ z = m % L3 /\ m = q * L3 + z
  BY Entries, Divided
<1>2. PICK x \in Nat, y \in 0 .. L2 - 1 : x = q \div L2 /\ y = q % L2 /\ q = x * L2 + y
  BY Entries, Divided
<1>3. Track!P1(m) = x /\ Track!P2(m) = y /\ Track!P3(m) = z
  BY <1>1, <1>2, Zenon DEF Track!P1, Track!P2, Track!P3, L2, L3
<1>4. PosOf(m) = <<x, y, z>> /\ PosOf(m) \in Places
  BY <1>1, <1>2, <1>3, Entries DEF PosOf, Places
<1>5. Track!ToMPN(<<x, y, z>>) = (x * L2 + y) * L3 + z
  BY DEF Track!ToMPN, L2, L3
<1>6. Track!ToMPN(PosOf(m)) = m
  BY <1>1, <1>2, <1>4, <1>5, Zenon
<1>7. ASSUME m \in Track!MPNs PROVE x < L1
  <2>1. x * L2 \in Nat /\ L1 * L2 \in Nat /\ q * L3 \in Nat /\ (L1 * L2) * L3 \in Nat
    BY Entries, Product
  <2>2. m < (L1 * L2) * L3
    BY <1>7, <2>1, Entries
  <2>3. q < L1 * L2
    <3>1. ASSUME L1 * L2 <= q PROVE (L1 * L2) * L3 <= q * L3
      <4>1. CASE L1 * L2 = q
        BY <4>1, <2>1
      <4>2. CASE L1 * L2 < q
        <5>1. (L1 * L2) * L3 + L3 <= q * L3
          BY <4>2, <2>1, Entries, Carries
        <5> QED
          BY <5>1, <2>1, Entries
      <4> QED
        BY <3>1, <4>1, <4>2, <2>1
    <3>2. q * L3 <= m
      BY <1>1, <2>1
    <3> QED
      BY <1>1, <2>1, <2>2, <3>1, <3>2
  <2>4. x < L1
    <3>1. ASSUME L1 <= x PROVE L1 * L2 <= x * L2
      <4>1. CASE L1 = x
        BY <4>1, <2>1
      <4>2. CASE L1 < x
        <5>1. L1 * L2 + L2 <= x * L2
          BY <4>2, Entries, Carries
        <5> QED
          BY <5>1, <2>1, Entries
      <4> QED
        BY <3>1, <4>1, <4>2, Entries
    <3>2. x * L2 <= q
      BY <1>2, <2>1
    <3> QED
      BY <2>1, <2>3, <3>1, <3>2, Entries
  <2> QED
    BY <2>4
<1>8. x \in Nat /\ y \in Track!Idx2 /\ z \in Track!Idx3 /\ (m \in Track!MPNs => x \in Track!Idx1)
  BY <1>7, Entries
<1> QED
  BY <1>3, <1>4, <1>6, <1>8, Zenon

LEMMA PlacesOrdered ==
  ASSUME NEW a \in Places, NEW b \in Places
  PROVE  /\ Track!ToMPN(a) \in Nat
         /\ Track!ToMPN(a) < Track!ToMPN(b) <=> Track!Before(a, b)
         /\ Track!ToMPN(a) = Track!ToMPN(b) => a = b
<1>1. /\ a[1] \in Nat /\ a[2] \in 0 .. L2 - 1 /\ a[3] \in 0 .. L3 - 1 /\ a = <<a[1], a[2], a[3]>>
      /\ b[1] \in Nat /\ b[2] \in 0 .. L2 - 1 /\ b[3] \in 0 .. L3 - 1 /\ b = <<b[1], b[2], b[3]>>
  BY Entries DEF Places
<1> DEFINE x == a[1] * L2 + a[2]
           y == b[1] * L2 + b[2]
<1>2. x \in Nat /\ y \in Nat
  <2>1. a[1] * L2 \in Nat /\ b[1] * L2 \in Nat
    BY <1>1, Entries, Product
  <2> QED
    BY <1>1, <2>1
<1>3. Track!ToMPN(a) = x * L3 + a[3] /\ Track!ToMPN(b) = y * L3 + b[3]
  BY DEF Track!ToMPN, L2, L3
<1>4. /\ x < y <=> a[1] < b[1] \/ (a[1] = b[1] /\ a[2] < b[2])
      /\ y < x <=> b[1] < a[1] \/ (a[1] = b[1] /\ b[2] < a[2])
  <2>1. L2 \in Nat \ {0}
    BY Entries
  <2> QED
    BY <1>1, <2>1, QuotientOrder
<1> HIDE DEF x, y
<1>5. /\ x * L3 + a[3] < y * L3 + b[3] <=> x < y \/ (x = y /\ a[3] < b[3])
      /\ y * L3 + b[3] < x * L3 + a[3] <=> y < x \/ (x = y /\ b[3] < a[3])
  <2>1. L3 \in Nat \ {0}
    BY Entries
  <2> QED
    BY <1>1, <1>2, <2>1, QuotientOrder
<1>6. x * L3 + a[3] \in Nat /\ y * L3 + b[3] \in Nat
  <2>1. x * L3 \in Nat /\ y * L3 \in Nat
    BY <1>2, Entries, Product
  <2> QED
    BY <1>1, <2>1
<1>7. x = y <=> a[1] = b[1] /\ a[2] = b[2]
  BY <1>1, <1>2, <1>4
<1>8. Track!ToMPN(a) < Track!ToMPN(b) <=> Track!Before(a, b)
  BY <1>1, <1>3, <1>4, <1>5, <1>7 DEF Track!Before
<1>9. Track!ToMPN(a) = Track!ToMPN(b) => a = b
  BY <1>1, <1>2, <1>3, <1>5, <1>6, <1>7
<1> QED
  BY <1>3, <1>6, <1>8, <1>9

\* A page whose place is in the directories is one that can be tracked.
LEMMA PageAt ==
  ASSUME NEW pos \in Track!Idx1 \X Track!Idx2 \X Track!Idx3
  PROVE  Track!ToMPN(pos) \in Track!MPNs /\ PosOf(Track!ToMPN(pos)) = pos
<1>1. PICK x \in 0 .. L1 - 1, y \in 0 .. L2 - 1, z \in 0 .. L3 - 1 : pos = <<x, y, z>>
  BY Entries
<1>2. x * L2 \in Nat /\ L1 * L2 \in Nat /\ (x * L2 + y) * L3 \in Nat /\ (L1 * L2) * L3 \in Nat
      /\ x * L2 + y \in Nat
  BY Entries, Product
<1>3. Track!ToMPN(pos) = (x * L2 + y) * L3 + z
  BY <1>1 DEF Track!ToMPN, L2, L3
<1>4. x * L2 + y < L1 * L2
  <2>1. x * L2 + L2 <= L1 * L2
    BY Entries, Carries
  <2> QED
    BY <1>2, <2>1, Entries
<1>5. (x * L2 + y) * L3 + L3 <= (L1 * L2) * L3
  BY <1>2, <1>4, Entries, Carries
<1>6. Track!ToMPN(pos) \in Track!MPNs
  BY <1>2, <1>3, <1>5, Entries
<1>7. pos \in Places
  BY <1>1, Entries DEF Places
<1>8. Track!ToMPN(pos) \in Nat
  BY <1>2, <1>3
<1>9. PosOf(Track!ToMPN(pos)) \in Places /\ Track!ToMPN(PosOf(Track!ToMPN(pos))) = Track!ToMPN(pos)
  BY <1>8, PlaceOf
<1> QED
  BY <1>6, <1>7, <1>9, PlacesOrdered

LEMMA Indices ==
  /\ Track!MPNs \subseteq Nat
  /\ \A n \in Track!MPNs :
       Track!P1(n) \in Track!Idx1 /\ Track!P2(n) \in Track!Idx2 /\ Track!P3(n) \in Track!Idx3
<1>1. Track!MPNs \subseteq Nat
  BY Entries
<1>2. ASSUME NEW n \in Track!MPNs
      PROVE  Track!P1(n) \in Track!Idx1 /\ Track!P2(n) \in Track!Idx2 /\ Track!P3(n) \in Track!Idx3
  <2>1. n \in Nat
    BY <1>1
  <2> QED
    BY <2>1, PlaceOf, Zenon
<1> QED
  BY <1>1, <1>2

-----------------------------------------------------------------------------
(* The tracker is the set of what was added and not removed.                 *)

TrackInv == Track!TypeOK /\ \A m \in Track!MPNs : Track!Test(m) <=> m \in added

LEMMA NullApart ==
  /\ NULL \notin Track!MPNs /\ Track!EmptyL2 # NULL
  /\ Track!EmptyL2 \in [Track!Idx2 -> {NULL} \cup SUBSET Track!Idx3]
  /\ \A S \in SUBSET Track!Idx3 : S # NULL
  /\ \A d \in [Track!Idx2 -> {NULL} \cup SUBSET Track!Idx3] : d # NULL
BY TrackersAssumption DEF Track!TrackerAssumption, Track!EmptyL2

\* Which bit is set.
LEMMA TestSet ==
  ASSUME NEW m \in Track!MPNs
  PROVE  Track!Test(m) <=> Track!IsSet(PosOf(m))
<1>1. m \in Nat
  BY Entries
<1>2. Track!P1(m) \in Track!Idx1
  BY <1>1, PlaceOf
<1> QED
  BY <1>2 DEF Track!Test, Track!IsSet, PosOf

LEMMA PlacesDiffer ==
  ASSUME NEW m \in Track!MPNs, NEW n \in Track!MPNs, PosOf(m) = PosOf(n)
  PROVE  m = n
<1>1. m \in Nat /\ n \in Nat
  BY Entries
<1> QED
  BY <1>1, PlaceOf, Zenon

\* A page's bit is written and no other.
LEMMA BitsWritten ==
  ASSUME Track!TypeOK, NEW m \in Track!MPNs, NEW bits \in SUBSET Track!Idx3,
         dir' = Track!WithBits(m, bits)
  PROVE  /\ dir' \in [Track!Idx1 -> {NULL} \cup [Track!Idx2 -> {NULL} \cup SUBSET Track!Idx3]]
         /\ \A n \in Track!MPNs :
              Track!Test(n)' <=>
                IF Track!P1(n) = Track!P1(m) /\ Track!P2(n) = Track!P2(m) THEN Track!P3(n) \in bits
                ELSE Track!Test(n)
<1>1. \A n \in Track!MPNs : Track!P1(n) \in Track!Idx1 /\ Track!P2(n) \in Track!Idx2
  BY Indices
<1>2. Track!Dir2(m) \in [Track!Idx2 -> {NULL} \cup SUBSET Track!Idx3]
  BY <1>1, NullApart DEF Track!Dir2, Track!TypeOK
<1> DEFINE new == [Track!Dir2(m) EXCEPT ![Track!P2(m)] = bits]
<1>3. new \in [Track!Idx2 -> {NULL} \cup SUBSET Track!Idx3] /\ new # NULL /\ bits # NULL
  BY <1>2, NullApart
<1>4. new[Track!P2(m)] = bits
      /\ \A k \in Track!Idx2 \ {Track!P2(m)} : new[k] = Track!Dir2(m)[k]
  BY <1>1, <1>2
<1>5. dir' = [dir EXCEPT ![Track!P1(m)] = new]
  BY DEF Track!WithBits
<1> HIDE DEF new
<1>6. dir' \in [Track!Idx1 -> {NULL} \cup [Track!Idx2 -> {NULL} \cup SUBSET Track!Idx3]]
  BY <1>1, <1>3, <1>5 DEF Track!TypeOK
<1>7. dir'[Track!P1(m)] = new /\ \A k \in Track!Idx1 \ {Track!P1(m)} : dir'[k] = dir[k]
  BY <1>1, <1>5 DEF Track!TypeOK
<1>8. ASSUME NEW n \in Track!MPNs
      PROVE  Track!Test(n)' <=>
               IF Track!P1(n) = Track!P1(m) /\ Track!P2(n) = Track!P2(m) THEN Track!P3(n) \in bits
               ELSE Track!Test(n)
  <2>1. CASE Track!P1(n) # Track!P1(m)
    BY <1>1, <1>7, <2>1, Zenon DEF Track!Test
  <2>2. CASE Track!P1(n) = Track!P1(m) /\ Track!P2(n) = Track!P2(m)
    BY <1>1, <1>3, <1>4, <1>7, <2>2 DEF Track!Test
  <2>3. CASE Track!P1(n) = Track!P1(m) /\ Track!P2(n) # Track!P2(m)
    <3>1. Track!Test(n)' <=> Track!Dir2(m)[Track!P2(n)] # NULL
                             /\ Track!P3(n) \in Track!Dir2(m)[Track!P2(n)]
      BY <1>1, <1>3, <1>4, <1>7, <2>3 DEF Track!Test
    <3>2. Track!Test(n) <=> Track!Dir2(m)[Track!P2(n)] # NULL
                            /\ Track!P3(n) \in Track!Dir2(m)[Track!P2(n)]
      BY <1>1, <2>3 DEF Track!Test, Track!Dir2, Track!EmptyL2
    <3> QED
      BY <2>3, <3>1, <3>2
  <2> QED
    BY <2>1, <2>2, <2>3
<1> QED
  BY <1>6, <1>8

LEMMA BitsOf ==
  ASSUME Track!TypeOK, NEW m \in Track!MPNs
  PROVE  /\ Track!Dir3(m) \in SUBSET Track!Idx3
         /\ \A n \in Track!MPNs : Track!P1(n) = Track!P1(m) /\ Track!P2(n) = Track!P2(m) =>
              (Track!Test(n) <=> Track!P3(n) \in Track!Dir3(m))
<1>1. \A n \in Track!MPNs : Track!P1(n) \in Track!Idx1 /\ Track!P2(n) \in Track!Idx2
  BY Indices
<1>2. Track!Dir2(m) \in [Track!Idx2 -> {NULL} \cup SUBSET Track!Idx3]
  BY <1>1, NullApart DEF Track!Dir2, Track!TypeOK
<1>3. Track!Dir3(m) \in SUBSET Track!Idx3
  BY <1>1, <1>2 DEF Track!Dir3
<1> QED
  BY <1>1, <1>2, <1>3, NullApart DEF Track!Dir3, Track!Dir2, Track!Test, Track!EmptyL2

LEMMA TrackStep ==
  ASSUME TrackInv, [Track!Next]_trackVars
  PROVE  TrackInv'
<1>1. \A m, n \in Track!MPNs :
        Track!P1(n) = Track!P1(m) /\ Track!P2(n) = Track!P2(m) /\ Track!P3(n) = Track!P3(m) => m = n
  BY PlacesDiffer DEF PosOf
<1>2. \A n \in Track!MPNs : Track!P3(n) \in Track!Idx3
  BY Indices
<1>3. ASSUME NEW m \in Track!MPNs, Track!Add(m) PROVE TrackInv'
  <2>1. Track!Dir3(m) \cup {Track!P3(m)} \in SUBSET Track!Idx3
    BY <1>2, BitsOf DEF TrackInv
  <2>2. dir' = Track!WithBits(m, Track!Dir3(m) \cup {Track!P3(m)}) /\ added' = added \cup {m}
    BY <1>3 DEF Track!Add
  <2>3. Track!TypeOK'
    BY <2>1, <2>2, BitsWritten DEF TrackInv, Track!TypeOK
  <2>4. ASSUME NEW n \in Track!MPNs PROVE Track!Test(n)' <=> n \in added'
    BY <1>1, <2>1, <2>2, BitsWritten, BitsOf, ZenonT(60) DEF TrackInv
  <2> QED
    BY <2>3, <2>4 DEF TrackInv
<1>4. ASSUME NEW m \in Track!MPNs, Track!Remove(m) PROVE TrackInv'
  <2>1. Track!Dir3(m) \ {Track!P3(m)} \in SUBSET Track!Idx3
    BY <1>2, BitsOf DEF TrackInv
  <2>2. dir' = Track!WithBits(m, Track!Dir3(m) \ {Track!P3(m)}) /\ added' = added \ {m}
    BY <1>4 DEF Track!Remove
  <2>3. Track!TypeOK'
    BY <2>1, <2>2, BitsWritten DEF TrackInv, Track!TypeOK
  <2>4. ASSUME NEW n \in Track!MPNs PROVE Track!Test(n)' <=> n \in added'
    BY <1>1, <2>1, <2>2, BitsWritten, BitsOf, ZenonT(60) DEF TrackInv
  <2> QED
    BY <2>3, <2>4 DEF TrackInv
<1>5. ASSUME Track!Free PROVE TrackInv'
  <2>1. ASSUME NEW n \in Track!MPNs PROVE ~Track!Test(n)
    <3>1. dir[Track!P1(n)] # NULL /\ dir[Track!P1(n)][Track!P2(n)] # NULL
            => dir[Track!P1(n)][Track!P2(n)] = {}
      BY <1>5, Indices DEF Track!Free
    <3> QED
      BY <3>1 DEF Track!Test
  <2>2. \A n \in Track!MPNs : ~Track!Test(n)'
    BY <1>5, Indices, NullApart DEF Track!Free, Track!Test
  <2>3. Track!TypeOK'
    BY <1>5 DEF TrackInv, Track!TypeOK, Track!Free
  <2> QED
    BY <1>5, <2>1, <2>2, <2>3 DEF TrackInv, Track!Free
<1>6. ASSUME UNCHANGED trackVars PROVE TrackInv'
  BY <1>6 DEF TrackInv, trackVars, Track!TypeOK, Track!Test
<1> QED
  BY <1>3, <1>4, <1>5, <1>6 DEF Track!Next

LEMMA TrackStart == Track!Init => TrackInv
<1> SUFFICES ASSUME Track!Init PROVE TrackInv
  OBVIOUS
<1>1. \A n \in Track!MPNs : ~Track!Test(n)
  BY DEF Track!Init, Track!Test
<1> QED
  BY <1>1 DEF TrackInv, Track!Init, Track!TypeOK

-----------------------------------------------------------------------------
(* What GetNext finds.                                                       *)

\* Its loops go through the places of the pages from the one it is given.
LEMMA VisitedFrom ==
  ASSUME NEW m \in Nat, NEW pos \in Track!Idx1 \X Track!Idx2 \X Track!Idx3
  PROVE  pos \in Track!Visited(m) <=> m <= Track!ToMPN(pos)
<1>1. /\ PosOf(m) \in Places /\ Track!ToMPN(PosOf(m)) = m
      /\ Track!P1(m) \in Nat /\ Track!P2(m) \in Nat /\ Track!P3(m) \in Nat
  <2>1. Track!Idx2 \subseteq Nat /\ Track!Idx3 \subseteq Nat
    BY Entries
  <2> QED
    BY <2>1, PlaceOf, Zenon
<1>2. pos \in Places /\ pos[1] \in Nat /\ pos[2] \in Nat /\ pos[3] \in Nat
  BY Entries DEF Places
<1>3. Track!ToMPN(pos) \in Nat /\ (Track!ToMPN(pos) < m <=> Track!Before(pos, PosOf(m)))
  BY <1>1, <1>2, PlacesOrdered
<1>4. pos \in Track!Visited(m) <=> ~Track!Before(pos, PosOf(m))
  BY <1>1, <1>2 DEF Track!Visited, Track!Before, PosOf
<1> QED
  BY <1>3, <1>4

Above(mpn) == {m \in added : mpn = NULL \/ m > mpn}

LEMMA NextExact ==
  ASSUME TrackInv, NEW mpn \in Track!MPNs \cup {NULL}
  PROVE  Track!GetNext(mpn) = IF Above(mpn) = {} THEN NULL ELSE Track!Least(Above(mpn))
<1> DEFINE from == IF mpn = NULL THEN 0 ELSE mpn + 1
           found == {pos \in Track!Visited(from) : Track!IsSet(pos)}
<1>1. from \in Nat /\ Above(mpn) = {m \in added : from <= m} /\ Above(mpn) \in SUBSET Nat
  BY Indices, NullApart DEF Above, TrackInv, Track!TypeOK
<1>2. Track!GetNext(mpn) =
        IF found = {} THEN NULL
        ELSE Track!ToMPN(CHOOSE pos \in found : \A q \in found \ {pos} : Track!Before(pos, q))
  BY DEF Track!GetNext
<1>3. Track!Visited(from) \subseteq Track!Idx1 \X Track!Idx2 \X Track!Idx3
  BY DEF Track!Visited
<1> HIDE DEF from
<1>4. ASSUME NEW pos \in found PROVE Track!ToMPN(pos) \in Above(mpn)
  <2>1. pos \in Track!Idx1 \X Track!Idx2 \X Track!Idx3 /\ Track!IsSet(pos)
    BY <1>3
  <2>2. from <= Track!ToMPN(pos)
    BY <1>1, <2>1, VisitedFrom
  <2>3. Track!ToMPN(pos) \in Track!MPNs /\ PosOf(Track!ToMPN(pos)) = pos
    BY <2>1, PageAt
  <2>4. Track!ToMPN(pos) \in added
    BY <2>1, <2>3, TestSet, Zenon DEF TrackInv
  <2> QED
    BY <1>1, <2>2, <2>4
<1>5. ASSUME NEW m \in Above(mpn)
      PROVE  PosOf(m) \in found /\ Track!ToMPN(PosOf(m)) = m
  <2>1. m \in added /\ m \in Track!MPNs /\ m \in Nat /\ from <= m
    BY <1>1 DEF TrackInv, Track!TypeOK
  <2>2. Track!IsSet(PosOf(m))
    BY <2>1, TestSet DEF TrackInv
  <2>3. PosOf(m) \in Track!Idx1 \X Track!Idx2 \X Track!Idx3 /\ Track!ToMPN(PosOf(m)) = m
    BY <2>1, Indices, PlaceOf DEF PosOf
  <2> QED
    BY <1>1, <2>1, <2>2, <2>3, VisitedFrom
<1>6. found \subseteq Places
  BY <1>3, Entries DEF Places
<1> HIDE DEF found
<1>7. CASE Above(mpn) = {}
  BY <1>2, <1>4, <1>7
<1>8. CASE Above(mpn) # {}
  <2>1. PICK l \in Above(mpn) : \A n \in Above(mpn) : l <= n
    BY <1>1, <1>8, LeastExists
  <2>2. Track!Least(Above(mpn)) = l
    <3>1. \A n \in Above(mpn) : (\A k \in Above(mpn) : n <= k) => n = l
      BY <1>1, <2>1
    <3> QED
      BY <2>1, <3>1 DEF Track!Least
  <2>3. PosOf(l) \in found /\ Track!ToMPN(PosOf(l)) = l /\ PosOf(l) \in Places
    BY <1>5, <1>6
  <2>4. ASSUME NEW q \in found \ {PosOf(l)}
        PROVE  Track!Before(PosOf(l), q) /\ ~Track!Before(q, PosOf(l))
    <3>1. l <= Track!ToMPN(q)
      BY <1>4, <2>1
    <3>2. q \in Places
      BY <1>6
    <3>3. Track!ToMPN(q) # l
      BY <2>3, <3>2, PlacesOrdered
    <3>4. l \in Nat /\ Track!ToMPN(q) \in Nat
      BY <1>1, <3>2, PlacesOrdered
    <3>5. l < Track!ToMPN(q) /\ ~(Track!ToMPN(q) < l)
      BY <3>1, <3>3, <3>4
    <3> QED
      BY <2>3, <3>2, <3>5, PlacesOrdered
  <2>5. \A c \in found : (\A q \in found \ {c} : Track!Before(c, q)) => c = PosOf(l)
    BY <2>3, <2>4
  <2>6. (CHOOSE pos \in found : \A q \in found \ {pos} : Track!Before(pos, q)) = PosOf(l)
    BY <2>3, <2>4, <2>5
  <2> QED
    BY <1>2, <1>8, <2>2, <2>3, <2>6
<1> QED
  BY <1>7, <1>8

-----------------------------------------------------------------------------
(* How many pages GetNext finds.                                             *)

Rank(b) == Cardinality({n \in added : n < b})

LEMMA AddedFinite ==
  ASSUME added \in SUBSET Track!MPNs
  PROVE  /\ IsFiniteSet(Track!MPNs) /\ IsFiniteSet(added)
         /\ Cardinality(added) \in Nat /\ Cardinality(Track!MPNs) \in Nat
         /\ Cardinality(added) <= Cardinality(Track!MPNs)
<1>1. L1 * L2 * L3 - 1 \in Int
  BY Entries
<1>2. IsFiniteSet(Track!MPNs)
  BY <1>1, Entries, FS_Interval
<1> QED
  BY <1>2, FS_Subset, FS_CardinalityType

LEMMA RankStep ==
  ASSUME added \in SUBSET Track!MPNs, NEW b \in Nat
  PROVE  /\ Rank(b) \in Nat /\ Rank(b) <= Cardinality(added)
         /\ Rank(0) = 0
         /\ Rank(b + 1) = IF b \in added THEN Rank(b) + 1 ELSE Rank(b)
<1> DEFINE S(c) == {n \in added : n < c}
<1>1. \A n \in added : n \in Nat
  BY Indices, Zenon
<1>2. IsFiniteSet(S(b)) /\ S(b) \subseteq added
  BY AddedFinite, FS_Subset
<1>3. Rank(b) = Cardinality(S(b)) /\ Rank(0) = Cardinality(S(0)) /\ Rank(b + 1) = Cardinality(S(b + 1))
  BY Zenon DEF Rank
<1>4. S(0) = {}
  BY <1>1
<1>5. b \in added => S(b + 1) = S(b) \cup {b}
  <2>1. \A n \in added : n < b + 1 <=> n < b \/ n = b
    BY <1>1
  <2> QED
    BY <2>1
<1>6. b \notin added => S(b + 1) = S(b)
  BY <1>1
<1>7. b \notin S(b)
  OBVIOUS
<1> HIDE DEF S
<1>8. Rank(b) \in Nat /\ Rank(b) <= Cardinality(added)
  BY <1>2, <1>3, AddedFinite, FS_Subset, FS_CardinalityType
<1>9. Rank(0) = 0
  BY <1>3, <1>4, FS_EmptySet
<1>10. b \in added => Rank(b + 1) = Rank(b) + 1
  BY <1>2, <1>3, <1>5, <1>7, FS_AddElement
<1> QED
  BY <1>3, <1>6, <1>8, <1>9, <1>10

\* Of two numbers the larger has the larger rank, and one more if the smaller is a member.
LEMMA RankOrder ==
  ASSUME added \in SUBSET Track!MPNs, NEW a \in Nat, NEW b \in Nat, a <= b
  PROVE  Rank(a) <= Rank(b) /\ (a \in added /\ a < b => Rank(a) + 1 <= Rank(b))
<1>1. ASSUME NEW c \in Nat, NEW d \in Nat, c <= d PROVE Rank(c) <= Rank(d)
  <2>1. {n \in added : n < c} \subseteq {n \in added : n < d}
    <3>1. \A n \in added : n \in Nat
      BY Indices, Zenon
    <3> QED
      BY <1>1, <3>1
  <2>2. IsFiniteSet({n \in added : n < d})
    BY AddedFinite, FS_Subset
  <2> QED
    BY <2>1, <2>2, FS_Subset DEF Rank
<1>2. ASSUME a \in added, a < b PROVE Rank(a) + 1 <= Rank(b)
  <2>1. Rank(a + 1) <= Rank(b) /\ Rank(a + 1) = Rank(a) + 1
    BY <1>1, <1>2, RankStep
  <2> QED
    BY <2>1
<1> QED
  BY <1>1, <1>2

\* Every rank below the number of members is the rank of exactly one of them.
LEMMA MemberOfRank ==
  ASSUME added \in SUBSET Track!MPNs, NEW r \in Nat, r < Cardinality(added)
  PROVE  /\ \E m \in added : Rank(m) = r
         /\ \A m, n \in added : Rank(m) = r /\ Rank(n) = r => m = n
<1> DEFINE Beyond == {b \in Nat : r < Rank(b)}
           top == L1 * L2 * L3
<1>1. top \in Nat /\ {n \in added : n < top} = added
  <2>1. Track!MPNs = 0 .. top - 1 /\ top \in Nat
    BY Entries, Zenon
  <2> HIDE DEF top
  <2>2. \A n \in added : n \in Track!MPNs
    OBVIOUS
  <2>3. \A n \in added : n < top
    BY <2>1, <2>2
  <2> QED
    BY <2>1, <2>3
<1>2. top \in Beyond
  BY <1>1 DEF Rank
<1>3. PICK b \in Beyond : \A n \in Beyond : b <= n
  BY <1>2, LeastExists
<1>4. b # 0 /\ b \in Nat /\ r < Rank(b)
  BY <1>3, RankStep
<1>5. PICK a \in Nat : b = a + 1
  <2>1. b - 1 \in Nat /\ b = (b - 1) + 1
    BY <1>4
  <2> QED
    BY <2>1
<1>6. a \notin Beyond
  BY <1>3, <1>5
<1>7. Rank(a) \in Nat /\ Rank(a) <= r
  BY <1>6, RankStep
<1>8. a \in added /\ Rank(a) = r
  BY <1>4, <1>5, <1>7, RankStep
<1>9. ASSUME NEW m \in added, NEW n \in added, Rank(m) = r, Rank(n) = r PROVE m = n
  <2>1. m \in Nat /\ n \in Nat
    BY Indices
  <2>2. ~(m < n) /\ ~(n < m)
    <3>1. m < n => r + 1 <= r
      BY <1>9, <2>1, RankOrder
    <3>2. n < m => r + 1 <= r
      BY <1>9, <2>1, RankOrder
    <3> QED
      BY <3>1, <3>2
  <2> QED
    BY <2>1, <2>2
<1> QED
  BY <1>8, <1>9

\* What GetNext finds at the k-th call is the k-th page.
Found == [k \in Track!Calls |-> IF k = 0 \/ k > Cardinality(added) THEN NULL
                               ELSE CHOOSE m \in added : Rank(m) = k - 1]

LEMMA CallsAre ==
  ASSUME added \in SUBSET Track!MPNs
  PROVE  \E n \in Nat : Track!Calls = 0 .. n + 1 /\ Cardinality(added) <= n
<1>1. Track!Calls = 0 .. Cardinality(Track!MPNs) + 1
  BY Zenon DEF Track!Calls, Track!Cardinality, Cardinality
<1> QED
  BY <1>1, AddedFinite

LEMMA FoundIs ==
  ASSUME TrackInv, NEW k \in Track!Calls
  PROVE  /\ k = 0 \/ k > Cardinality(added) => Found[k] = NULL
         /\ ~(k = 0 \/ k > Cardinality(added)) =>
              Found[k] \in added /\ Found[k] # NULL /\ Rank(Found[k]) = k - 1
<1>1. added \in SUBSET Track!MPNs
  BY DEF TrackInv, Track!TypeOK
<1>2. Found[k] = IF k = 0 \/ k > Cardinality(added) THEN NULL
                 ELSE CHOOSE m \in added : Rank(m) = k - 1
  BY DEF Found
<1>3. ASSUME ~(k = 0 \/ k > Cardinality(added))
      PROVE  Found[k] \in added /\ Rank(Found[k]) = k - 1
  <2>1. k - 1 \in Nat /\ k - 1 < Cardinality(added)
    BY <1>1, <1>3, CallsAre, AddedFinite
  <2>2. \E m \in added : Rank(m) = k - 1
    BY <1>1, <2>1, MemberOfRank
  <2> QED
    BY <1>2, <1>3, <2>2
<1> QED
  BY <1>1, <1>2, <1>3, NullApart

LEMMA FoundNext ==
  ASSUME TrackInv, NEW k \in Track!Calls, k # 0, k > 1 => Found[k - 1] # NULL
  PROVE  Found[k] = Track!GetNext(Found[k - 1])
<1> DEFINE c == Cardinality(added)
           last == Found[k - 1]
<1>1. added \in SUBSET Track!MPNs /\ c \in Nat
  BY AddedFinite DEF TrackInv, Track!TypeOK
<1>2. k \in Nat /\ k - 1 \in Nat /\ k - 1 \in Track!Calls /\ 0 \in Track!Calls
  BY <1>1, CallsAre
<1>3. last = NULL \/ (last \in added /\ last # NULL /\ Rank(last) = k - 2)
  BY <1>1, <1>2, FoundIs
<1>4. k = 1 <=> last = NULL
  BY <1>1, <1>2, <1>3, FoundIs
<1>5. k - 1 <= c
  BY <1>1, <1>2, <1>4, FoundIs
<1>6. Track!GetNext(last) = IF Above(last) = {} THEN NULL ELSE Track!Least(Above(last))
  BY <1>1, <1>3, NextExact
<1>7. \A m \in added : m \in Nat /\ Rank(m) \in Nat /\ Rank(m) + 1 <= c
  <2>1. \A m \in added : m \in Nat
    BY Indices, <1>1
  <2>2. ASSUME NEW m \in added PROVE Rank(m) + 1 <= c
    <3>1. Rank(m + 1) = Rank(m) + 1 /\ Rank(m + 1) <= c
      BY <1>1, <2>1, RankStep
    <3> QED
      BY <3>1
  <2>3. \A m \in added : Rank(m) \in Nat
    BY <1>1, <2>1, RankStep
  <2> QED
    BY <2>1, <2>2, <2>3
<1>8. \A m \in added : m \in Above(last) <=> Rank(m) >= k - 1
  <2>1. ASSUME NEW m \in added PROVE m \in Above(last) <=> Rank(m) >= k - 1
    <3>1. CASE k = 1
      BY <1>4, <1>7, <3>1 DEF Above
    <3>2. CASE k # 1
      <4>1. last \in added /\ last # NULL /\ Rank(last) = k - 2 /\ last \in Nat /\ m \in Nat
        BY <1>3, <1>4, <1>7, <3>2
      <4>2. m \in Above(last) <=> m > last
        BY <4>1 DEF Above
      <4>3. m > last => Rank(last) + 1 <= Rank(m)
        BY <1>1, <4>1, RankOrder
      <4>4. m <= last => Rank(m) <= Rank(last)
        BY <1>1, <4>1, RankOrder
      <4> HIDE DEF last
      <4> QED
        BY <1>2, <1>7, <4>1, <4>2, <4>3, <4>4
    <3> QED
      BY <3>1, <3>2
  <2> QED
    BY <2>1
<1>9. CASE k > c
  <2>1. Above(last) = {}
    BY <1>1, <1>2, <1>7, <1>8, <1>9 DEF Above
  <2> QED
    BY <1>6, <1>9, <2>1, FoundIs
<1>10. CASE k <= c
  <2>1. Found[k] \in added /\ Rank(Found[k]) = k - 1
    BY <1>1, <1>2, <1>10, FoundIs
  <2>2. Found[k] \in Above(last)
    BY <1>2, <1>8, <2>1
  <2>3. ASSUME NEW n \in Above(last), n # Found[k] PROVE Found[k] < n
    <3>1. n \in added /\ n \in Nat /\ Found[k] \in Nat /\ Rank(n) >= k - 1
      BY <1>7, <1>8, <2>1 DEF Above
    <3>2. n < Found[k] => Rank(n) + 1 <= Rank(Found[k])
      BY <1>1, <3>1, RankOrder
    <3>3. ~(n < Found[k])
      BY <1>2, <1>7, <2>1, <3>1, <3>2
    <3> QED
      BY <2>3, <3>1, <3>3
  <2>4. \A m \in Above(last) : (\A n \in Above(last) : m <= n) => m = Found[k]
    <3>1. \A m \in Above(last) : m \in Nat
      BY <1>7 DEF Above
    <3> QED
      BY <2>2, <2>3, <3>1
  <2>5. \A n \in Above(last) : Found[k] <= n
    <3>1. \A n \in Above(last) : n \in Nat
      BY <1>7 DEF Above
    <3> QED
      BY <2>2, <2>3, <3>1
  <2>6. Track!Least(Above(last)) = Found[k]
    BY <2>2, <2>4, <2>5 DEF Track!Least
  <2> QED
    BY <1>6, <2>2, <2>6
<1> QED
  BY <1>1, <1>2, <1>9, <1>10

\* The recursion of the walk, which has one solution.
Walks(w) == w = [k \in Track!Calls |->
                   IF k = 0 THEN NULL
                   ELSE IF k > 1 /\ w[k - 1] = NULL THEN NULL ELSE Track!GetNext(w[k - 1])]

LEMMA WalkFound == TrackInv => Track!Walk = Found
<1> SUFFICES ASSUME TrackInv PROVE Track!Walk = Found
  OBVIOUS
<1>1. added \in SUBSET Track!MPNs /\ Cardinality(added) \in Nat
  BY AddedFinite DEF TrackInv, Track!TypeOK
<1>2. Track!Calls \subseteq Nat /\ \A k \in Track!Calls : k # 0 => k - 1 \in Track!Calls
  BY <1>1, CallsAre
<1>3. Walks(Found)
  <2>1. ASSUME NEW k \in Track!Calls
        PROVE  Found[k] = IF k = 0 THEN NULL
                          ELSE IF k > 1 /\ Found[k - 1] = NULL THEN NULL
                          ELSE Track!GetNext(Found[k - 1])
    <3>1. CASE k = 0
      BY <3>1, FoundIs
    <3>2. CASE k # 0 /\ k > 1 /\ Found[k - 1] = NULL
      <4>1. k - 1 > Cardinality(added) /\ k \in Nat
        BY <1>1, <1>2, <3>2, FoundIs
      <4>2. k > Cardinality(added)
        BY <1>1, <4>1
      <4> QED
        BY <3>2, <4>2, FoundIs
    <3>3. CASE k # 0 /\ ~(k > 1 /\ Found[k - 1] = NULL)
      BY <3>3, FoundNext
    <3> QED
      BY <3>1, <3>2, <3>3
  <2>2. Found = [k \in Track!Calls |-> Found[k]]
    BY DEF Found
  <2> QED
    BY <2>1, <2>2 DEF Walks
<1>4. Track!Walk = CHOOSE w : Walks(w)
  BY Zenon DEF Track!Walk, Walks
<1>5. Walks(Track!Walk)
  BY <1>3, <1>4, Zenon
<1>6. ASSUME NEW k \in Track!Calls, Track!Walk[k] # Found[k] PROVE FALSE
  <2> DEFINE Differ == {j \in Track!Calls : Track!Walk[j] # Found[j]}
  <2>1. PICK j \in Differ : \A n \in Differ : j <= n
    BY <1>2, <1>6, LeastExists
  <2>2. /\ Track!Walk[j] = IF j = 0 THEN NULL
                          ELSE IF j > 1 /\ Track!Walk[j - 1] = NULL THEN NULL
                          ELSE Track!GetNext(Track!Walk[j - 1])
        /\ Found[j] = IF j = 0 THEN NULL
                      ELSE IF j > 1 /\ Found[j - 1] = NULL THEN NULL
                      ELSE Track!GetNext(Found[j - 1])
    BY <1>3, <1>5, <2>1 DEF Walks
  <2>3. j # 0
    BY <2>1, <2>2
  <2>4. j - 1 \in Track!Calls /\ j - 1 \notin Differ
    BY <1>2, <2>1, <2>3
  <2>5. Track!Walk[j - 1] = Found[j - 1]
    BY <2>4
  <2> QED
    BY <2>1, <2>2, <2>5, Zenon
<1>7. Track!Walk = [k \in Track!Calls |-> Track!Walk[k]] /\ Found = [k \in Track!Calls |-> Found[k]]
  BY <1>3, <1>5 DEF Walks
<1> QED
  BY <1>6, <1>7

LEMMA CountExact == TrackInv => Track!NumTrackedPages = Cardinality(added)
<1> SUFFICES ASSUME TrackInv PROVE Track!NumTrackedPages = Cardinality(added)
  OBVIOUS
<1>1. added \in SUBSET Track!MPNs /\ Cardinality(added) \in Nat
  BY AddedFinite DEF TrackInv, Track!TypeOK
<1>2. Track!NumTrackedPages = Cardinality({k \in Track!Calls : Track!Walk[k] # NULL})
  BY Zenon DEF Track!NumTrackedPages, Track!Cardinality, Cardinality
<1>3. {k \in Track!Calls : Found[k] # NULL} = 1 .. Cardinality(added)
  <2>1. PICK n \in Nat : Track!Calls = 0 .. n + 1 /\ Cardinality(added) <= n
    BY <1>1, CallsAre
  <2>2. \A k \in Track!Calls : Found[k] # NULL <=> ~(k = 0 \/ k > Cardinality(added))
    BY FoundIs
  <2> QED
    BY <1>1, <2>1, <2>2
<1>4. Cardinality(1 .. Cardinality(added)) = Cardinality(added)
  BY <1>1, FS_Interval
<1> QED
  BY <1>2, <1>3, <1>4, WalkFound

LEMMA TrackerTrue == TrackInv => Track!TrackerExact
<1> SUFFICES ASSUME TrackInv PROVE Track!TrackerExact
  OBVIOUS
<1>1. \A m \in Track!MPNs : Track!Test(m) <=> m \in added
  BY DEF TrackInv
<1>2. \A m \in Track!MPNs \cup {NULL} :
        Track!GetNext(m) = IF Above(m) = {} THEN NULL ELSE Track!Least(Above(m))
  BY NextExact
<1>3. Track!NumTrackedPages = Track!Cardinality(added)
  BY CountExact, Zenon DEF Track!Cardinality, Cardinality
<1> QED
  BY <1>1, <1>2, <1>3, Zenon DEF Track!TrackerExact, Above

-----------------------------------------------------------------------------
(* Pages that are pinned.                                                    *)

LEMMA PageSizes ==
  /\ Pages!MPNs \subseteq Nat \ {0} /\ Pages!MPNs = 1 .. MaxMPN /\ MaxMPN \in Nat
  /\ MEMTRACK_HT_SIZE \in Nat \ {0}
BY HostPagesAssumption DEF Pages!PagesAssumption, Pages!MPNs

\* A block has room for the pages asked for.
LEMMA BlockHolds ==
  ASSUME NEW map \in Pages!Maps
  PROVE  /\ Pages!Tracked(map) \subseteq Pages!Block(map)
         /\ map.mpn \in Pages!Block(map)
<1>1. map.mpn \in Nat /\ map.pages \in 1 .. 3
  BY PageSizes, HostPagesAssumption DEF Pages!Maps, Pages!PagesAssumption
<1>2. ASSUME NEW n \in 1 .. 3
      PROVE  2^Pages!Order(n) \in Nat /\ n <= 2^Pages!Order(n)
  <2> DEFINE P(k) == 2^k >= n /\ \A j \in 0 .. k - 1 : 2^j < n
  <2>1. Pages!Order(n) = CHOOSE k \in 0 .. n : P(k)
    BY Zenon DEF Pages!Order
  <2>2. \E k \in 0 .. n : P(k)
    <3>1. CASE n = 1
      <4>1. P(0) /\ 0 \in 0 .. n
        BY <3>1
      <4> QED
        BY <4>1
    <3>2. CASE n = 2
      <4>1. P(1) /\ 1 \in 0 .. n
        BY <3>2
      <4> QED
        BY <4>1
    <3>3. CASE n = 3
      <4>1. P(2) /\ 2 \in 0 .. n
        <5>1. 2^2 = 4 /\ 2^1 = 2 /\ 2^0 = 1
          OBVIOUS
        <5>2. 0 .. 2 - 1 = {0, 1}
          OBVIOUS
        <5> QED
          BY <3>3, <5>1, <5>2
      <4> QED
        BY <4>1
    <3> QED
      BY <3>1, <3>2, <3>3
  <2>3. Pages!Order(n) \in 0 .. n /\ P(Pages!Order(n))
    BY <2>1, <2>2, Zenon
  <2>4. 2^0 \in Nat /\ 2^1 \in Nat /\ 2^2 \in Nat /\ 2^3 \in Nat
    OBVIOUS
  <2>5. Pages!Order(n) \in {0, 1, 2, 3}
    BY <2>3
  <2>6. 2^Pages!Order(n) \in Nat
    BY <2>4, <2>5, Zenon
  <2> QED
    BY <2>3, <2>6
<1>3. PICK p \in Nat : p = 2^Pages!Order(map.pages) /\ map.pages <= p
  BY <1>1, <1>2
<1>4. Pages!Block(map) = map.mpn .. map.mpn + p - 1
  BY <1>3, Zenon DEF Pages!Block
<1> QED
  BY <1>1, <1>3, <1>4 DEF Pages!Tracked

\* The entries of the memory tracker are finitely many, and one per page to begin with.
Held(m)     == Cardinality(Pages!Entries(m))
Spare(m)    == \E map \in contigMappings : m \in Pages!Block(map) \ Pages!Tracked(map)
One(b)      == IF b THEN 1 ELSE 0

\* The blocks are apart; the pages of them that were asked for are tracked, and no other.
BlocksApart ==
  \A map \in contigMappings :
    /\ Pages!Block(map) \subseteq Pages!MPNs
    /\ Pages!Tracked(map) \subseteq AWEPages
    /\ \A m \in Pages!Block(map) \ Pages!Tracked(map) : m \notin AWEPages
    /\ \A other \in contigMappings \ {map} : Pages!Block(map) \cap Pages!Block(other) = {}

\* An address has one entry.
EntryOfAddress == \A j, k \in DOMAIN memtracker : memtracker[j].vpn = memtracker[k].vpn => j = k

RefsCounted ==
  \A m \in Pages!MPNs : refs[m] = Held(m) + One(m \in lockedPages) + One(m \in AWEPages) + One(Spare(m))

NobodyNone == life = "none" => \A m \in Pages!MPNs : refs[m] = 0

PinsInv == Pages!TypeOK /\ BlocksApart /\ EntryOfAddress /\ RefsCounted /\ NobodyNone

LEMMA PinsTrue == PinsInv => Pages!PinsExact
<1> SUFFICES ASSUME PinsInv PROVE Pages!PinsExact
  OBVIOUS
<1>1. \A m \in Pages!MPNs :
        refs[m] = Pages!Cardinality(Pages!Entries(m)) + Pages!Count(m \in lockedPages)
                  + Pages!Count(m \in AWEPages) + Pages!Count(Spare(m))
  BY Zenon DEF PinsInv, RefsCounted, Held, One, Pages!Count, Pages!Cardinality, Cardinality
<1>2. ASSUME NEW v \in VPNs PROVE Cardinality(Pages!LookupVPN(v)) <= 1
  <2>1. CASE Pages!LookupVPN(v) = {}
    BY <2>1, FS_EmptySet
  <2>2. CASE Pages!LookupVPN(v) # {}
    <3>1. PICK k \in Pages!LookupVPN(v) : TRUE
      BY <2>2
    <3>2. Pages!LookupVPN(v) = {k}
      BY <3>1 DEF PinsInv, EntryOfAddress, Pages!LookupVPN
    <3>3. Cardinality({k}) = 1
      BY FS_Singleton, Zenon
    <3> QED
      BY <3>2, <3>3
  <2> QED
    BY <2>1, <2>2
<1>3. \A v \in VPNs : Pages!Cardinality(Pages!LookupVPN(v)) <= 1
  BY <1>2, Zenon DEF Pages!Cardinality, Cardinality
<1> QED
  BY <1>1, <1>3, Zenon DEF Pages!PinsExact, PinsInv, NobodyNone, Spare

LEMMA PinsStart == Pages!Init => PinsInv
<1> SUFFICES ASSUME Pages!Init PROVE PinsInv
  OBVIOUS
<1>1. DOMAIN memtracker = {}
  BY DEF Pages!Init
<1>2. \A m : Held(m) = 0
  BY <1>1, FS_EmptySet DEF Held, Pages!Entries
<1>3. Pages!TypeOK
  BY PageSizes DEF Pages!Init, Pages!TypeOK
<1>4. BlocksApart /\ EntryOfAddress /\ NobodyNone
  BY <1>1 DEF Pages!Init, BlocksApart, EntryOfAddress, NobodyNone
<1>5. RefsCounted
  BY <1>2 DEF Pages!Init, RefsCounted, One, Spare
<1> QED
  BY <1>3, <1>4, <1>5 DEF PinsInv

\* What the entries' changes do to what is held.
LEMMA HeldIs ==
  ASSUME Pages!TypeOK, NEW m \in Pages!MPNs
  PROVE  IsFiniteSet(Pages!Entries(m)) /\ Held(m) \in Nat
<1>1. DOMAIN memtracker = 1 .. Len(memtracker) /\ Len(memtracker) \in Nat
  BY DEF Pages!TypeOK
<1>2. IsFiniteSet(DOMAIN memtracker)
  BY <1>1, FS_Interval
<1>3. Pages!Entries(m) \subseteq DOMAIN memtracker
  BY DEF Pages!Entries
<1> QED
  BY <1>2, <1>3, FS_Subset, FS_CardinalityType DEF Held

\* A page without references is in nothing that vmmon has.
LEMMA UnusedFree ==
  ASSUME PinsInv, NEW m \in Pages!Unused
  PROVE  /\ m \in Pages!MPNs /\ refs[m] = 0
         /\ m \notin AWEPages /\ m \notin lockedPages
         /\ \A map \in contigMappings : m \notin Pages!Block(map)
<1>1. m \in Pages!MPNs /\ refs[m] = 0
  BY DEF Pages!Unused
<1>2. Held(m) \in Nat
  BY <1>1, HeldIs DEF PinsInv
<1>3. m \notin AWEPages /\ m \notin lockedPages /\ ~Spare(m)
  <2>1. One(m \in lockedPages) \in Nat /\ One(m \in AWEPages) \in Nat /\ One(Spare(m)) \in Nat
    BY DEF One
  <2>2. One(m \in lockedPages) = 0 /\ One(m \in AWEPages) = 0 /\ One(Spare(m)) = 0
    BY <1>1, <1>2, <2>1 DEF PinsInv, RefsCounted
  <2> QED
    BY <2>2 DEF One
<1> QED
  BY <1>1, <1>3 DEF Spare, PinsInv, BlocksApart

LEMMA EntryAdded ==
  ASSUME PinsInv, NEW v \in VPNs, NEW m \in Pages!MPNs,
         Pages!LookupVPN(v) = {}, Pages!MemTrackAdd(v, m)
  PROVE  /\ memtracker' \in Seq([vpn : VPNs, mpn : 0 .. MaxMPN, chain : 0 .. MEMTRACK_HT_SIZE - 1])
         /\ EntryOfAddress'
         /\ \A n \in Pages!MPNs : Held(n)' = IF n = m THEN Held(n) + 1 ELSE Held(n)
<1> DEFINE e == [vpn |-> v, mpn |-> m, chain |-> Pages!Hash(m)]
           Row == [vpn : VPNs, mpn : 0 .. MaxMPN, chain : 0 .. MEMTRACK_HT_SIZE - 1]
<1>1. e \in Row
  <2>1. m \in 0 .. MaxMPN
    BY PageSizes
  <2>2. Pages!Hash(m) \in 0 .. MEMTRACK_HT_SIZE - 1
    BY PageSizes DEF Pages!Hash
  <2> QED
    BY <2>1, <2>2
<1>2. memtracker' = Append(memtracker, e) /\ memtracker \in Seq(Row)
  BY DEF Pages!MemTrackAdd, PinsInv, Pages!TypeOK
<1>3. memtracker' \in Seq(Row)
  BY <1>1, <1>2
<1> DEFINE l == Len(memtracker)
<1>4. /\ l \in Nat /\ DOMAIN memtracker = 1 .. l /\ DOMAIN memtracker' = 1 .. l + 1
      /\ memtracker'[l + 1] = e /\ \A k \in 1 .. l : memtracker'[k] = memtracker[k]
  BY <1>1, <1>2
<1>5. e.vpn = v /\ e.mpn = m
  OBVIOUS
<1> HIDE DEF e, l
<1>6. EntryOfAddress'
  BY <1>4, <1>5 DEF PinsInv, EntryOfAddress, Pages!LookupVPN
<1>7. ASSUME NEW n \in Pages!MPNs
      PROVE  Held(n)' = IF n = m THEN Held(n) + 1 ELSE Held(n)
  <2>1. IsFiniteSet(Pages!Entries(n)) /\ l + 1 \notin Pages!Entries(n)
    <3>1. IsFiniteSet(Pages!Entries(n))
      BY HeldIs DEF PinsInv
    <3>2. l + 1 \notin DOMAIN memtracker
      BY <1>4
    <3> QED
      BY <3>1, <3>2 DEF Pages!Entries
  <2>2. CASE n = m
    <3>1. Pages!Entries(n)' = Pages!Entries(n) \cup {l + 1}
      BY <1>4, <1>5, <2>2 DEF Pages!Entries
    <3> QED
      BY <2>1, <2>2, <3>1, FS_AddElement DEF Held
  <2>3. CASE n # m
    <3>1. Pages!Entries(n)' = Pages!Entries(n)
      BY <1>4, <1>5, <2>3 DEF Pages!Entries
    <3> QED
      BY <2>3, <3>1 DEF Held
  <2> QED
    BY <2>2, <2>3
<1> QED
  BY <1>3, <1>6, <1>7

LEMMA EntryChanged ==
  ASSUME PinsInv, NEW k \in DOMAIN memtracker, NEW m \in 0 .. MaxMPN,
         memtracker' = [memtracker EXCEPT ![k].mpn = m], memtracker[k].mpn # m
  PROVE  /\ memtracker' \in Seq([vpn : VPNs, mpn : 0 .. MaxMPN, chain : 0 .. MEMTRACK_HT_SIZE - 1])
         /\ EntryOfAddress'
         /\ \A n \in Pages!MPNs : Held(n)' = Held(n) + One(n = m) - One(n = memtracker[k].mpn)
<1> DEFINE Row == [vpn : VPNs, mpn : 0 .. MaxMPN, chain : 0 .. MEMTRACK_HT_SIZE - 1]
<1> DEFINE e == [memtracker[k] EXCEPT !.mpn = m]
<1>1. memtracker \in Seq(Row)
  BY Zenon DEF PinsInv, Pages!TypeOK
<1>2. memtracker[k] \in Row
  BY <1>1, ElementOfSeq, LenProperties
<1>3. memtracker' = [memtracker EXCEPT ![k] = e]
  BY Zenon
<1>4. e \in Row /\ e.mpn = m /\ e.vpn = memtracker[k].vpn
  BY <1>2
<1> HIDE DEF e
<1>5. memtracker' \in Seq(Row)
  <2>1. k \in 1 .. Len(memtracker)
    BY <1>1, LenProperties
  <2>2. [memtracker EXCEPT ![k] = e] \in Seq(Row)
    BY <1>1, <1>4, <2>1, ExceptSeq, Zenon
  <2> QED
    BY <1>3, <2>2
<1>6. /\ DOMAIN memtracker' = DOMAIN memtracker
      /\ memtracker'[k].mpn = m /\ memtracker'[k].vpn = memtracker[k].vpn
      /\ \A j \in DOMAIN memtracker \ {k} : memtracker'[j] = memtracker[j]
  BY <1>3, <1>4
<1>7. EntryOfAddress'
  BY <1>6 DEF PinsInv, EntryOfAddress
<1>8. ASSUME NEW n \in Pages!MPNs
      PROVE  Held(n)' = Held(n) + One(n = m) - One(n = memtracker[k].mpn)
  <2>1. IsFiniteSet(Pages!Entries(n)) /\ Held(n) \in Nat
    BY HeldIs DEF PinsInv
  <2>2. CASE n = m
    <3>1. Pages!Entries(n)' = Pages!Entries(n) \cup {k} /\ k \notin Pages!Entries(n)
      BY <1>6, <2>2 DEF Pages!Entries
    <3>2. Held(n)' = Held(n) + 1
      BY <2>1, <3>1, FS_AddElement DEF Held
    <3> QED
      BY <2>1, <2>2, <3>2 DEF One
  <2>3. CASE n = memtracker[k].mpn
    <3>1. Pages!Entries(n)' = Pages!Entries(n) \ {k} /\ k \in Pages!Entries(n)
      BY <1>6, <2>3 DEF Pages!Entries
    <3>2. Held(n)' = Held(n) - 1
      BY <2>1, <3>1, FS_RemoveElement DEF Held
    <3> QED
      BY <2>1, <2>3, <3>2 DEF One
  <2>4. CASE n # m /\ n # memtracker[k].mpn
    <3>1. Pages!Entries(n)' = Pages!Entries(n)
      BY <1>6, <2>4 DEF Pages!Entries
    <3> QED
      BY <2>1, <2>4, <3>1 DEF Held, One
  <2> QED
    BY <2>2, <2>3, <2>4
<1> QED
  BY <1>5, <1>7, <1>8

\* References are taken of pages, and put.
LEMMA HoldersCounted ==
  ASSUME PinsInv, NEW m \in Pages!MPNs
  PROVE  /\ refs[m] \in Int /\ Held(m) \in Nat
         /\ One(m \in lockedPages) \in {0, 1} /\ One(m \in AWEPages) \in {0, 1} /\ One(Spare(m)) \in {0, 1}
         /\ refs[m] = Held(m) + One(m \in lockedPages) + One(m \in AWEPages) + One(Spare(m))
<1>1. refs[m] \in Int /\ Held(m) \in Nat
  BY HeldIs DEF PinsInv, Pages!TypeOK
<1> QED
  BY <1>1 DEF PinsInv, RefsCounted, One

\* The pinned pages of the process change, and nothing that was allocated.
LEMMA ProcessStep ==
  ASSUME PinsInv, life = "live", UNCHANGED <<life, AWEPages, contigMappings>>,
         Pages!TypeOK', EntryOfAddress',
         \A m \in Pages!MPNs : Held(m)' \in Int,
         \A m \in Pages!MPNs :
           refs'[m] = refs[m] + (Held(m)' + One(m \in lockedPages'))
                              - (Held(m) + One(m \in lockedPages))
  PROVE  PinsInv'
<1>1. BlocksApart' /\ NobodyNone'
  BY DEF PinsInv, BlocksApart, NobodyNone
<1>2. ASSUME NEW m \in Pages!MPNs
      PROVE  refs'[m] = Held(m)' + One(m \in lockedPages') + One(m \in AWEPages') + One(Spare(m))'
  <2>1. One(m \in AWEPages') = One(m \in AWEPages) /\ One(Spare(m))' = One(Spare(m))
    BY DEF Spare
  <2>2. Held(m)' \in Int /\ One(m \in lockedPages') \in {0, 1}
    BY DEF One
  <2> QED
    BY <2>1, <2>2, HoldersCounted
<1> QED
  BY <1>1, <1>2 DEF PinsInv, RefsCounted

LEMMA LockPageKeeps ==
  ASSUME PinsInv, NEW v \in VPNs, Pages!LockPage(v)
  PROVE  PinsInv'
<1>1. /\ life = "live" /\ UNCHANGED <<life, mapped, lockedPages, AWEPages, contigMappings>>
      /\ mapped[v] # 0 /\ Pages!LockedAt(v) = {} /\ Pages!Plus({mapped[v]})
      /\ IF Pages!LookupVPN(v) = {} THEN Pages!MemTrackAdd(v, mapped[v])
         ELSE \E k \in Pages!LookupVPN(v) : memtracker' = [memtracker EXCEPT ![k].mpn = mapped[v]]
  BY Zenon DEF Pages!LockPage
<1>2. PICK m \in Pages!MPNs : m = mapped[v]
  BY <1>1, PageSizes DEF PinsInv, Pages!TypeOK
<1>3. refs' \in [Pages!MPNs -> Int] /\ \A n \in Pages!MPNs : refs'[n] = refs[n] + One(n = m)
  <2>1. refs' = [n \in Pages!MPNs |-> IF n \in {m} THEN refs[n] + 1 ELSE refs[n]]
    BY <1>1, <1>2 DEF Pages!Plus
  <2>2. \A n \in Pages!MPNs : refs[n] \in Int
    BY DEF PinsInv, Pages!TypeOK
  <2> QED
    BY <2>1, <2>2 DEF One
<1>4. m \in 0 .. MaxMPN /\ 0 \in 0 .. MaxMPN /\ m # 0
  BY PageSizes
<1>5. /\ memtracker' \in Seq([vpn : VPNs, mpn : 0 .. MaxMPN, chain : 0 .. MEMTRACK_HT_SIZE - 1])
      /\ EntryOfAddress'
      /\ \A n \in Pages!MPNs : Held(n)' = Held(n) + One(n = m)
  <2>1. CASE Pages!LookupVPN(v) = {}
    <3>1. Pages!MemTrackAdd(v, m)
      BY <1>1, <1>2, <2>1
    <3>2. /\ memtracker' \in Seq([vpn : VPNs, mpn : 0 .. MaxMPN, chain : 0 .. MEMTRACK_HT_SIZE - 1])
          /\ EntryOfAddress'
      BY <2>1, <3>1, EntryAdded, Zenon
    <3>3. \A n \in Pages!MPNs : Held(n)' = IF n = m THEN Held(n) + 1 ELSE Held(n)
      BY <2>1, <3>1, EntryAdded, Zenon
    <3>4. \A n \in Pages!MPNs : Held(n) \in Nat
      BY HoldersCounted
    <3>5. \A n \in Pages!MPNs : Held(n)' = Held(n) + One(n = m)
      BY <3>3, <3>4 DEF One
    <3> QED
      BY <3>2, <3>5
  <2>2. CASE Pages!LookupVPN(v) # {}
    <3>1. PICK k \in Pages!LookupVPN(v) : memtracker' = [memtracker EXCEPT ![k].mpn = m]
      BY <1>1, <1>2, <2>2, Zenon
    <3>2. k \in DOMAIN memtracker /\ memtracker[k].mpn = 0
      BY <1>1, <3>1, Zenon DEF Pages!LockedAt, Pages!LookupVPN
    <3>3. \A n \in Pages!MPNs : n # memtracker[k].mpn /\ Held(n) \in Nat
      BY <3>2, HoldersCounted, PageSizes
    <3>4. \A n \in Pages!MPNs : Held(n)' = Held(n) + One(n = m) - One(n = memtracker[k].mpn)
      BY <1>4, <3>1, <3>2, EntryChanged, ZenonT(60)
    <3>5. /\ memtracker' \in Seq([vpn : VPNs, mpn : 0 .. MaxMPN, chain : 0 .. MEMTRACK_HT_SIZE - 1])
          /\ EntryOfAddress'
      BY <1>4, <3>1, <3>2, EntryChanged
    <3> QED
      BY <3>3, <3>4, <3>5 DEF One
  <2> QED
    BY <2>1, <2>2
<1>6. Pages!TypeOK'
  BY <1>1, <1>3, <1>5 DEF PinsInv, Pages!TypeOK
<1>7. \A n \in Pages!MPNs :
        refs'[n] = refs[n] + (Held(n)' + One(n \in lockedPages')) - (Held(n) + One(n \in lockedPages))
  <2>1. \A n \in Pages!MPNs : refs[n] \in Int /\ Held(n) \in Nat /\ One(n \in lockedPages) \in {0, 1}
                            /\ One(n = m) \in {0, 1}
    BY HoldersCounted DEF One
  <2> QED
    BY <1>1, <1>3, <1>5, <2>1, SMTT(40)
<1>8. \A n \in Pages!MPNs : Held(n)' \in Int
  <2>1. \A n \in Pages!MPNs : Held(n) \in Nat /\ One(n = m) \in {0, 1}
    BY HoldersCounted DEF One
  <2> QED
    BY <1>5, <2>1
<1> QED
  BY <1>1, <1>5, <1>6, <1>7, <1>8, ProcessStep

LEMMA UnlockPageKeeps ==
  ASSUME PinsInv, NEW v \in VPNs, Pages!UnlockPage(v)
  PROVE  PinsInv'
<1>1. /\ life = "live" /\ UNCHANGED <<life, mapped, lockedPages, AWEPages, contigMappings>>
      /\ \E k \in Pages!LockedAt(v) : /\ Pages!Minus({memtracker[k].mpn})
                                      /\ memtracker' = [memtracker EXCEPT ![k].mpn = 0]
  BY Zenon DEF Pages!UnlockPage
<1>2. PICK k \in Pages!LockedAt(v) : /\ Pages!Minus({memtracker[k].mpn})
                                     /\ memtracker' = [memtracker EXCEPT ![k].mpn = 0]
  BY <1>1, Zenon
<1>3. k \in DOMAIN memtracker /\ memtracker[k].mpn # 0
  BY Zenon DEF Pages!LockedAt, Pages!LookupVPN
<1>4. PICK m \in Pages!MPNs : m = memtracker[k].mpn
  <2>1. memtracker[k] \in [vpn : VPNs, mpn : 0 .. MaxMPN, chain : 0 .. MEMTRACK_HT_SIZE - 1]
    BY <1>3, ElementOfSeq, LenProperties DEF PinsInv, Pages!TypeOK
  <2> QED
    BY <1>3, <2>1, PageSizes
<1>5. refs' \in [Pages!MPNs -> Int] /\ \A n \in Pages!MPNs : refs'[n] = refs[n] - One(n = m)
  <2>1. refs' = [n \in Pages!MPNs |-> IF n \in {m} THEN refs[n] - 1 ELSE refs[n]]
    BY <1>2, <1>4 DEF Pages!Minus
  <2>2. \A n \in Pages!MPNs : refs[n] \in Int
    BY DEF PinsInv, Pages!TypeOK
  <2> QED
    BY <2>1, <2>2 DEF One
<1>6. 0 \in 0 .. MaxMPN
  BY PageSizes
<1>7. \A n \in Pages!MPNs : Held(n)' = Held(n) + One(n = 0) - One(n = memtracker[k].mpn)
  BY <1>2, <1>3, <1>6, EntryChanged
<1>8. /\ memtracker' \in Seq([vpn : VPNs, mpn : 0 .. MaxMPN, chain : 0 .. MEMTRACK_HT_SIZE - 1])
      /\ EntryOfAddress'
  BY <1>2, <1>3, <1>6, EntryChanged
<1>9. Pages!TypeOK'
  BY <1>1, <1>5, <1>8 DEF PinsInv, Pages!TypeOK
<1>10. \A n \in Pages!MPNs :
        refs'[n] = refs[n] + (Held(n)' + One(n \in lockedPages')) - (Held(n) + One(n \in lockedPages))
  <2>1. \A n \in Pages!MPNs : refs[n] \in Int /\ Held(n) \in Nat /\ One(n \in lockedPages) \in {0, 1}
                            /\ One(n = m) \in {0, 1} /\ One(n = 0) = 0
    BY HoldersCounted, PageSizes DEF One
  <2> QED
    BY <1>1, <1>4, <1>5, <1>7, <2>1
<1>11. \A n \in Pages!MPNs : Held(n)' \in Int
  <2>1. \A n \in Pages!MPNs : Held(n) \in Nat /\ One(n = m) \in {0, 1} /\ One(n = 0) = 0
    BY HoldersCounted, PageSizes DEF One
  <2> QED
    BY <1>4, <1>7, <2>1
<1> QED
  BY <1>1, <1>8, <1>9, <1>10, <1>11, ProcessStep

LEMMA ByMPNKeeps ==
  ASSUME PinsInv,
         \/ \E v \in VPNs : Pages!LockPageByMPN(v)
         \/ \E m \in Pages!MPNs : Pages!UnlockPageByMPN(m)
  PROVE  PinsInv'
<1>1. /\ life = "live" /\ UNCHANGED <<life, mapped, memtracker, AWEPages, contigMappings>>
      /\ \/ \E m \in Pages!MPNs : m \notin lockedPages /\ lockedPages' = lockedPages \cup {m} /\ Pages!Plus({m})
         \/ \E m \in lockedPages : lockedPages' = lockedPages \ {m} /\ Pages!Minus({m})
  <2>1. ASSUME NEW v \in VPNs, Pages!LockPageByMPN(v)
        PROVE  \E m \in Pages!MPNs : m \notin lockedPages /\ lockedPages' = lockedPages \cup {m} /\ Pages!Plus({m})
    <3>1. mapped[v] \in Pages!MPNs
      BY <2>1, PageSizes DEF PinsInv, Pages!TypeOK, Pages!LockPageByMPN
    <3> QED
      BY <2>1, <3>1 DEF Pages!LockPageByMPN
  <2> QED
    BY <2>1, Zenon DEF Pages!LockPageByMPN, Pages!UnlockPageByMPN
<1>2. EntryOfAddress' /\ \A n : Held(n)' = Held(n)
  BY <1>1 DEF PinsInv, EntryOfAddress, Held, Pages!Entries
<1>3. \A n \in Pages!MPNs : refs[n] \in Int /\ Held(n) \in Nat /\ One(n \in lockedPages) \in {0, 1}
  BY HoldersCounted
<1>4. CASE \E m \in Pages!MPNs : m \notin lockedPages /\ lockedPages' = lockedPages \cup {m} /\ Pages!Plus({m})
  <2>1. PICK m \in Pages!MPNs : m \notin lockedPages /\ lockedPages' = lockedPages \cup {m} /\ Pages!Plus({m})
    BY <1>4
  <2>2. refs' = [n \in Pages!MPNs |-> IF n \in {m} THEN refs[n] + 1 ELSE refs[n]]
    BY <2>1 DEF Pages!Plus
  <2>3. Pages!TypeOK'
    BY <1>1, <1>3, <2>1, <2>2 DEF PinsInv, Pages!TypeOK
  <2>4. \A n \in Pages!MPNs :
          refs'[n] = refs[n] + (Held(n)' + One(n \in lockedPages')) - (Held(n) + One(n \in lockedPages))
    BY <1>2, <1>3, <2>1, <2>2 DEF One
  <2> QED
    BY <1>1, <1>2, <1>3, <2>3, <2>4, ProcessStep
<1>5. CASE \E m \in lockedPages : lockedPages' = lockedPages \ {m} /\ Pages!Minus({m})
  <2>1. PICK m \in lockedPages : lockedPages' = lockedPages \ {m} /\ Pages!Minus({m})
    BY <1>5
  <2>2. refs' = [n \in Pages!MPNs |-> IF n \in {m} THEN refs[n] - 1 ELSE refs[n]]
    BY <2>1 DEF Pages!Minus
  <2>3. Pages!TypeOK'
    BY <1>1, <1>3, <2>1, <2>2 DEF PinsInv, Pages!TypeOK
  <2>4. \A n \in Pages!MPNs :
          refs'[n] = refs[n] + (Held(n)' + One(n \in lockedPages')) - (Held(n) + One(n \in lockedPages))
    BY <1>2, <1>3, <2>1, <2>2 DEF One
  <2> QED
    BY <1>1, <1>2, <1>3, <2>3, <2>4, ProcessStep
<1> QED
  BY <1>1, <1>4, <1>5

\* Pages are allocated and freed, and nothing of the process changes.
LEMMA AllocationStep ==
  ASSUME PinsInv, life = "live", UNCHANGED <<life, memtracker, lockedPages>>,
         Pages!TypeOK', BlocksApart',
         \A m \in Pages!MPNs :
           refs'[m] = refs[m] + (One(m \in AWEPages') + One(Spare(m))')
                              - (One(m \in AWEPages) + One(Spare(m)))
  PROVE  PinsInv'
<1>1. EntryOfAddress' /\ NobodyNone'
  BY DEF PinsInv, EntryOfAddress, NobodyNone
<1>2. ASSUME NEW m \in Pages!MPNs
      PROVE  refs'[m] = Held(m)' + One(m \in lockedPages') + One(m \in AWEPages') + One(Spare(m))'
  <2>1. Held(m)' = Held(m) /\ One(m \in lockedPages') = One(m \in lockedPages)
    BY DEF Held, Pages!Entries
  <2>2. One(m \in AWEPages') \in {0, 1} /\ One(Spare(m))' \in {0, 1}
    BY DEF One
  <2> QED
    BY <2>1, <2>2, HoldersCounted
<1> QED
  BY <1>1, <1>2 DEF PinsInv, RefsCounted

LEMMA AllocKeeps ==
  ASSUME PinsInv, NEW S \in SUBSET Pages!MPNs, Pages!AllocLockedPages(S)
  PROVE  PinsInv'
<1>1. /\ life = "live" /\ UNCHANGED <<life, mapped, memtracker, lockedPages, contigMappings>>
      /\ S \subseteq Pages!Unused /\ AWEPages' = AWEPages \cup S /\ Pages!Plus(S)
  BY Zenon DEF Pages!AllocLockedPages
<1>2. \A m \in S : m \notin AWEPages /\ \A map \in contigMappings : m \notin Pages!Block(map)
  BY <1>1, UnusedFree
<1>3. refs' = [n \in Pages!MPNs |-> IF n \in S THEN refs[n] + 1 ELSE refs[n]]
  BY <1>1 DEF Pages!Plus
<1>4. \A n \in Pages!MPNs : refs[n] \in Int /\ One(n \in AWEPages) \in {0, 1} /\ One(Spare(n)) \in {0, 1}
  BY HoldersCounted
<1>5. Pages!TypeOK'
  BY <1>1, <1>3, <1>4 DEF PinsInv, Pages!TypeOK
<1>6. BlocksApart'
  BY <1>1, <1>2 DEF PinsInv, BlocksApart
<1>7. \A n \in Pages!MPNs :
        refs'[n] = refs[n] + (One(n \in AWEPages') + One(Spare(n))') - (One(n \in AWEPages) + One(Spare(n)))
  <2>1. \A n \in Pages!MPNs : One(Spare(n))' = One(Spare(n))
    BY <1>1 DEF Spare
  <2> QED
    BY <1>1, <1>2, <1>3, <1>4, <2>1 DEF One
<1> QED
  BY <1>1, <1>5, <1>6, <1>7, AllocationStep

LEMMA FreeKeeps ==
  ASSUME PinsInv, NEW S \in SUBSET Pages!MPNs, Pages!FreeLockedPages(S)
  PROVE  PinsInv'
<1>1. /\ life = "live" /\ UNCHANGED <<life, mapped, memtracker, lockedPages, contigMappings>>
      /\ S \subseteq AWEPages \ UNION {Pages!Tracked(map) : map \in contigMappings}
      /\ AWEPages' = AWEPages \ S /\ Pages!Minus(S)
  BY Zenon DEF Pages!FreeLockedPages
<1>2. \A m \in S : m \in AWEPages /\ \A map \in contigMappings : m \notin Pages!Tracked(map)
  BY <1>1
<1>3. refs' = [n \in Pages!MPNs |-> IF n \in S THEN refs[n] - 1 ELSE refs[n]]
  BY <1>1 DEF Pages!Minus
<1>4. \A n \in Pages!MPNs : refs[n] \in Int /\ One(n \in AWEPages) \in {0, 1} /\ One(Spare(n)) \in {0, 1}
  BY HoldersCounted
<1>5. Pages!TypeOK'
  BY <1>1, <1>3, <1>4 DEF PinsInv, Pages!TypeOK
<1>6. BlocksApart'
  BY <1>1, <1>2 DEF PinsInv, BlocksApart
<1>7. \A n \in Pages!MPNs :
        refs'[n] = refs[n] + (One(n \in AWEPages') + One(Spare(n))') - (One(n \in AWEPages) + One(Spare(n)))
  <2>1. \A n \in Pages!MPNs : One(Spare(n))' = One(Spare(n))
    BY <1>1 DEF Spare
  <2> QED
    BY <1>1, <1>2, <1>3, <1>4, <2>1 DEF One
<1> QED
  BY <1>1, <1>5, <1>6, <1>7, AllocationStep

LEMMA ContigKeeps ==
  ASSUME PinsInv, NEW map \in Pages!Maps, Pages!AllocContigPages(map)
  PROVE  PinsInv'
<1>1. /\ life = "live" /\ UNCHANGED <<life, mapped, memtracker, lockedPages>>
      /\ Pages!Block(map) \subseteq Pages!Unused /\ AWEPages' = AWEPages \cup Pages!Tracked(map)
      /\ contigMappings' = contigMappings \cup {map} /\ Pages!Plus(Pages!Block(map))
  BY Zenon DEF Pages!AllocContigPages
<1>2. Pages!Tracked(map) \subseteq Pages!Block(map)
  BY BlockHolds
<1>3. \A m \in Pages!Block(map) :
        m \in Pages!MPNs /\ m \notin AWEPages /\ \A other \in contigMappings : m \notin Pages!Block(other)
  BY <1>1, UnusedFree
<1>4. refs' = [n \in Pages!MPNs |-> IF n \in Pages!Block(map) THEN refs[n] + 1 ELSE refs[n]]
  BY <1>1 DEF Pages!Plus
<1>5. \A n \in Pages!MPNs : refs[n] \in Int /\ One(n \in AWEPages) \in {0, 1} /\ One(Spare(n)) \in {0, 1}
  BY HoldersCounted
<1>6. Pages!TypeOK'
  BY <1>1, <1>2, <1>3, <1>4, <1>5 DEF PinsInv, Pages!TypeOK
<1>7. BlocksApart'
  BY <1>1, <1>2, <1>3 DEF PinsInv, BlocksApart
<1>8. \A n \in Pages!MPNs :
        refs'[n] = refs[n] + (One(n \in AWEPages') + One(Spare(n))') - (One(n \in AWEPages) + One(Spare(n)))
  <2>1. \A n \in Pages!MPNs :
          Spare(n)' <=> Spare(n) \/ n \in Pages!Block(map) \ Pages!Tracked(map)
    BY <1>1 DEF Spare
  <2>2. \A n \in Pages!Block(map) : ~Spare(n)
    BY <1>3 DEF Spare
  <2> QED
    BY <1>1, <1>2, <1>3, <1>4, <1>5, <2>1, <2>2 DEF One
<1> QED
  BY <1>1, <1>6, <1>7, <1>8, AllocationStep

LEMMA FreeAllKeeps ==
  ASSUME PinsInv, Pages!FreeAllResources
  PROVE  PinsInv'
<1> DEFINE Lone(m) == m \in AWEPages /\ \A map \in contigMappings : m \notin Pages!Tracked(map)
<1>1. /\ life' = "none" /\ UNCHANGED mapped
      /\ memtracker' = <<>> /\ lockedPages' = {} /\ AWEPages' = {} /\ contigMappings' = {}
      /\ refs' = [m \in Pages!MPNs |->
           refs[m] - Cardinality(Pages!Blocks(m)) - One(m \in lockedPages) - One(Lone(m)) - Held(m)]
  BY Zenon DEF Pages!FreeAllResources, Pages!Count, One, Held, Pages!Cardinality, Cardinality
<1>2. ASSUME NEW m \in Pages!MPNs
      PROVE  Cardinality(Pages!Blocks(m)) + One(Lone(m)) = One(m \in AWEPages) + One(Spare(m))
  <2>1. CASE Pages!Blocks(m) = {}
    <3>1. \A map \in contigMappings : m \notin Pages!Block(map) /\ m \notin Pages!Tracked(map)
      <4>1. \A map \in contigMappings : Pages!Tracked(map) \subseteq Pages!Block(map)
        BY BlockHolds DEF PinsInv, Pages!TypeOK
      <4> QED
        BY <2>1, <4>1 DEF Pages!Blocks
    <3>2. ~Spare(m) /\ (Lone(m) <=> m \in AWEPages)
      BY <3>1 DEF Spare
    <3>3. Cardinality(Pages!Blocks(m)) = 0
      BY <2>1, FS_EmptySet
    <3> QED
      BY <3>2, <3>3 DEF One
  <2>2. CASE Pages!Blocks(m) # {}
    <3>1. PICK map \in Pages!Blocks(m) : TRUE
      BY <2>2
    <3>2. map \in contigMappings /\ m \in Pages!Block(map)
      BY <3>1 DEF Pages!Blocks
    <3>3. \A other \in contigMappings \ {map} : m \notin Pages!Block(other)
      BY <3>2 DEF PinsInv, BlocksApart
    <3>4. Pages!Blocks(m) = {map}
      BY <3>2, <3>3 DEF Pages!Blocks
    <3>5. Cardinality(Pages!Blocks(m)) = 1
      BY <3>4, FS_Singleton
    <3>6. \A other \in contigMappings \ {map} : m \notin Pages!Tracked(other)
      BY <3>3, BlockHolds DEF PinsInv, Pages!TypeOK
    <3>7. CASE m \in Pages!Tracked(map)
      <4>1. m \in AWEPages /\ ~Lone(m) /\ ~Spare(m)
        BY <3>2, <3>3, <3>7 DEF PinsInv, BlocksApart, Spare
      <4> QED
        BY <3>5, <4>1 DEF One
    <3>8. CASE m \notin Pages!Tracked(map)
      <4>1. m \notin AWEPages /\ Spare(m)
        BY <3>2, <3>8 DEF PinsInv, BlocksApart, Spare
      <4> QED
        BY <3>5, <4>1 DEF One
    <3> QED
      BY <3>7, <3>8
  <2> QED
    BY <2>1, <2>2
<1>3. ASSUME NEW m \in Pages!MPNs PROVE refs'[m] = 0
  <2>1. One(Lone(m)) \in {0, 1}
    BY DEF One
  <2> HIDE DEF Lone
  <2>2. Cardinality(Pages!Blocks(m)) = One(m \in AWEPages) + One(Spare(m)) - One(Lone(m))
    <3>1. Cardinality(Pages!Blocks(m)) \in Nat
      <4>1. IsFiniteSet(Pages!Blocks(m))
        <5>1. \A a, b \in Pages!Blocks(m) : a = b
          BY DEF Pages!Blocks, PinsInv, BlocksApart
        <5>2. Pages!Blocks(m) = {} \/ \E a \in Pages!Blocks(m) : Pages!Blocks(m) = {a}
          BY <5>1
        <5> QED
          BY <5>2, FS_EmptySet, FS_Singleton
      <4> QED
        BY <4>1, FS_CardinalityType
    <3>2. One(m \in AWEPages) \in {0, 1} /\ One(Spare(m)) \in {0, 1}
      BY DEF One
    <3> QED
      BY <1>2, <2>1, <3>1, <3>2
  <2>3. refs'[m] = refs[m] - Cardinality(Pages!Blocks(m)) - One(m \in lockedPages) - One(Lone(m)) - Held(m)
    BY <1>1
  <2>4. One(m \in AWEPages) \in {0, 1} /\ One(Spare(m)) \in {0, 1} /\ One(m \in lockedPages) \in {0, 1}
        /\ Held(m) \in Nat
        /\ refs[m] = Held(m) + One(m \in lockedPages) + One(m \in AWEPages) + One(Spare(m))
    BY HoldersCounted
  <2> QED
    BY <2>1, <2>2, <2>3, <2>4
<1>4. Pages!TypeOK'
  <2>1. refs' \in [Pages!MPNs -> Int]
    <3>1. refs' = [m \in Pages!MPNs |-> refs'[m]]
      BY <1>1
    <3> QED
      BY <1>3, <3>1
  <2> QED
    BY <1>1, <2>1 DEF PinsInv, Pages!TypeOK
<1>5. DOMAIN memtracker' = {}
  BY <1>1
<1>6. \A m : Held(m)' = 0
  BY <1>5, FS_EmptySet DEF Held, Pages!Entries
<1>7. BlocksApart' /\ EntryOfAddress' /\ NobodyNone'
  BY <1>1, <1>3, <1>5 DEF BlocksApart, EntryOfAddress, NobodyNone
<1>8. RefsCounted'
  BY <1>1, <1>3, <1>6 DEF RefsCounted, One, Spare
<1> QED
  BY <1>4, <1>7, <1>8 DEF PinsInv

LEMMA OthersKeep ==
  ASSUME PinsInv, UNCHANGED <<refs, memtracker, lockedPages, AWEPages, contigMappings>>,
         \/ life' = life
         \/ life = "none" /\ life' \in {"live", "stuck"},
         mapped' \in [VPNs -> 0 .. MaxMPN]
  PROVE  PinsInv'
<1>1. Pages!TypeOK'
  BY DEF PinsInv, Pages!TypeOK
<1>2. BlocksApart' /\ EntryOfAddress' /\ NobodyNone'
  BY DEF PinsInv, BlocksApart, EntryOfAddress, NobodyNone
<1>3. RefsCounted'
  BY DEF PinsInv, RefsCounted, Held, Pages!Entries, One, Spare
<1> QED
  BY <1>1, <1>2, <1>3 DEF PinsInv

LEMMA PinsStep ==
  ASSUME PinsInv, [Pages!Next]_pageVars
  PROVE  PinsInv'
<1>1. mapped \in [VPNs -> 0 .. MaxMPN]
  BY DEF PinsInv, Pages!TypeOK
<1>2. CASE Pages!HostIFInit \/ Pages!HostMemInitFails
  <2>1. UNCHANGED <<mapped, refs, memtracker, lockedPages, AWEPages, contigMappings>>
        /\ life = "none" /\ life' \in {"live", "stuck"}
    BY <1>2 DEF Pages!HostIFInit, Pages!HostMemInitFails, Pages!trackers
  <2> QED
    BY <1>1, <2>1, OthersKeep
<1>3. CASE Pages!FreeAllResources
  BY <1>3, FreeAllKeeps
<1>4. ASSUME NEW v \in VPNs, Pages!LockPage(v) \/ Pages!LockPageByMPN(v) \/ Pages!UnlockPage(v)
      PROVE  PinsInv'
  BY <1>4, LockPageKeeps, UnlockPageKeeps, ByMPNKeeps
<1>5. ASSUME NEW v \in VPNs, NEW m \in 0 .. MaxMPN, Pages!Remap(v, m) PROVE PinsInv'
  <2>1. UNCHANGED <<life, refs, memtracker, lockedPages, AWEPages, contigMappings>>
        /\ mapped' = [mapped EXCEPT ![v] = m]
    BY <1>5 DEF Pages!Remap, Pages!trackers
  <2>2. mapped' \in [VPNs -> 0 .. MaxMPN]
    BY <1>1, <2>1
  <2> QED
    BY <2>1, <2>2, OthersKeep
<1>6. ASSUME NEW m \in Pages!MPNs, Pages!UnlockPageByMPN(m) PROVE PinsInv'
  BY <1>6, ByMPNKeeps
<1>7. ASSUME NEW S \in SUBSET Pages!MPNs, Pages!AllocLockedPages(S) \/ Pages!FreeLockedPages(S)
      PROVE  PinsInv'
  BY <1>7, AllocKeeps, FreeKeeps
<1>8. ASSUME NEW map \in Pages!Maps, Pages!AllocContigPages(map) PROVE PinsInv'
  BY <1>8, ContigKeeps
<1>9. CASE UNCHANGED pageVars
  BY <1>1, <1>9, OthersKeep DEF pageVars
<1> QED
  BY <1>2, <1>3, <1>4, <1>5, <1>6, <1>7, <1>8, <1>9 DEF Pages!Next

-----------------------------------------------------------------------------
(* Pages that are shared.                                                    *)

PageOf(a, c, k) == [area |-> a, vcpu |-> c, num |-> k]

LEMMA AreaSizes ==
  /\ NumPages \in Nat \ {0} /\ Area!Nums = 0 .. NumPages - 1 /\ 0 \in Area!Nums
  /\ 0 \in Booted /\ \A a \in Areas : Area!VCPUsOf(a) \subseteq Booted
  /\ \A a \in Areas : \A c \in Booted, k \in Area!Nums :
       PageOf(a, c, k) \in Area!Pages /\ PageOf(a, c, k) \notin {Area!INVALID, Area!Unset}
  /\ Area!INVALID # Area!Unset
BY SharedAreasAssumption
   DEF Area!AreasAssumption, Area!Nums, Area!VCPUsOf, PageOf, Area!Pages,
       Area!INVALID, Area!Unset

\* What is recorded of a VCPU's page, and the arrays there are.
Recorded(a, c, k) == arrays[pages[a]][c][k]
Written == Area!Pages \cup {Area!INVALID, Area!Unset}
Rows(a) == [Area!VCPUsOf(a) -> [Area!Nums -> Written]]
AnyRow  == UNION {Rows(a) : a \in Areas}

AreaTypes ==
  /\ pagesPerVcpu \in [Areas -> {0, NumPages}]
  /\ arrays \in Seq(AnyRow) /\ pages \in [Areas -> 0 .. Len(arrays)]
  /\ locked \subseteq Area!Pages /\ untracked \subseteq Area!Pages
  /\ areaPc \in [Threads -> {"idle", "test", "alloc", "fill", "publish", "array", "lock", "reset"}]
  /\ areaOp \in [Threads -> [area : Areas \cup {"none"}, vcpu : Booted, array : 0 .. Len(arrays),
                              page : Area!Nums, reset : Nat]]
  /\ \A t \in Threads : areaPc[t] # "idle" =>
       areaOp[t].area \in Areas /\ areaOp[t].vcpu \in Area!VCPUsOf(areaOp[t].area)

\* An area has one array, which is its own.
OneArray ==
  /\ \A n \in DOMAIN arrays : \E a \in Areas : pages[a] = n
  /\ \A a \in Areas : pages[a] # 0 =>
       /\ arrays[pages[a]] \in Rows(a)
       /\ \A b \in Areas : pages[b] = pages[a] => b = a

\* Who found an area without one is alone until it has it.
FirstAlone ==
  /\ \A t \in Threads : areaPc[t] \in {"alloc", "fill", "publish"} =>
       /\ pagesPerVcpu[areaOp[t].area] = 0
       /\ areaPc[t] = "alloc" <=> pages[areaOp[t].area] = 0
       /\ \A u \in Threads :
                areaPc[u] \in {"alloc", "fill", "publish"} /\ areaOp[u].area = areaOp[t].area => u = t
  /\ \A a \in Areas :
       /\ pagesPerVcpu[a] # 0 => pages[a] # 0
       /\ pages[a] # 0 /\ pagesPerVcpu[a] = 0 => Area!First(a) # {}
  /\ \A t \in Threads : areaPc[t] \in {"array", "lock", "reset"} => pagesPerVcpu[areaOp[t].area] # 0
  /\ \A t \in Threads : areaPc[t] \in {"lock", "reset"} => areaOp[t].array = pages[areaOp[t].area]

\* What is recorded is the VCPU's page at that place, and pinned; nothing is left unwritten.
Entered ==
  \A a \in Areas : pages[a] # 0 => \A c \in Area!VCPUsOf(a), k \in Area!Nums :
    /\ Recorded(a, c, k) \in {PageOf(a, c, k), Area!INVALID, Area!Unset}
    /\ Recorded(a, c, k) = PageOf(a, c, k) => PageOf(a, c, k) \in locked \cup untracked
    /\ Recorded(a, c, k) = Area!Unset =>
         pagesPerVcpu[a] = 0 /\ \A t \in Threads : areaOp[t].area = a => areaPc[t] # "publish"

Registers(t, a, c) == areaPc[t] \in {"lock", "reset"} /\ areaOp[t].area = a /\ areaOp[t].vcpu = c

\* A VCPU's first page stays pinned once it was, so that one thread gets beyond it, and
\* records each page once.
Beyond(a, c) ==
  /\ PageOf(a, c, 0) \notin locked =>
       \A k \in Area!Nums \ {0} : Recorded(a, c, k) # PageOf(a, c, k)
  /\ \A t \in Threads : Registers(t, a, c) /\ areaOp[t].page # 0 =>
       /\ PageOf(a, c, 0) \in locked
       /\ \A k \in Area!Nums : k > areaOp[t].page => Recorded(a, c, k) # PageOf(a, c, k)
       /\ Recorded(a, c, areaOp[t].page) = PageOf(a, c, areaOp[t].page) =>
            areaPc[t] = "reset" /\ PageOf(a, c, areaOp[t].page) \in untracked
       /\ \A u \in Threads : Registers(u, a, c) /\ areaOp[u].page # 0 => u = t

OneBeyond == \A a \in Areas : pages[a] # 0 => \A c \in Area!VCPUsOf(a) : Beyond(a, c)

\* A registration records its pages from the first one on.
FromFirst == \A t \in Threads : areaPc[t] \notin {"lock", "reset"} => areaOp[t].page = 0

AreaInv == AreaTypes /\ OneArray /\ FirstAlone /\ Entered /\ OneBeyond /\ FromFirst

LEMMA AreaTrue == AreaInv => Area!RecordedPinned
<1> SUFFICES ASSUME AreaInv PROVE Area!RecordedPinned
  OBVIOUS
<1>1. ASSUME NEW a \in Areas, NEW c \in Area!VCPUsOf(a), NEW k \in Area!Nums,
             Area!GetRegionMPN(a, c, k) # Area!INVALID
      PROVE  /\ Area!GetRegionMPN(a, c, k) \in locked \cup untracked
             /\ Area!GetRegionMPN(a, c, k) = [area |-> a, vcpu |-> c, num |-> k]
  <2>1. pages[a] # 0 /\ ~(k >= pagesPerVcpu[a]) /\ Area!GetRegionMPN(a, c, k) = Recorded(a, c, k)
    BY <1>1 DEF Area!GetRegionMPN, Recorded
  <2>2. pagesPerVcpu[a] # 0
    BY <2>1, AreaSizes
  <2>3. Recorded(a, c, k) = PageOf(a, c, k)
    BY <1>1, <2>1, <2>2 DEF AreaInv, Entered
  <2> QED
    BY <2>1, <2>3 DEF AreaInv, Entered, PageOf
<1>2. ASSUME NEW n \in DOMAIN arrays, NEW m \in DOMAIN arrays, NEW c \in DOMAIN arrays[n] \cap DOMAIN arrays[m],
             NEW k \in Area!Nums, n # m, arrays[n][c][k] = arrays[m][c][k]
      PROVE  arrays[n][c][k] \in {Area!INVALID, Area!Unset}
  <2>1. n # 0 /\ m # 0
    BY LenProperties DEF AreaInv, AreaTypes
  <2>2. PICK a \in Areas : pages[a] = n
    BY DEF AreaInv, OneArray
  <2>3. PICK b \in Areas : pages[b] = m
    BY DEF AreaInv, OneArray
  <2>4. DOMAIN arrays[n] = Area!VCPUsOf(a) /\ DOMAIN arrays[m] = Area!VCPUsOf(b)
    BY <2>1, <2>2, <2>3 DEF AreaInv, OneArray, Rows
  <2>5. a # b
    BY <1>2, <2>2, <2>3
  <2>6. PageOf(a, c, k) # PageOf(b, c, k)
    BY <2>5 DEF PageOf
  <2>7. arrays[n][c][k] \in {PageOf(a, c, k), Area!INVALID, Area!Unset}
        /\ arrays[m][c][k] \in {PageOf(b, c, k), Area!INVALID, Area!Unset}
    BY <2>1, <2>2, <2>3, <2>4 DEF AreaInv, Entered, Recorded
  <2> QED
    BY <1>2, <2>6, <2>7
<1> QED
  BY <1>1, <1>2 DEF Area!RecordedPinned

LEMMA AreaStart == Area!Init => AreaInv
<1> SUFFICES ASSUME Area!Init PROVE AreaInv
  OBVIOUS
<1>1. /\ pagesPerVcpu = [a \in Areas |-> 0] /\ pages = [a \in Areas |-> 0]
      /\ arrays = <<>> /\ locked = {} /\ untracked = {}
      /\ areaPc = [t \in Threads |-> "idle"] /\ areaOp = [t \in Threads |-> Area!NoOp]
  BY DEF Area!Init
<1>2. DOMAIN arrays = {} /\ Len(arrays) = 0 /\ arrays \in Seq(AnyRow)
  BY <1>1
<1>3. Area!NoOp \in [area : Areas \cup {"none"}, vcpu : Booted, array : 0 .. 0, page : Area!Nums, reset : Nat]
  BY AreaSizes DEF Area!NoOp
<1>4. AreaTypes
  BY <1>1, <1>2, <1>3 DEF AreaTypes
<1>5. OneArray /\ FirstAlone /\ Entered /\ OneBeyond /\ FromFirst
  BY <1>1, <1>2 DEF OneArray, FirstAlone, Entered, OneBeyond, FromFirst, Area!NoOp
<1> QED
  BY <1>4, <1>5 DEF AreaInv

-----------------------------------------------------------------------------
(* Steps of a registration.                                                  *)

AreaLabels == {"idle", "test", "alloc", "fill", "publish", "array", "lock", "reset"}
AreaLocals == [area : Areas \cup {"none"}, vcpu : Booted, array : 0 .. Len(arrays),
              page : Area!Nums, reset : Nat]

\* A thread goes on to a label, with locals.
AreaMoves(t, label, o) == areaPc' = [areaPc EXCEPT ![t] = label] /\ areaOp' = [areaOp EXCEPT ![t] = o]

LEMMA AreaMoved ==
  ASSUME AreaTypes, NEW t \in Threads, NEW label \in AreaLabels, NEW o \in AreaLocals,
         label # "idle" => o.area \in Areas /\ o.vcpu \in Area!VCPUsOf(o.area),
         AreaMoves(t, label, o)
  PROVE  /\ areaPc' \in [Threads -> AreaLabels] /\ areaOp' \in [Threads -> AreaLocals]
         /\ areaPc'[t] = label /\ areaOp'[t] = o
         /\ \A u \in Threads \ {t} : areaPc'[u] = areaPc[u] /\ areaOp'[u] = areaOp[u]
         /\ \A u \in Threads : areaPc'[u] # "idle" =>
              areaOp'[u].area \in Areas /\ areaOp'[u].vcpu \in Area!VCPUsOf(areaOp'[u].area)
<1>1. areaPc \in [Threads -> AreaLabels] /\ areaOp \in [Threads -> AreaLocals]
  BY DEF AreaTypes, AreaLabels, AreaLocals
<1>2. areaPc' = [areaPc EXCEPT ![t] = label] /\ areaOp' = [areaOp EXCEPT ![t] = o]
  BY DEF AreaMoves
<1>3. \A u \in Threads : areaPc[u] # "idle" =>
        areaOp[u].area \in Areas /\ areaOp[u].vcpu \in Area!VCPUsOf(areaOp[u].area)
  BY DEF AreaTypes
<1>4. areaPc' \in [Threads -> AreaLabels] /\ areaOp' \in [Threads -> AreaLocals]
  BY <1>1, <1>2
<1>5. areaPc'[t] = label /\ areaOp'[t] = o
      /\ \A u \in Threads \ {t} : areaPc'[u] = areaPc[u] /\ areaOp'[u] = areaOp[u]
  BY <1>1, <1>2
<1> QED
  BY <1>3, <1>4, <1>5

\* The locals of a thread at work.
LEMMA AreaAtWork ==
  ASSUME AreaInv, NEW t \in Threads, areaPc[t] # "idle"
  PROVE  /\ areaOp[t] \in AreaLocals
         /\ areaOp[t].area \in Areas /\ areaOp[t].vcpu \in Area!VCPUsOf(areaOp[t].area)
         /\ areaOp[t].page \in Area!Nums /\ areaOp[t].page \in Nat /\ areaOp[t].reset \in Nat
         /\ \A k : Area!Mine(t, k) = PageOf(areaOp[t].area, areaOp[t].vcpu, k)
<1>1. areaOp[t] \in AreaLocals
  BY DEF AreaInv, AreaTypes, AreaLocals
<1>2. areaOp[t].page \in Area!Nums /\ areaOp[t].reset \in Nat
  BY <1>1 DEF AreaLocals
<1>3. areaOp[t].page \in Nat
  BY <1>2, AreaSizes
<1> QED
  BY <1>1, <1>2, <1>3 DEF AreaInv, AreaTypes, Area!Mine, PageOf

\* The end of an operation.
LEMMA AreaIdle ==
  ASSUME AreaTypes
  PROVE  /\ Area!NoOp \in AreaLocals
         /\ \A t : Area!Return(t) => AreaMoves(t, "idle", Area!NoOp)
<1>1. Len(arrays) \in Nat
  BY LenProperties DEF AreaTypes
<1>2. Area!NoOp \in AreaLocals
  BY <1>1, AreaSizes DEF Area!NoOp, AreaLocals
<1> QED
  BY <1>2 DEF Area!Return, Area!Goto, AreaMoves

\* One page of a VCPU is written.
WrittenAt(a, c, k, w) == [arrays EXCEPT ![pages[a]][c][k] = w]

LEMMA EntryWritten ==
  ASSUME AreaTypes, OneArray, NEW a \in Areas, pages[a] # 0, NEW c \in Area!VCPUsOf(a), NEW k \in Area!Nums,
         NEW w \in Written, arrays' = WrittenAt(a, c, k, w), UNCHANGED pages
  PROVE  /\ arrays' \in Seq(AnyRow) /\ Len(arrays') = Len(arrays) /\ OneArray'
         /\ \A b \in Areas : pages[b] # 0 => \A d \in Area!VCPUsOf(b), j \in Area!Nums :
              Recorded(b, d, j)' = IF b = a /\ d = c /\ j = k THEN w ELSE Recorded(b, d, j)
<1> DEFINE n == pages[a]
           row == [arrays[n] EXCEPT ![c] = [arrays[n][c] EXCEPT ![k] = w]]
<1>1. n \in 1 .. Len(arrays) /\ arrays \in Seq(AnyRow) /\ arrays[n] \in Rows(a)
  BY LenProperties DEF AreaTypes, OneArray
<1>2. arrays' = [arrays EXCEPT ![n] = row]
  BY Zenon DEF WrittenAt
<1>3. row \in Rows(a)
  <2>1. arrays[n] \in [Area!VCPUsOf(a) -> [Area!Nums -> Written]]
    BY <1>1 DEF Rows
  <2>2. arrays[n][c] \in [Area!Nums -> Written]
    BY <2>1
  <2>3. [arrays[n][c] EXCEPT ![k] = w] \in [Area!Nums -> Written]
    BY <2>2
  <2>4. row \in [Area!VCPUsOf(a) -> [Area!Nums -> Written]]
    BY <2>1, <2>3
  <2> QED
    BY <2>4 DEF Rows
<1>4. \A d \in Area!VCPUsOf(a), j \in Area!Nums :
        row[d][j] = IF d = c /\ j = k THEN w ELSE arrays[n][d][j]
  <2>1. arrays[n] \in [Area!VCPUsOf(a) -> [Area!Nums -> Written]]
    BY <1>1 DEF Rows
  <2>2. arrays[n][c] \in [Area!Nums -> Written]
    BY <2>1
  <2> QED
    BY <2>1, <2>2
<1>5. row \in AnyRow
  BY <1>3 DEF AnyRow
<1> HIDE DEF row
<1>6. [arrays EXCEPT ![n] = row] \in Seq(AnyRow) /\ Len([arrays EXCEPT ![n] = row]) = Len(arrays)
  <2>1. n \in 1 .. Len(arrays) /\ arrays \in Seq(AnyRow) /\ row \in AnyRow
    BY <1>1, <1>5
  <2> HIDE DEF n
  <2> QED
    BY <2>1, ExceptSeq
<1>7. arrays' \in Seq(AnyRow) /\ Len(arrays') = Len(arrays)
  BY <1>2, <1>6
<1>8. DOMAIN arrays' = DOMAIN arrays /\ n \in DOMAIN arrays /\ DOMAIN arrays = 1 .. Len(arrays)
  BY <1>1, <1>2, <1>7, LenProperties
<1>9. arrays'[n] = row /\ \A m \in DOMAIN arrays \ {n} : arrays'[m] = arrays[m]
  BY <1>2, <1>8
<1>10. \A b \in Areas : pages[b] # 0 => pages[b] \in DOMAIN arrays /\ (b # a => pages[b] # n)
  BY <1>1, <1>8 DEF AreaTypes, OneArray
<1>11. OneArray'
  <2>1. \A b \in Areas : pages[b] # 0 => arrays'[pages[b]] \in Rows(b)
    BY <1>3, <1>9, <1>10 DEF OneArray
  <2> QED
    BY <1>8, <2>1 DEF OneArray, Rows, Written
<1>12. ASSUME NEW b \in Areas, pages[b] # 0, NEW d \in Area!VCPUsOf(b), NEW j \in Area!Nums
       PROVE  Recorded(b, d, j)' = IF b = a /\ d = c /\ j = k THEN w ELSE Recorded(b, d, j)
  <2>1. CASE b = a
    <3>1. Recorded(b, d, j)' = row[d][j]
      BY <1>9, <2>1 DEF Recorded
    <3>2. Recorded(b, d, j) = arrays[n][d][j]
      BY <2>1 DEF Recorded
    <3> QED
      BY <1>4, <2>1, <3>1, <3>2
  <2>2. CASE b # a
    BY <1>9, <1>10, <1>12, <2>2 DEF Recorded
  <2> QED
    BY <2>1, <2>2
<1> QED
  BY <1>7, <1>11, <1>12

LEMMA AreaGoesOn ==
  ASSUME AreaTypes, NEW t \in Threads, NEW label, Area!Goto(t, label), UNCHANGED areaOp
  PROVE  AreaMoves(t, label, areaOp[t])
BY DEF AreaTypes, Area!Goto, AreaMoves

\* Where nothing more is recorded, pinned or registered, a VCPU's pages are as they were.
LEMMA BeyondKept ==
  ASSUME AreaInv, NEW b \in Areas, pages[b] # 0, NEW d \in Area!VCPUsOf(b),
         PageOf(b, d, 0) \in locked' <=> PageOf(b, d, 0) \in locked,
         untracked \subseteq untracked',
         \A k \in Area!Nums : Recorded(b, d, k)' = PageOf(b, d, k) => Recorded(b, d, k) = PageOf(b, d, k),
         \A u \in Threads : Registers(u, b, d)' /\ areaOp'[u].page # 0 =>
           /\ Registers(u, b, d) /\ areaOp'[u].page = areaOp[u].page
           /\ areaPc[u] = "reset" => areaPc'[u] = "reset"
  PROVE  Beyond(b, d)'
<1>1. Beyond(b, d)
  BY DEF AreaInv, OneBeyond
<1>2. \A u \in Threads : areaOp[u].page \in Area!Nums
  BY DEF AreaInv, AreaTypes
<1>3. PageOf(b, d, 0) \notin locked' =>
        \A k \in Area!Nums \ {0} : Recorded(b, d, k)' # PageOf(b, d, k)
  BY <1>1 DEF Beyond
<1>4. ASSUME NEW u \in Threads, Registers(u, b, d)', areaOp'[u].page # 0
      PROVE  /\ PageOf(b, d, 0) \in locked'
             /\ \A k \in Area!Nums : k > areaOp'[u].page => Recorded(b, d, k)' # PageOf(b, d, k)
             /\ Recorded(b, d, areaOp[u].page)' = PageOf(b, d, areaOp'[u].page) =>
                  areaPc'[u] = "reset" /\ PageOf(b, d, areaOp'[u].page) \in untracked'
             /\ \A v \in Threads : Registers(v, b, d)' /\ areaOp'[v].page # 0 => v = u
  <2>1. Registers(u, b, d) /\ areaOp'[u].page = areaOp[u].page /\ areaOp[u].page # 0
        /\ (areaPc[u] = "reset" => areaPc'[u] = "reset")
    BY <1>4
  <2>2. \A v \in Threads : Registers(v, b, d)' /\ areaOp'[v].page # 0 => v = u
    BY <1>1, <2>1 DEF Beyond
  <2>3. \A k \in Area!Nums : k > areaOp'[u].page => Recorded(b, d, k)' # PageOf(b, d, k)
    BY <1>1, <2>1 DEF Beyond
  <2>4. Recorded(b, d, areaOp[u].page)' = PageOf(b, d, areaOp'[u].page) =>
          Recorded(b, d, areaOp[u].page) = PageOf(b, d, areaOp[u].page)
    <3>1. PICK k \in Area!Nums : k = areaOp[u].page
      BY <1>2
    <3>2. Recorded(b, d, areaOp[u].page)' = Recorded(b, d, k)'
      BY <2>1, <3>1 DEF Recorded
    <3> QED
      BY <2>1, <3>1, <3>2
  <2> QED
    BY <1>1, <2>1, <2>2, <2>3, <2>4 DEF Beyond
<1> QED
  BY <1>3, <1>4 DEF Beyond

LEMMA ValidateKeeps ==
  ASSUME AreaInv, NEW t \in Threads, NEW a \in Areas, NEW c \in Booted, Area!Validate(t, a, c)
  PROVE  AreaInv'
<1> DEFINE o == [Area!NoOp EXCEPT !.area = a, !.vcpu = c]
<1>1. /\ areaPc[t] = "idle" /\ c \in Area!VCPUsOf(a)
      /\ UNCHANGED <<pagesPerVcpu, pages, arrays, locked, untracked>>
      /\ AreaMoves(t, "test", o)
  BY Zenon DEF Area!Validate, Area!Valid, Area!Goto, AreaMoves, Area!regions
<1>2. o \in AreaLocals /\ o.area = a /\ o.vcpu = c /\ o.page = 0
  <2>1. Area!NoOp \in AreaLocals
    BY AreaIdle DEF AreaInv
  <2>2. Area!NoOp.page = 0
    BY DEF Area!NoOp
  <2> QED
    BY <2>1, <2>2 DEF AreaLocals
<1> HIDE DEF o
<1>3. /\ areaPc' \in [Threads -> AreaLabels] /\ areaOp' \in [Threads -> AreaLocals]
      /\ areaPc'[t] = "test" /\ areaOp'[t] = o
      /\ \A u \in Threads \ {t} : areaPc'[u] = areaPc[u] /\ areaOp'[u] = areaOp[u]
      /\ \A u \in Threads : areaPc'[u] # "idle" =>
           areaOp'[u].area \in Areas /\ areaOp'[u].vcpu \in Area!VCPUsOf(areaOp'[u].area)
  BY <1>1, <1>2, AreaMoved DEF AreaInv, AreaLabels
<1>4. AreaTypes'
  BY <1>1, <1>3 DEF AreaInv, AreaTypes, AreaLabels, AreaLocals
<1>5. OneArray'
  BY <1>1 DEF AreaInv, OneArray
<1>6. FirstAlone'
  BY <1>1, <1>3 DEF AreaInv, FirstAlone, Area!First
<1>7. Entered'
  BY <1>1, <1>3 DEF AreaInv, Entered, Recorded
<1>8. OneBeyond'
  BY <1>1, <1>3 DEF AreaInv, OneBeyond, Beyond, Recorded, Registers
<1>9. FromFirst'
  BY <1>1, <1>2, <1>3 DEF AreaInv, FromFirst
<1> QED
  BY <1>4, <1>5, <1>6, <1>7, <1>8, <1>9 DEF AreaInv

LEMMA TestKeeps ==
  ASSUME AreaInv, ~MayOverlap, NEW t \in Threads, Area!Test(t)
  PROVE  AreaInv'
<1> DEFINE a == areaOp[t].area
           label == IF pagesPerVcpu[a] = 0 THEN "alloc" ELSE "array"
<1>1. /\ areaPc[t] = "test" /\ Area!First(a) = {}
      /\ UNCHANGED <<pagesPerVcpu, pages, arrays, locked, untracked>>
      /\ Area!Goto(t, label) /\ UNCHANGED areaOp
  BY Zenon DEF Area!Test, Area!regions
<1>2. AreaMoves(t, label, areaOp[t]) /\ label \in {"alloc", "array"}
  BY <1>1, AreaGoesOn DEF AreaInv
<1>3. areaOp[t] \in AreaLocals /\ a \in Areas /\ areaOp[t].vcpu \in Area!VCPUsOf(a)
  BY <1>1, AreaAtWork
<1>4. label = "alloc" => pagesPerVcpu[a] = 0 /\ pages[a] = 0
  BY <1>1, <1>3 DEF AreaInv, FirstAlone
<1>5. label = "array" => pagesPerVcpu[a] # 0
  OBVIOUS
<1> HIDE DEF label
<1>6. /\ areaPc' \in [Threads -> AreaLabels] /\ areaOp' \in [Threads -> AreaLocals]
      /\ areaPc'[t] = label /\ areaOp'[t] = areaOp[t]
      /\ \A u \in Threads \ {t} : areaPc'[u] = areaPc[u] /\ areaOp'[u] = areaOp[u]
      /\ \A u \in Threads : areaPc'[u] # "idle" =>
           areaOp'[u].area \in Areas /\ areaOp'[u].vcpu \in Area!VCPUsOf(areaOp'[u].area)
  BY <1>2, <1>3, AreaMoved DEF AreaInv, AreaLabels
<1>7. AreaTypes'
  BY <1>1, <1>6 DEF AreaInv, AreaTypes, AreaLabels, AreaLocals
<1>8. OneArray'
  BY <1>1 DEF AreaInv, OneArray
<1>9. FirstAlone'
  BY <1>1, <1>2, <1>4, <1>5, <1>6 DEF AreaInv, FirstAlone, Area!First
<1>10. Entered'
  BY <1>1, <1>2, <1>6 DEF AreaInv, Entered, Recorded
<1>11. OneBeyond'
  BY <1>1, <1>2, <1>6 DEF AreaInv, OneBeyond, Beyond, Recorded, Registers
<1>12. FromFirst'
  BY <1>1, <1>2, <1>6 DEF AreaInv, FromFirst
<1> QED
  BY <1>7, <1>8, <1>9, <1>10, <1>11, <1>12 DEF AreaInv

LEMMA AllocFailsKeeps ==
  ASSUME AreaInv, NEW t \in Threads, Area!AllocFails(t)
  PROVE  AreaInv'
<1>1. /\ areaPc[t] = "alloc" /\ Area!Return(t) /\ pages' = [pages EXCEPT ![areaOp[t].area] = 0]
      /\ UNCHANGED <<pagesPerVcpu, arrays, locked, untracked>>
  BY Zenon DEF Area!AllocFails
<1>2. pages' = pages
  <2>1. pages[areaOp[t].area] = 0 /\ pages \in [Areas -> 0 .. Len(arrays)]
    BY <1>1 DEF AreaInv, FirstAlone, AreaTypes
  <2> QED
    BY <1>1, <2>1
<1>3. Area!NoOp \in AreaLocals /\ AreaMoves(t, "idle", Area!NoOp)
  BY <1>1, AreaIdle DEF AreaInv
<1>4. /\ areaPc' \in [Threads -> AreaLabels] /\ areaOp' \in [Threads -> AreaLocals]
      /\ areaPc'[t] = "idle" /\ areaOp'[t] = Area!NoOp
      /\ \A u \in Threads \ {t} : areaPc'[u] = areaPc[u] /\ areaOp'[u] = areaOp[u]
      /\ \A u \in Threads : areaPc'[u] # "idle" =>
           areaOp'[u].area \in Areas /\ areaOp'[u].vcpu \in Area!VCPUsOf(areaOp'[u].area)
  BY <1>3, AreaMoved DEF AreaInv, AreaLabels
<1>5. AreaTypes'
  BY <1>1, <1>2, <1>4 DEF AreaInv, AreaTypes, AreaLabels, AreaLocals
<1>6. OneArray'
  BY <1>1, <1>2 DEF AreaInv, OneArray
<1>7. FirstAlone'
  <2>1. \A a \in Areas : pages[a] # 0 /\ pagesPerVcpu[a] = 0 => Area!First(a)' # {}
    <3>1. ASSUME NEW a \in Areas, pages[a] # 0, pagesPerVcpu[a] = 0 PROVE Area!First(a)' # {}
      <4>1. PICK u \in Threads : areaOp[u].area = a /\ areaPc[u] \in {"alloc", "fill", "publish"}
        BY <3>1 DEF AreaInv, FirstAlone, Area!First
      <4>2. u # t
        BY <1>1, <3>1, <4>1 DEF AreaInv, FirstAlone
      <4> QED
        BY <1>4, <4>1, <4>2 DEF Area!First
    <3> QED
      BY <3>1
  <2> QED
    BY <1>1, <1>2, <1>4, <2>1 DEF AreaInv, FirstAlone
<1>8. Entered'
  BY <1>1, <1>2, <1>4 DEF AreaInv, Entered, Recorded
<1>9. OneBeyond'
  BY <1>1, <1>2, <1>4 DEF AreaInv, OneBeyond, Beyond, Recorded, Registers
<1>10. FromFirst'
  BY <1>1, <1>4 DEF AreaInv, FromFirst, Area!NoOp
<1> QED
  BY <1>5, <1>6, <1>7, <1>8, <1>9, <1>10 DEF AreaInv

LEMMA PublishKeeps ==
  ASSUME AreaInv, NEW t \in Threads, Area!Publish(t)
  PROVE  AreaInv'
<1> DEFINE a == areaOp[t].area
<1>1. /\ areaPc[t] = "publish" /\ pagesPerVcpu' = [pagesPerVcpu EXCEPT ![a] = NumPages]
      /\ UNCHANGED <<pages, arrays, locked, untracked>>
      /\ Area!Goto(t, "array") /\ UNCHANGED areaOp
  BY Zenon DEF Area!Publish
<1>2. AreaMoves(t, "array", areaOp[t])
  BY <1>1, AreaGoesOn DEF AreaInv
<1>3. areaOp[t] \in AreaLocals /\ a \in Areas /\ areaOp[t].vcpu \in Area!VCPUsOf(a)
  BY <1>1, AreaAtWork
<1>4. /\ areaPc' \in [Threads -> AreaLabels] /\ areaOp' \in [Threads -> AreaLocals]
      /\ areaPc'[t] = "array" /\ areaOp'[t] = areaOp[t]
      /\ \A u \in Threads \ {t} : areaPc'[u] = areaPc[u] /\ areaOp'[u] = areaOp[u]
      /\ \A u \in Threads : areaPc'[u] # "idle" =>
           areaOp'[u].area \in Areas /\ areaOp'[u].vcpu \in Area!VCPUsOf(areaOp'[u].area)
  BY <1>2, <1>3, AreaMoved DEF AreaInv, AreaLabels
<1>5. /\ pagesPerVcpu' \in [Areas -> {0, NumPages}]
      /\ pagesPerVcpu'[a] # 0 /\ \A b \in Areas \ {a} : pagesPerVcpu'[b] = pagesPerVcpu[b]
  BY <1>1, <1>3, AreaSizes DEF AreaInv, AreaTypes
<1>6. AreaTypes'
  BY <1>1, <1>4, <1>5 DEF AreaInv, AreaTypes, AreaLabels, AreaLocals
<1>7. OneArray'
  BY <1>1 DEF AreaInv, OneArray
<1>8. pages[a] # 0 /\ \A u \in Threads \ {t} : areaPc[u] \in {"alloc", "fill", "publish"} => areaOp[u].area # a
  BY <1>1 DEF AreaInv, FirstAlone
<1>9. FirstAlone'
  <2>1. \A b \in Areas : pages[b] # 0 /\ pagesPerVcpu'[b] = 0 => Area!First(b)' # {}
    BY <1>4, <1>5 DEF AreaInv, FirstAlone, Area!First
  <2>2. \A b \in Areas : pagesPerVcpu'[b] # 0 => pages[b] # 0
    BY <1>5, <1>8 DEF AreaInv, FirstAlone
  <2>3. \A u \in Threads : areaPc'[u] \in {"alloc", "fill", "publish"} =>
          u # t /\ areaOp'[u].area \in Areas \ {a}
    BY <1>4, <1>8
  <2>4. \A u \in Threads : areaPc'[u] \in {"array", "lock", "reset"} => pagesPerVcpu'[areaOp'[u].area] # 0
    <3>1. ASSUME NEW u \in Threads, areaPc'[u] \in {"array", "lock", "reset"}
          PROVE  pagesPerVcpu'[areaOp'[u].area] # 0
      <4>1. areaOp'[u].area \in Areas
        BY <1>4, <3>1
      <4>2. CASE areaOp'[u].area = a
        BY <1>5, <4>2
      <4>3. CASE areaOp'[u].area # a
        <5>1. u # t
          BY <1>4, <4>3
        <5> QED
          BY <1>4, <1>5, <3>1, <4>1, <4>3, <5>1 DEF AreaInv, FirstAlone
      <4> QED
        BY <4>2, <4>3
    <3> QED
      BY <3>1
  <2> QED
    BY <1>1, <1>4, <1>5, <2>1, <2>2, <2>3, <2>4 DEF AreaInv, FirstAlone
<1>10. Entered'
  <2>1. \A c \in Area!VCPUsOf(a), k \in Area!Nums : Recorded(a, c, k) # Area!Unset
    BY <1>1, <1>3, <1>8 DEF AreaInv, Entered
  <2> QED
    BY <1>1, <1>4, <1>5, <2>1 DEF AreaInv, Entered, Recorded
<1>11. OneBeyond'
  BY <1>1, <1>4 DEF AreaInv, OneBeyond, Beyond, Recorded, Registers
<1>12. FromFirst'
  BY <1>1, <1>4 DEF AreaInv, FromFirst
<1> QED
  BY <1>6, <1>7, <1>9, <1>10, <1>11, <1>12 DEF AreaInv

LEMMA AllocKeepsAreas ==
  ASSUME AreaInv, NEW t \in Threads, Area!Alloc(t)
  PROVE  AreaInv'
<1> DEFINE a == areaOp[t].area
           new == Area!AllUnset(a)
           n == Len(arrays) + 1
<1>1. /\ areaPc[t] = "alloc" /\ arrays' = Append(arrays, new) /\ pages' = [pages EXCEPT ![a] = Len(arrays')]
      /\ UNCHANGED <<pagesPerVcpu, locked, untracked>>
      /\ Area!Goto(t, "fill") /\ UNCHANGED areaOp
  BY Zenon DEF Area!Alloc
<1>2. AreaMoves(t, "fill", areaOp[t])
  BY <1>1, AreaGoesOn DEF AreaInv
<1>3. areaOp[t] \in AreaLocals /\ a \in Areas /\ areaOp[t].vcpu \in Area!VCPUsOf(a)
  BY <1>1, AreaAtWork
<1>4. /\ areaPc' \in [Threads -> AreaLabels] /\ areaOp' \in [Threads -> AreaLocals]
      /\ areaPc'[t] = "fill" /\ areaOp'[t] = areaOp[t]
      /\ \A u \in Threads \ {t} : areaPc'[u] = areaPc[u] /\ areaOp'[u] = areaOp[u]
      /\ \A u \in Threads : areaPc'[u] # "idle" =>
           areaOp'[u].area \in Areas /\ areaOp'[u].vcpu \in Area!VCPUsOf(areaOp'[u].area)
  BY <1>2, <1>3, AreaMoved DEF AreaInv, AreaLabels
<1>5. new \in Rows(a) /\ new \in AnyRow
      /\ \A c \in Area!VCPUsOf(a), k \in Area!Nums : new[c][k] = Area!Unset
  BY <1>3 DEF Area!AllUnset, Rows, AnyRow, Written
<1>6. arrays \in Seq(AnyRow) /\ Len(arrays) \in Nat /\ DOMAIN arrays = 1 .. Len(arrays)
  BY LenProperties DEF AreaInv, AreaTypes
<1> HIDE DEF new
<1>7. /\ arrays' \in Seq(AnyRow) /\ Len(arrays') = n
      /\ \A m \in 1 .. Len(arrays) : arrays'[m] = arrays[m]
      /\ arrays'[n] = new
  BY <1>1, <1>5, <1>6, AppendProperties
<1>8. DOMAIN arrays' = 1 .. n
  BY <1>7, LenProperties
<1>9. /\ pages' \in [Areas -> 0 .. n] /\ pages'[a] = n
      /\ \A b \in Areas \ {a} : pages'[b] = pages[b] /\ pages[b] \in 0 .. Len(arrays)
  BY <1>1, <1>3, <1>6, <1>7 DEF AreaInv, AreaTypes
<1>10. pages[a] = 0 /\ pagesPerVcpu[a] = 0
       /\ \A u \in Threads \ {t} : areaPc[u] \in {"alloc", "fill", "publish"} => areaOp[u].area # a
  BY <1>1, <1>3 DEF AreaInv, FirstAlone
<1>11. AreaTypes'
  <2>1. areaOp' \in [Threads -> [area : Areas \cup {"none"}, vcpu : Booted, array : 0 .. n,
                                 page : Area!Nums, reset : Nat]]
    <3>1. 0 .. Len(arrays) \subseteq 0 .. n
      BY <1>6
    <3>2. AreaLocals \subseteq [area : Areas \cup {"none"}, vcpu : Booted, array : 0 .. n,
                            page : Area!Nums, reset : Nat]
      BY <3>1 DEF AreaLocals
    <3> QED
      BY <1>4, <3>2
  <2>2. /\ pagesPerVcpu' \in [Areas -> {0, NumPages}]
        /\ locked' \subseteq Area!Pages /\ untracked' \subseteq Area!Pages
    BY <1>1 DEF AreaInv, AreaTypes
  <2>3. areaPc' \in [Threads -> {"idle", "test", "alloc", "fill", "publish", "array", "lock", "reset"}]
    BY <1>4 DEF AreaLabels
  <2> QED
    BY <1>4, <1>7, <1>9, <2>1, <2>2, <2>3 DEF AreaTypes
<1>12. OneArray'
  <2>1. ASSUME NEW m \in DOMAIN arrays' PROVE \E b \in Areas : pages'[b] = m
    <3>1. CASE m = n
      BY <1>3, <1>9, <3>1
    <3>2. CASE m # n
      <4>1. m \in DOMAIN arrays /\ m # 0
        BY <1>6, <1>8, <3>2
      <4>2. PICK b \in Areas : pages[b] = m
        BY <4>1 DEF AreaInv, OneArray
      <4>3. b # a
        BY <1>10, <4>1, <4>2
      <4> QED
        BY <1>9, <4>2, <4>3
    <3> QED
      BY <3>1, <3>2
  <2>2. ASSUME NEW b \in Areas, pages'[b] # 0
        PROVE  /\ arrays'[pages'[b]] \in Rows(b)
               /\ \A e \in Areas : pages'[e] = pages'[b] => e = b
    <3>1. CASE b = a
      BY <1>5, <1>6, <1>7, <1>9, <3>1
    <3>2. CASE b # a
      <4>1. pages[b] # 0 /\ pages'[b] = pages[b] /\ pages[b] \in 1 .. Len(arrays)
        BY <1>6, <1>9, <2>2, <3>2
      <4>2. pages'[b] # n
        BY <1>6, <4>1
      <4>3. arrays'[pages'[b]] \in Rows(b)
        BY <1>7, <4>1 DEF AreaInv, OneArray
      <4> QED
        BY <1>9, <4>1, <4>2, <4>3 DEF AreaInv, OneArray
    <3> QED
      BY <3>1, <3>2
  <2> QED
    BY <2>1, <2>2 DEF OneArray, Rows, Written
<1>13. FirstAlone'
  <2>1. n # 0
    BY <1>6
  <2>2. \A b \in Areas : pages'[b] # 0 /\ pagesPerVcpu[b] = 0 => Area!First(b)' # {}
    BY <1>4, <1>9, <1>10 DEF AreaInv, FirstAlone, Area!First
  <2>3. \A u \in Threads : areaPc'[u] \in {"alloc", "fill", "publish"} =>
          /\ pagesPerVcpu[areaOp'[u].area] = 0
          /\ areaPc'[u] = "alloc" <=> pages'[areaOp'[u].area] = 0
          /\ \A v \in Threads :
                   areaPc'[v] \in {"alloc", "fill", "publish"} /\ areaOp'[v].area = areaOp'[u].area => v = u
    BY <1>4, <1>9, <1>10, <2>1 DEF AreaInv, FirstAlone
  <2>4. \A u \in Threads : areaPc'[u] \in {"array", "lock", "reset"} =>
          u # t /\ areaOp'[u].area \in Areas \ {a} /\ pagesPerVcpu[areaOp'[u].area] # 0
    BY <1>4, <1>10 DEF AreaInv, FirstAlone
  <2> QED
    BY <1>1, <1>4, <1>9, <1>10, <2>1, <2>2, <2>3, <2>4 DEF AreaInv, FirstAlone
<1>14. \A b \in Areas : pages'[b] # 0 => \A c \in Area!VCPUsOf(b), k \in Area!Nums :
         Recorded(b, c, k)' = IF b = a THEN Area!Unset ELSE Recorded(b, c, k)
  <2>1. \A b \in Areas \ {a} : pages'[b] # 0 => pages'[b] = pages[b] /\ pages[b] \in 1 .. Len(arrays)
    BY <1>6, <1>9
  <2> QED
    BY <1>5, <1>7, <1>9, <2>1 DEF Recorded
<1>15. Entered'
  <2>1. \A b \in Areas \ {a} : pages'[b] # 0 => pages[b] # 0
    BY <1>9
  <2>2. \A u \in Threads : areaOp'[u].area = a => areaPc'[u] # "publish"
    BY <1>4, <1>10
  <2>3. \A c \in Area!VCPUsOf(a), k \in Area!Nums : PageOf(a, c, k) # Area!Unset
    BY <1>3, AreaSizes
  <2>4. \A b \in Areas \ {a} : \A u \in Threads : areaOp'[u].area = b /\ areaPc'[u] = "publish" =>
          areaOp[u].area = b /\ areaPc[u] = "publish"
    BY <1>4
  <2>5. ASSUME NEW b \in Areas, pages'[b] # 0, NEW c \in Area!VCPUsOf(b), NEW k \in Area!Nums
        PROVE  /\ Recorded(b, c, k)' \in {PageOf(b, c, k), Area!INVALID, Area!Unset}
               /\ Recorded(b, c, k)' = PageOf(b, c, k) => PageOf(b, c, k) \in locked \cup untracked
               /\ Recorded(b, c, k)' = Area!Unset =>
                    pagesPerVcpu[b] = 0 /\ \A u \in Threads : areaOp'[u].area = b => areaPc'[u] # "publish"
    <3>1. CASE b = a
      BY <1>10, <1>14, <2>2, <2>3, <2>5, <3>1
    <3>2. CASE b # a
      <4>1. pages[b] # 0 /\ Recorded(b, c, k)' = Recorded(b, c, k)
        BY <1>14, <2>1, <2>5, <3>2
      <4> QED
        BY <2>4, <3>2, <4>1 DEF AreaInv, Entered
    <3> QED
      BY <3>1, <3>2
  <2> QED
    BY <1>1, <2>5 DEF Entered
<1>16. OneBeyond'
  <2>1. \A b \in Areas \ {a} : pages'[b] # 0 => pages[b] # 0
    BY <1>9
  <2>2. \A c \in Area!VCPUsOf(a), k \in Area!Nums : PageOf(a, c, k) # Area!Unset /\ 0 \in Area!Nums
    BY <1>3, AreaSizes
  <2>3. \A u \in Threads : areaPc'[u] \in {"lock", "reset"} => areaOp'[u].area # a
    BY <1>1, <1>4, <1>10 DEF AreaInv, FirstAlone
  <2>4. \A u \in Threads, b \in Areas, c \in Booted : Registers(u, b, c)' => Registers(u, b, c) /\ b # a
          /\ areaOp'[u] = areaOp[u] /\ areaPc'[u] = areaPc[u]
    BY <1>1, <1>4, <2>3 DEF Registers
  <2>5. ASSUME NEW b \in Areas, pages'[b] # 0, NEW c \in Area!VCPUsOf(b)
        PROVE  Beyond(b, c)'
    <3>1. CASE b = a
      <4>1. c \in Booted
        BY <2>5, AreaSizes
      <4> QED
        BY <1>14, <2>2, <2>4, <2>5, <3>1, <4>1 DEF Beyond
    <3>2. CASE b # a
      <4>1. pages[b] # 0 /\ c \in Booted
        BY <2>1, <2>5, <3>2, AreaSizes
      <4>2. \A k \in Area!Nums : Recorded(b, c, k)' = Recorded(b, c, k)
        BY <1>14, <2>5, <3>2
      <4> QED
        BY <1>1, <2>4, <2>5, <4>1, <4>2, BeyondKept
    <3> QED
      BY <3>1, <3>2
  <2> QED
    BY <1>1, <2>5 DEF OneBeyond, Beyond
<1>17. FromFirst'
  BY <1>1, <1>4 DEF AreaInv, FromFirst
<1> QED
  BY <1>11, <1>12, <1>13, <1>15, <1>16, <1>17 DEF AreaInv

LEMMA FillKeeps ==
  ASSUME AreaInv, NEW t \in Threads, Area!Fill(t)
  PROVE  AreaInv'
<1> DEFINE a == areaOp[t].area
           new == [c \in Area!VCPUsOf(a) |-> [k \in Area!Nums |-> Area!INVALID]]
<1>1. /\ areaPc[t] = "fill" /\ pages[a] # 0 /\ arrays' = [arrays EXCEPT ![pages[a]] = new]
      /\ UNCHANGED <<pagesPerVcpu, pages, locked, untracked>>
      /\ Area!Goto(t, "publish") /\ UNCHANGED areaOp
  BY Zenon DEF Area!Fill, Area!regions
<1>2. AreaMoves(t, "publish", areaOp[t])
  BY <1>1, AreaGoesOn DEF AreaInv
<1>3. areaOp[t] \in AreaLocals /\ a \in Areas /\ areaOp[t].vcpu \in Area!VCPUsOf(a)
  BY <1>1, AreaAtWork
<1>4. /\ areaPc' \in [Threads -> AreaLabels] /\ areaOp' \in [Threads -> AreaLocals]
      /\ areaPc'[t] = "publish" /\ areaOp'[t] = areaOp[t]
      /\ \A u \in Threads \ {t} : areaPc'[u] = areaPc[u] /\ areaOp'[u] = areaOp[u]
      /\ \A u \in Threads : areaPc'[u] # "idle" =>
           areaOp'[u].area \in Areas /\ areaOp'[u].vcpu \in Area!VCPUsOf(areaOp'[u].area)
  BY <1>2, <1>3, AreaMoved DEF AreaInv, AreaLabels
<1>5. new \in Rows(a) /\ new \in AnyRow
      /\ \A c \in Area!VCPUsOf(a), k \in Area!Nums : new[c][k] = Area!INVALID
  BY <1>3 DEF Rows, AnyRow, Written
<1> HIDE DEF new
<1>6. arrays \in Seq(AnyRow) /\ DOMAIN arrays = 1 .. Len(arrays) /\ pages[a] \in 1 .. Len(arrays)
  BY <1>1, <1>3, LenProperties DEF AreaInv, AreaTypes
<1>7. arrays' \in Seq(AnyRow) /\ Len(arrays') = Len(arrays)
  <2> DEFINE n == pages[a]
  <2>1. n \in 1 .. Len(arrays) /\ arrays' = [arrays EXCEPT ![n] = new]
    BY <1>1, <1>6
  <2> HIDE DEF n
  <2> QED
    BY <1>5, <1>6, <2>1, ExceptSeq
<1>8. DOMAIN arrays' = DOMAIN arrays
      /\ arrays'[pages[a]] = new /\ \A m \in DOMAIN arrays \ {pages[a]} : arrays'[m] = arrays[m]
  BY <1>1, <1>6
<1>9. \A b \in Areas : pages[b] # 0 => pages[b] \in DOMAIN arrays /\ (b # a => pages[b] # pages[a])
  BY <1>1, <1>3, <1>6 DEF AreaInv, AreaTypes, OneArray
<1>10. pagesPerVcpu[a] = 0 /\ \A u \in Threads \ {t} :
         areaPc[u] \in {"alloc", "fill", "publish"} => areaOp[u].area # a
  BY <1>1, <1>3 DEF AreaInv, FirstAlone
<1>11. AreaTypes'
  BY <1>1, <1>4, <1>7 DEF AreaInv, AreaTypes, AreaLabels, AreaLocals
<1>12. OneArray'
  <2>1. \A b \in Areas : pages[b] # 0 => arrays'[pages[b]] \in Rows(b)
    BY <1>3, <1>5, <1>8, <1>9 DEF AreaInv, OneArray
  <2> QED
    BY <1>1, <1>8, <2>1 DEF AreaInv, OneArray, Rows, Written
<1>13. FirstAlone'
  BY <1>1, <1>4 DEF AreaInv, FirstAlone, Area!First
<1>14. \A b \in Areas : pages[b] # 0 => \A c \in Area!VCPUsOf(b), k \in Area!Nums :
         Recorded(b, c, k)' = IF b = a THEN Area!INVALID ELSE Recorded(b, c, k)
  BY <1>1, <1>5, <1>8, <1>9 DEF Recorded
<1>15. Entered'
  <2>1. \A c \in Area!VCPUsOf(a), k \in Area!Nums : PageOf(a, c, k) # Area!INVALID /\ Area!INVALID # Area!Unset
    BY <1>3, AreaSizes
  <2>2. \A b \in Areas \ {a} : \A u \in Threads : areaOp'[u].area = b /\ areaPc'[u] = "publish" =>
          areaOp[u].area = b /\ areaPc[u] = "publish"
    BY <1>4
  <2>3. ASSUME NEW b \in Areas, pages[b] # 0, NEW c \in Area!VCPUsOf(b), NEW k \in Area!Nums
        PROVE  /\ Recorded(b, c, k)' \in {PageOf(b, c, k), Area!INVALID, Area!Unset}
               /\ Recorded(b, c, k)' = PageOf(b, c, k) => PageOf(b, c, k) \in locked \cup untracked
               /\ Recorded(b, c, k)' = Area!Unset =>
                    pagesPerVcpu[b] = 0 /\ \A u \in Threads : areaOp'[u].area = b => areaPc'[u] # "publish"
    <3>1. CASE b = a
      BY <1>14, <2>1, <2>3, <3>1
    <3>2. CASE b # a
      <4>1. Recorded(b, c, k)' = Recorded(b, c, k)
        BY <1>14, <2>3, <3>2
      <4> QED
        BY <2>2, <2>3, <3>2, <4>1 DEF AreaInv, Entered
    <3> QED
      BY <3>1, <3>2
  <2> QED
    BY <1>1, <2>3 DEF Entered
<1>16. OneBeyond'
  <2>1. \A c \in Area!VCPUsOf(a), k \in Area!Nums : PageOf(a, c, k) # Area!INVALID
    BY <1>3, AreaSizes
  <2>2. \A u \in Threads : areaPc'[u] \in {"lock", "reset"} => areaOp'[u].area # a
    BY <1>1, <1>4, <1>10 DEF AreaInv, FirstAlone
  <2>3. \A u \in Threads, b \in Areas, c \in Booted : Registers(u, b, c)' => Registers(u, b, c) /\ b # a
          /\ areaOp'[u] = areaOp[u] /\ areaPc'[u] = areaPc[u]
    BY <1>1, <1>4, <2>2 DEF Registers
  <2>4. ASSUME NEW b \in Areas, pages[b] # 0, NEW c \in Area!VCPUsOf(b)
        PROVE  Beyond(b, c)'
    <3>1. c \in Booted
      BY <2>4, AreaSizes
    <3>2. \A k \in Area!Nums : Recorded(b, c, k)' = PageOf(b, c, k) => Recorded(b, c, k) = PageOf(b, c, k)
      BY <1>14, <2>1, <2>4
    <3> QED
      BY <1>1, <2>3, <2>4, <3>1, <3>2, BeyondKept
  <2> QED
    BY <1>1, <2>4 DEF OneBeyond, Beyond
<1>17. FromFirst'
  BY <1>1, <1>4 DEF AreaInv, FromFirst
<1> QED
  BY <1>11, <1>12, <1>13, <1>15, <1>16, <1>17 DEF AreaInv

LEMMA ReadArrayKeeps ==
  ASSUME AreaInv, NEW t \in Threads, Area!ReadArray(t)
  PROVE  AreaInv'
<1> DEFINE a == areaOp[t].area
           o == [areaOp[t] EXCEPT !.array = pages[a]]
<1>1. /\ areaPc[t] = "array" /\ pages[a] # 0
      /\ UNCHANGED <<pagesPerVcpu, pages, arrays, locked, untracked>>
      /\ Area!Goto(t, "lock") /\ areaOp' = [areaOp EXCEPT ![t] = o]
  BY Zenon DEF Area!ReadArray, Area!regions
<1>2. areaOp[t] \in AreaLocals /\ a \in Areas /\ areaOp[t].vcpu \in Area!VCPUsOf(a)
  BY <1>1, AreaAtWork
<1>3. o \in AreaLocals /\ o.area = a /\ o.vcpu = areaOp[t].vcpu /\ o.array = pages[a] /\ o.page = areaOp[t].page
  <2>1. pages[a] \in 0 .. Len(arrays)
    BY <1>2 DEF AreaInv, AreaTypes
  <2> QED
    BY <1>2, <2>1 DEF AreaLocals
<1>4. AreaMoves(t, "lock", o)
  BY <1>1, Zenon DEF AreaMoves, Area!Goto
<1> HIDE DEF o
<1>5. /\ areaPc' \in [Threads -> AreaLabels] /\ areaOp' \in [Threads -> AreaLocals]
      /\ areaPc'[t] = "lock" /\ areaOp'[t] = o
      /\ \A u \in Threads \ {t} : areaPc'[u] = areaPc[u] /\ areaOp'[u] = areaOp[u]
      /\ \A u \in Threads : areaPc'[u] # "idle" =>
           areaOp'[u].area \in Areas /\ areaOp'[u].vcpu \in Area!VCPUsOf(areaOp'[u].area)
  BY <1>2, <1>3, <1>4, AreaMoved DEF AreaInv, AreaLabels
<1>6. areaOp[t].page = 0
  BY <1>1 DEF AreaInv, FromFirst
<1>7. AreaTypes'
  BY <1>1, <1>5 DEF AreaInv, AreaTypes, AreaLabels, AreaLocals
<1>8. OneArray'
  BY <1>1 DEF AreaInv, OneArray
<1>9. FirstAlone'
  BY <1>1, <1>3, <1>5 DEF AreaInv, FirstAlone, Area!First
<1>10. Entered'
  BY <1>1, <1>5 DEF AreaInv, Entered, Recorded
<1>11. OneBeyond'
  <2>1. \A u \in Threads, b \in Areas, c \in Booted : Registers(u, b, c)' /\ areaOp'[u].page # 0 =>
          Registers(u, b, c) /\ areaOp'[u] = areaOp[u] /\ areaPc'[u] = areaPc[u]
    BY <1>3, <1>5, <1>6 DEF Registers
  <2> QED
    BY <1>1, <2>1, AreaSizes DEF AreaInv, OneBeyond, Beyond, Recorded
<1>12. FromFirst'
  BY <1>3, <1>5, <1>6 DEF AreaInv, FromFirst
<1> QED
  BY <1>7, <1>8, <1>9, <1>10, <1>11, <1>12 DEF AreaInv

LEMMA LockFailsKeeps ==
  ASSUME AreaInv, NEW t \in Threads, Area!LockFails(t)
  PROVE  AreaInv'
<1> DEFINE a == areaOp[t].area
<1>1. /\ areaPc[t] = "lock" /\ UNCHANGED <<pagesPerVcpu, pages, arrays, locked, untracked>>
      /\ Area!Goto(t, "reset") /\ UNCHANGED areaOp
  BY Zenon DEF Area!LockFails, Area!regions
<1>2. AreaMoves(t, "reset", areaOp[t])
  BY <1>1, AreaGoesOn DEF AreaInv
<1>3. areaOp[t] \in AreaLocals /\ a \in Areas /\ areaOp[t].vcpu \in Area!VCPUsOf(a)
  BY <1>1, AreaAtWork
<1>4. /\ areaPc' \in [Threads -> AreaLabels] /\ areaOp' \in [Threads -> AreaLocals]
      /\ areaPc'[t] = "reset" /\ areaOp'[t] = areaOp[t]
      /\ \A u \in Threads \ {t} : areaPc'[u] = areaPc[u] /\ areaOp'[u] = areaOp[u]
      /\ \A u \in Threads : areaPc'[u] # "idle" =>
           areaOp'[u].area \in Areas /\ areaOp'[u].vcpu \in Area!VCPUsOf(areaOp'[u].area)
  BY <1>2, <1>3, AreaMoved DEF AreaInv, AreaLabels
<1>5. AreaTypes'
  BY <1>1, <1>4 DEF AreaInv, AreaTypes, AreaLabels, AreaLocals
<1>6. OneArray'
  BY <1>1 DEF AreaInv, OneArray
<1>7. FirstAlone'
  BY <1>1, <1>4 DEF AreaInv, FirstAlone, Area!First
<1>8. Entered'
  BY <1>1, <1>4 DEF AreaInv, Entered, Recorded
<1>9. OneBeyond'
  <2>1. ASSUME NEW b \in Areas, pages[b] # 0, NEW d \in Area!VCPUsOf(b) PROVE Beyond(b, d)'
    <3>1. \A u \in Threads : Registers(u, b, d)' =>
            Registers(u, b, d) /\ areaOp'[u].page = areaOp[u].page
            /\ (areaPc[u] = "reset" => areaPc'[u] = "reset")
      BY <1>1, <1>4 DEF Registers
    <3>2. \A k : Recorded(b, d, k)' = Recorded(b, d, k)
      BY <1>1 DEF Recorded
    <3> QED
      BY <1>1, <2>1, <3>1, <3>2, BeyondKept
  <2> QED
    BY <1>1, <2>1 DEF OneBeyond
<1>10. FromFirst'
  BY <1>1, <1>4 DEF AreaInv, FromFirst
<1> QED
  BY <1>5, <1>6, <1>7, <1>8, <1>9, <1>10 DEF AreaInv

\* A thread that records has its VCPU's part of the area's array.
LEMMA Records ==
  ASSUME AreaInv, NEW t \in Threads, areaPc[t] \in {"lock", "reset"}
  PROVE  /\ pages[areaOp[t].area] # 0 /\ pagesPerVcpu[areaOp[t].area] # 0
         /\ areaOp[t].array = pages[areaOp[t].area]
         /\ Beyond(areaOp[t].area, areaOp[t].vcpu)
         /\ Registers(t, areaOp[t].area, areaOp[t].vcpu)
<1>1. areaOp[t].area \in Areas /\ areaOp[t].vcpu \in Area!VCPUsOf(areaOp[t].area)
  BY AreaAtWork
<1>2. pages[areaOp[t].area] # 0 /\ pagesPerVcpu[areaOp[t].area] # 0 /\ areaOp[t].array = pages[areaOp[t].area]
  BY <1>1 DEF AreaInv, FirstAlone
<1> QED
  BY <1>1, <1>2 DEF AreaInv, OneBeyond, Registers

LEMMA LockKeeps ==
  ASSUME AreaInv, NEW t \in Threads, Area!Lock(t)
  PROVE  AreaInv'
<1>1. areaPc[t] = "lock"
  BY DEF Area!Lock
<1>2. PICK a \in Areas, c \in Booted, k \in Nat :
        /\ areaOp[t].area = a /\ areaOp[t].vcpu = c /\ areaOp[t].page = k
        /\ areaOp[t] \in AreaLocals /\ c \in Area!VCPUsOf(a) /\ k \in Area!Nums
        /\ Area!Mine(t, k) = PageOf(a, c, k)
  BY <1>1, AreaAtWork, AreaSizes
<1> DEFINE p == PageOf(a, c, k)
           label == IF k + 1 < NumPages THEN "lock" ELSE "idle"
           o == IF k + 1 < NumPages THEN [areaOp[t] EXCEPT !.page = k + 1] ELSE Area!NoOp
<1>3. /\ pages[a] # 0 /\ pagesPerVcpu[a] # 0 /\ areaOp[t].array = pages[a]
      /\ Beyond(a, c) /\ Registers(t, a, c)
  BY <1>1, <1>2, Records, Zenon
<1>4. /\ p \notin locked /\ locked' = locked \cup {p}
      /\ arrays' = WrittenAt(a, c, k, p)
      /\ UNCHANGED <<pagesPerVcpu, pages, untracked>>
  BY <1>2, <1>3, Zenon DEF Area!Lock, Area!Entry, Area!regions, WrittenAt
<1>5. AreaMoves(t, label, o)
  <2>1. CASE k + 1 < NumPages
    <3>1. areaPc' = areaPc /\ areaOp' = [areaOp EXCEPT ![t] = [areaOp[t] EXCEPT !.page = k + 1]]
      BY <1>2, <2>1, Zenon DEF Area!Lock
    <3>2. areaPc' = [areaPc EXCEPT ![t] = "lock"]
      BY <1>1, <3>1 DEF AreaInv, AreaTypes
    <3> QED
      BY <2>1, <3>1, <3>2, Zenon DEF AreaMoves
  <2>2. CASE ~(k + 1 < NumPages)
    <3>1. Area!Return(t)
      BY <1>2, <2>2, Zenon DEF Area!Lock
    <3> QED
      BY <2>2, <3>1, AreaIdle, Zenon DEF AreaInv
  <2> QED
    BY <2>1, <2>2
<1>6. /\ o \in AreaLocals /\ label \in AreaLabels
      /\ label = "lock" => o.area = a /\ o.vcpu = c /\ o.array = pages[a] /\ o.page = k + 1
      /\ label # "lock" => label = "idle" /\ o.page = 0
  <2>1. CASE k + 1 < NumPages
    <3>1. k + 1 \in Area!Nums
      BY <1>2, <2>1, AreaSizes
    <3> QED
      BY <1>2, <1>3, <2>1, <3>1 DEF AreaLocals, AreaLabels
  <2>2. CASE ~(k + 1 < NumPages)
    <3>1. Area!NoOp \in AreaLocals /\ Area!NoOp.page = 0
      BY AreaIdle DEF AreaInv, Area!NoOp
    <3> QED
      BY <2>2, <3>1 DEF AreaLabels
  <2> QED
    BY <2>1, <2>2
<1> HIDE DEF label, o
<1>7. /\ areaPc' \in [Threads -> AreaLabels] /\ areaOp' \in [Threads -> AreaLocals]
      /\ areaPc'[t] = label /\ areaOp'[t] = o
      /\ \A u \in Threads \ {t} : areaPc'[u] = areaPc[u] /\ areaOp'[u] = areaOp[u]
      /\ \A u \in Threads : areaPc'[u] # "idle" =>
           areaOp'[u].area \in Areas /\ areaOp'[u].vcpu \in Area!VCPUsOf(areaOp'[u].area)
  BY <1>2, <1>5, <1>6, AreaMoved DEF AreaInv
<1>8. p \in Area!Pages /\ p \in Written
  BY <1>2, AreaSizes DEF Written
<1>9. /\ arrays' \in Seq(AnyRow) /\ Len(arrays') = Len(arrays) /\ OneArray'
      /\ \A b \in Areas : pages[b] # 0 => \A d \in Area!VCPUsOf(b), j \in Area!Nums :
           Recorded(b, d, j)' = IF b = a /\ d = c /\ j = k THEN p ELSE Recorded(b, d, j)
  <2>1. AreaTypes /\ OneArray
    BY DEF AreaInv
  <2>2. p \in Written /\ arrays' = WrittenAt(a, c, k, p) /\ UNCHANGED pages
        /\ a \in Areas /\ pages[a] # 0 /\ c \in Area!VCPUsOf(a) /\ k \in Area!Nums
    BY <1>2, <1>3, <1>4, <1>8, Zenon
  <2> HIDE DEF p
  <2> QED
    BY <2>1, <2>2, EntryWritten
<1>10. AreaTypes'
  BY <1>4, <1>7, <1>8, <1>9 DEF AreaInv, AreaTypes, AreaLabels, AreaLocals
<1>11. FirstAlone'
  BY <1>1, <1>3, <1>4, <1>6, <1>7 DEF AreaInv, FirstAlone, Area!First
<1>12. Entered'
  <2>1. p # Area!Unset
    BY <1>2, AreaSizes
  <2>2. \A u \in Threads : areaPc'[u] = "publish" => areaPc[u] = "publish" /\ areaOp'[u] = areaOp[u]
    BY <1>6, <1>7
  <2>3. ASSUME NEW b \in Areas, pages[b] # 0, NEW d \in Area!VCPUsOf(b), NEW j \in Area!Nums
        PROVE  /\ Recorded(b, d, j)' \in {PageOf(b, d, j), Area!INVALID, Area!Unset}
               /\ Recorded(b, d, j)' = PageOf(b, d, j) => PageOf(b, d, j) \in locked' \cup untracked
               /\ Recorded(b, d, j)' = Area!Unset =>
                    pagesPerVcpu[b] = 0 /\ \A u \in Threads : areaOp'[u].area = b => areaPc'[u] # "publish"
    <3>1. CASE b = a /\ d = c /\ j = k
      BY <1>4, <1>9, <2>1, <2>3, <3>1
    <3>2. CASE ~(b = a /\ d = c /\ j = k)
      <4>1. Recorded(b, d, j)' = Recorded(b, d, j)
        BY <1>9, <2>3, <3>2
      <4> QED
        BY <1>4, <2>2, <2>3, <4>1 DEF AreaInv, Entered
    <3> QED
      BY <3>1, <3>2
  <2> QED
    BY <1>4, <2>3 DEF Entered
<1>13. OneBeyond'
  <2>2. ASSUME NEW b \in Areas, pages[b] # 0, NEW d \in Area!VCPUsOf(b), ~(b = a /\ d = c)
        PROVE  Beyond(b, d)'
    <3>1. \A u \in Threads : Registers(u, b, d)' =>
            Registers(u, b, d) /\ areaOp'[u].page = areaOp[u].page
            /\ (areaPc[u] = "reset" => areaPc'[u] = "reset")
      BY <1>6, <1>7, <2>2 DEF Registers
    <3>2. \A j \in Area!Nums : Recorded(b, d, j)' = Recorded(b, d, j)
      BY <1>9, <2>2
    <3>3. PageOf(b, d, 0) \in locked' <=> PageOf(b, d, 0) \in locked
      BY <1>4, <2>2 DEF PageOf
    <3> QED
      BY <1>4, <2>2, <3>1, <3>2, <3>3, BeyondKept
  <2>3. Beyond(a, c)'
    <3>1. \A u \in Threads \ {t} : ~(Registers(u, a, c) /\ areaOp[u].page # 0)
      <4>1. k = 0 => PageOf(a, c, 0) \notin locked
        BY <1>4
      <4> QED
        BY <1>2, <1>3, <4>1 DEF Beyond
    <3>2. PageOf(a, c, 0) \in locked'
      BY <1>2, <1>3, <1>4 DEF Beyond
    <3>3. \A u \in Threads \ {t} : ~(Registers(u, a, c)' /\ areaOp'[u].page # 0)
      BY <1>7, <3>1 DEF Registers
    <3>4. \A j \in Area!Nums : j > k => Recorded(a, c, j)' # PageOf(a, c, j)
      <4>1. \A j \in Area!Nums : j > k => Recorded(a, c, j)' = Recorded(a, c, j)
        BY <1>2, <1>3, <1>9, AreaSizes
      <4>2. \A j \in Area!Nums : j > k => Recorded(a, c, j) # PageOf(a, c, j)
        <5>1. CASE k = 0
          <6>1. \A j \in Area!Nums : j > 0 => j \in Area!Nums \ {0}
            BY AreaSizes
          <6> QED
            BY <1>3, <1>4, <5>1, <6>1 DEF Beyond
        <5>2. CASE k # 0
          BY <1>2, <1>3, <5>2 DEF Beyond
        <5> QED
          BY <5>1, <5>2
      <4> QED
        BY <4>1, <4>2
    <3>5. Registers(t, a, c)' => o.page = k + 1 /\ areaOp'[t].page = k + 1
      BY <1>6, <1>7 DEF Registers
    <3>6. Registers(t, a, c)' => k + 1 \in Area!Nums
      BY <1>6, <1>7, <3>5 DEF AreaLocals
    <3>7. \A j \in Area!Nums : j > k + 1 => j > k
      BY <1>2, AreaSizes
    <3>8. ASSUME Registers(t, a, c)' PROVE Recorded(a, c, areaOp[t].page)' # PageOf(a, c, k + 1)
      <4>1. Recorded(a, c, areaOp[t].page)' = Recorded(a, c, k + 1)'
        BY <3>5, <3>8 DEF Recorded
      <4>2. k + 1 > k
        BY <1>2
      <4> QED
        BY <3>4, <3>6, <3>8, <4>1, <4>2
    <3> QED
      BY <3>2, <3>3, <3>4, <3>5, <3>7, <3>8 DEF Beyond
  <2> QED
    BY <1>4, <2>2, <2>3 DEF OneBeyond
<1>14. FromFirst'
  BY <1>6, <1>7 DEF AreaInv, FromFirst
<1> QED
  BY <1>9, <1>10, <1>11, <1>12, <1>13, <1>14 DEF AreaInv

LEMMA TrackFailsKeeps ==
  ASSUME AreaInv, NEW t \in Threads, Area!TrackFails(t)
  PROVE  AreaInv'
<1>1. areaPc[t] = "lock"
  BY DEF Area!TrackFails
<1>2. PICK a \in Areas, c \in Booted, k \in Nat :
        /\ areaOp[t].area = a /\ areaOp[t].vcpu = c /\ areaOp[t].page = k
        /\ areaOp[t] \in AreaLocals /\ c \in Area!VCPUsOf(a) /\ k \in Area!Nums
        /\ Area!Mine(t, k) = PageOf(a, c, k)
  BY <1>1, AreaAtWork, AreaSizes
<1> DEFINE p == PageOf(a, c, k)
<1>3. /\ pages[a] # 0 /\ pagesPerVcpu[a] # 0 /\ areaOp[t].array = pages[a]
      /\ Beyond(a, c) /\ Registers(t, a, c)
  BY <1>1, <1>2, Records, Zenon
<1>4. /\ arrays' = WrittenAt(a, c, k, p) /\ untracked' = untracked \cup {p}
      /\ UNCHANGED <<pagesPerVcpu, pages, locked>>
      /\ Area!Goto(t, "reset") /\ UNCHANGED areaOp
  BY <1>2, <1>3, Zenon DEF Area!TrackFails, Area!Entry, Area!regions, WrittenAt
<1>5. AreaMoves(t, "reset", areaOp[t])
  BY <1>4, AreaGoesOn DEF AreaInv
<1>6. /\ areaPc' \in [Threads -> AreaLabels] /\ areaOp' \in [Threads -> AreaLocals]
      /\ areaPc'[t] = "reset" /\ areaOp'[t] = areaOp[t]
      /\ \A u \in Threads \ {t} : areaPc'[u] = areaPc[u] /\ areaOp'[u] = areaOp[u]
      /\ \A u \in Threads : areaPc'[u] # "idle" =>
           areaOp'[u].area \in Areas /\ areaOp'[u].vcpu \in Area!VCPUsOf(areaOp'[u].area)
  BY <1>2, <1>5, AreaMoved DEF AreaInv, AreaLabels
<1>7. p \in Area!Pages /\ p \in Written
  BY <1>2, AreaSizes DEF Written
<1>8. /\ arrays' \in Seq(AnyRow) /\ Len(arrays') = Len(arrays) /\ OneArray'
      /\ \A b \in Areas : pages[b] # 0 => \A d \in Area!VCPUsOf(b), j \in Area!Nums :
           Recorded(b, d, j)' = IF b = a /\ d = c /\ j = k THEN p ELSE Recorded(b, d, j)
  <2>1. AreaTypes /\ OneArray
    BY DEF AreaInv
  <2>2. p \in Written /\ arrays' = WrittenAt(a, c, k, p) /\ UNCHANGED pages
        /\ a \in Areas /\ pages[a] # 0 /\ c \in Area!VCPUsOf(a) /\ k \in Area!Nums
    BY <1>2, <1>3, <1>4, <1>7, Zenon
  <2> HIDE DEF p
  <2> QED
    BY <2>1, <2>2, EntryWritten
<1>9. AreaTypes'
  BY <1>4, <1>6, <1>7, <1>8 DEF AreaInv, AreaTypes, AreaLabels, AreaLocals
<1>10. FirstAlone'
  BY <1>1, <1>3, <1>4, <1>6 DEF AreaInv, FirstAlone, Area!First
<1>11. Entered'
  <2>1. p # Area!Unset
    BY <1>2, AreaSizes
  <2>2. \A u \in Threads : areaPc'[u] = "publish" => areaPc[u] = "publish" /\ areaOp'[u] = areaOp[u]
    BY <1>6
  <2>3. ASSUME NEW b \in Areas, pages[b] # 0, NEW d \in Area!VCPUsOf(b), NEW j \in Area!Nums
        PROVE  /\ Recorded(b, d, j)' \in {PageOf(b, d, j), Area!INVALID, Area!Unset}
               /\ Recorded(b, d, j)' = PageOf(b, d, j) => PageOf(b, d, j) \in locked \cup untracked'
               /\ Recorded(b, d, j)' = Area!Unset =>
                    pagesPerVcpu[b] = 0 /\ \A u \in Threads : areaOp'[u].area = b => areaPc'[u] # "publish"
    <3>1. CASE b = a /\ d = c /\ j = k
      BY <1>4, <1>8, <2>1, <2>3, <3>1
    <3>2. CASE ~(b = a /\ d = c /\ j = k)
      <4>1. Recorded(b, d, j)' = Recorded(b, d, j)
        BY <1>8, <2>3, <3>2
      <4> QED
        BY <1>4, <2>2, <2>3, <4>1 DEF AreaInv, Entered
    <3> QED
      BY <3>1, <3>2
  <2> QED
    BY <1>4, <2>3 DEF Entered
<1>12. OneBeyond'
  <2>1. \A u \in Threads, b \in Areas, d \in Booted : Registers(u, b, d)' =>
          Registers(u, b, d) /\ areaOp'[u].page = areaOp[u].page
          /\ (areaPc[u] = "reset" => areaPc'[u] = "reset")
    BY <1>1, <1>6 DEF Registers
  <2>2. ASSUME NEW b \in Areas, pages[b] # 0, NEW d \in Area!VCPUsOf(b), ~(b = a /\ d = c)
        PROVE  Beyond(b, d)'
    <3>1. \A j \in Area!Nums : Recorded(b, d, j)' = Recorded(b, d, j)
      BY <1>8, <2>2
    <3>2. d \in Booted
      BY <2>2, AreaSizes
    <3> QED
      BY <1>4, <2>1, <2>2, <3>1, <3>2, BeyondKept
  <2>3. Beyond(a, c)'
    <3>1. \A j \in Area!Nums \ {k} : Recorded(a, c, j)' = Recorded(a, c, j)
      BY <1>2, <1>3, <1>8
    <3>2. CASE k = 0
      <4>1. \A j \in Area!Nums : j # 0 => Recorded(a, c, j)' = Recorded(a, c, j)
        BY <3>1, <3>2
      <4>2. PageOf(a, c, 0) \notin locked' =>
              \A j \in Area!Nums \ {0} : Recorded(a, c, j)' # PageOf(a, c, j)
        BY <1>3, <1>4, <4>1 DEF Beyond
      <4>3. ASSUME NEW u \in Threads, Registers(u, a, c)', areaOp'[u].page # 0
            PROVE  /\ PageOf(a, c, 0) \in locked'
                   /\ \A j \in Area!Nums : j > areaOp'[u].page => Recorded(a, c, j)' # PageOf(a, c, j)
                   /\ Recorded(a, c, areaOp[u].page)' = PageOf(a, c, areaOp'[u].page) =>
                        areaPc'[u] = "reset" /\ PageOf(a, c, areaOp'[u].page) \in untracked'
                   /\ \A v \in Threads : Registers(v, a, c)' /\ areaOp'[v].page # 0 => v = u
        <5>1. Registers(u, a, c) /\ areaOp'[u].page = areaOp[u].page /\ areaOp[u].page # 0
              /\ (areaPc[u] = "reset" => areaPc'[u] = "reset")
          BY <2>1, <4>3
        <5>2. PICK n \in Area!Nums : n = areaOp[u].page
          BY DEF AreaInv, AreaTypes
        <5>3. \A j \in Area!Nums : j > n => j # 0
          BY <5>2, AreaSizes
        <5>4. Recorded(a, c, areaOp[u].page)' = Recorded(a, c, n)'
          BY <5>1, <5>2 DEF Recorded
        <5> QED
          BY <1>3, <1>4, <2>1, <4>1, <5>1, <5>2, <5>3, <5>4 DEF Beyond
      <4> QED
        BY <4>2, <4>3 DEF Beyond
    <3>3. CASE k # 0
      <4>1. PageOf(a, c, 0) \in locked' /\ \A j \in Area!Nums : j > k => Recorded(a, c, j) # PageOf(a, c, j)
        BY <1>2, <1>3, <1>4, <3>3 DEF Beyond
      <4>2. \A u \in Threads : Registers(u, a, c)' /\ areaOp'[u].page # 0 => u = t
        BY <1>2, <1>3, <2>1, <3>3 DEF Beyond
      <4>3. \A j \in Area!Nums : j > k => Recorded(a, c, j)' # PageOf(a, c, j)
        <5>1. \A j \in Area!Nums : j > k => j # k
          BY <1>2, AreaSizes
        <5> QED
          BY <3>1, <4>1, <5>1
      <4>4. areaOp'[t].page = k /\ areaPc'[t] = "reset" /\ PageOf(a, c, k) \in untracked'
        BY <1>2, <1>4, <1>6
      <4> QED
        BY <4>1, <4>2, <4>3, <4>4 DEF Beyond
    <3> QED
      BY <3>2, <3>3
  <2> QED
    BY <1>4, <2>2, <2>3 DEF OneBeyond
<1>13. FromFirst'
  BY <1>6 DEF AreaInv, FromFirst
<1> QED
  BY <1>8, <1>9, <1>10, <1>11, <1>12, <1>13 DEF AreaInv

LEMMA ResetKeeps ==
  ASSUME AreaInv, NEW t \in Threads, Area!Reset(t)
  PROVE  AreaInv'
<1>1. areaPc[t] = "reset"
  BY DEF Area!Reset
<1>2. PICK a \in Areas, c \in Booted, p \in Nat, k \in Nat :
        /\ areaOp[t].area = a /\ areaOp[t].vcpu = c /\ areaOp[t].page = p /\ areaOp[t].reset = k
        /\ areaOp[t] \in AreaLocals /\ c \in Area!VCPUsOf(a) /\ p \in Area!Nums
        /\ Area!Mine(t, p) = PageOf(a, c, p)
  BY <1>1, AreaAtWork, AreaSizes
<1>3. /\ pages[a] # 0 /\ pagesPerVcpu[a] # 0 /\ areaOp[t].array = pages[a]
      /\ Beyond(a, c) /\ Registers(t, a, c)
  BY <1>1, <1>2, Records, Zenon
<1>4. UNCHANGED <<pagesPerVcpu, pages, untracked>>
  BY Zenon DEF Area!Reset, Area!regions
<1>5. CASE k < p
  <2> DEFINE o == [areaOp[t] EXCEPT !.reset = k + 1]
  <2>1. /\ locked' = locked \ {PageOf(a, c, p)} /\ arrays' = WrittenAt(a, c, k, Area!INVALID)
        /\ areaPc' = areaPc /\ areaOp' = [areaOp EXCEPT ![t] = o]
    BY <1>2, <1>3, <1>5, Zenon DEF Area!Reset, Area!Entry, WrittenAt
  <2>2. areaPc' = [areaPc EXCEPT ![t] = "reset"]
    BY <1>1, <2>1 DEF AreaInv, AreaTypes
  <2>3. AreaMoves(t, "reset", o)
    BY <2>1, <2>2, Zenon DEF AreaMoves
  <2>4. o \in AreaLocals /\ o.area = a /\ o.vcpu = c /\ o.array = pages[a] /\ o.page = p
    BY <1>2, <1>3 DEF AreaLocals
  <2> HIDE DEF o
  <2>5. /\ areaPc' \in [Threads -> AreaLabels] /\ areaOp' \in [Threads -> AreaLocals]
        /\ areaPc'[t] = "reset" /\ areaOp'[t] = o
        /\ \A u \in Threads \ {t} : areaPc'[u] = areaPc[u] /\ areaOp'[u] = areaOp[u]
        /\ \A u \in Threads : areaPc'[u] # "idle" =>
             areaOp'[u].area \in Areas /\ areaOp'[u].vcpu \in Area!VCPUsOf(areaOp'[u].area)
    BY <1>2, <2>3, <2>4, AreaMoved DEF AreaInv, AreaLabels
  <2>6. k \in Area!Nums /\ p # 0 /\ Area!INVALID \in Written
    BY <1>2, <1>5, AreaSizes DEF Written
  <2>7. /\ arrays' \in Seq(AnyRow) /\ Len(arrays') = Len(arrays) /\ OneArray'
        /\ \A b \in Areas : pages[b] # 0 => \A d \in Area!VCPUsOf(b), j \in Area!Nums :
             Recorded(b, d, j)' = IF b = a /\ d = c /\ j = k THEN Area!INVALID ELSE Recorded(b, d, j)
    <3>1. AreaTypes /\ OneArray
      BY DEF AreaInv
    <3>2. Area!INVALID \in Written /\ arrays' = WrittenAt(a, c, k, Area!INVALID) /\ UNCHANGED pages
          /\ a \in Areas /\ pages[a] # 0 /\ c \in Area!VCPUsOf(a) /\ k \in Area!Nums
      BY <1>2, <1>3, <1>4, <2>1, <2>6, Zenon
    <3> QED
      BY <3>1, <3>2, EntryWritten
  <2>8. AreaTypes'
    BY <1>4, <2>1, <2>5, <2>7 DEF AreaInv, AreaTypes, AreaLabels, AreaLocals
  <2>9. FirstAlone'
    BY <1>1, <1>3, <1>4, <2>4, <2>5 DEF AreaInv, FirstAlone, Area!First
  <2>10. Entered'
    <3>1. \A u \in Threads : areaPc'[u] = "publish" => areaPc[u] = "publish" /\ areaOp'[u] = areaOp[u]
      BY <2>5
    <3>2. Recorded(a, c, p) = PageOf(a, c, p) => PageOf(a, c, p) \in untracked
      BY <1>2, <1>3, <2>6 DEF Beyond
    <3>3. ASSUME NEW b \in Areas, pages[b] # 0, NEW d \in Area!VCPUsOf(b), NEW j \in Area!Nums
          PROVE  /\ Recorded(b, d, j)' \in {PageOf(b, d, j), Area!INVALID, Area!Unset}
                 /\ Recorded(b, d, j)' = PageOf(b, d, j) => PageOf(b, d, j) \in locked' \cup untracked
                 /\ Recorded(b, d, j)' = Area!Unset =>
                      pagesPerVcpu[b] = 0 /\ \A u \in Threads : areaOp'[u].area = b => areaPc'[u] # "publish"
      <4>1. CASE b = a /\ d = c /\ j = k
        BY <1>2, <2>7, <3>3, <4>1, AreaSizes
      <4>2. CASE ~(b = a /\ d = c /\ j = k)
        <5>1. Recorded(b, d, j)' = Recorded(b, d, j)
          BY <2>7, <3>3, <4>2
        <5>2. PageOf(b, d, j) = PageOf(a, c, p) => b = a /\ d = c /\ j = p
          BY DEF PageOf
        <5>3. Recorded(b, d, j) = PageOf(b, d, j) => PageOf(b, d, j) \in locked' \cup untracked
          BY <2>1, <3>2, <3>3, <5>2 DEF AreaInv, Entered
        <5> QED
          BY <3>1, <3>3, <5>1, <5>3 DEF AreaInv, Entered
      <4> QED
        BY <4>1, <4>2
    <3> QED
      BY <1>4, <3>3 DEF Entered
  <2>11. OneBeyond'
    <3>1. ASSUME NEW b \in Areas, pages[b] # 0, NEW d \in Area!VCPUsOf(b) PROVE Beyond(b, d)'
      <4>1. \A u \in Threads : Registers(u, b, d)' =>
              Registers(u, b, d) /\ areaOp'[u].page = areaOp[u].page
              /\ (areaPc[u] = "reset" => areaPc'[u] = "reset")
        BY <1>1, <1>2, <2>4, <2>5 DEF Registers
      <4>2. \A j \in Area!Nums : Recorded(b, d, j)' = PageOf(b, d, j) => Recorded(b, d, j) = PageOf(b, d, j)
        BY <2>7, <3>1, AreaSizes
      <4>3. PageOf(b, d, 0) \in locked' <=> PageOf(b, d, 0) \in locked
        BY <2>1, <2>6 DEF PageOf
      <4> QED
        BY <1>4, <3>1, <4>1, <4>2, <4>3, BeyondKept
    <3> QED
      BY <1>4, <3>1 DEF OneBeyond
  <2>12. FromFirst'
    BY <2>5 DEF AreaInv, FromFirst
  <2> QED
    BY <2>7, <2>8, <2>9, <2>10, <2>11, <2>12 DEF AreaInv
<1>6. CASE ~(k < p)
  <2>1. Area!Return(t) /\ UNCHANGED <<arrays, locked>>
    BY <1>2, <1>6, Zenon DEF Area!Reset
  <2>2. Area!NoOp \in AreaLocals /\ AreaMoves(t, "idle", Area!NoOp)
    BY <2>1, AreaIdle DEF AreaInv
  <2>3. /\ areaPc' \in [Threads -> AreaLabels] /\ areaOp' \in [Threads -> AreaLocals]
        /\ areaPc'[t] = "idle" /\ areaOp'[t] = Area!NoOp
        /\ \A u \in Threads \ {t} : areaPc'[u] = areaPc[u] /\ areaOp'[u] = areaOp[u]
        /\ \A u \in Threads : areaPc'[u] # "idle" =>
             areaOp'[u].area \in Areas /\ areaOp'[u].vcpu \in Area!VCPUsOf(areaOp'[u].area)
    BY <2>2, AreaMoved DEF AreaInv, AreaLabels
  <2>4. AreaTypes'
    BY <1>4, <2>1, <2>3 DEF AreaInv, AreaTypes, AreaLabels, AreaLocals
  <2>5. OneArray'
    BY <1>4, <2>1 DEF AreaInv, OneArray
  <2>6. FirstAlone'
    BY <1>1, <1>4, <2>3 DEF AreaInv, FirstAlone, Area!First
  <2>7. Entered'
    BY <1>1, <1>4, <2>1, <2>3 DEF AreaInv, Entered, Recorded
  <2>8. OneBeyond'
    <3>1. ASSUME NEW b \in Areas, pages[b] # 0, NEW d \in Area!VCPUsOf(b) PROVE Beyond(b, d)'
      <4>1. \A u \in Threads : Registers(u, b, d)' =>
              Registers(u, b, d) /\ areaOp'[u].page = areaOp[u].page
              /\ (areaPc[u] = "reset" => areaPc'[u] = "reset")
        BY <2>3 DEF Registers
      <4>2. \A j : Recorded(b, d, j)' = Recorded(b, d, j)
        BY <1>4, <2>1 DEF Recorded
      <4> QED
        BY <1>4, <2>1, <3>1, <4>1, <4>2, BeyondKept
    <3> QED
      BY <1>4, <3>1 DEF OneBeyond
  <2>9. FromFirst'
    BY <2>3 DEF AreaInv, FromFirst, Area!NoOp
  <2> QED
    BY <2>4, <2>5, <2>6, <2>7, <2>8, <2>9 DEF AreaInv
<1> QED
  BY <1>2, <1>5, <1>6

LEMMA AreaStep ==
  ASSUME AreaInv, ~MayOverlap, [Area!Next]_areaVars
  PROVE  AreaInv'
<1>1. ASSUME NEW t \in Threads, NEW a \in Areas, NEW c \in Booted, Area!Validate(t, a, c)
      PROVE  AreaInv'
  BY <1>1, ValidateKeeps
<1>2. ASSUME NEW t \in Threads,
             \/ Area!Test(t) \/ Area!Alloc(t) \/ Area!AllocFails(t) \/ Area!Fill(t) \/ Area!Publish(t)
             \/ Area!ReadArray(t) \/ Area!Lock(t) \/ Area!LockFails(t) \/ Area!TrackFails(t) \/ Area!Reset(t)
      PROVE  AreaInv'
  BY <1>2, TestKeeps, AllocKeepsAreas, AllocFailsKeeps, FillKeeps, PublishKeeps, ReadArrayKeeps,
     LockKeeps, LockFailsKeeps, TrackFailsKeeps, ResetKeeps
<1>3. CASE UNCHANGED areaVars
  <2>1. UNCHANGED <<pagesPerVcpu, pages, arrays, locked, untracked, areaPc, areaOp>>
    BY <1>3 DEF areaVars
  <2>2. AreaTypes' /\ OneArray' /\ FirstAlone' /\ Entered' /\ FromFirst'
    BY <2>1 DEF AreaInv, AreaTypes, OneArray, FirstAlone, Entered, FromFirst, Area!First,
       Recorded
  <2>3. OneBeyond'
    BY <2>1 DEF AreaInv, OneBeyond, Beyond, Registers, Recorded
  <2> QED
    BY <2>2, <2>3 DEF AreaInv
<1> QED
  BY <1>1, <1>2, <1>3, Zenon DEF Area!Next

-----------------------------------------------------------------------------
(* Pages of statistics variables.                                            *)

StatCPUs == {0}

\* How far a registration has come: what it has recorded, or has still to undo.
PartDone(t, c) ==
  /\ statPagesPerVcpu = NumPages
  /\ statPc[t] \in {"lock", "lookup"} =>
       \A k \in Stat!Nums :
         statPages[c][k] = IF k < statOp[t].page THEN Stat!Page(t, k)
                           ELSE IF k = 0 THEN Stat!Claim ELSE Stat!INVALID
  /\ statPc[t] \in {"unlock", "undo"} =>
       /\ statOp[t].reset <= statOp[t].page
       /\ \A k \in Stat!Nums :
            k < statOp[t].reset \/ k > statOp[t].page => statPages[c][k] = Stat!INVALID
  /\ statPc[t] # "undo" => statOp[t].reset = 0

Claimed(c) ==
  /\ \A t \in Threads : Stat!Registering(t, c) =>
       /\ PartDone(t, c)
       /\ \A u \in Threads : Stat!Registering(u, c) => u = t
       /\ \A r \in registered : r.vcpu # c
  /\ \A r \in registered : r.vcpu = c =>
       statPagesPerVcpu = NumPages /\ \A k \in Stat!Nums : statPages[c][k] = Stat!Page(r.base, k)
  /\ (\A t \in Threads : ~Stat!Registering(t, c)) /\ (\A r \in registered : r.vcpu # c) =>
       \A k \in Stat!Nums : statPages[c][k] = Stat!INVALID

StatInv == Stat!TypeOK /\ \A c \in StatCPUs \ crossed : Claimed(c)

LEMMA StatSizes ==
  /\ NumPages \in Nat \ {0} /\ Stat!Nums = 0 .. NumPages - 1 /\ 0 \in Stat!Nums
  /\ Stat!INVALID # Stat!Claim
  /\ \A t \in Threads : \A k \in Stat!Nums :
       Stat!Page(t, k) \in Stat!Pages /\ Stat!Page(t, k) \notin {Stat!INVALID, Stat!Claim}
BY StatVarsAssumption
   DEF Stat!PagesAssumption, Stat!Nums, Stat!INVALID, Stat!Claim, Stat!Page, Stat!Pages

LEMMA StatTrue == StatInv => Stat!ClaimsHold
<1> SUFFICES ASSUME StatInv, NEW c \in StatCPUs \ crossed
    PROVE  /\ Stat!Cardinality({t \in Threads : Stat!Registering(t, c)}) <= 1
           /\ \A r \in registered : r.vcpu = c =>
                \A k \in Stat!Nums : Stat!GetRegionMPN(c, k) = Stat!Page(r.base, k)
           /\ (\A t \in Threads : ~Stat!Registering(t, c)) /\ (\A r \in registered : r.vcpu # c) =>
                \A k \in Stat!Nums : Stat!GetRegionMPN(c, k) = Stat!INVALID
  BY Zenon DEF Stat!ClaimsHold, StatCPUs
<1>1. Claimed(c)
  BY DEF StatInv
<1> DEFINE R == {t \in Threads : Stat!Registering(t, c)}
<1>2. Cardinality(R) <= 1
  <2>1. CASE R = {}
    BY <2>1, FS_EmptySet
  <2>2. CASE R # {}
    <3>1. PICK t \in R : TRUE
      BY <2>2
    <3>2. R = {t}
      BY <1>1, <3>1 DEF Claimed
    <3>3. Cardinality({t}) = 1
      BY FS_Singleton, Zenon
    <3> QED
      BY <3>2, <3>3
  <2> QED
    BY <2>1, <2>2
<1>3. Stat!Cardinality(R) <= 1
  BY <1>2, Zenon DEF Stat!Cardinality, Cardinality
<1>4. \A k \in Stat!Nums : Stat!GetRegionMPN(c, k) =
        IF statPagesPerVcpu = NumPages THEN statPages[c][k] ELSE Stat!INVALID
  BY StatSizes DEF StatInv, Stat!TypeOK, Stat!GetRegionMPN
<1> QED
  BY <1>1, <1>3, <1>4 DEF Claimed

LEMMA StatStart == Stat!Init => StatInv
<1> SUFFICES ASSUME Stat!Init PROVE StatInv
  OBVIOUS
<1>1. Stat!TypeOK
  BY StatSizes DEF Stat!Init, Stat!TypeOK, Stat!NoOp
<1>2. ASSUME NEW c \in StatCPUs PROVE Claimed(c)
  BY DEF Stat!Init, Claimed, Stat!Registering, StatCPUs
<1> QED
  BY <1>1, <1>2 DEF StatInv

-----------------------------------------------------------------------------
StatLabels == {"idle", "lock", "unlock", "lookup", "undo"}
StatLocals == [vcpu : StatCPUs, page : Stat!Nums, reset : Stat!Nums]
StatMoves(t, label, o) == statPc' = [statPc EXCEPT ![t] = label] /\ statOp' = [statOp EXCEPT ![t] = o]

LEMMA StatMoved ==
  ASSUME Stat!TypeOK, NEW t \in Threads, NEW label \in StatLabels, NEW o \in StatLocals,
         StatMoves(t, label, o)
  PROVE  /\ statPc' \in [Threads -> StatLabels] /\ statOp' \in [Threads -> StatLocals]
         /\ statPc'[t] = label /\ statOp'[t] = o
         /\ \A u \in Threads \ {t} : statPc'[u] = statPc[u] /\ statOp'[u] = statOp[u]
BY DEF Stat!TypeOK, StatLabels, StatLocals, StatMoves, StatCPUs

\* What one thread that registers does with its own VCPU's pages.
LEMMA StatOwnStep ==
  ASSUME StatInv, NEW t \in Threads, statPc[t] # "idle", NEW label \in StatLabels, NEW o \in StatLocals,
         StatMoves(t, label, o), UNCHANGED <<statPagesPerVcpu, crossed>>, Stat!TypeOK',
         label # "idle" => o.vcpu = statOp[t].vcpu,
         \A c \in StatCPUs \ {statOp[t].vcpu} : statPages'[c] = statPages[c],
         statOp[t].vcpu \notin crossed =>
           \/ label # "idle" /\ PartDone(t, statOp[t].vcpu)' /\ registered' = registered
           \/ /\ label = "idle" /\ registered' = registered
              /\ \A k \in Stat!Nums : statPages'[statOp[t].vcpu][k] = Stat!INVALID
           \/ /\ label = "idle" /\ registered' = registered \cup {[vcpu |-> statOp[t].vcpu, base |-> t]}
              /\ \A k \in Stat!Nums : statPages'[statOp[t].vcpu][k] = Stat!Page(t, k),
         registered' \in {registered, registered \cup {[vcpu |-> statOp[t].vcpu, base |-> t]}}
  PROVE  StatInv'
<1>1. /\ statPc'[t] = label /\ statOp'[t] = o
      /\ \A u \in Threads \ {t} : statPc'[u] = statPc[u] /\ statOp'[u] = statOp[u]
  BY StatMoved DEF StatInv
<1>2. ASSUME NEW c \in StatCPUs \ crossed, c # statOp[t].vcpu PROVE Claimed(c)'
  <2>1. \A u \in Threads : Stat!Registering(u, c)' <=> Stat!Registering(u, c)
    BY <1>1, <1>2 DEF Stat!Registering
  <2>2. \A u \in Threads : Stat!Registering(u, c) => u # t
    BY <1>2 DEF Stat!Registering
  <2>3. \A u \in Threads \ {t} : PartDone(u, c) => PartDone(u, c)'
    BY <1>1, <1>2 DEF PartDone
  <2>4. \A r \in registered' : r.vcpu = c => r \in registered
    BY <1>2
  <2>5. registered \subseteq registered'
    OBVIOUS
  <2> QED
    BY <1>2, <2>1, <2>2, <2>3, <2>4, <2>5 DEF StatInv, Claimed
<1>3. ASSUME NEW c \in StatCPUs \ crossed, c = statOp[t].vcpu PROVE Claimed(c)'
  <2>1. Stat!Registering(t, c)
    BY <1>3 DEF Stat!Registering
  <2>2. \A u \in Threads \ {t} : ~Stat!Registering(u, c) /\ ~Stat!Registering(u, c)'
    BY <1>1, <1>3, <2>1 DEF StatInv, Claimed, Stat!Registering
  <2>3. statPagesPerVcpu' = NumPages /\ \A r \in registered : r.vcpu # c
    BY <1>3, <2>1 DEF StatInv, Claimed, PartDone
  <2>4. CASE label # "idle" /\ PartDone(t, statOp[t].vcpu)' /\ registered' = registered
    <3>1. o.vcpu = c /\ PartDone(t, c)' /\ Stat!Registering(t, c)'
      BY <1>1, <1>3, <2>4 DEF Stat!Registering
    <3> QED
      BY <2>2, <2>3, <2>4, <3>1 DEF Claimed
  <2>5. CASE label = "idle" /\ registered' = registered
             /\ \A k \in Stat!Nums : statPages'[statOp[t].vcpu][k] = Stat!INVALID
    <3>1. \A u \in Threads : ~Stat!Registering(u, c)'
      BY <1>1, <2>2, <2>5 DEF Stat!Registering
    <3> QED
      BY <1>3, <2>3, <2>5, <3>1 DEF Claimed
  <2>6. CASE /\ label = "idle" /\ registered' = registered \cup {[vcpu |-> statOp[t].vcpu, base |-> t]}
             /\ \A k \in Stat!Nums : statPages'[statOp[t].vcpu][k] = Stat!Page(t, k)
    <3>1. \A u \in Threads : ~Stat!Registering(u, c)'
      BY <1>1, <2>2, <2>6 DEF Stat!Registering
    <3>2. \A r \in registered' : r.vcpu = c => r.base = t
      BY <1>3, <2>3, <2>6
    <3>3. [vcpu |-> c, base |-> t] \in registered'
      BY <1>3, <2>6, Zenon
    <3>4. [vcpu |-> c, base |-> t].vcpu = c
      OBVIOUS
    <3> QED
      BY <1>3, <2>3, <2>6, <3>1, <3>2, <3>3, <3>4 DEF Claimed
  <2> QED
    BY <1>3, <2>4, <2>5, <2>6
<1> QED
  BY <1>2, <1>3 DEF StatInv

LEMMA StatAtWork ==
  ASSUME StatInv, NEW t \in Threads, statPc[t] # "idle"
  PROVE  /\ Stat!TypeOK /\ statOp[t] \in StatLocals
         /\ statOp[t].vcpu = 0 /\ statOp[t].page \in Stat!Nums /\ statOp[t].reset \in Stat!Nums
         /\ statPages[0] \in [Stat!Nums -> Stat!Pages \cup {Stat!INVALID, Stat!Claim}]
         /\ DOMAIN statPages = StatCPUs
         /\ 0 \notin crossed => PartDone(t, 0)
BY DEF StatInv, Stat!TypeOK, StatLocals, StatCPUs, Claimed, Stat!Registering

\* One entry of the pages is written.
LEMMA StatEntry ==
  ASSUME StatInv, NEW t \in Threads, statPc[t] # "idle",
         NEW k \in Stat!Nums, NEW w \in Stat!Pages \cup {Stat!INVALID, Stat!Claim},
         statPages' = [statPages EXCEPT ![statOp[t].vcpu][k] = w]
  PROVE  /\ statPages' \in [StatCPUs -> [Stat!Nums -> Stat!Pages \cup {Stat!INVALID, Stat!Claim}]]
         /\ \A n \in Stat!Nums : statPages'[0][n] = IF n = k THEN w ELSE statPages[0][n]
         /\ \A c \in StatCPUs \ {statOp[t].vcpu} : statPages'[c] = statPages[c]
<1>1. statPages' = [statPages EXCEPT ![0] = [statPages[0] EXCEPT ![k] = w]]
  BY StatAtWork
<1>2. [statPages[0] EXCEPT ![k] = w] \in [Stat!Nums -> Stat!Pages \cup {Stat!INVALID, Stat!Claim}]
  BY StatAtWork
<1>3. statPages'[0] = [statPages[0] EXCEPT ![k] = w]
  BY <1>1, StatAtWork DEF StatCPUs
<1> QED
  BY <1>1, <1>2, <1>3, StatAtWork, ZenonT(60) DEF StatCPUs

LEMMA PinnedKeeps ==
  ASSUME StatInv, NEW page \in Stat!Pages, Stat!Pin(page) \/ Stat!Unpin(page) PROVE StatInv'
<1>1. UNCHANGED <<statPagesPerVcpu, statPages, statPc, statOp, registered, crossed>>
  BY DEF Stat!Pin, Stat!Unpin, Stat!history
<1>2. Stat!TypeOK'
  BY DEF StatInv, Stat!TypeOK, Stat!Pin, Stat!Unpin, Stat!history
<1>3. \A c \in StatCPUs \ crossed' : Claimed(c)'
  BY <1>1 DEF StatInv, Claimed, PartDone, Stat!Registering
<1> QED
  BY <1>2, <1>3 DEF StatInv

LEMMA StatRegisterKeeps ==
  ASSUME StatInv, NEW t \in Threads, Stat!Register(t, 0) PROVE StatInv'
<1> DEFINE o == [Stat!NoOp EXCEPT !.vcpu = 0]
<1>0. /\ Stat!TypeOK /\ 0 \in StatCPUs /\ 0 \in Stat!Nums
      /\ statPages[0] \in [Stat!Nums -> Stat!Pages \cup {Stat!INVALID, Stat!Claim}]
      /\ statPages \in [StatCPUs -> [Stat!Nums -> Stat!Pages \cup {Stat!INVALID, Stat!Claim}]]
      /\ o \in StatLocals /\ o.vcpu = 0 /\ o.page = 0 /\ o.reset = 0
  BY StatSizes DEF StatInv, Stat!TypeOK, StatCPUs, StatLocals, Stat!NoOp
<1> HIDE DEF o
<1>1. StatMoves(t, "lock", o) /\ statPc[t] = "idle" /\ Stat!Valid(0) /\ registered' = registered
      /\ statPagesPerVcpu' = NumPages /\ pinned' = pinned
  BY DEF Stat!Register, StatMoves, Stat!Goto, o
<1>2. /\ statPc'[t] = "lock" /\ statOp'[t] = o
      /\ statPc' \in [Threads -> StatLabels] /\ statOp' \in [Threads -> StatLocals]
      /\ \A u \in Threads \ {t} : statPc'[u] = statPc[u] /\ statOp'[u] = statOp[u]
  BY <1>0, <1>1, StatMoved DEF StatLabels
<1>3. statPages' = [statPages EXCEPT ![0] = [statPages[0] EXCEPT ![0] = Stat!Claim]]
  BY DEF Stat!Register
<1>4. /\ statPages' \in [StatCPUs -> [Stat!Nums -> Stat!Pages \cup {Stat!INVALID, Stat!Claim}]]
      /\ \A n \in Stat!Nums : statPages'[0][n] = IF n = 0 THEN Stat!Claim ELSE statPages[0][n]
  <2>1. [statPages[0] EXCEPT ![0] = Stat!Claim] \in [Stat!Nums -> Stat!Pages \cup {Stat!INVALID, Stat!Claim}]
    BY <1>0
  <2>2. statPages'[0] = [statPages[0] EXCEPT ![0] = Stat!Claim]
    BY <1>0, <1>3
  <2> QED
    BY <1>0, <1>3, <2>1, <2>2
<1>5. crossed' = (IF \E u \in Threads : Stat!Undoing(u, 0) THEN crossed \cup {0} ELSE crossed)
  BY DEF Stat!Register
<1>6. Stat!TypeOK'
  BY <1>0, <1>1, <1>2, <1>4, <1>5
     DEF StatInv, Stat!TypeOK, StatLabels, StatLocals, StatCPUs
<1>7. ASSUME 0 \notin crossed' PROVE Claimed(0)'
  <2>1. Claimed(0) /\ \A u \in Threads : ~Stat!Undoing(u, 0)
    BY <1>0, <1>5, <1>7 DEF StatInv
  <2>2. \A u \in Threads : ~Stat!Registering(u, 0)
    <3> SUFFICES ASSUME NEW u \in Threads, Stat!Registering(u, 0) PROVE FALSE
      OBVIOUS
    <3>1. PartDone(u, 0) /\ statPc[u] \in {"lock", "lookup"}
      BY <2>1, <1>0 DEF Claimed, Stat!Undoing, Stat!Registering, Stat!TypeOK
    <3>2. statPages[0][0] # Stat!INVALID /\ statPagesPerVcpu = NumPages
      <4>1. statOp[u].page \in Stat!Nums
        BY <1>0 DEF Stat!TypeOK
      <4> QED
        BY <3>1, <4>1, StatSizes DEF PartDone
    <3> QED
      BY <3>2, <1>1, StatSizes DEF Stat!Valid
  <2>3. \A r \in registered : r.vcpu # 0
    <3> SUFFICES ASSUME NEW r \in registered, r.vcpu = 0 PROVE FALSE
      OBVIOUS
    <3>1. r.base \in Threads /\ statPagesPerVcpu = NumPages /\ statPages[0][0] = Stat!Page(r.base, 0)
      BY <1>0, <2>1, StatSizes DEF Claimed, Stat!TypeOK
    <3> QED
      BY <3>1, <1>1, StatSizes DEF Stat!Valid
  <2>4. \A k \in Stat!Nums : statPages[0][k] = Stat!INVALID
    BY <2>1, <2>2, <2>3 DEF Claimed
  <2>5. PartDone(t, 0)'
    BY <1>0, <1>1, <1>2, <1>4, <2>4, StatSizes DEF PartDone
  <2>6. \A u \in Threads : Stat!Registering(u, 0)' <=> u = t
    BY <1>0, <1>2, <2>2 DEF Stat!Registering
  <2> QED
    BY <1>1, <2>3, <2>5, <2>6 DEF Claimed
<1> QED
  BY <1>6, <1>7 DEF StatInv, StatCPUs

\* A page has been looked at: it is pinned, or could not be.
LEMMA StatLockKeeps ==
  ASSUME StatInv, NEW t \in Threads,
         Stat!AlreadyLocked(t) \/ Stat!LockPage(t) \/ Stat!LockFails(t) \/ Stat!Unlock(t)
  PROVE  StatInv'
<1>0. /\ Stat!TypeOK /\ statOp[t] \in StatLocals /\ statOp[t].vcpu = 0
      /\ statOp[t].page \in Stat!Nums /\ statPc[t] \in {"lock", "unlock"}
      /\ 0 \notin crossed => PartDone(t, 0)
  <2>1. statPc[t] \in {"lock", "unlock"}
    BY DEF Stat!AlreadyLocked, Stat!LockPage, Stat!LockFails, Stat!Unlock
  <2> QED
    BY <2>1, StatAtWork
<1>1. UNCHANGED <<statPagesPerVcpu, statOp, registered, crossed>>
  BY DEF Stat!AlreadyLocked, Stat!LockPage, Stat!LockFails, Stat!Unlock, Stat!history
<1>2. PICK label \in StatLabels :
        /\ label # "idle" /\ statPc' = [statPc EXCEPT ![t] = label]
        /\ statPc[t] = "lock" /\ label = "lookup" => statPages' = statPages
        /\ statPc[t] = "unlock" => label = "undo" /\ statPages' = statPages
        /\ label \in {"lookup", "unlock", "undo"}
  BY DEF Stat!AlreadyLocked, Stat!LockPage, Stat!LockFails, Stat!Unlock, Stat!Goto, StatLabels
<1>3. \/ statPages' = statPages
      \/ statPages' = [statPages EXCEPT ![statOp[t].vcpu][statOp[t].page] = Stat!Page(t, statOp[t].page)]
  BY DEF Stat!AlreadyLocked, Stat!LockPage, Stat!LockFails, Stat!Unlock, Stat!Record, Stat!Mine
<1>4. /\ statPages' \in [StatCPUs -> [Stat!Nums -> Stat!Pages \cup {Stat!INVALID, Stat!Claim}]]
      /\ \A n \in Stat!Nums : n # statOp[t].page => statPages'[0][n] = statPages[0][n]
      /\ \A c \in StatCPUs \ {statOp[t].vcpu} : statPages'[c] = statPages[c]
  <2>1. CASE statPages' = statPages
    BY <1>0, <2>1 DEF Stat!TypeOK, StatCPUs
  <2>2. CASE statPages' = [statPages EXCEPT ![statOp[t].vcpu][statOp[t].page] = Stat!Page(t, statOp[t].page)]
    <3>1. Stat!Page(t, statOp[t].page) \in Stat!Pages
      BY <1>0, StatSizes
    <3>2. statPages' = [statPages EXCEPT ![0] = [statPages[0] EXCEPT ![statOp[t].page] = Stat!Page(t, statOp[t].page)]]
      BY <1>0, <2>2
    <3>3. /\ [statPages[0] EXCEPT ![statOp[t].page] = Stat!Page(t, statOp[t].page)]
              \in [Stat!Nums -> Stat!Pages \cup {Stat!INVALID, Stat!Claim}]
          /\ statPages \in [StatCPUs -> [Stat!Nums -> Stat!Pages \cup {Stat!INVALID, Stat!Claim}]]
      BY <1>0, <3>1 DEF Stat!TypeOK, StatCPUs
    <3>4. statPages'[0] = [statPages[0] EXCEPT ![statOp[t].page] = Stat!Page(t, statOp[t].page)]
      BY <3>2, <3>3 DEF StatCPUs
    <3>5. \A n \in Stat!Nums : n # statOp[t].page => statPages'[0][n] = statPages[0][n]
      BY <1>0, <3>4, <3>3 DEF Stat!TypeOK
    <3> QED
      BY <1>0, <3>2, <3>3, <3>5 DEF StatCPUs
  <2> QED
    BY <1>3, <2>1, <2>2
<1>5. StatMoves(t, label, statOp[t])
  BY <1>0, <1>1, <1>2 DEF StatMoves, Stat!TypeOK
<1>6. /\ statPc'[t] = label /\ statOp'[t] = statOp[t]
      /\ statPc' \in [Threads -> StatLabels] /\ statOp' \in [Threads -> StatLocals]
  BY <1>0, <1>5, StatMoved
<1>7. pinned' \subseteq Stat!Pages
  <2>1. Stat!Mine(t) \in Stat!Pages
    BY <1>0, StatSizes DEF Stat!Mine
  <2> QED
    BY <1>0, <2>1
       DEF Stat!TypeOK, Stat!AlreadyLocked, Stat!LockPage, Stat!LockFails, Stat!Unlock
<1>8. Stat!TypeOK'
  BY <1>0, <1>1, <1>4, <1>6, <1>7 DEF Stat!TypeOK, StatLabels, StatLocals, StatCPUs
<1>9. ASSUME 0 \notin crossed PROVE PartDone(t, 0)'
  <2> USE DEF PartDone
  <2>1. CASE statPc[t] = "lock" /\ label = "lookup"
    BY <1>0, <1>1, <1>2, <1>6, <1>9, <2>1
  <2>2. CASE statPc[t] = "lock" /\ label # "lookup"
    <3>1. \A k \in Stat!Nums : k > statOp[t].page => statPages'[0][k] = Stat!INVALID
      BY <1>0, <1>4, <1>9, <2>2, StatSizes
    <3> QED
      BY <1>0, <1>1, <1>2, <1>6, <1>9, <2>2, <3>1, StatSizes
  <2>3. CASE statPc[t] = "unlock"
    BY <1>0, <1>1, <1>2, <1>6, <1>9, <2>3
  <2> QED
    BY <1>0, <2>1, <2>2, <2>3
<1> QED
  BY <1>0, <1>1, <1>2, <1>4, <1>5, <1>8, <1>9, StatOwnStep

LEMMA StatLookupKeeps ==
  ASSUME StatInv, NEW t \in Threads, Stat!Lookup(t) PROVE StatInv'
<1>0. /\ Stat!TypeOK /\ statOp[t] \in StatLocals /\ statOp[t].vcpu = 0
      /\ statOp[t].page \in Stat!Nums /\ statPc[t] = "lookup"
      /\ 0 \notin crossed => PartDone(t, 0)
  <2>1. statPc[t] = "lookup"
    BY DEF Stat!Lookup
  <2> QED
    BY <2>1, StatAtWork
<1>1. /\ statPages' = [statPages EXCEPT ![statOp[t].vcpu][statOp[t].page] = Stat!Page(t, statOp[t].page)]
      /\ UNCHANGED <<statPagesPerVcpu, pinned, crossed>>
  BY DEF Stat!Lookup, Stat!Record, Stat!Mine
<1>2. Stat!Page(t, statOp[t].page) \in Stat!Pages
  BY <1>0, StatSizes
<1>3. /\ statPages' \in [StatCPUs -> [Stat!Nums -> Stat!Pages \cup {Stat!INVALID, Stat!Claim}]]
      /\ \A n \in Stat!Nums :
           statPages'[0][n] = IF n = statOp[t].page THEN Stat!Page(t, statOp[t].page) ELSE statPages[0][n]
      /\ \A c \in StatCPUs \ {statOp[t].vcpu} : statPages'[c] = statPages[c]
  BY <1>0, <1>1, <1>2, StatEntry
<1>4. CASE statOp[t].page + 1 < NumPages
  <2> DEFINE o == [statOp[t] EXCEPT !.page = @ + 1]
  <2>1. o \in StatLocals /\ o.vcpu = 0 /\ o.page = statOp[t].page + 1 /\ o.reset = statOp[t].reset
    BY <1>0, <1>4, StatSizes DEF StatLocals
  <2>2. StatMoves(t, "lock", o) /\ registered' = registered
    BY <1>4 DEF Stat!Lookup, Stat!Goto, StatMoves
  <2> HIDE DEF o
  <2>3. /\ statPc'[t] = "lock" /\ statOp'[t] = o
        /\ statPc' \in [Threads -> StatLabels] /\ statOp' \in [Threads -> StatLocals]
    BY <1>0, <2>1, <2>2, StatMoved DEF StatLabels
  <2>4. Stat!TypeOK'
    BY <1>0, <1>1, <1>3, <2>2, <2>3 DEF Stat!TypeOK, StatLabels, StatLocals, StatCPUs
  <2>5. ASSUME 0 \notin crossed PROVE PartDone(t, 0)'
    <3>1. \A k \in Stat!Nums : k < o.page <=> k < statOp[t].page \/ k = statOp[t].page
      BY <1>0, <2>1, StatSizes
    <3>2. \A k \in Stat!Nums :
            statPages'[0][k] = IF k < o.page THEN Stat!Page(t, k)
                               ELSE IF k = 0 THEN Stat!Claim ELSE Stat!INVALID
      BY <1>0, <1>3, <2>5, <3>1 DEF PartDone
    <3> QED
      BY <1>0, <1>1, <2>1, <2>3, <2>5, <3>2 DEF PartDone
  <2> QED
    BY <1>0, <1>1, <1>3, <2>1, <2>2, <2>3, <2>4, <2>5, StatOwnStep DEF StatLabels
<1>5. CASE ~(statOp[t].page + 1 < NumPages)
  <2>1. Stat!NoOp \in StatLocals
    BY StatSizes DEF StatLocals, Stat!NoOp, StatCPUs
  <2>2. StatMoves(t, "idle", Stat!NoOp)
        /\ registered' = registered \cup {[vcpu |-> statOp[t].vcpu, base |-> t]}
    BY <1>5 DEF Stat!Lookup, Stat!Return, Stat!Goto, StatMoves
  <2>3. statPc' \in [Threads -> StatLabels] /\ statOp' \in [Threads -> StatLocals]
    BY <1>0, <2>1, <2>2, StatMoved DEF StatLabels
  <2>4. registered' \subseteq [vcpu : StatCPUs, base : Threads]
    BY <1>0, <2>2 DEF Stat!TypeOK, StatCPUs
  <2>5. Stat!TypeOK'
    BY <1>0, <1>1, <1>3, <2>3, <2>4 DEF Stat!TypeOK, StatLabels, StatLocals, StatCPUs
  <2>6. ASSUME 0 \notin crossed, NEW k \in Stat!Nums PROVE statPages'[0][k] = Stat!Page(t, k)
    <3>1. k < statOp[t].page \/ k = statOp[t].page
      BY <1>0, <1>5, StatSizes
    <3> QED
      BY <1>0, <1>3, <2>6, <3>1 DEF PartDone
  <2> QED
    BY <1>0, <1>1, <1>3, <2>1, <2>2, <2>5, <2>6, StatOwnStep DEF StatLabels
<1> QED
  BY <1>4, <1>5

LEMMA StatLookupFailsKeeps ==
  ASSUME StatInv, NEW t \in Threads, Stat!LookupFails(t) PROVE StatInv'
<1>0. /\ Stat!TypeOK /\ statOp[t] \in StatLocals /\ statOp[t].vcpu = 0
      /\ statOp[t].page \in Stat!Nums /\ statPc[t] = "lookup"
      /\ 0 \notin crossed => PartDone(t, 0)
  <2>1. statPc[t] = "lookup"
    BY DEF Stat!LookupFails
  <2> QED
    BY <2>1, StatAtWork
<1>1. /\ statPages' = [statPages EXCEPT ![statOp[t].vcpu][statOp[t].page] = Stat!INVALID]
      /\ UNCHANGED <<statPagesPerVcpu, pinned, statOp, registered, crossed>>
      /\ statPc' = [statPc EXCEPT ![t] = "undo"]
  BY DEF Stat!LookupFails, Stat!Record, Stat!Goto, Stat!history
<1>2. /\ statPages' \in [StatCPUs -> [Stat!Nums -> Stat!Pages \cup {Stat!INVALID, Stat!Claim}]]
      /\ \A n \in Stat!Nums :
           statPages'[0][n] = IF n = statOp[t].page THEN Stat!INVALID ELSE statPages[0][n]
      /\ \A c \in StatCPUs \ {statOp[t].vcpu} : statPages'[c] = statPages[c]
  BY <1>0, <1>1, StatEntry
<1>3. StatMoves(t, "undo", statOp[t])
  BY <1>0, <1>1 DEF StatMoves, Stat!TypeOK
<1>4. /\ statPc'[t] = "undo"
      /\ statPc' \in [Threads -> StatLabels] /\ statOp' \in [Threads -> StatLocals]
  BY <1>0, <1>3, StatMoved DEF StatLabels
<1>5. Stat!TypeOK'
  BY <1>0, <1>1, <1>2, <1>4 DEF Stat!TypeOK, StatLabels, StatLocals, StatCPUs
<1>6. ASSUME 0 \notin crossed PROVE PartDone(t, 0)'
  <2>1. \A k \in Stat!Nums : k > statOp[t].page => statPages'[0][k] = Stat!INVALID
    BY <1>0, <1>2, <1>6, StatSizes DEF PartDone
  <2> QED
    BY <1>0, <1>1, <1>4, <1>6, <2>1, StatSizes DEF PartDone
<1> QED
  BY <1>0, <1>1, <1>2, <1>3, <1>5, <1>6, StatOwnStep DEF StatLabels

LEMMA StatUndoKeeps ==
  ASSUME StatInv, NEW t \in Threads, Stat!Undo(t) PROVE StatInv'
<1>0. /\ Stat!TypeOK /\ statOp[t] \in StatLocals /\ statOp[t].vcpu = 0 /\ statOp[t].page \in Stat!Nums
      /\ statOp[t].reset \in Stat!Nums /\ statPc[t] = "undo"
      /\ 0 \notin crossed => PartDone(t, 0)
  <2>1. statPc[t] = "undo"
    BY DEF Stat!Undo
  <2> QED
    BY <2>1, StatAtWork
<1>1. /\ statPages' = [statPages EXCEPT ![statOp[t].vcpu][statOp[t].reset] = Stat!INVALID]
      /\ UNCHANGED <<statPagesPerVcpu, pinned, registered, crossed>>
  BY DEF Stat!Undo, Stat!history
<1>2. /\ statPages' \in [StatCPUs -> [Stat!Nums -> Stat!Pages \cup {Stat!INVALID, Stat!Claim}]]
      /\ \A n \in Stat!Nums :
           statPages'[0][n] = IF n = statOp[t].reset THEN Stat!INVALID ELSE statPages[0][n]
      /\ \A c \in StatCPUs \ {statOp[t].vcpu} : statPages'[c] = statPages[c]
  BY <1>0, <1>1, StatEntry
<1>3. CASE statOp[t].reset < statOp[t].page
  <2> DEFINE o == [statOp[t] EXCEPT !.reset = statOp[t].reset + 1]
  <2>1. o \in StatLocals /\ o.vcpu = 0 /\ o.page = statOp[t].page /\ o.reset = statOp[t].reset + 1
    BY <1>0, <1>3, StatSizes DEF StatLocals
  <2>2. StatMoves(t, "undo", o)
    BY <1>0, <1>3 DEF Stat!Undo, StatMoves, Stat!TypeOK
  <2> HIDE DEF o
  <2>3. /\ statPc'[t] = "undo" /\ statOp'[t] = o
        /\ statPc' \in [Threads -> StatLabels] /\ statOp' \in [Threads -> StatLocals]
    BY <1>0, <2>1, <2>2, StatMoved DEF StatLabels
  <2>4. Stat!TypeOK'
    BY <1>0, <1>1, <1>2, <2>3 DEF Stat!TypeOK, StatLabels, StatLocals, StatCPUs
  <2>5. ASSUME 0 \notin crossed PROVE PartDone(t, 0)'
    <3>1. \A k \in Stat!Nums : k < o.reset <=> k < statOp[t].reset \/ k = statOp[t].reset
      BY <1>0, <2>1, StatSizes
    <3>2. \A k \in Stat!Nums : k < o.reset \/ k > o.page => statPages'[0][k] = Stat!INVALID
      BY <1>0, <1>2, <2>1, <2>5, <3>1 DEF PartDone
    <3>3. o.reset <= o.page
      BY <1>0, <1>3, <2>1, StatSizes
    <3> QED
      BY <1>0, <1>1, <2>3, <2>5, <3>2, <3>3 DEF PartDone
  <2> QED
    BY <1>0, <1>1, <1>2, <2>1, <2>2, <2>3, <2>4, <2>5, StatOwnStep DEF StatLabels
<1>4. CASE ~(statOp[t].reset < statOp[t].page)
  <2>1. Stat!NoOp \in StatLocals
    BY StatSizes DEF StatLocals, Stat!NoOp, StatCPUs
  <2>2. StatMoves(t, "idle", Stat!NoOp)
    BY <1>4 DEF Stat!Undo, Stat!Return, Stat!Goto, StatMoves
  <2>3. statPc' \in [Threads -> StatLabels] /\ statOp' \in [Threads -> StatLocals]
    BY <1>0, <2>1, <2>2, StatMoved DEF StatLabels
  <2>4. Stat!TypeOK'
    BY <1>0, <1>1, <1>2, <2>3 DEF Stat!TypeOK, StatLabels, StatLocals, StatCPUs
  <2>5. ASSUME 0 \notin crossed, NEW k \in Stat!Nums PROVE statPages'[0][k] = Stat!INVALID
    <3>1. k < statOp[t].reset \/ k = statOp[t].reset \/ k > statOp[t].page
      BY <1>0, <1>4, StatSizes
    <3> QED
      BY <1>0, <1>2, <2>5, <3>1 DEF PartDone
  <2> QED
    BY <1>0, <1>1, <1>2, <2>1, <2>2, <2>4, <2>5, StatOwnStep DEF StatLabels
<1> QED
  BY <1>3, <1>4

LEMMA StatStep == ASSUME StatInv, [Stat!Next]_statVars PROVE StatInv'
<1>1. CASE UNCHANGED statVars
  <2>1. UNCHANGED <<statPagesPerVcpu, statPages, pinned, statPc, statOp, registered, crossed>>
    BY <1>1 DEF statVars
  <2> QED
    BY <2>1 DEF StatInv, Stat!TypeOK, Claimed, PartDone, Stat!Registering
<1>2. CASE Stat!Next
  <2>1. CASE \E page \in Stat!Pages : Stat!Pin(page) \/ Stat!Unpin(page)
    BY <2>1, PinnedKeeps
  <2>2. CASE \E t \in Threads :
               \/ Stat!Register(t, 0)
               \/ Stat!AlreadyLocked(t) \/ Stat!LockPage(t) \/ Stat!LockFails(t) \/ Stat!Unlock(t)
               \/ Stat!Lookup(t) \/ Stat!LookupFails(t) \/ Stat!Undo(t)
    BY <2>2, StatRegisterKeeps, StatLockKeeps, StatLookupKeeps, StatLookupFailsKeeps,
       StatUndoKeeps
  <2> QED
    BY <1>2, <2>1, <2>2 DEF Stat!Next
<1> QED
  BY <1>1, <1>2

-----------------------------------------------------------------------------
(* The loading of a monitor: what the table says of the pages that the loader has been at is   *)
(* there, of those it has not been at nothing is, and what is allocated is what is counted.    *)

LastVCPU == Cardinality(Booted)

\* What a page of the monitor holds, what may be mapped, and where.
Contents == [offset : Int, length : Int]
Paged(f)  == f = [c \in Booted |-> f[c]] /\ \A c \in Booted : f[c] = [v \in Load!Space |-> f[c][v]]

LoadTyped ==
  /\ status \in {"created", "process", "error", "booted", "failed"}
  /\ blob \in {"none", "loaded", "freed"}
  /\ table \in LoadedTables \/ (table = <<>> /\ status \in {"created", "failed"})
  /\ vcpu \in Booted \cup {LastVCPU}
  /\ line \in Nat \ {0} /\ (line = 1 \/ line \in DOMAIN table)
  /\ i \in Nat
  /\ l1MPNs \subseteq Load!L1s /\ hasAddrSpace \in BOOLEAN
  /\ Paged(pte)
  /\ frames \in Seq(Contents) /\ vmmTracker \subseteq DOMAIN frames
  /\ allocs \in [DOMAIN table -> Nat]

\* The entry is one that the loader has found to fit its place.
Fits(e) == Load!Count(e) <= e.monPages

\* Page k of an entry is processed for a VCPU before the loader is where it is.
Reached(c, l, k) == c < vcpu \/ (c = vcpu /\ (l < line \/ (l = line /\ k < i)))

\* The loader is at the page of an entry that has it, and what it has done it has accepted.
LoadPlaced ==
  status \in {"process", "booted"} =>
    /\ i # 0 => /\ vcpu \in Booted /\ Load!Mapping(table[line]) /\ Load!Applies(table[line], vcpu)
                /\ Fits(table[line]) /\ i < Load!Count(table[line])
    /\ \A c \in Booted, l \in DOMAIN table :
         Load!Mapping(table[l]) /\ Load!Applies(table[l], c) /\ (c < vcpu \/ (c = vcpu /\ l < line))
           => Fits(table[l])

\* What is processed is there, and nothing else.
LoadDone ==
  status \in {"process", "booted"} =>
    \A c \in Booted, l \in DOMAIN table : Load!Mapping(table[l]) /\ Fits(table[l]) =>
      \A k \in 0 .. Load!Count(table[l]) - 1 :
        IF Load!Applies(table[l], c) /\ Reached(c, l, k) THEN Load!Holds(c, table[l], k)
        ELSE Load!At(c, table[l], k) = Load!Unmapped

LoadFrames ==
  \A c \in Booted, v \in Load!Space : pte[c][v].page.kind = "vmm" => pte[c][v].page.num \in DOMAIN frames

\* The sum of the numbers that f has for the members of a set.
Total(f, S) == Load!MapThenSumSet(LAMBDA l : f[l], S)

LoadCounted ==
  /\ status \in {"created", "booted", "failed"} => vmmTracker = {}
  /\ status \in {"process", "booted"} =>
       Total(allocs, DOMAIN table) = Len(frames)

LoadEnded == status = "booted" => vcpu = LastVCPU
LoadBegun ==
  status = "created" =>
    /\ vcpu = 0 /\ line = 1 /\ i = 0 /\ table = <<>> /\ frames = <<>>
    /\ \A c \in Booted, v \in Load!Space : pte[c][v] = Load!Unmapped

LoadInv ==
  LoadTyped /\ LoadPlaced /\ LoadDone /\ LoadFrames /\ Load!Separate /\ LoadCounted /\ LoadEnded /\ LoadBegun

-----------------------------------------------------------------------------

\* The VCPUs are numbered from 0 on.
LEMMA LoadVCPUs ==
  /\ LastVCPU \in Nat /\ LastVCPU # 0 /\ LastVCPU \notin Booted /\ 0 \in Booted
  /\ \A c : c \in Booted <=> c \in Nat /\ c < LastVCPU
<1>1. IsFiniteSet(Booted) /\ 0 \in Booted /\ Booted = 0 .. LastVCPU - 1
  BY LoadersAssumption DEF Load!LoaderAssumption, LastVCPU, Load!Cardinality, Cardinality,
     Load!IsFiniteSet, IsFiniteSet
<1>2. LastVCPU \in Nat
  BY <1>1, FS_CardinalityType DEF LastVCPU
<1> QED
  BY <1>1, <1>2

\* What the tables' entries are.
LEMMA LoadEntry ==
  ASSUME NEW t \in LoadedTables, NEW l \in DOMAIN t
  PROVE  /\ t \in Seq(Load!Entries) /\ DOMAIN t = 1 .. Len(t) /\ Len(t) \in Nat /\ l \in Nat
         /\ 1 \in DOMAIN t
         /\ t[l] \in Load!Entries
         /\ t[l].sub \notin {"vmm", "blob"}
         /\ Load!Mapping(t[l]) => \A v \in Load!Place(t[l]) : v \in Load!Space
         /\ \A m \in DOMAIN t : m # l /\ Load!Mapping(t[l]) /\ Load!Mapping(t[m]) =>
              \A v : ~(v \in Load!Place(t[l]) /\ v \in Load!Place(t[m]))
<1>1. /\ t \in Seq(Load!Entries) /\ t # <<>>
      /\ Load!Mapping(t[l]) =>
           /\ Load!Place(t[l]) \subseteq Load!Space
           /\ \A m \in DOMAIN t \ {l} :
                Load!Mapping(t[m]) => Load!Place(t[l]) \cap Load!Place(t[m]) = {}
  BY LoadersAssumption DEF Load!LoaderAssumption
<1>2. DOMAIN t = 1 .. Len(t) /\ Len(t) \in Nat /\ t[l] \in Load!Entries /\ Len(t) # 0
  BY <1>1, EmptySeq
<1>3. t[l].sub \notin {"vmm", "blob"}
  <2>1. t[l].sub \in {"none"} \cup Load!Single \cup DOMAIN SharedPages
    BY <1>2 DEF Load!Entries
  <2>2. {"vmm", "blob"} \cap DOMAIN SharedPages = {}
    BY LoadersAssumption DEF Load!LoaderAssumption
  <2> QED
    BY <2>1, <2>2 DEF Load!Single
<1> QED
  BY <1>1, <1>2, <1>3

\* The pages of an entry lie in its place.
LEMMA LoadPlace ==
  ASSUME NEW e \in Load!Entries, Fits(e), NEW k \in 0 .. Load!Count(e) - 1
  PROVE  e.monVPN + k \in Load!Place(e) /\ e.monVPN + k \in Nat /\ Load!Count(e) \in Nat
<1>1. e.monVPN \in Nat /\ e.monPages \in Nat /\ e.size \in Nat
  BY DEF Load!Entries
<1>2. Load!Ceiling(e.size) \in Nat
  <2>1. PAGE_SIZE \in Nat /\ PAGE_SIZE # 0
    BY LoadersAssumption DEF Load!LoaderAssumption
  <2>2. e.size + PAGE_SIZE - 1 \in Nat
    BY <1>1, <2>1
  <2> QED
    BY <2>1, <2>2 DEF Load!Ceiling
<1>3. Load!Count(e) \in Nat
  BY <1>1, <1>2 DEF Load!Count
<1>4. k \in Nat /\ k < e.monPages
  BY <1>1, <1>3 DEF Fits
<1> QED
  BY <1>1, <1>3, <1>4 DEF Load!Place

LEMMA LoadCeiling ==
  ASSUME NEW n \in Nat, NEW m \in Nat, n \in 1 .. m * PAGE_SIZE
  PROVE  Load!Ceiling(n) \in Nat /\ Load!Ceiling(n) # 0 /\ Load!Ceiling(n) <= m
<1> DEFINE q == Load!Ceiling(n)
<1>1. PAGE_SIZE \in Nat /\ PAGE_SIZE # 0
  BY LoadersAssumption DEF Load!LoaderAssumption
<1>2. q \in Nat /\ q * PAGE_SIZE <= n + PAGE_SIZE - 1 /\ n + PAGE_SIZE - 1 < q * PAGE_SIZE + PAGE_SIZE
  BY <1>1 DEF Load!Ceiling
<1>3. q # 0
  BY <1>1, <1>2
<1>4. ~(m + 1 <= q)
  <2>1. SUFFICES ASSUME m + 1 <= q PROVE FALSE
    OBVIOUS
  <2>2. (m + 1) * PAGE_SIZE <= q * PAGE_SIZE
    BY <1>1, <1>2, <2>1
  <2>3. (m + 1) * PAGE_SIZE = m * PAGE_SIZE + PAGE_SIZE /\ m * PAGE_SIZE \in Nat
    BY <1>1
  <2> QED
    BY <1>1, <1>2, <2>2, <2>3
<1> QED
  BY <1>2, <1>3, <1>4

\* An entry that is accepted fits, and has pages.
LEMMA LoadAccepted ==
  ASSUME NEW e \in Load!Entries, Load!Mapping(e), Load!Accepted(e)
  PROVE  Fits(e) /\ Load!Count(e) \in Nat /\ Load!Count(e) # 0
<1>1. e.monPages \in Nat /\ e.size \in Nat /\ e.monPages # 0
  BY DEF Load!Entries, Load!Accepted
<1>2. CASE e.content = "copy" \/ (e.content = "share" /\ e.source = "blob")
  <2>1. e.size \in 1 .. e.monPages * PAGE_SIZE
    BY <1>2 DEF Load!Accepted
  <2>2. Load!Count(e) = Load!Ceiling(e.size)
    BY <1>2 DEF Load!Count
  <2> QED
    BY <1>1, <2>1, <2>2, LoadCeiling DEF Fits
<1>3. CASE e.content = "zero"
  <2>1. e.source = "none" \/ e.source = "blob"
    BY <1>3 DEF Load!Accepted
  <2>2. Load!Count(e) \in 1 .. e.monPages
    BY <1>3 DEF Load!Accepted
  <2> QED
    BY <1>1, <2>2 DEF Fits
<1>4. CASE e.content = "share" /\ e.source # "blob"
  BY <1>1, <1>4 DEF Load!Count, Fits
<1> QED
  BY <1>2, <1>3, <1>4 DEF Load!Mapping

-----------------------------------------------------------------------------

\* Where the loader is, and what it is at.
LEMMA LoadAt ==
  ASSUME LoadInv, Load!AtEntry
  PROVE  /\ status = "process" /\ vcpu \in Booted /\ vcpu \in Nat /\ vcpu < LastVCPU
         /\ table \in LoadedTables /\ line \in DOMAIN table /\ DOMAIN table = 1 .. Len(table)
         /\ Len(table) \in Nat /\ line \in Nat /\ i \in Nat
         /\ Load!Entry = table[line] /\ Load!Entry \in Load!Entries
<1>1. status = "process" /\ vcpu \in Booted
  BY DEF Load!AtEntry
<1>2. table \in LoadedTables /\ i \in Nat /\ (line = 1 \/ line \in DOMAIN table)
  BY <1>1 DEF LoadInv, LoadTyped
<1>3. \E l : l \in DOMAIN table
  <2>1. table \in Seq(Load!Entries) /\ table # <<>>
    BY <1>2, LoadersAssumption DEF Load!LoaderAssumption
  <2> QED
    BY <2>1, EmptySeq
<1>4. line \in DOMAIN table
  BY <1>2, <1>3, LoadEntry
<1> QED
  BY <1>1, <1>2, <1>4, LoadEntry, LoadVCPUs DEF Load!Entry

\* It is at a page of an entry that fits.
LEMMA LoadAtPage ==
  ASSUME LoadInv, NEW content \in {"zero", "copy", "share"}, Load!AtPage(content)
  PROVE  /\ Load!AtEntry /\ Load!Applies(Load!Entry, vcpu) /\ Load!Mapping(Load!Entry)
         /\ Load!Entry.content = content
         /\ Fits(Load!Entry) /\ i \in 0 .. Load!Count(Load!Entry) - 1
         /\ Load!Count(Load!Entry) \in Nat
         /\ Load!Entry.monVPN + i \in Load!Space
         /\ Load!Entry.monVPN + i \in Load!Place(Load!Entry)
<1>1. /\ Load!AtEntry /\ Load!Applies(Load!Entry, vcpu) /\ Load!Mapping(Load!Entry)
      /\ Load!Accepted(Load!Entry) /\ Load!Entry.content = content
  BY DEF Load!AtPage, Load!Mapping
<1>2. /\ status = "process" /\ Load!Entry \in Load!Entries /\ i \in Nat
      /\ Load!Entry = table[line] /\ table \in LoadedTables /\ line \in DOMAIN table
  BY <1>1, LoadAt
<1>3. /\ Fits(Load!Entry) /\ Load!Count(Load!Entry) \in Nat /\ Load!Count(Load!Entry) # 0
  BY <1>1, <1>2, LoadAccepted
<1>4. i # 0 => i < Load!Count(Load!Entry)
  BY <1>2 DEF LoadInv, LoadPlaced
<1>5. i \in 0 .. Load!Count(Load!Entry) - 1
  BY <1>2, <1>3, <1>4
<1>6. Load!Entry.monVPN + i \in Load!Place(Load!Entry)
  BY <1>2, <1>3, <1>5, LoadPlace
<1> QED
  BY <1>1, <1>2, <1>3, <1>5, <1>6, LoadEntry

\* The loader goes on to the next entry or the next VCPU.
ToNext ==
  \/ line < Len(table) /\ line' = line + 1 /\ i' = 0 /\ vcpu' = vcpu
  \/ ~(line < Len(table)) /\ vcpu' = vcpu + 1 /\ line' = 1 /\ i' = 0

LEMMA LoadToNext ==
  ASSUME LoadInv, Load!AtEntry, ToNext
  PROVE  /\ i' = 0 /\ vcpu' \in Booted \cup {LastVCPU} /\ line' \in DOMAIN table
         /\ line' \in Nat \ {0}
         /\ \A c \in Booted, l \in DOMAIN table, k \in Nat :
              Reached(c, l, k)' <=> Reached(c, l, k) \/ (c = vcpu /\ l = line)
         /\ \A c \in Booted, l \in DOMAIN table :
              (c < vcpu' \/ (c = vcpu' /\ l < line'))
                <=> c < vcpu \/ (c = vcpu /\ l < line) \/ (c = vcpu /\ l = line)
<1>1. /\ vcpu \in Booted /\ vcpu \in Nat /\ vcpu < LastVCPU
      /\ line \in DOMAIN table /\ DOMAIN table = 1 .. Len(table)
      /\ Len(table) \in Nat /\ line \in Nat /\ i \in Nat
  BY LoadAt
<1>2. \A c \in Booted : c \in Nat
  BY LoadVCPUs
<1>3. i' = 0 /\ vcpu' \in Booted \cup {LastVCPU} /\ line' \in DOMAIN table /\ line' \in Nat \ {0}
  <2>1. vcpu + 1 \in Booted \cup {LastVCPU}
    BY <1>1, LoadVCPUs
  <2> QED
    BY <1>1, <2>1 DEF ToNext
<1>4. ASSUME NEW c \in Booted, NEW l \in DOMAIN table
      PROVE  (c < vcpu' \/ (c = vcpu' /\ l < line'))
                <=> c < vcpu \/ (c = vcpu /\ l < line) \/ (c = vcpu /\ l = line)
  BY <1>1, <1>2 DEF ToNext
<1>5. ASSUME NEW c \in Booted, NEW l \in DOMAIN table, NEW k \in Nat
      PROVE  Reached(c, l, k)' <=> Reached(c, l, k) \/ (c = vcpu /\ l = line)
  <2>1. ~(k < i')
    BY <1>3
  <2> QED
    BY <1>4, <2>1 DEF Reached
<1> QED
  BY <1>3, <1>4, <1>5

\* Or to the next page of the entry, if there is one.
LEMMA LoadToPage ==
  ASSUME LoadInv, NEW content \in {"zero", "copy", "share"}, Load!AtPage(content), Load!NextPage
  PROVE  /\ i' \in Nat /\ vcpu' \in Booted \cup {LastVCPU} /\ line' \in DOMAIN table
         /\ line' \in Nat \ {0} /\ l1MPNs' \subseteq Load!L1s /\ hasAddrSpace' \in BOOLEAN
         /\ i' # 0 => vcpu' = vcpu /\ line' = line /\ i' < Load!Count(Load!Entry)
         /\ \A c \in Booted, l \in DOMAIN table, k \in Nat :
              (l = line => k < Load!Count(Load!Entry)) =>
              (Reached(c, l, k)' <=> Reached(c, l, k) \/ (c = vcpu /\ l = line /\ k = i))
         /\ \A c \in Booted, l \in DOMAIN table :
              (c < vcpu' \/ (c = vcpu' /\ l < line'))
                => c < vcpu \/ (c = vcpu /\ l < line) \/ (c = vcpu /\ l = line)
<1>1. /\ vcpu \in Booted /\ vcpu \in Nat /\ vcpu < LastVCPU
      /\ line \in DOMAIN table /\ DOMAIN table = 1 .. Len(table)
      /\ Len(table) \in Nat /\ line \in Nat /\ i \in Nat
      /\ i \in 0 .. Load!Count(Load!Entry) - 1 /\ Load!Count(Load!Entry) \in Nat
      /\ l1MPNs \subseteq Load!L1s /\ hasAddrSpace \in BOOLEAN /\ Load!AtEntry
  <2>1. l1MPNs \subseteq Load!L1s /\ hasAddrSpace \in BOOLEAN
    BY DEF LoadInv, LoadTyped
  <2> QED
    BY <2>1, LoadAt, LoadAtPage
<1>2. \A c \in Booted : c \in Nat
  BY LoadVCPUs
<1>3. CASE i + 1 < Load!Count(Load!Entry)
  <2>1. i' = i + 1 /\ vcpu' = vcpu /\ line' = line /\ l1MPNs' = l1MPNs /\ hasAddrSpace' = hasAddrSpace
    BY <1>3 DEF Load!NextPage, Load!ctx
  <2>2. \A c \in Booted, l \in DOMAIN table, k \in Nat :
          Reached(c, l, k)' <=> Reached(c, l, k) \/ (c = vcpu /\ l = line /\ k = i)
    BY <1>1, <2>1 DEF Reached
  <2> QED
    BY <1>1, <1>3, <2>1, <2>2
<1>4. CASE ~(i + 1 < Load!Count(Load!Entry))
  <2>1. Load!NextEntry
    BY <1>4 DEF Load!NextPage
  <2>2. ToNext /\ l1MPNs' \subseteq Load!L1s /\ hasAddrSpace' \in BOOLEAN
    BY <1>1, <2>1 DEF Load!NextEntry, ToNext, Load!ctx
  <2>3. /\ i' = 0 /\ vcpu' \in Booted \cup {LastVCPU} /\ line' \in DOMAIN table
        /\ line' \in Nat \ {0}
        /\ \A c \in Booted, l \in DOMAIN table, k \in Nat :
             Reached(c, l, k)' <=> Reached(c, l, k) \/ (c = vcpu /\ l = line)
        /\ \A c \in Booted, l \in DOMAIN table :
             (c < vcpu' \/ (c = vcpu' /\ l < line'))
               <=> c < vcpu \/ (c = vcpu /\ l < line) \/ (c = vcpu /\ l = line)
    BY <1>1, <2>2, LoadToNext
  <2>4. ASSUME NEW c \in Booted, NEW l \in DOMAIN table, NEW k \in Nat,
               l = line => k < Load!Count(Load!Entry)
        PROVE  Reached(c, l, k)' <=> Reached(c, l, k) \/ (c = vcpu /\ l = line /\ k = i)
    <3>1. l = line => k = i \/ k < i
      BY <1>1, <1>4, <2>4
    <3>2. Reached(c, l, k)' <=> Reached(c, l, k) \/ (c = vcpu /\ l = line)
      BY <2>3
    <3>3. c = vcpu /\ l = line /\ k < i => Reached(c, l, k)
      BY DEF Reached
    <3> QED
      BY <3>1, <3>2, <3>3
  <2> QED
    BY <2>2, <2>3, <2>4
<1> QED
  BY <1>3, <1>4

-----------------------------------------------------------------------------

\* What a page table has after a page is mapped.
NowMapped(v, page) ==
  \A c \in Booted, w \in Load!Space :
    pte'[c][w] = IF c = vcpu /\ w = v THEN [page |-> page, flags |-> Load!Entry.flags]
                 ELSE pte[c][w]

LEMMA LoadMap ==
  ASSUME LoadInv, Load!AtEntry, NEW v \in Load!Space, NEW kind, NEW num,
         Load!Map(v, Load!Page(kind, num))
  PROVE  /\ Paged(pte')
         /\ NowMapped(v, Load!Page(kind, num))
<1>1. vcpu \in Booted
  BY LoadAt
<1>2. Paged(pte)
  BY DEF LoadInv, LoadTyped
<1>3. PICK x : x = [page |-> Load!Page(kind, num), flags |-> Load!Entry.flags]
  OBVIOUS
<1>4. pte' = [pte EXCEPT ![vcpu] = [pte[vcpu] EXCEPT ![v] = x]]
  BY <1>1, <1>2, <1>3 DEF Load!Map, Paged
<1>5. PICK f : f = [pte[vcpu] EXCEPT ![v] = x]
  OBVIOUS
<1>6. /\ DOMAIN pte[vcpu] = Load!Space /\ pte[vcpu] = [w \in Load!Space |-> pte[vcpu][w]]
      /\ DOMAIN pte = Booted
  BY <1>1, <1>2 DEF Paged
<1>7. /\ f = [w \in Load!Space |-> f[w]]
      /\ \A w \in Load!Space : f[w] = IF w = v THEN x ELSE pte[vcpu][w]
  BY <1>5, <1>6
<1>8. pte' = [pte EXCEPT ![vcpu] = f]
  BY <1>4, <1>5
<1>9. /\ pte' = [c \in Booted |-> pte'[c]]
      /\ \A c \in Booted : pte'[c] = IF c = vcpu THEN f ELSE pte[c]
  BY <1>1, <1>6, <1>8
<1>10. Paged(pte')
  BY <1>2, <1>7, <1>9 DEF Paged
<1> QED
  BY <1>3, <1>7, <1>9, <1>10 DEF NowMapped

\* What an entry finds stays, where the page table has not changed.
LEMMA LoadHoldsKept ==
  ASSUME NEW e, NEW c, NEW k,
         pte'[c][e.monVPN + k] = pte[c][e.monVPN + k],
         \A n \in DOMAIN frames : frames'[n] = frames[n],
         pte[c][e.monVPN + k].page.kind = "vmm" => pte[c][e.monVPN + k].page.num \in DOMAIN frames,
         Load!Holds(c, e, k)
  PROVE  Load!Holds(c, e, k)'
BY DEF Load!Holds, Load!At, Load!Unmapped, Load!Shared, Load!Page, Load!Zeroes, Load!Single

\* A page that is mapped leaves pages that are allocated apart.
LEMMA LoadSeparate ==
  ASSUME LoadInv, Load!AtEntry, NEW v \in Load!Space, NEW kind, NEW num,
         NowMapped(v, Load!Page(kind, num)), table' = table,
         \A n \in DOMAIN frames : n \in DOMAIN frames',
         kind = "vmm" => num \in DOMAIN frames' /\ num \notin DOMAIN frames,
         kind = "blob" /\ Load!Entry.flags \in Load!Writeable =>
           \E l \in DOMAIN table : table[l].sub = "header" /\ v \in Load!Place(table[l])
  PROVE  LoadFrames' /\ Load!Separate'
<1>1. /\ \A c \in Booted, w \in Load!Space :
           pte'[c][w].page = (IF c = vcpu /\ w = v THEN Load!Page(kind, num) ELSE pte[c][w].page)
      /\ \A c \in Booted, w \in Load!Space :
           pte'[c][w].flags = (IF c = vcpu /\ w = v THEN Load!Entry.flags ELSE pte[c][w].flags)
  BY DEF NowMapped
<1>2. Load!Page(kind, num).kind = kind /\ Load!Page(kind, num).num = num
  BY DEF Load!Page
<1>3. \A c \in Booted, w \in Load!Space :
        pte[c][w].page.kind = "vmm" => pte[c][w].page.num \in DOMAIN frames
  BY DEF LoadInv, LoadFrames
<1>4. LoadFrames'
  BY <1>1, <1>2, <1>3 DEF LoadFrames
<1>5. ASSUME NEW c \in Booted, NEW d \in Booted, NEW u \in Load!Space, NEW w \in Load!Space,
             pte'[c][u].page = pte'[d][w].page, pte'[c][u].page.kind = "vmm"
      PROVE  c = d /\ u = w
  <2>1. (pte[c][u].page = pte[d][w].page /\ pte[c][u].page.kind = "vmm") => c = d /\ u = w
    BY DEF LoadInv, Load!Separate
  <2>2. CASE (c = vcpu /\ u = v) /\ ~(d = vcpu /\ w = v)
    BY <1>1, <1>2, <1>3, <1>5, <2>2
  <2>3. CASE ~(c = vcpu /\ u = v) /\ (d = vcpu /\ w = v)
    BY <1>1, <1>2, <1>3, <1>5, <2>3
  <2>4. CASE ~(c = vcpu /\ u = v) /\ ~(d = vcpu /\ w = v)
    BY <1>1, <1>5, <2>1, <2>4
  <2> QED
    BY <2>2, <2>3, <2>4
<1>6. ASSUME NEW c \in Booted, NEW u \in Load!Space,
             pte'[c][u].page.kind = "blob", pte'[c][u].flags \in Load!Writeable
      PROVE  \E l \in DOMAIN table : table[l].sub = "header" /\ u \in Load!Place(table[l])
  <2>1. CASE c = vcpu /\ u = v
    BY <1>1, <1>2, <1>6, <2>1
  <2>2. CASE ~(c = vcpu /\ u = v)
    <3>1. pte[c][u].page.kind = "blob" /\ pte[c][u].flags \in Load!Writeable
      BY <1>1, <1>6, <2>2
    <3> QED
      BY <3>1 DEF LoadInv, Load!Separate
  <2> QED
    BY <2>1, <2>2
<1>7. Load!Separate'
  BY <1>5, <1>6 DEF Load!Separate, Load!Place, Load!Writeable
<1> QED
  BY <1>4, <1>7

\* A page of an entry is mapped, and the loader goes on.
LEMMA LoadPageDone ==
  ASSUME LoadInv, NEW content \in {"zero", "copy", "share"}, Load!AtPage(content), Load!NextPage,
         NEW v, v = Load!Entry.monVPN + i, NEW page, NowMapped(v, page),
         \A n \in DOMAIN frames : frames'[n] = frames[n],
         table' = table, status' = status,
         NEW c0, NEW e0, NEW k0, c0 = vcpu, e0 = Load!Entry, k0 = i, Load!Holds(c0, e0, k0)'
  PROVE  LoadPlaced' /\ LoadDone'
<1>1. /\ vcpu \in Booted /\ line \in DOMAIN table /\ table \in LoadedTables
      /\ status = "process" /\ e0 = table[line] /\ e0 \in Load!Entries
      /\ i \in 0 .. Load!Count(e0) - 1 /\ Load!Mapping(e0) /\ Fits(e0)
      /\ Load!Applies(e0, vcpu) /\ v \in Load!Space /\ v \in Load!Place(e0)
      /\ Load!Count(e0) \in Nat /\ i \in Nat
  BY LoadAtPage, LoadAt
<1>2. /\ i' # 0 => vcpu' = vcpu /\ line' = line /\ i' < Load!Count(e0)
      /\ \A c \in Booted, l \in DOMAIN table, k \in Nat :
           (l = line => k < Load!Count(e0)) =>
           (Reached(c, l, k)' <=> Reached(c, l, k) \/ (c = vcpu /\ l = line /\ k = i))
      /\ \A c \in Booted, l \in DOMAIN table :
           (c < vcpu' \/ (c = vcpu' /\ l < line'))
             => c < vcpu \/ (c = vcpu /\ l < line) \/ (c = vcpu /\ l = line)
  BY LoadToPage
<1>3. LoadPlaced'
  <2>1. i' # 0 => /\ vcpu' \in Booted /\ Load!Mapping(table[line'])
                  /\ Load!Applies(table[line'], vcpu') /\ Fits(table[line'])
                  /\ i' < Load!Count(table[line'])
    BY <1>1, <1>2
  <2>2. \A c \in Booted, l \in DOMAIN table :
          Load!Mapping(table[l]) /\ Load!Applies(table[l], c)
          /\ (c < vcpu' \/ (c = vcpu' /\ l < line')) => Fits(table[l])
    BY <1>1, <1>2 DEF LoadInv, LoadPlaced
  <2> QED
    BY <2>1, <2>2 DEF LoadPlaced, Load!Mapping, Load!Applies, Fits, Load!Count, Load!Ceiling
<1>4. ASSUME NEW c \in Booted, NEW l \in DOMAIN table, NEW e, e = table[l],
             Load!Mapping(e), Fits(e), NEW k \in 0 .. Load!Count(e) - 1
      PROVE  IF Load!Applies(e, c) /\ Reached(c, l, k)' THEN Load!Holds(c, e, k)'
             ELSE Load!At(c, e, k)' = Load!Unmapped
  <2>1. /\ e \in Load!Entries /\ e.monVPN + k \in Load!Place(e) /\ e.monVPN + k \in Load!Space
        /\ k \in Nat /\ Load!Count(e) \in Nat
    BY <1>1, <1>4, LoadEntry, LoadPlace
  <2>2. Reached(c, l, k)' <=> Reached(c, l, k) \/ (c = vcpu /\ l = line /\ k = i)
    BY <1>1, <1>2, <1>4, <2>1
  <2>3. CASE c = vcpu /\ l = line /\ k = i
    BY <1>1, <1>4, <2>2, <2>3
  <2>4. CASE ~(c = vcpu /\ l = line /\ k = i)
    <3>1. ~(c = vcpu /\ e.monVPN + k = v)
      <4>1. CASE l = line
        <5>1. e0.monVPN \in Nat /\ e = e0
          BY <1>1, <1>4, <4>1 DEF Load!Entries
        <5> QED
          BY <1>1, <2>1, <2>4, <4>1, <5>1
      <4>2. CASE l # line
        BY <1>1, <1>4, <2>1, <4>2, LoadEntry
      <4> QED
        BY <4>1, <4>2
    <3>2. pte'[c][e.monVPN + k] = pte[c][e.monVPN + k]
      BY <2>1, <3>1 DEF NowMapped
    <3>3. IF Load!Applies(e, c) /\ Reached(c, l, k) THEN Load!Holds(c, e, k)
          ELSE Load!At(c, e, k) = Load!Unmapped
      BY <1>1, <1>4 DEF LoadInv, LoadDone
    <3>4. pte[c][e.monVPN + k].page.kind = "vmm" => pte[c][e.monVPN + k].page.num \in DOMAIN frames
      BY <2>1 DEF LoadInv, LoadFrames
    <3>5. Load!Holds(c, e, k) => Load!Holds(c, e, k)'
      BY <3>2, <3>4, LoadHoldsKept
    <3>6. Load!At(c, e, k)' = Load!At(c, e, k)
      BY <3>2 DEF Load!At
    <3> QED
      BY <2>2, <2>4, <3>3, <3>5, <3>6
  <2> QED
    BY <2>3, <2>4
<1>5. LoadDone'
  BY <1>4 DEF LoadDone, Load!Mapping, Fits, Load!Count, Load!Ceiling, Load!Applies,
     Load!Unmapped,
     Load!Page
<1> QED
  BY <1>3, <1>5
-----------------------------------------------------------------------------
(* Sums.                                                                     *)

\* The units that a sum counts.
Units(f, S) == UNION {{x} \X (1 .. f[x]) : x \in S}

\* There are finitely many of them.
LEMMA UnitsFinite ==
  ASSUME NEW S, IsFiniteSet(S), NEW f, \A x \in S : f[x] \in Nat
  PROVE  IsFiniteSet(Units(f, S)) /\ Cardinality(Units(f, S)) \in Nat
<1> DEFINE row == [x \in S |-> {x} \X (1 .. f[x])]
           T    == {{x} \X (1 .. f[x]) : x \in S}
<1>1. row \in Surjection(S, T)
  BY DEF Surjection
<1>2. IsFiniteSet(T) BY <1>1, FS_Surjection
<1>3. ASSUME NEW x \in S PROVE IsFiniteSet({x} \X (1 .. f[x]))
  <2>1. IsFiniteSet(1 .. f[x]) BY FS_Interval
  <2> QED BY <2>1, FS_Singleton, FS_Product
<1>4. \A U \in T : IsFiniteSet(U) BY <1>3
<1>5. IsFiniteSet(UNION T) BY <1>2, <1>4, FS_UNION
<1>6. Units(f, S) = UNION T BY DEF Units
<1>7. Cardinality(Units(f, S)) \in Nat BY <1>5, <1>6, FS_CardinalityType
<1> QED BY <1>5, <1>6, <1>7 DEF Units

LEMMA UnitsAdd ==
  ASSUME NEW S, IsFiniteSet(S), NEW f, \A x \in S : f[x] \in Nat,
         NEW y, y \notin S, f[y] \in Nat
  PROVE  Cardinality(Units(f, S \cup {y})) = Cardinality(Units(f, S)) + f[y]
<1> DEFINE A == Units(f, S)
           B == {y} \X (1 .. f[y])
<1>1. IsFiniteSet(A) /\ Cardinality(A) \in Nat
  BY UnitsFinite
<1>2. IsFiniteSet(B) /\ Cardinality(B) = f[y]
  <2>1. IsFiniteSet(1 .. f[y]) /\ Cardinality(1 .. f[y]) = f[y] BY FS_Interval, SMTT(40)
  <2>2. IsFiniteSet({y}) /\ Cardinality({y}) = 1 BY FS_Singleton
  <2>3. IsFiniteSet(B) /\ Cardinality(B) = Cardinality({y}) * Cardinality(1 .. f[y])
    BY <2>1, <2>2, FS_Product
  <2>4. 1 * f[y] = f[y] OBVIOUS
  <2> QED BY <2>1, <2>2, <2>3, <2>4
<1>3. A \cap B = {} BY DEF Units
<1>4. Units(f, S \cup {y}) = A \cup B
  <2>1. {{x} \X (1 .. f[x]) : x \in S \cup {y}} = {{x} \X (1 .. f[x]) : x \in S} \cup {B}
    OBVIOUS
  <2> QED BY <2>1 DEF Units
<1>5. Cardinality(A \cup B) = Cardinality(A) + Cardinality(B)
  <2>1. Cardinality(A \cup B) = Cardinality(A) + Cardinality(B) - Cardinality(A \cap B)
    BY <1>1, <1>2, FS_Union
  <2>2. Cardinality(A \cap B) = 0 BY <1>3, FS_EmptySet
  <2> HIDE DEF A, B
  <2> QED BY <1>1, <1>2, <2>1, <2>2
<1> QED BY <1>1, <1>2, <1>4, <1>5

\* The sum that a fold over a set computes is the number of its units.
LEMMA SumUnits ==
  ASSUME NEW S, IsFiniteSet(S), NEW f, \A x \in S : f[x] \in Nat
  PROVE  Total(f, S) = Cardinality(Units(f, S))
<1> DEFINE first(s) == CHOOSE x \in s : TRUE
           sums(g)  == [s \in SUBSET S |-> IF s = {} THEN 0 ELSE f[first(s)] + g[s \ {first(s)}]]
           iter     == CHOOSE g : g = sums(g)
           card     == [s \in SUBSET S |-> Cardinality(Units(f, s))]
<1>1. Total(f, S) = iter[S]
  BY Zenon DEF Total, Load!MapThenSumSet, Load!MapThenFoldSet
<1>2. \A s \in SUBSET S : s # {} => first(s) \in s
  OBVIOUS
<1>3. \A s \in SUBSET S : IsFiniteSet(s)
  BY FS_Subset
<1>4. Cardinality(Units(f, {})) = 0
  <2>1. Units(f, {}) = {} BY DEF Units
  <2> QED BY <2>1, FS_EmptySet
<1>5. ASSUME NEW s \in SUBSET S, s # {}
      PROVE  Cardinality(Units(f, s)) = f[first(s)] + Cardinality(Units(f, s \ {first(s)}))
  <2>1. PICK x \in s : x = first(s) BY <1>2, <1>5
  <2>2. s \ {x} \in SUBSET S /\ (s \ {x}) \cup {x} = s /\ IsFiniteSet(s \ {x}) BY <1>3
  <2>3. Cardinality(Units(f, s)) = Cardinality(Units(f, s \ {x})) + f[x]
    <3>1. x \notin s \ {x} /\ f[x] \in Nat /\ \A z \in s \ {x} : f[z] \in Nat BY <2>1
    <3>2. Cardinality(Units(f, (s \ {x}) \cup {x})) = Cardinality(Units(f, s \ {x})) + f[x]
      BY <2>2, <3>1, UnitsAdd
    <3> QED BY <2>2, <3>2
  <2>4. Cardinality(Units(f, s \ {x})) \in Nat
    BY <2>2, UnitsFinite
  <2> QED BY <2>1, <2>3, <2>4
<1>6. card = sums(card)
  <2>1. ASSUME NEW s \in SUBSET S
        PROVE  card[s] = IF s = {} THEN 0 ELSE f[first(s)] + card[s \ {first(s)}]
    <3>1. s \ {first(s)} \in SUBSET S OBVIOUS
    <3> QED BY <3>1, <1>4, <1>5
  <2> QED BY <2>1
<1> HIDE DEF card
<1>7. iter = sums(iter)
  BY <1>6, Zenon
<1> HIDE DEF iter
<1>8. \A s \in SUBSET S : iter[s] = IF s = {} THEN 0 ELSE f[first(s)] + iter[s \ {first(s)}]
  BY <1>7
<1> HIDE DEF first, sums
<1>9. \A s \in SUBSET S : iter[s] = Cardinality(Units(f, s))
  <2> DEFINE bad == {n \in Nat : \E s \in SUBSET S :
                       Cardinality(s) = n /\ iter[s] # Cardinality(Units(f, s))}
  <2>1. SUFFICES ASSUME bad # {} PROVE FALSE
    <3>1. \A s \in SUBSET S : Cardinality(s) \in Nat BY <1>3, FS_CardinalityType
    <3> QED BY <2>1, <3>1
  <2>2. PICK m \in bad : \A n \in bad : m <= n
    <3>1. bad \in SUBSET Nat OBVIOUS
    <3> QED BY <2>1, <3>1, LeastExists
  <2>3. PICK s \in SUBSET S : Cardinality(s) = m /\ iter[s] # Cardinality(Units(f, s))
    OBVIOUS
  <2>4. s # {}
    BY <1>4, <1>8, <2>3
  <2>5. PICK x \in s : x = first(s) BY <1>2, <2>4
  <2>6. s \ {x} \in SUBSET S /\ IsFiniteSet(s) BY <1>3
  <2>7. Cardinality(s \ {x}) = m - 1 /\ Cardinality(s \ {x}) \in Nat
    BY <2>3, <2>6, FS_RemoveElement, FS_CardinalityType
  <2>8. iter[s \ {x}] = Cardinality(Units(f, s \ {x}))
    <3>1. m - 1 \notin bad
      <4>1. m \in Nat /\ ~(m <= m - 1) OBVIOUS
      <4> QED BY <2>2, <4>1
    <3> QED BY <2>6, <2>7, <3>1
  <2> QED BY <1>5, <1>8, <2>3, <2>4, <2>5, <2>6, <2>8
<1> QED BY <1>1, <1>9

\* The sum of what is counted: nothing at first, and one more for one more.
LEMMA TotalZero ==
  ASSUME NEW S, IsFiniteSet(S)
  PROVE  Total([m \in S |-> 0], S) = 0
<1> DEFINE f == [m \in S |-> 0]
<1>1. \A x \in S : f[x] \in Nat /\ f[x] = 0
  OBVIOUS
<1>2. Units(f, S) = {}
  BY <1>1 DEF Units
<1>3. Cardinality(Units(f, S)) = 0
  BY <1>2, FS_EmptySet
<1>4. Total(f, S) = Cardinality(Units(f, S))
  <2> HIDE DEF f
  <2> QED BY <1>1, SumUnits
<1> QED BY <1>3, <1>4

LEMMA TotalUp ==
  ASSUME NEW S, IsFiniteSet(S), NEW f, NEW g, NEW y \in S, g[y] = f[y] + 1,
         \A x \in S : f[x] \in Nat /\ g[x] \in Nat /\ (x # y => g[x] = f[x])
  PROVE  Total(g, S) = Total(f, S) + 1
<1> DEFINE R == S \ {y}
<1>1. IsFiniteSet(R) /\ y \notin R /\ R \cup {y} = S
  BY FS_RemoveElement
<1>2. /\ g[y] = f[y] + 1 /\ f[y] \in Nat
      /\ \A x \in R : g[x] = f[x] /\ f[x] \in Nat
  OBVIOUS
<1>3. Units(g, R) = Units(f, R)
  <2>1. {{x} \X (1 .. g[x]) : x \in R} = {{x} \X (1 .. f[x]) : x \in R}
    BY <1>2
  <2> QED BY <2>1 DEF Units
<1>4. \A x \in S : g[x] \in Nat /\ f[x] \in Nat
  BY <1>2
<1>5. y \in S /\ \A x \in R : x \in S
  OBVIOUS
<1> HIDE DEF R
<1>6. /\ Cardinality(Units(f, R \cup {y})) = Cardinality(Units(f, R)) + f[y]
      /\ Cardinality(Units(f, R)) \in Nat
  <2>1. \A x \in R : f[x] \in Nat
    BY <1>4, <1>5
  <2> QED BY <1>1, <1>2, <2>1, UnitsAdd, UnitsFinite
<1>7. Cardinality(Units(g, R \cup {y})) = Cardinality(Units(g, R)) + g[y]
  <2>1. (\A x \in R : g[x] \in Nat) /\ g[y] \in Nat
    BY <1>4, <1>5
  <2> QED BY <1>1, <2>1, UnitsAdd
<1>8. Total(f, S) = Cardinality(Units(f, S))
  BY <1>4, SumUnits
<1>9. Total(g, S) = Cardinality(Units(g, S))
  <2>1. \A x \in S : g[x] \in Nat
    BY <1>4
  <2> QED BY <2>1, SumUnits
<1>10. Cardinality(Units(g, S)) = Cardinality(Units(f, S)) + 1
  <2>1. PICK n : n = Cardinality(Units(f, R))
    OBVIOUS
  <2>2. n \in Nat /\ Cardinality(Units(g, R)) = n
    BY <1>3, <1>6, <2>1
  <2>3. Cardinality(Units(f, S)) = n + f[y]
    BY <1>1, <1>6, <2>1, Zenon
  <2>4. Cardinality(Units(g, S)) = n + (f[y] + 1)
    BY <1>1, <1>2, <1>7, <2>2, Zenon
  <2> QED
    BY <1>2, <2>2, <2>3, <2>4
<1> QED
  BY <1>2, <1>8, <1>9, <1>10

-----------------------------------------------------------------------------
(* One lemma for each action.                                                *)

LEMMA LoadUnfold ==
  ASSUME LoadInv
  PROVE  LoadTyped /\ LoadPlaced /\ LoadDone /\ LoadFrames /\ Load!Separate
         /\ LoadCounted /\ LoadEnded /\ LoadBegun
BY DEF LoadInv

LEMMA LoadLoad ==
  ASSUME LoadInv, Load!Load
  PROVE  LoadInv'
<1>1. /\ status = "created" /\ status' = "process" /\ blob' = "loaded" /\ table' \in LoadedTables
      /\ allocs' = [l \in DOMAIN table' |-> 0]
      /\ vcpu' = vcpu /\ line' = line /\ i' = i /\ l1MPNs' = l1MPNs /\ hasAddrSpace' = hasAddrSpace
      /\ pte' = pte /\ frames' = frames /\ vmmTracker' = vmmTracker
  BY DEF Load!Load, Load!where, Load!ctx
<1>2. /\ vcpu = 0 /\ line = 1 /\ i = 0 /\ table = <<>> /\ frames = <<>>
      /\ \A c \in Booted, v \in Load!Space : pte[c][v] = Load!Unmapped
  BY <1>1, LoadUnfold DEF LoadBegun
<1>3. PICK t \in LoadedTables : t = table'
  BY <1>1
<1>4. \A c \in Booted, v \in Load!Space : pte[c][v].page.kind = "none"
  BY <1>2 DEF Load!Unmapped, Load!Page
<1>5. LoadTyped'
  <2>1. allocs' \in [DOMAIN t -> Nat]
    BY <1>1, <1>3
  <2> QED
    BY <1>1, <1>2, <1>3, <2>1, LoadUnfold DEF LoadTyped, Load!L1s, Load!Space, Paged, Contents
<1>6. LoadPlaced'
  <2>1. \A c \in Booted, l \in DOMAIN t : ~(c < 0 \/ (c = 0 /\ l < 1))
    <3>1. \A c \in Booted : c \in Nat
      BY LoadVCPUs
    <3>2. \A l \in DOMAIN t : l \in Nat /\ l # 0
      BY LoadEntry
    <3> QED
      BY <3>1, <3>2
  <2> QED
    BY <1>1, <1>2, <1>3, <2>1 DEF LoadPlaced
<1>7. LoadDone'
  <2>1. ASSUME NEW c \in Booted, NEW l \in DOMAIN t, NEW e, e = t[l], Load!Mapping(e), Fits(e),
               NEW k \in 0 .. Load!Count(e) - 1
        PROVE  Load!At(c, e, k)' = Load!Unmapped /\ ~Reached(c, l, k)'
    <3>1. /\ e.monVPN + k \in Load!Space /\ c \in Nat /\ l \in Nat /\ l # 0 /\ k \in Nat
      BY <2>1, LoadEntry, LoadPlace, LoadVCPUs
    <3> QED
      BY <1>1, <1>2, <3>1 DEF Load!At, Reached
  <2> QED
    BY <1>3, <2>1 DEF LoadDone, Load!Mapping, Fits, Load!Count, Load!Ceiling, Load!Unmapped,
       Load!Page
<1>8. LoadFrames' /\ Load!Separate'
  BY <1>1, <1>4 DEF LoadFrames, Load!Separate, Load!Space
<1>9. LoadCounted'
  <2>1. IsFiniteSet(DOMAIN t)
    <3>1. DOMAIN t = 1 .. Len(t) /\ Len(t) \in Nat
      <4>1. t \in Seq(Load!Entries)
        BY LoadersAssumption DEF Load!LoaderAssumption
      <4> QED
        BY <4>1
    <3> QED
      BY <3>1, FS_Interval
  <2>2. Total([l \in DOMAIN t |-> 0], DOMAIN t) = 0
    BY <2>1, TotalZero
  <2>3. Len(frames) = 0
    BY <1>2
  <2>4. Total(allocs', DOMAIN t) = Len(frames')
    BY <1>1, <1>3, <2>2, <2>3
  <2>5. Total(allocs, DOMAIN table)' = Len(frames)'
    BY <1>3, <2>4 DEF Total, Load!MapThenSumSet, Load!MapThenFoldSet
  <2> QED
    BY <1>1, <2>5 DEF LoadCounted
<1>10. LoadEnded' /\ LoadBegun'
  BY <1>1 DEF LoadEnded, LoadBegun
<1> QED
  BY <1>5, <1>6, <1>7, <1>8, <1>9, <1>10 DEF LoadInv

\* Steps after which nothing is loaded, or no more than is: nothing is mapped.
LEMMA LoadEnds ==
  ASSUME LoadInv, status' \in {"error", "failed"},
         status' = "failed" => vmmTracker' = {}, blob' \in {"none", "loaded", "freed"},
         status' = "error" => status = "process",
         vmmTracker' = {} \/ vmmTracker' = vmmTracker, status = "created" => status' = "failed",
         table' = table, vcpu' = vcpu, line' = line, i' = i, l1MPNs' = l1MPNs,
         hasAddrSpace' = hasAddrSpace, pte' = pte, frames' = frames, allocs' = allocs
  PROVE  LoadInv'
<1>1. LoadTyped'
  BY LoadUnfold DEF LoadTyped, Load!L1s, Load!Space, Paged, Contents
<1>2. LoadPlaced' /\ LoadDone' /\ LoadEnded' /\ LoadBegun'
  BY DEF LoadPlaced, LoadDone, LoadEnded, LoadBegun
<1>3. LoadFrames' /\ Load!Separate'
  BY LoadUnfold DEF LoadFrames, Load!Separate, Load!Space, Load!Place, Load!Writeable
<1>4. LoadCounted'
  BY DEF LoadCounted
<1> QED
  BY <1>1, <1>2, <1>3, <1>4 DEF LoadInv

LEMMA LoadFailing ==
  ASSUME LoadInv, Load!LoadFails \/ Load!Failed
  PROVE  LoadInv'
<1>1. CASE Load!LoadFails
  <2>1. vmmTracker = {} /\ blob \in {"none", "loaded", "freed"}
    BY <1>1, LoadUnfold DEF LoadCounted, Load!LoadFails, LoadTyped
  <2> QED
    BY <1>1, <2>1, LoadEnds DEF Load!LoadFails, Load!where, Load!ctx, Load!pages
<1>2. CASE Load!Failed
  BY <1>2, LoadEnds DEF Load!Failed, Load!where, Load!ctx, Load!pages
<1> QED
  BY <1>1, <1>2

LEMMA LoadErrors ==
  ASSUME LoadInv,
         \/ Load!Reject \/ Load!CreateAddressSpaceFails \/ Load!AllocFails \/ Load!ShareFails
  PROVE  LoadInv'
<1>1. /\ status = "process" /\ Load!Error /\ table' = table /\ blob' = blob
      /\ pte' = pte /\ frames' = frames /\ vmmTracker' = vmmTracker /\ allocs' = allocs
  BY DEF Load!Reject, Load!CreateAddressSpaceFails, Load!AllocFails, Load!ShareFails,
     Load!AtPage, Load!AtEntry, Load!pages
<1>2. blob \in {"none", "loaded", "freed"}
  BY LoadUnfold DEF LoadTyped
<1> QED
  BY <1>1, <1>2, LoadEnds DEF Load!Error, Load!where, Load!ctx

\* A page that is allocated.
LEMMA LoadNewFrame ==
  ASSUME LoadInv, NEW x \in Contents, Load!Alloc(x)
  PROVE  /\ frames' \in Seq(Contents) /\ vmmTracker' \subseteq DOMAIN frames'
         /\ Len(frames') = Len(frames) + 1 /\ Load!NewFrame = Len(frames) + 1
         /\ Load!NewFrame \in DOMAIN frames' /\ Load!NewFrame \notin DOMAIN frames
         /\ Load!NewFrame \in Int /\ frames'[Load!NewFrame] = x
         /\ \A n \in DOMAIN frames : n \in DOMAIN frames' /\ frames'[n] = frames[n]
<1>1. frames \in Seq(Contents) /\ vmmTracker \subseteq DOMAIN frames
  BY LoadUnfold DEF LoadTyped
<1>2. frames' = Append(frames, x) /\ vmmTracker' = vmmTracker \cup {Len(frames) + 1}
  BY DEF Load!Alloc, Load!NewFrame
<1>3. DOMAIN frames = 1 .. Len(frames) /\ Len(frames) \in Nat
  BY <1>1
<1>4. /\ frames' \in Seq(Contents) /\ Len(frames') = Len(frames) + 1
      /\ frames'[Len(frames) + 1] = x /\ \A n \in 1 .. Len(frames) : frames'[n] = frames[n]
  BY <1>1, <1>2, AppendProperties
<1>5. DOMAIN frames' = 1 .. Len(frames) + 1
  BY <1>4
<1> QED
  BY <1>1, <1>2, <1>3, <1>4, <1>5 DEF Load!NewFrame

LEMMA LoadChunk ==
  ASSUME NEW e \in Load!Entries, NEW k \in Int
  PROVE  Load!Chunk(e, k) \in Contents /\ Load!Zeroes \in Contents /\ Load!Junk \in Contents
<1>1. PAGE_SIZE \in Nat /\ e.offset \in Nat /\ e.size \in Nat
  BY LoadersAssumption DEF Load!LoaderAssumption, Load!Entries
<1>2. k * PAGE_SIZE \in Int
  BY <1>1
<1>3. Load!Min({PAGE_SIZE, e.size - k * PAGE_SIZE}) \in Int
  <2>1. PICK m : m = e.size - k * PAGE_SIZE
    OBVIOUS
  <2>2. m \in Int
    BY <1>1, <1>2, <2>1
  <2>3. \E x \in {PAGE_SIZE, m} : \A y \in {PAGE_SIZE, m} : x <= y
    BY <1>1, <2>2
  <2>4. Load!Min({PAGE_SIZE, m}) \in {PAGE_SIZE, m}
    BY <2>3 DEF Load!Min
  <2> QED
    BY <1>1, <2>1, <2>2, <2>4
<1> QED
  BY <1>1, <1>2, <1>3 DEF Load!Chunk, Load!Zeroes, Load!Junk, Contents

\* A page is allocated, and perhaps mapped, and then an error.
LEMMA LoadSpoilt ==
  ASSUME LoadInv, Load!FilledNotMapped \/ Load!CopyFails
  PROVE  LoadInv'
<1>1. /\ Load!AtPage("zero") \/ Load!AtPage("copy")
      /\ \E x \in Contents : Load!Alloc(x)
      /\ status' = "error" /\ vcpu' = vcpu /\ line' = line /\ i' = i /\ l1MPNs' = l1MPNs
      /\ hasAddrSpace' = hasAddrSpace /\ table' = table /\ blob' = blob /\ allocs' = allocs
      /\ \/ pte' = pte
         \/ Load!Map(Load!Entry.monVPN + i, Load!Page("vmm", Load!NewFrame))
  <2>1. Load!AtPage("zero") \/ Load!AtPage("copy")
    BY DEF Load!FilledNotMapped, Load!CopyFails
  <2>2. Load!AtEntry
    BY <2>1 DEF Load!AtPage
  <2>3. Load!Zeroes \in Contents /\ Load!Junk \in Contents
    BY <2>2, LoadAt, LoadChunk
  <2> QED
    BY <2>1, <2>3 DEF Load!FilledNotMapped, Load!CopyFails, Load!Error, Load!where, Load!ctx
<1>2. PICK content \in {"zero", "copy", "share"} : Load!AtPage(content)
  BY <1>1
<1>3. Load!AtEntry /\ Load!Entry.monVPN + i \in Load!Space /\ status = "process"
  BY <1>2, LoadAtPage, LoadAt
<1>4. PICK x \in Contents : Load!Alloc(x)
  BY <1>1
<1>5. /\ frames' \in Seq(Contents) /\ vmmTracker' \subseteq DOMAIN frames'
      /\ Load!NewFrame \in DOMAIN frames' /\ Load!NewFrame \notin DOMAIN frames
      /\ Load!NewFrame \in Int
      /\ \A n \in DOMAIN frames : n \in DOMAIN frames' /\ frames'[n] = frames[n]
  BY <1>4, LoadNewFrame
<1>6. PICK v, n : v = Load!Entry.monVPN + i /\ n = Load!NewFrame
  OBVIOUS
<1>7. /\ Paged(pte')
      /\ pte' = pte \/ NowMapped(v, Load!Page("vmm", n))
  <2>1. Paged(pte)
    BY LoadUnfold DEF LoadTyped
  <2>2. ASSUME Load!Map(v, Load!Page("vmm", n))
        PROVE  /\ Paged(pte')
               /\ NowMapped(v, Load!Page("vmm", n))
    <3>1. v \in Load!Space /\ n \in Int
      BY <1>3, <1>5, <1>6
    <3> QED
      BY <1>3, <2>2, <3>1, LoadMap, Zenon
  <2> QED
    BY <1>1, <1>6, <2>1, <2>2
<1>8. LoadTyped'
  BY <1>1, <1>3, <1>5, <1>7, LoadUnfold DEF LoadTyped, Load!L1s, Load!Space, Paged, Contents
<1>9. LoadFrames' /\ Load!Separate'
  <2>1. CASE pte' = pte
    BY <1>1, <1>5, <2>1, LoadUnfold
       DEF LoadFrames, Load!Separate, Load!Space, Load!Place, Load!Writeable
  <2>2. CASE NowMapped(v, Load!Page("vmm", n))
    <3>1. v \in Load!Space /\ n \in Int /\ n \in DOMAIN frames' /\ n \notin DOMAIN frames
      BY <1>3, <1>5, <1>6
    <3>2. "vmm" # "blob"
      OBVIOUS
    <3> QED
      BY <1>1, <1>3, <1>5, <2>2, <3>1, <3>2, LoadSeparate, Zenon
  <2> QED
    BY <1>7, <2>1, <2>2
<1>10. LoadPlaced' /\ LoadDone' /\ LoadEnded' /\ LoadBegun' /\ LoadCounted'
  BY <1>1 DEF LoadPlaced, LoadDone, LoadEnded, LoadBegun, LoadCounted
<1> QED
  BY <1>8, <1>9, <1>10 DEF LoadInv

\* A step of the process that goes on to the next page, with what it has mapped.
LEMMA LoadGoes ==
  ASSUME LoadInv, NEW content \in {"zero", "copy", "share"}, Load!AtPage(content), Load!NextPage,
         NEW v, v = Load!Entry.monVPN + i, NEW kind, NEW num,
         Load!Map(v, Load!Page(kind, num)),
         \A n \in DOMAIN frames : n \in DOMAIN frames' /\ frames'[n] = frames[n],
         frames' \in Seq(Contents), vmmTracker' \subseteq DOMAIN frames',
         allocs' \in [DOMAIN table -> Nat], Total(allocs', DOMAIN table) = Len(frames'),
         table' = table, status' = status, blob' = blob,
         kind = "vmm" => num \in DOMAIN frames' /\ num \notin DOMAIN frames,
         kind = "blob" /\ Load!Entry.flags \in Load!Writeable =>
           \E l \in DOMAIN table : table[l].sub = "header" /\ v \in Load!Place(table[l]),
         \A c0, e0, k0 :
           /\ c0 = vcpu /\ e0 = Load!Entry /\ k0 = i
           /\ pte'[c0][e0.monVPN + k0] = [page |-> Load!Page(kind, num), flags |-> e0.flags]
           => Load!Holds(c0, e0, k0)'
  PROVE  LoadInv'
<1>1. /\ Load!AtEntry /\ v \in Load!Space /\ status = "process" /\ vcpu \in Booted
      /\ table \in LoadedTables
  BY LoadAtPage, LoadAt
<1>2. Paged(pte') /\ NowMapped(v, Load!Page(kind, num))
  BY <1>1, LoadMap
<1>3. LoadFrames' /\ Load!Separate'
  BY <1>1, <1>2, LoadSeparate
<1>4. PICK c0, e0, k0 : c0 = vcpu /\ e0 = Load!Entry /\ k0 = i
  OBVIOUS
<1>5. Load!Holds(c0, e0, k0)'
  <2>1. pte'[c0][e0.monVPN + k0] = [page |-> Load!Page(kind, num), flags |-> e0.flags]
    BY <1>1, <1>2, <1>4 DEF NowMapped
  <2> QED
    BY <1>4, <2>1
<1>6. LoadPlaced' /\ LoadDone'
  BY <1>2, <1>4, <1>5, LoadPageDone
<1>7. /\ i' \in Nat /\ vcpu' \in Booted \cup {LastVCPU} /\ line' \in DOMAIN table
      /\ line' \in Nat \ {0} /\ l1MPNs' \subseteq Load!L1s /\ hasAddrSpace' \in BOOLEAN
  BY LoadToPage
<1>8. LoadTyped'
  <2>1. blob \in {"none", "loaded", "freed"}
    BY LoadUnfold DEF LoadTyped
  <2> QED
    BY <1>1, <1>2, <1>7, <2>1 DEF LoadTyped, Load!L1s, Load!Space, Paged, Contents, LastVCPU
<1>9. LoadCounted'
  <2>1. Total(allocs, DOMAIN table)' = Len(frames)'
    BY DEF Total, Load!MapThenSumSet, Load!MapThenFoldSet
  <2> QED
    BY <1>1, <2>1 DEF LoadCounted
<1>10. LoadEnded' /\ LoadBegun'
  BY <1>1 DEF LoadEnded, LoadBegun
<1> QED
  BY <1>3, <1>6, <1>8, <1>9, <1>10 DEF LoadInv

\* A page is filled.
LEMMA LoadFill ==
  ASSUME LoadInv, NEW content \in {"zero", "copy"}, NEW x \in Contents, Load!Fill(content, x),
         x = IF content = "zero" THEN Load!Zeroes ELSE Load!Chunk(Load!Entry, i)
  PROVE  LoadInv'
<1>1. /\ Load!AtPage(content) /\ Load!Alloc(x)
      /\ Load!Map(Load!Entry.monVPN + i, Load!Page("vmm", Load!NewFrame))
      /\ allocs' = [allocs EXCEPT ![line] = allocs[line] + 1] /\ Load!NextPage
      /\ status' = status /\ table' = table /\ blob' = blob
  BY DEF Load!Fill
<1>2. PICK v, n, c, e, k : /\ v = Load!Entry.monVPN + i /\ n = Load!NewFrame
                           /\ c = vcpu /\ e = Load!Entry /\ k = i
  OBVIOUS
<1>3. /\ frames' \in Seq(Contents) /\ vmmTracker' \subseteq DOMAIN frames'
      /\ n \in DOMAIN frames' /\ n \notin DOMAIN frames /\ frames'[n] = x
      /\ \A m \in DOMAIN frames : m \in DOMAIN frames' /\ frames'[m] = frames[m]
      /\ Len(frames') = Len(frames) + 1
  BY <1>1, <1>2, LoadNewFrame
<1>4. /\ Load!AtEntry /\ status = "process" /\ table \in LoadedTables /\ line \in DOMAIN table
      /\ DOMAIN table = 1 .. Len(table) /\ Len(table) \in Nat /\ e.content = content
  BY <1>1, <1>2, LoadAtPage, LoadAt
<1>5. allocs' \in [DOMAIN table -> Nat] /\ Total(allocs', DOMAIN table) = Len(frames')
  <2>1. allocs \in [DOMAIN table -> Nat] /\ Total(allocs, DOMAIN table) = Len(frames)
    BY <1>4, LoadUnfold DEF LoadTyped, LoadCounted
  <2>2. IsFiniteSet(DOMAIN table)
    BY <1>4, FS_Interval
  <2>3. PICK S, f, g : S = DOMAIN table /\ f = allocs /\ g = allocs'
    OBVIOUS
  <2>4. PICK y : y = line
    OBVIOUS
  <2>5. /\ g[y] = f[y] + 1 /\ y \in S /\ IsFiniteSet(S) /\ g \in [S -> Nat]
        /\ \A z \in S : f[z] \in Nat /\ g[z] \in Nat /\ (z # y => g[z] = f[z])
    BY <1>1, <1>4, <2>1, <2>2, <2>3, <2>4
  <2>6. Total(g, S) = Total(f, S) + 1
    BY <2>5, TotalUp
  <2> QED
    BY <1>3, <2>1, <2>3, <2>5, <2>6
<1>6. ASSUME pte'[c][e.monVPN + k] = [page |-> Load!Page("vmm", n), flags |-> e.flags]
      PROVE  Load!Holds(c, e, k)'
  <2>1. /\ pte'[c][e.monVPN + k].page.kind = "vmm" /\ pte'[c][e.monVPN + k].page.num = n
        /\ pte'[c][e.monVPN + k].flags = e.flags
    BY <1>6 DEF Load!Page
  <2>2. x = IF e.content = "zero" THEN [offset |-> 0, length |-> 0]
            ELSE [offset |-> e.offset + k * PAGE_SIZE,
                  length |-> Load!Min({PAGE_SIZE, e.size - k * PAGE_SIZE})]
    BY <1>2, <1>4 DEF Load!Zeroes, Load!Chunk
  <2> QED
    BY <1>3, <1>4, <2>1, <2>2 DEF Load!Holds, Load!At, Load!Zeroes, Load!Min
<1>7. \A c0, e0, k0 :
           /\ c0 = vcpu /\ e0 = Load!Entry /\ k0 = i
           /\ pte'[c0][e0.monVPN + k0] = [page |-> Load!Page("vmm", n), flags |-> e0.flags]
           => Load!Holds(c0, e0, k0)'
  BY <1>2, <1>6
<1>8. Load!Map(v, Load!Page("vmm", n)) /\ "vmm" # "blob"
  BY <1>1, <1>2
<1>9. PICK kind : kind = "vmm"
  OBVIOUS
<1> QED
  BY <1>1, <1>2, <1>3, <1>5, <1>7, <1>8, <1>9, LoadGoes

LEMMA LoadFills ==
  ASSUME LoadInv, Load!ZeroPage \/ Load!CopyPage
  PROVE  LoadInv'
<1>1. CASE Load!ZeroPage
  <2>1. Load!AtEntry
    BY <1>1 DEF Load!ZeroPage, Load!Fill, Load!AtPage
  <2>2. Load!Zeroes \in Contents
    BY <2>1, LoadAt, LoadChunk
  <2> QED
    BY <1>1, <2>2, LoadFill DEF Load!ZeroPage
<1>2. CASE Load!CopyPage
  <2>1. Load!AtEntry
    BY <1>2 DEF Load!CopyPage, Load!AtPage
  <2>2. Load!Entry \in Load!Entries /\ i \in Int
    BY <2>1, LoadAt
  <2>3. PICK x : x = Load!Chunk(Load!Entry, i)
    OBVIOUS
  <2>4. PICK e, k : e = Load!Entry /\ k = i
    OBVIOUS
  <2>5. Load!Chunk(e, k) \in Contents
    BY <2>2, <2>4, LoadChunk
  <2>6. x \in Contents
    BY <2>3, <2>4, <2>5
  <2>7. Load!Fill("copy", x)
    BY <1>2, <2>3 DEF Load!CopyPage
  <2> QED
    BY <2>3, <2>6, <2>7, LoadFill
<1> QED
  BY <1>1, <1>2

\* A page is shared.
LEMMA LoadShares ==
  ASSUME LoadInv, Load!ShareBlobPage \/ Load!SharePage
  PROVE  LoadInv'
<1>1. /\ Load!AtPage("share") /\ Load!NextPage /\ status' = status /\ table' = table
      /\ blob' = blob /\ frames' = frames /\ vmmTracker' = vmmTracker /\ allocs' = allocs
  BY DEF Load!ShareBlobPage, Load!SharePage
<1>2. PICK v, c, e, k : v = Load!Entry.monVPN + i /\ c = vcpu /\ e = Load!Entry /\ k = i
  OBVIOUS
<1>3. /\ status = "process" /\ table \in LoadedTables /\ line \in DOMAIN table
      /\ e.content = "share" /\ v \in Load!Place(table[line]) /\ e = table[line]
      /\ e.sub \notin {"vmm", "blob"}
  BY <1>1, <1>2, LoadAtPage, LoadAt, LoadEntry
<1>4. /\ frames' \in Seq(Contents) /\ vmmTracker' \subseteq DOMAIN frames'
      /\ allocs' \in [DOMAIN table -> Nat] /\ Total(allocs', DOMAIN table) = Len(frames')
      /\ \A n \in DOMAIN frames : n \in DOMAIN frames' /\ frames'[n] = frames[n]
  BY <1>1, <1>3, LoadUnfold DEF LoadTyped, LoadCounted
<1>5. CASE Load!ShareBlobPage
  <2>1. PICK n : n = e.offset \div PAGE_SIZE + k
    OBVIOUS
  <2>2. Load!Map(v, Load!Page("blob", n)) /\ e.source = "blob" /\ e.flags \notin Load!Writeable
    BY <1>2, <1>3, <1>5, <2>1 DEF Load!ShareBlobPage, Load!AtPage, Load!Accepted
  <2>3. \A c0, e0, k0 :
           /\ c0 = vcpu /\ e0 = Load!Entry /\ k0 = i
           /\ pte'[c0][e0.monVPN + k0] = [page |-> Load!Page("blob", n), flags |-> e0.flags]
           => Load!Holds(c0, e0, k0)'
    BY <1>2, <1>3, <2>1, <2>2, ZenonT(60) DEF Load!Holds, Load!At, Load!Page
  <2>4. PICK kind : kind = "blob"
    OBVIOUS
  <2>5. kind # "vmm" /\ ~(kind = "blob" /\ Load!Entry.flags \in Load!Writeable)
    BY <1>2, <2>2, <2>4
  <2> QED
    BY <1>1, <1>2, <1>4, <2>2, <2>3, <2>4, <2>5, LoadGoes
<1>6. CASE Load!SharePage
  <2>1. Load!Map(v, Load!Shared(c, e, k)) /\ e.source \in {"user", "host"}
    BY <1>2, <1>6 DEF Load!SharePage
  <2>2. PICK kind, n : /\ Load!Shared(c, e, k) = Load!Page(kind, n) /\ kind # "vmm"
                       /\ kind = "blob" => e.sub = "header"
    BY <1>3 DEF Load!Shared
  <2>3. \A c0, e0, k0 :
           /\ c0 = vcpu /\ e0 = Load!Entry /\ k0 = i
           /\ pte'[c0][e0.monVPN + k0] = [page |-> Load!Page(kind, n), flags |-> e0.flags]
           => Load!Holds(c0, e0, k0)'
    <3>1. ASSUME pte'[c][e.monVPN + k] = [page |-> Load!Page(kind, n), flags |-> e.flags]
          PROVE  Load!Holds(c, e, k)'
      <4>1. pte'[c][e.monVPN + k] = [page |-> Load!Shared(c, e, k), flags |-> e.flags]
        BY <2>2, <3>1
      <4> QED
        BY <1>3, <2>1, <4>1 DEF Load!Holds, Load!At, Load!Shared, Load!Page
    <3> QED
      BY <1>2, <3>1
  <2>4. /\ kind = "vmm" => n \in DOMAIN frames' /\ n \notin DOMAIN frames
        /\ kind = "blob" /\ Load!Entry.flags \in Load!Writeable =>
             \E l \in DOMAIN table : table[l].sub = "header" /\ v \in Load!Place(table[l])
    BY <1>3, <2>2
  <2> QED
    BY <1>1, <1>2, <1>4, <2>1, <2>2, <2>3, <2>4, LoadGoes
<1> QED
  BY <1>5, <1>6

\* The loader goes on and maps nothing: the entry maps nothing, or not for this VCPU, or
\* what is left of a region is not there.
LEMMA LoadPasses ==
  ASSUME LoadInv, Load!AtEntry, ToNext, l1MPNs' \subseteq Load!L1s, hasAddrSpace' \in BOOLEAN,
         status' = status, table' = table, blob' = blob,
         pte' = pte, frames' = frames, vmmTracker' = vmmTracker, allocs' = allocs,
         \/ ~Load!Mapping(Load!Entry) \/ ~Load!Applies(Load!Entry, vcpu)
         \/ /\ Load!Entry.content = "share" /\ Load!Entry.source \in {"user", "host"}
            /\ Load!Entry.sub \notin Load!Single /\ (i # 0 \/ Load!Entry.sub = Load!HtMap)
            /\ Fits(Load!Entry)
  PROVE  LoadInv'
<1>1. /\ vcpu \in Booted /\ line \in DOMAIN table /\ table \in LoadedTables
      /\ status = "process" /\ Load!Entry = table[line] /\ i \in Nat /\ line \in Nat
  BY LoadAt
<1>2. /\ i' = 0 /\ vcpu' \in Booted \cup {LastVCPU} /\ line' \in DOMAIN table
      /\ line' \in Nat \ {0}
      /\ \A c \in Booted, l \in DOMAIN table, k \in Nat :
           Reached(c, l, k)' <=> Reached(c, l, k) \/ (c = vcpu /\ l = line)
      /\ \A c \in Booted, l \in DOMAIN table :
           (c < vcpu' \/ (c = vcpu' /\ l < line'))
             <=> c < vcpu \/ (c = vcpu /\ l < line) \/ (c = vcpu /\ l = line)
  BY LoadToNext
<1>3. LoadTyped'
  BY <1>1, <1>2, LoadUnfold
     DEF LoadTyped, Load!L1s, Load!Space, Paged, Contents, LastVCPU
<1>4. LoadPlaced'
  <2>1. \A c \in Booted, l \in DOMAIN table :
          Load!Mapping(table[l]) /\ Load!Applies(table[l], c)
          /\ (c < vcpu' \/ (c = vcpu' /\ l < line')) => Fits(table[l])
    BY <1>1, <1>2, LoadUnfold DEF LoadPlaced
  <2> QED
    BY <1>2, <2>1 DEF LoadPlaced, Load!Mapping, Load!Applies, Fits, Load!Count, Load!Ceiling
<1>5. ASSUME NEW c \in Booted, NEW l \in DOMAIN table, NEW e, e = table[l],
             Load!Mapping(e), Fits(e), NEW k \in 0 .. Load!Count(e) - 1
      PROVE  IF Load!Applies(e, c) /\ Reached(c, l, k)' THEN Load!Holds(c, e, k)'
             ELSE Load!At(c, e, k)' = Load!Unmapped
  <2>1. e.monVPN + k \in Load!Space /\ k \in Nat
    <3>1. e \in Load!Entries /\ e.monVPN + k \in Load!Space /\ Load!Count(e) \in Nat
      BY <1>1, <1>5, LoadEntry, LoadPlace
    <3> QED
      BY <3>1
  <2>2. Reached(c, l, k)' <=> Reached(c, l, k) \/ (c = vcpu /\ l = line)
    BY <1>2, <2>1
  <2>3. IF Load!Applies(e, c) /\ Reached(c, l, k) THEN Load!Holds(c, e, k)
        ELSE Load!At(c, e, k) = Load!Unmapped
    BY <1>1, <1>5, LoadUnfold DEF LoadDone
  <2>4. pte[c][e.monVPN + k].page.kind = "vmm" => pte[c][e.monVPN + k].page.num \in DOMAIN frames
    BY <2>1, LoadUnfold DEF LoadFrames
  <2>5. Load!Holds(c, e, k) => Load!Holds(c, e, k)'
    BY <2>4, LoadHoldsKept
  <2>6. Load!At(c, e, k)' = Load!At(c, e, k)
    BY DEF Load!At
  <2>7. ASSUME c = vcpu, l = line, Load!Applies(e, c), ~Reached(c, l, k)
        PROVE  Load!Holds(c, e, k)
    <3>1. /\ e.content = "share" /\ e.source \in {"user", "host"} /\ e.sub \notin Load!Single
          /\ (i # 0 \/ e.sub = Load!HtMap)
      BY <1>1, <1>5, <2>7
    <3>2. k > 0 \/ e.sub = Load!HtMap
      BY <1>1, <2>1, <2>7, <3>1 DEF Reached
    <3>3. Load!At(c, e, k) = Load!Unmapped
      BY <2>3, <2>7
    <3> QED
      BY <3>1, <3>2, <3>3 DEF Load!Holds
  <2> QED
    BY <2>2, <2>3, <2>5, <2>6, <2>7
<1>6. LoadDone'
  BY <1>5 DEF LoadDone, Load!Mapping, Fits, Load!Count, Load!Ceiling, Load!Applies,
     Load!Unmapped,
     Load!Page
<1>7. LoadFrames' /\ Load!Separate'
  BY LoadUnfold DEF LoadFrames, Load!Separate, Load!Space, Load!Place, Load!Writeable
<1>8. LoadCounted'
  <2>1. Total(allocs, DOMAIN table)' = Total(allocs, DOMAIN table)
    BY DEF Total, Load!MapThenSumSet, Load!MapThenFoldSet
  <2> QED
    BY <1>1, <2>1, LoadUnfold DEF LoadCounted
<1>9. LoadEnded' /\ LoadBegun'
  BY <1>1 DEF LoadEnded, LoadBegun
<1> QED
  BY <1>3, <1>4, <1>6, <1>7, <1>8, <1>9 DEF LoadInv

LEMMA LoadNextEntry ==
  ASSUME LoadInv, Load!AtEntry, Load!NextEntry
  PROVE  ToNext /\ l1MPNs' \subseteq Load!L1s /\ hasAddrSpace' \in BOOLEAN
BY LoadUnfold DEF Load!NextEntry, ToNext, Load!ctx, LoadTyped

LEMMA LoadPassing ==
  ASSUME LoadInv, Load!Skip \/ Load!MapPageTables \/ Load!SharePartly
  PROVE  LoadInv'
<1>1. /\ Load!AtEntry /\ Load!NextEntry /\ status' = status /\ table' = table /\ blob' = blob
      /\ pte' = pte /\ frames' = frames /\ vmmTracker' = vmmTracker /\ allocs' = allocs
  BY DEF Load!Skip, Load!MapPageTables, Load!SharePartly, Load!AtPage, Load!pages
<1>2. \/ ~Load!Mapping(Load!Entry) \/ ~Load!Applies(Load!Entry, vcpu)
      \/ /\ Load!Entry.content = "share" /\ Load!Entry.source \in {"user", "host"}
         /\ Load!Entry.sub \notin Load!Single /\ (i # 0 \/ Load!Entry.sub = Load!HtMap)
         /\ Fits(Load!Entry)
  <2>1. CASE Load!Skip
    BY <2>1 DEF Load!Skip
  <2>2. CASE Load!MapPageTables
    BY <2>2 DEF Load!MapPageTables, Load!AtPage, Load!Mapping
  <2>3. CASE Load!SharePartly
    <3>1. Load!AtPage("share")
      BY <2>3 DEF Load!SharePartly
    <3>2. Fits(Load!Entry) /\ Load!Entry.content = "share"
      BY <3>1, LoadAtPage
    <3> QED
      BY <2>3, <3>2 DEF Load!SharePartly
  <2> QED
    BY <2>1, <2>2, <2>3
<1> QED
  BY <1>1, <1>2, LoadNextEntry, LoadPasses

LEMMA LoadAddressSpace ==
  ASSUME LoadInv, Load!CreateAddressSpace
  PROVE  LoadInv'
<1>1. /\ Load!AtEntry /\ ToNext /\ status' = status /\ table' = table /\ blob' = blob
      /\ pte' = pte /\ frames' = frames /\ vmmTracker' = vmmTracker /\ allocs' = allocs
      /\ l1MPNs' \subseteq Load!L1s /\ hasAddrSpace' \in BOOLEAN /\ ~Load!Mapping(Load!Entry)
  BY DEF Load!CreateAddressSpace, Load!AtPage, Load!pages, ToNext, Load!Mapping
<1> QED
  BY <1>1, LoadPasses

\* It is booted, and the blob is freed.
LEMMA LoadBooted ==
  ASSUME LoadInv, Load!Finish \/ Load!BootstrapCleanup
  PROVE  LoadInv'
<1>1. /\ status \in {"process", "booted"} /\ status' = "booted" /\ vmmTracker' = {}
      /\ blob' \in {"none", "loaded", "freed"} /\ table' = table
      /\ vcpu' = vcpu /\ line' = line /\ i' = i /\ l1MPNs' = l1MPNs
      /\ hasAddrSpace' = hasAddrSpace /\ pte' = pte /\ frames' = frames /\ allocs' = allocs
      /\ vcpu = LastVCPU
  BY LoadUnfold DEF Load!Finish, Load!BootstrapCleanup, Load!where, Load!ctx, Load!pages,
     LoadTyped, LoadEnded, LoadCounted
<1>2. LoadTyped'
  BY <1>1, LoadUnfold DEF LoadTyped, Load!L1s, Load!Space, Paged, Contents, LastVCPU
<1>3. LoadPlaced'
  BY <1>1, LoadUnfold DEF LoadPlaced, Load!Mapping, Load!Applies, Fits, Load!Count, Load!Ceiling
<1>4. LoadDone'
  BY <1>1, LoadUnfold DEF LoadDone, Load!Mapping, Load!Applies, Fits, Load!Count, Load!Ceiling,
     Load!Holds, Load!At, Load!Unmapped, Load!Page, Load!Shared, Load!Zeroes, Load!Single,
     Load!Min, Reached
<1>5. LoadFrames' /\ Load!Separate'
  BY <1>1, LoadUnfold DEF LoadFrames, Load!Separate, Load!Space, Load!Place, Load!Writeable
<1>6. LoadCounted'
  <2>1. Total(allocs, DOMAIN table)' = Total(allocs, DOMAIN table)
    BY <1>1 DEF Total, Load!MapThenSumSet, Load!MapThenFoldSet
  <2> QED
    BY <1>1, <2>1, LoadUnfold DEF LoadCounted
<1>7. LoadEnded' /\ LoadBegun'
  BY <1>1 DEF LoadEnded, LoadBegun, LastVCPU
<1> QED
  BY <1>2, <1>3, <1>4, <1>5, <1>6, <1>7 DEF LoadInv

-----------------------------------------------------------------------------

LEMMA LoadStart ==
  ASSUME Load!Init
  PROVE  LoadInv
<1>1. /\ status = "created" /\ table = <<>> /\ blob = "none" /\ vcpu = 0 /\ line = 1 /\ i = 0
      /\ l1MPNs = {} /\ hasAddrSpace = FALSE
      /\ pte = [c \in Booted |-> [v \in Load!Space |-> Load!Unmapped]]
      /\ frames = <<>> /\ vmmTracker = {} /\ allocs = <<>>
  BY DEF Load!Init
<1>2. \A c \in Booted, v \in Load!Space : pte[c][v] = Load!Unmapped /\ pte[c][v].page.kind = "none"
  BY <1>1 DEF Load!Unmapped, Load!Page
<1>3. LoadTyped
  <2>1. Paged(pte)
    BY <1>1 DEF Paged
  <2>2. frames \in Seq(Contents) /\ allocs \in [DOMAIN table -> Nat]
    BY <1>1
  <2> QED
    BY <1>1, <2>1, <2>2, LoadVCPUs DEF LoadTyped
<1>4. LoadFrames /\ Load!Separate
  BY <1>2 DEF LoadFrames, Load!Separate
<1> QED
  BY <1>1, <1>2, <1>3, <1>4
     DEF LoadInv, LoadPlaced, LoadDone, LoadCounted, LoadEnded, LoadBegun

LEMMA LoadStep ==
  ASSUME LoadInv, [Load!Next]_loadVars
  PROVE  LoadInv'
<1>1. CASE Load!Next
  BY <1>1, LoadLoad, LoadFailing, LoadErrors, LoadSpoilt, LoadFills, LoadShares, LoadPassing,
     LoadAddressSpace, LoadBooted DEF Load!Next
<1>2. CASE UNCHANGED loadVars
  <2>1. /\ status' = status /\ table' = table /\ blob' = blob /\ vcpu' = vcpu /\ line' = line
        /\ i' = i /\ l1MPNs' = l1MPNs /\ hasAddrSpace' = hasAddrSpace /\ pte' = pte
        /\ frames' = frames /\ vmmTracker' = vmmTracker /\ allocs' = allocs
    BY <1>2 DEF loadVars
  <2>2. LoadTyped'
    BY <2>1, LoadUnfold DEF LoadTyped, Load!L1s, Load!Space, Paged, Contents, LastVCPU
  <2>3. LoadPlaced'
    BY <2>1, LoadUnfold DEF LoadPlaced, Load!Mapping, Load!Applies, Fits, Load!Count,
       Load!Ceiling
  <2>4. LoadDone'
    BY <2>1, LoadUnfold DEF LoadDone, Load!Mapping, Load!Applies, Fits, Load!Count,
       Load!Ceiling,
       Load!Holds, Load!At, Load!Unmapped, Load!Page, Load!Shared, Load!Zeroes, Load!Single,
       Load!Min, Reached
  <2>5. LoadFrames' /\ Load!Separate'
    BY <2>1, LoadUnfold DEF LoadFrames, Load!Separate, Load!Space, Load!Place, Load!Writeable
  <2>6. LoadCounted'
    <3>1. Total(allocs, DOMAIN table)' = Total(allocs, DOMAIN table)
      BY <2>1 DEF Total, Load!MapThenSumSet, Load!MapThenFoldSet
    <3> QED
      BY <2>1, <3>1, LoadUnfold DEF LoadCounted
  <2>7. LoadEnded' /\ LoadBegun'
    BY <2>1, LoadUnfold DEF LoadEnded, LoadBegun, LastVCPU, Load!Space, Load!Unmapped, Load!Page
  <2> QED
    BY <2>2, <2>3, <2>4, <2>5, <2>6, <2>7 DEF LoadInv
<1> QED
  BY <1>1, <1>2

LEMMA LoadTrue ==
  ASSUME LoadInv
  PROVE  Load!TableLoaded /\ Load!Separate /\ Load!Accounted
<1>1. ASSUME status = "booted", NEW c \in Booted, NEW l \in DOMAIN table,
             Load!Mapping(table[l]), NEW k \in 0 .. Load!Count(table[l]) - 1
      PROVE  IF table[l].bspOnly /\ c # 0 THEN Load!At(c, table[l], k) = Load!Unmapped
             ELSE Load!Holds(c, table[l], k)
  <2>1. vcpu = LastVCPU
    BY <1>1, LoadUnfold DEF LoadEnded
  <2>2. c < vcpu /\ 0 < vcpu /\ 0 \in Booted
    BY <2>1, LoadVCPUs
  <2>3. Fits(table[l])
    <3>1. Load!Applies(table[l], 0)
      BY DEF Load!Applies
    <3> QED
      BY <1>1, <2>2, <3>1, LoadUnfold DEF LoadPlaced
  <2>4. IF Load!Applies(table[l], c) /\ Reached(c, l, k) THEN Load!Holds(c, table[l], k)
        ELSE Load!At(c, table[l], k) = Load!Unmapped
    BY <1>1, <2>3, LoadUnfold DEF LoadDone
  <2>5. Reached(c, l, k)
    BY <2>2 DEF Reached
  <2> QED
    BY <2>4, <2>5 DEF Load!Applies
<1>2. Load!TableLoaded
  BY <1>1 DEF Load!TableLoaded
<1>3. Load!Accounted
  <2>1. Total(allocs, DOMAIN table) = Load!MapThenSumSet(LAMBDA l : allocs[l], DOMAIN table)
    BY DEF Total
  <2>2. status = "booted" => Total(allocs, DOMAIN table) = Len(frames)
    BY LoadUnfold DEF LoadCounted
  <2> QED
    BY <2>1, <2>2, LoadUnfold DEF Load!Accounted, LoadCounted
<1> QED
  BY <1>2, <1>3, LoadUnfold

LEMMA LoadTypeOK ==
  ASSUME LoadInv
  PROVE  Load!TypeOK
<1>1. line \in 1 .. Load!Max({1, Len(table)})
  <2>1. Len(table) \in Nat /\ DOMAIN table = 1 .. Len(table)
    <3>1. CASE table = <<>>
      BY <3>1
    <3>2. CASE table \in LoadedTables
      <4>1. table \in Seq(Load!Entries)
        BY <3>2, LoadersAssumption, SMTT(40) DEF Load!LoaderAssumption
      <4> QED
        BY <4>1
    <3> QED
      BY <3>1, <3>2, LoadUnfold DEF LoadTyped
  <2>2. PICK n \in Nat : n = Len(table)
    BY <2>1
  <2>3. \E x \in {1, n} : \A y \in {1, n} : x >= y
    OBVIOUS
  <2>4. PICK m : m = Load!Max({1, n})
    OBVIOUS
  <2>5. m \in {1, n} /\ \A y \in {1, n} : m >= y
    BY <2>3, <2>4 DEF Load!Max
  <2>6. line \in Nat /\ line >= 1 /\ (line = 1 \/ line <= n)
    BY <2>1, <2>2, LoadUnfold DEF LoadTyped
  <2>7. line \in 1 .. m
    BY <2>5, <2>6
  <2> QED
    BY <2>2, <2>4, <2>7
<1>2. vcpu \in Booted \cup {Load!Cardinality(Booted)}
  BY LoadUnfold DEF LoadTyped, LastVCPU, Load!Cardinality, Cardinality, Load!IsFiniteSet,
     IsFiniteSet
<1>3. DOMAIN pte = Booted /\ \A c \in Booted : DOMAIN pte[c] = Load!Space
  BY LoadUnfold DEF LoadTyped, Paged
<1>4. DOMAIN allocs = DOMAIN table /\ \A l \in DOMAIN table : allocs[l] \in Nat
  BY LoadUnfold DEF LoadTyped
<1> QED
  BY <1>1, <1>2, <1>3, <1>4, LoadUnfold DEF LoadTyped, Load!TypeOK
-----------------------------------------------------------------------------
(* The parts of vmmon in one model.  A part that a behaviour is not about stays where it       *)
(* starts, so each behaves as its own specification says.                                     *)

WaitProofs == INSTANCE HostWaitProofs WITH pc <- vcpuPc, Calls <- ModuleCalls

allVars == <<part, vars, pageVars, trackVars, waitVars, loadVars, areaVars, statVars>>

\* The machines.
LEMMA LifePart == MCSpec => Spec
<1>1. MCInit => Init
  BY DEF MCInit
<1>2. [MCNext]_allVars => [Next]_vars
  BY DEF MCNext, allVars
<1> QED
  BY <1>1, <1>2, PTL DEF MCSpec, Spec, allVars

\* The VCPUs that wait for each other.
LEMMA WaitPart == MCSpec => WaitProofs!Spec
<1>1. MCInit => WaitProofs!Init
  BY SMTT(40) DEF MCInit, Wait!Init, WaitProofs!Init, Wait!NoCall, WaitProofs!NoCall
<1>2. Wait!Next => WaitProofs!Next
  BY DEF Wait!Next, Wait!RunVM, Wait!TaskSwitch, Wait!Back, Wait!Switched, Wait!NoneCall,
         Wait!Cosched, Wait!TakeWaitSet, Wait!WakeUp, Wait!Ask, Wait!Look, Wait!Unask,
         Wait!Confirm, Wait!Decide, Wait!Awake, Wait!Clear, Wait!SemaphoreWait, Wait!Register,
         Wait!Unregister, Wait!Read, Wait!SemaphoreSignal, Wait!ForceWakeup, Wait!SwitchBack,
         Wait!YieldToSet, Wait!WakeThen, Wait!At, Wait!Goto, Wait!Wakes, Wait!Others,
         Wait!Targets, Wait!NoCall, Wait!crosspage, Wait!tasks, Wait!locals, WaitProofs!Next,
         WaitProofs!RunVM, WaitProofs!TaskSwitch, WaitProofs!Back, WaitProofs!Switched,
         WaitProofs!NoneCall, WaitProofs!Cosched, WaitProofs!TakeWaitSet, WaitProofs!WakeUp,
         WaitProofs!Ask, WaitProofs!Look, WaitProofs!Unask, WaitProofs!Confirm,
         WaitProofs!Decide,
         WaitProofs!Awake, WaitProofs!Clear, WaitProofs!SemaphoreWait, WaitProofs!Register,
         WaitProofs!Unregister, WaitProofs!Read, WaitProofs!SemaphoreSignal,
         WaitProofs!ForceWakeup, WaitProofs!SwitchBack, WaitProofs!YieldToSet,
         WaitProofs!WakeThen, WaitProofs!At, WaitProofs!Goto, WaitProofs!Wakes,
         WaitProofs!Others,
         WaitProofs!Targets, WaitProofs!NoCall, WaitProofs!crosspage, WaitProofs!tasks,
         WaitProofs!locals
<1>3. [MCNext]_allVars => [WaitProofs!Next]_WaitProofs!vars
  BY <1>2 DEF MCNext, allVars, waitVars, WaitProofs!vars, WaitProofs!crosspage,
              WaitProofs!tasks, WaitProofs!locals
<1> QED
  BY <1>1, <1>3, PTL DEF MCSpec, WaitProofs!Spec, allVars

\* MachinesExact of every machine of the model.
THEOREM MachinesExactInModel == MCSpec => []MachinesExact
BY LifePart, MachinesExactHolds, PTL

\* No VCPU sleeps while one it waits for has woken it, and no ring of VCPUs sleeps for each
\* other, for any number of VCPUs and any calls of the monitor.
THEOREM YieldersWakeHolds == MCSpec => []YieldersWake
<1>1. WaitProofs!YieldersWake => YieldersWake
  BY DEF YieldersWake, Wait!YieldersWake, Wait!WakeupDue, Wait!NoSleepingRing,
     Wait!Sleeping, Wait!At,
         WaitProofs!YieldersWake, WaitProofs!WakeupDue, WaitProofs!NoSleepingRing,
         WaitProofs!Sleeping, WaitProofs!At
<1> QED
  BY <1>1, WaitPart, WaitProofs!YieldersWakeHolds, PTL

\* The pages of the host are pinned by those who have them, the tracker is the set of what was
\* added and not removed, and what is recorded of shared areas and statistics variables stays
\* pinned and claimed: for any number of pages, threads and VCPUs, and trackers of any size, as
\* long as no two threads allocate the same area at once.
THEOREM PagesExactHolds == ASSUME ~MayOverlap PROVE MCSpec => []PagesExact
<1> DEFINE PagesInv == PinsInv /\ TrackInv /\ AreaInv /\ StatInv
<1>1. MCInit => PagesInv
  BY PinsStart, TrackStart, AreaStart, StatStart DEF MCInit
<1>2. PagesInv /\ [MCNext]_allVars => PagesInv'
  <2> SUFFICES ASSUME PagesInv, [MCNext]_allVars PROVE PagesInv'
    OBVIOUS
  <2>1. [Pages!Next]_pageVars /\ [Track!Next]_trackVars /\ [Area!Next]_areaVars /\ [Stat!Next]_statVars
    BY DEF MCNext, allVars
  <2> QED
    BY <2>1, PinsStep, TrackStep, AreaStep, StatStep
<1>3. PagesInv => PagesExact
  BY PinsTrue, TrackerTrue, AreaTrue, StatTrue DEF PagesExact
<1> QED
  BY <1>1, <1>2, <1>3, PTL DEF MCSpec, allVars

LEMMA LoadPart == MCSpec => []LoadInv
<1>1. MCInit => LoadInv
  BY LoadStart DEF MCInit
<1>2. LoadInv /\ [MCNext]_allVars => LoadInv'
  <2>1. [MCNext]_allVars => [Load!Next]_loadVars
    BY DEF MCNext, allVars
  <2> QED
    BY <2>1, LoadStep
<1> QED
  BY <1>1, <1>2, PTL DEF MCSpec, allVars

\* A monitor that is booted is the one its table describes, of which no two places share a page
\* that was allocated and the kernel keeps nothing, for any number of VCPUs and any tables whose
\* entries lie apart, whatever is absent, given out or refused on the way.
THEOREM MonitorLoadedHolds == MCSpec => []MonitorLoaded
<1>1. LoadInv => MonitorLoaded
  BY LoadTrue DEF MonitorLoaded
<1> QED
  BY <1>1, LoadPart, PTL

\* Every variable of every part has its type: no count of who has a page, an ID or a claim goes
\* below zero or past its end, and no step is taken from an object that is not there.
THEOREM TypesHold == ASSUME ~MayOverlap PROVE MCSpec => []TypesOK
<1>1. MCInit => PinsInv /\ TrackInv /\ AreaInv /\ StatInv
  BY PinsStart, TrackStart, AreaStart, StatStart DEF MCInit
<1>2. PinsInv /\ TrackInv /\ AreaInv /\ StatInv /\ [MCNext]_allVars
        => PinsInv' /\ TrackInv' /\ AreaInv' /\ StatInv'
  <2> SUFFICES ASSUME PinsInv, TrackInv, AreaInv, StatInv, [MCNext]_allVars
               PROVE  PinsInv' /\ TrackInv' /\ AreaInv' /\ StatInv'
    OBVIOUS
  <2>1. [Pages!Next]_pageVars /\ [Track!Next]_trackVars /\ [Area!Next]_areaVars /\ [Stat!Next]_statVars
    BY DEF MCNext, allVars
  <2> QED
    BY <2>1, PinsStep, TrackStep, AreaStep, StatStep
<1>3. WaitProofs!TypeOK => Wait!TypeOK
  BY DEF WaitProofs!TypeOK, Wait!TypeOK, WaitProofs!Steps, Wait!Steps
<1>4. AreaInv => Area!TypeOK
  <2> SUFFICES ASSUME AreaInv PROVE Area!TypeOK
    OBVIOUS
  <2>1. ASSUME NEW n \in DOMAIN arrays, NEW c \in DOMAIN arrays[n]
        PROVE  c \in Booted /\ arrays[n][c] \in [Area!Nums -> Area!Pages \cup {Area!INVALID, Area!Unset}]
    <3>1. PICK a \in Areas : arrays[n] \in Rows(a)
      BY DEF AreaInv, AreaTypes, AnyRow
    <3>2. Area!VCPUsOf(a) \subseteq Booted
      BY AreaSizes
    <3> QED
      BY <3>1, <3>2 DEF Rows, Written
  <2>2. \A t \in Threads : areaOp[t].array \in 0 .. Len(arrays) /\ areaOp[t].page \in Area!Nums
    BY DEF AreaInv, AreaTypes
  <2> QED
    BY <2>1, <2>2 DEF AreaInv, AreaTypes, Area!TypeOK
<1>5. TypeOK /\ Wait!TypeOK /\ LoadInv /\ PinsInv /\ TrackInv /\ AreaInv /\ StatInv => TypesOK
  BY <1>4, LoadTypeOK DEF TypesOK, PinsInv, TrackInv, StatInv
<1>6. MCSpec => []TypeOK
  BY LifePart, TypeCorrect, PTL
<1>7. MCSpec => []Wait!TypeOK
  <2>1. WaitProofs!SignalsAssumption
    BY WaitsAssumption DEF Wait!SignalsAssumption, WaitProofs!SignalsAssumption
  <2>2. WaitProofs!Spec => []WaitProofs!TypeOK
    BY <2>1, WaitProofs!TypeCorrect
  <2> QED
    BY <1>3, <2>2, WaitPart, PTL
<1> QED
  BY <1>1, <1>2, <1>5, <1>6, <1>7, LoadPart, PTL DEF MCSpec, allVars
=============================================================================
