-------------------------- MODULE VMAdmissionProofs --------------------------
(* Theorems about VMAdmission.                                               *)
EXTENDS VMAdmission, FiniteSetTheorems, TLAPS

\* A percentage of a memory, and more, is a number of pages.
LEMMA MinAllocationType ==
  ASSUME NEW mainMem \in Nat, NEW size \in Nat, NEW pct \in 0 .. 100
  PROVE  MinAllocation(mainMem, size, pct) \in Nat
<1>1. pct * mainMem \in Nat
  OBVIOUS
<1>2. ASSUME NEW n \in Nat PROVE (n \div 100) + size \in Nat
  OBVIOUS
<1> QED
  BY <1>1, <1>2 DEF MinAllocation

LEMMA MainMemType ==
  ASSUME NEW v PROVE MainMem(v) \in Nat
BY SizesAssumption DEF MainMem

\* The strengthening: the machines that are admitted exist, so a new one is not.
Placed == admitted \subseteq listed \cup freeing

IInv == TypeOK /\ Placed /\ MinAllocationsCurrent

LEMMA InitEstablishes == Init => IInv
BY SizesAssumption DEF Init, IInv, TypeOK, Placed, MinAllocationsCurrent, NoOp

\* What reckons with counts and threads leaves the minimum allocations alone.
LEMMA CountingSteps ==
  ASSUME IInv, UNCHANGED <<listed, freeing, usage, minVmMemPct>>
  PROVE  Placed' /\ MinAllocationsCurrent'
<1>1. \A v : MainMem(v)' = MainMem(v)
  BY DEF MainMem, usage
<1> QED
  BY <1>1 DEF IInv, Placed, MinAllocationsCurrent, MinAllocation, usage

\* Counting up or down keeps the types of the counts.
LEMMA ReservedTypes ==
  ASSUME TypeOK, NEW v, NEW n \in Int, Reserved(v, n)
  PROVE  locked' \in [VMs -> Int] /\ numLockedPages' \in Int
<1>1. /\ locked \in [VMs -> Int] /\ numLockedPages \in Int
      /\ locked' = [locked EXCEPT ![v] = @ + n]
      /\ numLockedPages' = numLockedPages + n
  BY DEF Reserved, TypeOK
<1>2. \A u \in VMs : locked[u] \in Int /\ locked[u] + n \in Int
  BY <1>1
<1>3. locked' \in [VMs -> Int]
  BY <1>1, <1>2
<1>4. numLockedPages + n \in Int
  BY <1>1
<1> QED
  BY <1>1, <1>3, <1>4

\* A thread's steps keep the types, and leave machines, usage and limits alone.
Bookkeeping == TypeOK' /\ UNCHANGED <<listed, freeing, usage, limits>>

LEMMA ReserveTypes ==
  ASSUME TypeOK, NEW t \in Threads, Reserve(t)
  PROVE  Bookkeeping
<1> DEFINE v    == op[t].vm
           left == op[t].retries - 1
<1>1. /\ UNCHANGED <<listed, freeing, usage, limits, pages>>
      /\ op[t].num \in Nat /\ op[t].retries \in Nat
  BY DEF Reserve, TypeOK
<1>2. locked' \in [VMs -> Int] /\ numLockedPages' \in Int
  BY DEF Reserve, Reserved, counts, TypeOK
<1>3. /\ pc' \in [Threads -> {"idle", "reserve", "force", "host", "unreserve"}]
      /\ op' \in [Threads -> [vm : VMs \cup {None}, num : Nat, ignore : BOOLEAN, retries : Nat]]
  <2>1. NoOp \in [vm : VMs \cup {None}, num : Nat, ignore : BOOLEAN, retries : Nat]
    BY DEF NoOp
  <2>2. CASE left > 0 /\ op' = [op EXCEPT ![t].retries = left] /\ UNCHANGED pc
    BY <1>1, <2>2 DEF TypeOK
  <2>3. CASE Denied(t)
    BY <2>1, <2>3 DEF Denied, End, Goto, TypeOK
  <2>4. CASE Goto(t, "host") /\ UNCHANGED op
    BY <2>4 DEF Goto, TypeOK
  <2> QED
    BY <2>2, <2>3, <2>4 DEF Reserve
<1> QED
  BY <1>1, <1>2, <1>3 DEF Bookkeeping, TypeOK, usage, limits

LEMMA ReserveAnywayTypes ==
  ASSUME TypeOK, NEW t \in Threads, ReserveAnyway(t)
  PROVE  Bookkeeping
<1>1. locked' \in [VMs -> Int] /\ numLockedPages' \in Int
  <2>1. op[t].num \in Int
    BY DEF TypeOK
  <2> QED
    BY <2>1, ReservedTypes DEF ReserveAnyway
<1> QED
  BY <1>1 DEF ReserveAnyway, Goto, Bookkeeping, TypeOK, usage, limits

LEMMA UnreserveTypes ==
  ASSUME TypeOK, NEW t \in Threads, UnreserveFreePages(t)
  PROVE  Bookkeeping
<1>1. locked' \in [VMs -> Int] /\ numLockedPages' \in Int
  <2>1. -op[t].num \in Int
    BY DEF TypeOK
  <2> QED
    BY <2>1, ReservedTypes DEF UnreserveFreePages
<1>2. NoOp \in [vm : VMs \cup {None}, num : Nat, ignore : BOOLEAN, retries : Nat]
  BY DEF NoOp
<1> QED
  BY <1>1, <1>2 DEF UnreserveFreePages, End, Goto, Bookkeeping, TypeOK, usage, limits

LEMMA GetTypes ==
  ASSUME TypeOK, NEW t \in Threads, NEW got \in 0 .. op[t].num, Get(t, got)
  PROVE  Bookkeeping
<1>1. op[t].num \in Nat /\ got \in Nat /\ op[t].num - got \in Nat
  BY DEF TypeOK
<1>2. NoOp \in [vm : VMs \cup {None}, num : Nat, ignore : BOOLEAN, retries : Nat]
  BY DEF NoOp
<1>3. pages' \in [VMs -> Nat]
  <2>1. \A k \in Nat : k + got \in Nat
    BY <1>1
  <2>2. \A v \in VMs : pages[v] \in Nat /\ pages[v] + got \in Nat
    BY <2>1 DEF TypeOK
  <2>3. pages' = [pages EXCEPT ![op[t].vm] = pages[op[t].vm] + got]
    BY DEF Get
  <2> QED
    BY <2>2, <2>3 DEF TypeOK
<1>4. /\ pc' \in [Threads -> {"idle", "reserve", "force", "host", "unreserve"}]
      /\ op' \in [Threads -> [vm : VMs \cup {None}, num : Nat, ignore : BOOLEAN, retries : Nat]]
  BY <1>1, <1>2 DEF Get, End, Goto, TypeOK
<1> QED
  BY <1>3, <1>4 DEF Get, Bookkeeping, TypeOK, usage, counts, limits

LEMMA GoingTypes ==
  ASSUME TypeOK, NEW t \in Threads, Going(t)
  PROVE  Bookkeeping
BY ReserveTypes, ReserveAnywayTypes, UnreserveTypes, GetTypes DEF Going

LEMMA LockTypes ==
  ASSUME TypeOK, NEW t \in Threads, NEW v \in VMs, NEW n \in Batches,
         NEW ignoreLimits \in BOOLEAN, Lock(t, v, n, ignoreLimits)
  PROVE  Bookkeeping
<1>1. n \in Nat /\ Retries \in Nat
  BY SizesAssumption
<1> QED
  BY <1>1 DEF Lock, Goto, Bookkeeping, TypeOK, usage, counts, limits

LEMMA UnlockTypes ==
  ASSUME TypeOK, NEW t \in Threads, NEW v \in VMs, NEW n \in Batches, Unlock(t, v, n)
  PROVE  Bookkeeping
<1>1. n \in Nat /\ pages[v] - n \in Nat
  BY SizesAssumption DEF Unlock, TypeOK
<1> QED
  BY <1>1 DEF Unlock, Goto, Bookkeeping, TypeOK, usage, counts, limits

-----------------------------------------------------------------------------
(* Machines, limits and admission.                                           *)

LEMMA MachineSteps ==
  ASSUME IInv, NEW v \in VMs, CreateVM(v) \/ DeleteVM(v) \/ FreeVM(v)
  PROVE  IInv'
<1> USE DEF IInv
<1>1. TypeOK'
  <2>1. CASE CreateVM(v)
    BY <2>1 DEF CreateVM, TypeOK, usage, counts, limits
  <2>2. CASE DeleteVM(v)
    BY <2>2 DEF DeleteVM, TypeOK, usage
  <2>3. CASE FreeVM(v)
    BY <2>3 DEF FreeVM, TypeOK, Placed, limits
  <2> QED
    BY <2>1, <2>2, <2>3
<1>2. Placed'
  BY DEF CreateVM, DeleteVM, FreeVM, Placed, usage
<1>3. MinAllocationsCurrent'
  <2>1. CASE CreateVM(v)
    BY <2>1 DEF CreateVM, Placed, MinAllocationsCurrent, MinAllocation, MainMem, usage, limits
  <2>2. CASE DeleteVM(v)
    BY <2>2 DEF DeleteVM, MinAllocationsCurrent, MinAllocation, MainMem, usage
  <2>3. CASE FreeVM(v)
    <3> SUFFICES ASSUME NEW u \in listed \cap admitted, u # v
                 PROVE  minAllocation'[u] = MinAllocation(MainMem(u), nonpaged[u], minVmMemPct)'
      BY <2>3 DEF FreeVM, MinAllocationsCurrent
    <3>1. /\ minAllocation'[u] = minAllocation[u] /\ nonpaged'[u] = nonpaged[u]
          /\ MainMem(u)' = MainMem(u) /\ minVmMemPct' = minVmMemPct
      BY <2>3 DEF FreeVM, TypeOK, MainMem, limits
    <3> QED
      BY <3>1 DEF MinAllocationsCurrent, MinAllocation
  <2> QED
    BY <2>1, <2>2, <2>3
<1> QED
  BY <1>1, <1>2, <1>3

LEMMA LimitSteps ==
  ASSUME IInv, HostChanges \/ \E limit \in Limits : SetConfiguredLockedPagesLimit(limit)
  PROVE  IInv'
<1>1. TypeOK'
  BY SizesAssumption
     DEF IInv, TypeOK, HostChanges, SetConfiguredLockedPagesLimit, usage, counts
<1>2. UNCHANGED <<listed, freeing, usage, minVmMemPct>>
  BY DEF HostChanges, SetConfiguredLockedPagesLimit
<1> QED
  BY <1>1, <1>2, CountingSteps DEF IInv

\* An admission that fits gives every machine its minimum at the new percentage; one
\* that does not fit leaves the percentage, and does not admit the machine.
LEMMA AdmitStep ==
  ASSUME IInv, NEW v \in VMs, NEW size \in Nonpaged, NEW pct \in Percents,
         Admit(v, size, pct)
  PROVE  IInv'
<1> DEFINE fits == GlobalMinAllocation(pct) <= OverallLimit
<1>1. /\ size \in Nat /\ pct \in 0 .. 100 /\ MainMemSize \in Nat
  BY SizesAssumption
<1>2. /\ v \in listed
      /\ minVmMemPct' = IF fits THEN pct ELSE minVmMemPct
      /\ minAllocation' = MinAllocationsOf(fits, v, size, pct, pct)
      /\ admitted' \in {admitted \cup {v}, admitted \ {v}}
      /\ ~fits => admitted' = admitted \ {v}
      /\ asked' = asked \cup {v}
      /\ nonpaged' = [nonpaged EXCEPT ![v] = size]
      /\ UNCHANGED <<listed, freeing, counts, configured, host, pages, pc, op>>
  BY DEF Admit
<1> HIDE DEF fits
<1>3. \A u \in VMs : u # v =>
        /\ MainMem(u)' = MainMem(u)
        /\ nonpaged'[u] = nonpaged[u]
        /\ minAllocation'[u] = IF fits /\ u \in listed \cap admitted
                                 THEN MinAllocation(MainMem(u), nonpaged[u], pct)
                                 ELSE minAllocation[u]
  BY <1>2 DEF MainMem, MinAllocationsOf, IInv, TypeOK
<1>4. /\ MainMem(v)' = MainMemSize /\ nonpaged'[v] = size
      /\ minAllocation'[v] = MinAllocation(MainMemSize, size, pct)
  BY <1>2 DEF MainMem, MinAllocationsOf, IInv, TypeOK
<1>5. TypeOK'
  <2>1. minAllocation' \in [VMs -> Nat]
    <3>1. \A u \in VMs : minAllocation'[u] \in Nat
      <4> TAKE u \in VMs
      <4>1. nonpaged[u] \in Nat /\ minAllocation[u] \in Nat /\ MainMem(u) \in Nat
        BY MainMemType DEF IInv, TypeOK
      <4>2. MinAllocation(MainMem(u), nonpaged[u], pct) \in Nat
        BY <1>1, <4>1, MinAllocationType
      <4>3. MinAllocation(MainMemSize, size, pct) \in Nat
        BY <1>1, MinAllocationType
      <4>4. CASE u = v
        BY <1>4, <4>3, <4>4
      <4>5. CASE u # v
        BY <1>3, <4>1, <4>2, <4>5
      <4> QED
        BY <4>4, <4>5
    <3>2. minAllocation' = [u \in VMs |-> minAllocation'[u]]
      BY <1>2 DEF MinAllocationsOf
    <3> QED
      BY <3>1, <3>2
  <2>2. nonpaged' \in [VMs -> Nat] /\ minVmMemPct' \in 0 .. 100
    BY <1>1, <1>2 DEF IInv, TypeOK
  <2>3. admitted' \subseteq asked' /\ asked' \subseteq VMs
    BY <1>2 DEF IInv, TypeOK
  <2> QED
    BY <1>2, <2>1, <2>2, <2>3 DEF IInv, TypeOK, counts
<1>6. Placed'
  BY <1>2 DEF IInv, Placed
<1>7. MinAllocationsCurrent'
  <2> SUFFICES ASSUME NEW u \in VMs, u \in listed, u \in admitted'
               PROVE  minAllocation'[u] = MinAllocation(MainMem(u), nonpaged[u], minVmMemPct)'
    BY <1>2 DEF MinAllocationsCurrent, IInv, TypeOK
  <2>1. CASE u = v
    BY <1>2, <1>4, <2>1 DEF MinAllocation
  <2>2. CASE u # v
    <3>1. u \in admitted
      BY <1>2, <2>2
    <3>2. minAllocation[u] = MinAllocation(MainMem(u), nonpaged[u], minVmMemPct)
      BY <3>1 DEF IInv, MinAllocationsCurrent
    <3> QED
      BY <1>2, <1>3, <2>2, <3>1, <3>2 DEF MinAllocation
  <2> QED
    BY <2>1, <2>2
<1> QED
  BY <1>5, <1>6, <1>7 DEF IInv

LEMMA ReadmitStep ==
  ASSUME IInv, NEW v \in VMs, NEW size \in Nonpaged, NEW grows \in BOOLEAN,
         Readmit(v, size, grows)
  PROVE  IInv'
<1> DEFINE mine == MinAllocation(MainMem(v), size, minVmMemPct)
<1>1. mine \in Nat /\ size \in Nat
  BY SizesAssumption, MainMemType, MinAllocationType DEF IInv, TypeOK
<1>2. /\ minAllocation' = [minAllocation EXCEPT ![v] = mine]
      /\ nonpaged' = [nonpaged EXCEPT ![v] = size]
      /\ UNCHANGED <<listed, freeing, asked, admitted, counts, limits, pages, pc, op>>
  BY DEF Readmit
<1>3. \A u : MainMem(u)' = MainMem(u)
  BY <1>2 DEF MainMem
<1>4. TypeOK'
  BY <1>1, <1>2 DEF IInv, TypeOK, counts, limits
<1>5. Placed'
  BY <1>2 DEF IInv, Placed
<1>6. MinAllocationsCurrent'
  <2> SUFFICES ASSUME NEW u \in VMs, u \in listed \cap admitted
               PROVE  minAllocation'[u] = MinAllocation(MainMem(u), nonpaged[u], minVmMemPct)'
    BY <1>2 DEF MinAllocationsCurrent, IInv, TypeOK
  <2>1. minVmMemPct' = minVmMemPct
    BY <1>2 DEF limits
  <2>2. CASE u = v
    BY <1>2, <1>3, <2>1, <2>2 DEF MinAllocation, IInv, TypeOK
  <2>3. CASE u # v
    BY <1>2, <1>3, <2>1, <2>3 DEF MinAllocation, IInv, TypeOK, MinAllocationsCurrent
  <2> QED
    BY <2>2, <2>3
<1> QED
  BY <1>4, <1>5, <1>6 DEF IInv

-----------------------------------------------------------------------------
(* The theorems.                                                             *)

\* What a thread does is bookkeeping.
LEMMA BookkeepingKeeps ==
  ASSUME IInv, Bookkeeping
  PROVE  IInv'
<1>1. UNCHANGED <<listed, freeing, usage, minVmMemPct>>
  BY DEF Bookkeeping, limits
<1> QED
  BY <1>1, CountingSteps DEF Bookkeeping, IInv

LEMMA StepKeeps == IInv /\ [Next]_vars => IInv'
<1> SUFFICES ASSUME IInv, [Next]_vars PROVE IInv'
  OBVIOUS
<1>1. ASSUME NEW v \in VMs, CreateVM(v) \/ DeleteVM(v) \/ FreeVM(v) PROVE IInv'
  BY <1>1, MachineSteps
<1>2. CASE HostChanges \/ \E limit \in Limits : SetConfiguredLockedPagesLimit(limit)
  BY <1>2, LimitSteps
<1>3. ASSUME NEW v \in VMs, NEW size \in Nonpaged, NEW pct \in Percents, Admit(v, size, pct)
      PROVE  IInv'
  BY <1>3, AdmitStep
<1>4. ASSUME NEW v \in VMs, NEW size \in Nonpaged, NEW grows \in BOOLEAN,
             Readmit(v, size, grows)
      PROVE  IInv'
  BY <1>4, ReadmitStep
<1>5. ASSUME NEW t \in Threads, NEW v \in VMs, NEW n \in Batches,
             (\E ignoreLimits \in BOOLEAN : Lock(t, v, n, ignoreLimits)) \/ Unlock(t, v, n)
      PROVE  IInv'
  BY <1>5, LockTypes, UnlockTypes, BookkeepingKeeps DEF IInv
<1>6. ASSUME NEW t \in Threads, Going(t) PROVE IInv'
  BY <1>6, GoingTypes, BookkeepingKeeps DEF IInv
<1>7. CASE UNCHANGED vars
  <2>1. TypeOK'
    BY <1>7 DEF IInv, TypeOK, vars, usage, counts, limits
  <2>2. UNCHANGED <<listed, freeing, usage, minVmMemPct>>
    BY <1>7 DEF vars, limits
  <2> QED
    BY <2>1, <2>2, CountingSteps DEF IInv
<1> QED
  BY <1>1, <1>2, <1>3, <1>4, <1>5, <1>6, <1>7 DEF Next

\* The strengthened invariant of the admission code.
THEOREM Invariance == Spec => []IInv
BY InitEstablishes, StepKeeps, PTL DEF Spec

\* The variables keep their types, and no reservation is tried more often than allowed.
THEOREM TypeCorrect == Spec => []TypeOK
<1>1. IInv => TypeOK
  BY DEF IInv
<1> QED
  BY <1>1, Invariance, PTL

\* However many machines ask for whatever percentage, the minimum allocation of each
\* admitted one is that of the percentage in force.
THEOREM MinAllocationsCurrentHolds == Spec => []MinAllocationsCurrent
<1>1. IInv => MinAllocationsCurrent
  BY DEF IInv
<1> QED
  BY <1>1, Invariance, PTL

\* The configured limit is not lowered while a machine runs.
THEOREM LimitNotLoweredHolds == Spec => LimitNotLowered
<1>1. IInv /\ [Next]_vars => [configured' < configured => listed' = {}]_vars
  <2> SUFFICES ASSUME IInv, Next, configured' < configured PROVE listed' = {}
    OBVIOUS
  <2>1. configured \in Nat
    BY DEF IInv, TypeOK
  <2>2. configured' # configured
    BY <2>1
  <2>3. ASSUME NEW v \in VMs, DeleteVM(v) PROVE listed' = {}
    BY <2>2, <2>3 DEF DeleteVM
  <2>4. ASSUME NEW limit \in Limits, SetConfiguredLockedPagesLimit(limit) PROVE FALSE
    BY <2>1, <2>4, SizesAssumption DEF SetConfiguredLockedPagesLimit
  <2>5. ASSUME NEW t \in Threads, Going(t) PROVE FALSE
    BY <2>2, <2>5, GoingTypes DEF IInv, Bookkeeping, limits
  <2>6. ASSUME NEW t \in Threads, NEW v \in VMs, NEW n \in Batches,
               (\E ignoreLimits \in BOOLEAN : Lock(t, v, n, ignoreLimits)) \/ Unlock(t, v, n)
        PROVE  FALSE
    BY <2>2, <2>6 DEF Lock, Unlock, limits
  <2>7. ASSUME NEW v \in VMs, CreateVM(v) \/ FreeVM(v) PROVE FALSE
    BY <2>2, <2>7 DEF CreateVM, FreeVM, limits
  <2>8. ~HostChanges
    BY <2>2 DEF HostChanges
  <2>9. ASSUME NEW v \in VMs, NEW size \in Nonpaged, NEW pct \in Percents,
               Admit(v, size, pct)
        PROVE  FALSE
    BY <2>2, <2>9 DEF Admit
  <2>10. ASSUME NEW v \in VMs, NEW size \in Nonpaged, NEW grows \in BOOLEAN,
                Readmit(v, size, grows)
         PROVE  FALSE
    BY <2>2, <2>10 DEF Readmit, limits
  <2> QED
    BY <2>3, <2>4, <2>5, <2>6, <2>7, <2>8, <2>9, <2>10 DEF Next
<1> QED
  BY <1>1, Invariance, PTL DEF Spec, LimitNotLowered

-----------------------------------------------------------------------------
(* Sums of numbers of pages.                                                 *)

\* The pages a sum counts.
Pages(f, S) == UNION {{x} \X (1 .. f[x]) : x \in S}

\* There are finitely many of them, so the sum is their number.
LEMMA PagesFinite ==
  ASSUME NEW S, IsFiniteSet(S), NEW f, \A x \in S : f[x] \in Nat
  PROVE  IsFiniteSet(Pages(f, S)) /\ SumOf(f, S) \in Nat /\ SumOf(f, S) = Cardinality(Pages(f, S))
<1> DEFINE part == [x \in S |-> {x} \X (1 .. f[x])]
           T    == {{x} \X (1 .. f[x]) : x \in S}
<1>1. part \in Surjection(S, T)
  BY DEF Surjection
<1>2. IsFiniteSet(T) BY <1>1, FS_Surjection
<1>3. ASSUME NEW x \in S PROVE IsFiniteSet({x} \X (1 .. f[x]))
  <2>1. IsFiniteSet(1 .. f[x]) BY FS_Interval
  <2> QED BY <2>1, FS_Singleton, FS_Product
<1>4. \A U \in T : IsFiniteSet(U) BY <1>3
<1>5. IsFiniteSet(UNION T) BY <1>2, <1>4, FS_UNION
<1>6. Pages(f, S) = UNION T BY DEF Pages
<1>7. Cardinality(Pages(f, S)) \in Nat BY <1>5, <1>6, FS_CardinalityType
<1> QED BY <1>5, <1>6, <1>7 DEF SumOf, Pages

\* Nothing adds up to nothing.
LEMMA SumEmpty == ASSUME NEW f PROVE SumOf(f, {}) = 0
<1>1. UNION {{x} \X (1 .. f[x]) : x \in {}} = {} OBVIOUS
<1> QED BY <1>1, FS_EmptySet DEF SumOf

\* One more number is added ...
LEMMA SumAdd ==
  ASSUME NEW S, IsFiniteSet(S), NEW f, \A x \in S : f[x] \in Nat,
         NEW y, y \notin S, f[y] \in Nat
  PROVE  SumOf(f, S \cup {y}) = SumOf(f, S) + f[y]
<1> DEFINE A == Pages(f, S)
           B == {y} \X (1 .. f[y])
<1>1. IsFiniteSet(A) /\ SumOf(f, S) = Cardinality(A) /\ Cardinality(A) \in Nat
  BY PagesFinite
<1>2. IsFiniteSet(B) /\ Cardinality(B) = f[y]
  <2>1. IsFiniteSet(1 .. f[y]) /\ Cardinality(1 .. f[y]) = f[y] BY FS_Interval, SMTT(40)
  <2>2. IsFiniteSet({y}) /\ Cardinality({y}) = 1 BY FS_Singleton
  <2>3. IsFiniteSet(B) /\ Cardinality(B) = Cardinality({y}) * Cardinality(1 .. f[y])
    BY <2>1, <2>2, FS_Product
  <2>4. 1 * f[y] = f[y] OBVIOUS
  <2> QED BY <2>1, <2>2, <2>3, <2>4
<1>3. A \cap B = {} BY DEF Pages
<1>4. Pages(f, S \cup {y}) = A \cup B
  <2>1. {{x} \X (1 .. f[x]) : x \in S \cup {y}} = {{x} \X (1 .. f[x]) : x \in S} \cup {B}
    OBVIOUS
  <2> QED BY <2>1 DEF Pages
<1>5. Cardinality(A \cup B) = Cardinality(A) + Cardinality(B)
  <2>1. Cardinality(A \cup B) = Cardinality(A) + Cardinality(B) - Cardinality(A \cap B)
    BY <1>1, <1>2, FS_Union
  <2>2. Cardinality(A \cap B) = 0 BY <1>3, FS_EmptySet
  <2> HIDE DEF A, B
  <2> QED BY <1>1, <1>2, <2>1, <2>2
<1>6. SumOf(f, S \cup {y}) = Cardinality(Pages(f, S \cup {y})) BY DEF SumOf, Pages
<1> QED BY <1>1, <1>2, <1>4, <1>5, <1>6

\* The sum looks at the members only.
LEMMA SumSame ==
  ASSUME NEW S, NEW f, NEW g, \A x \in S : f[x] = g[x]
  PROVE  SumOf(f, S) = SumOf(g, S)
<1>1. {{x} \X (1 .. f[x]) : x \in S} = {{x} \X (1 .. g[x]) : x \in S} OBVIOUS
<1> QED BY <1>1 DEF SumOf

\* ... or taken away ...
LEMMA SumRemove ==
  ASSUME NEW S, IsFiniteSet(S), NEW f, \A x \in S : f[x] \in Nat, NEW y \in S
  PROVE  SumOf(f, S \ {y}) = SumOf(f, S) - f[y] /\ SumOf(f, S \ {y}) \in Nat
<1>1. IsFiniteSet(S \ {y}) BY FS_RemoveElement
<1>2. (S \ {y}) \cup {y} = S OBVIOUS
<1>3. SumOf(f, (S \ {y}) \cup {y}) = SumOf(f, S \ {y}) + f[y] BY <1>1, SumAdd
<1>4. SumOf(f, S \ {y}) \in Nat BY <1>1, PagesFinite
<1>5. SumOf(f, S) = SumOf(f, S \ {y}) + f[y] BY <1>2, <1>3
<1> QED BY <1>4, <1>5

\* ... or changed.
LEMMA SumChange ==
  ASSUME NEW S, IsFiniteSet(S), NEW f, NEW g, NEW y \in S,
         \A x \in S : f[x] \in Nat /\ g[x] \in Nat /\ (x # y => g[x] = f[x])
  PROVE  SumOf(g, S) = SumOf(f, S) - f[y] + g[y]
<1>1. SumOf(f, S \ {y}) = SumOf(f, S) - f[y] /\ SumOf(g, S \ {y}) = SumOf(g, S) - g[y]
  BY SumRemove
<1>2. SumOf(f, S \ {y}) = SumOf(g, S \ {y}) BY SumSame
<1>3. SumOf(f, S) \in Nat /\ SumOf(g, S) \in Nat BY PagesFinite
<1> QED BY <1>1, <1>2, <1>3

\* Fewer and smaller numbers do not add up to more.
LEMMA SumMonotone ==
  ASSUME NEW S, IsFiniteSet(S), NEW T \in SUBSET S, NEW f, NEW g,
         \A x \in S : g[x] \in Nat, \A x \in T : f[x] \in Nat /\ f[x] <= g[x]
  PROVE  SumOf(f, T) <= SumOf(g, S)
<1>1. IsFiniteSet(T) BY FS_Subset
<1>2. IsFiniteSet(Pages(g, S)) /\ SumOf(g, S) = Cardinality(Pages(g, S)) BY PagesFinite
<1>3. SumOf(f, T) = Cardinality(Pages(f, T)) BY <1>1, PagesFinite
<1>4. ASSUME NEW x \in T PROVE {x} \X (1 .. f[x]) \subseteq Pages(g, S)
  <2>1. \A n \in 1 .. f[x] : n \in 1 .. g[x] OBVIOUS
  <2> QED BY <2>1 DEF Pages
<1>5. Pages(f, T) \subseteq Pages(g, S) BY <1>4 DEF Pages
<1> QED BY <1>2, <1>3, <1>5, FS_Subset

\* Numbers of at most b each.
LEMMA SumBound ==
  ASSUME NEW S, IsFiniteSet(S), NEW f, NEW b \in Nat,
         \A x \in S : f[x] \in Nat /\ f[x] <= b
  PROVE  SumOf(f, S) <= Cardinality(S) * b
<1>1. SumOf(f, S) = Cardinality(Pages(f, S)) BY PagesFinite
<1>2. IsFiniteSet(1 .. b) /\ Cardinality(1 .. b) = b BY FS_Interval
<1>3. IsFiniteSet(S \X (1 .. b)) /\ Cardinality(S \X (1 .. b)) = Cardinality(S) * b
  BY <1>2, FS_Product
<1>4. ASSUME NEW x \in S PROVE {x} \X (1 .. f[x]) \subseteq S \X (1 .. b)
  <2>1. \A n \in 1 .. f[x] : n \in 1 .. b OBVIOUS
  <2> QED BY <2>1
<1>5. Pages(f, S) \subseteq S \X (1 .. b) BY <1>4 DEF Pages
<1> QED BY <1>1, <1>3, <1>5, FS_Subset

-----------------------------------------------------------------------------
(* The counts of locked pages.                                               *)

\* What the counts rest on: a machine is listed or being freed but not both, a
\* thread in an ioctl works for a listed one, and one that is neither has
\* nothing locked.
Registered ==
  /\ listed \cap freeing = {}
  /\ \A t \in Threads : pc[t] # "idle" => op[t].vm \in listed
  /\ \A v \in VMs \ (listed \cup freeing) : locked[v] = 0 /\ pages[v] = 0

CountsInv == Registered /\ LockedExact

\* The batches of pages are numbers, and the threads that wait are finitely many.
LEMMA PendingFacts ==
  ASSUME TypeOK, NEW v
  PROVE  /\ IsFiniteSet(PendingThreads(v)) /\ Pending(v) \in Nat
         /\ \A t \in Threads : [u \in Threads |-> op[u].num][t] = op[t].num /\ op[t].num \in Nat
<1>1. IsFiniteSet(PendingThreads(v))
  BY SizesAssumption, FS_Subset DEF PendingThreads
<1>2. \A t \in Threads : [u \in Threads |-> op[u].num][t] = op[t].num /\ op[t].num \in Nat
  BY DEF TypeOK
<1>3. \A t \in PendingThreads(v) : [u \in Threads |-> op[u].num][t] \in Nat
  BY <1>2 DEF PendingThreads
<1> QED BY <1>1, <1>2, <1>3, PagesFinite DEF Pending

\* ... before a step and after it.
LEMMA PendingNat ==
  ASSUME TypeOK', NEW v PROVE Pending(v)' \in Nat
<1>1. IsFiniteSet(PendingThreads(v)')
  BY SizesAssumption, FS_Subset DEF PendingThreads
<1>2. \A t \in PendingThreads(v)' : [u \in Threads |-> op'[u].num][t] \in Nat
  BY DEF TypeOK, PendingThreads
<1> QED BY <1>1, <1>2, PagesFinite DEF Pending

\* A step that leaves the pending threads of a machine and their batches alone.
LEMMA PendingSame ==
  ASSUME NEW v, PendingThreads(v)' = PendingThreads(v),
         \A t \in PendingThreads(v) : op'[t].num = op[t].num
  PROVE  Pending(v)' = Pending(v)
<1> DEFINE f == [t \in Threads |-> op[t].num]
           g == [t \in Threads |-> op'[t].num]
<1>1. \A t \in PendingThreads(v) : f[t] = g[t] BY DEF PendingThreads
<1>2. SumOf(f, PendingThreads(v)) = SumOf(g, PendingThreads(v)) BY <1>1, SumSame
<1> QED BY <1>2 DEF Pending

\* Thread t begins to wait with a batch ...
LEMMA PendingEnter ==
  ASSUME TypeOK, TypeOK', NEW v, NEW t \in Threads, t \notin PendingThreads(v),
         PendingThreads(v)' = PendingThreads(v) \cup {t},
         \A u \in PendingThreads(v) : op'[u].num = op[u].num
  PROVE  Pending(v)' = Pending(v) + op'[t].num
<1> DEFINE S == PendingThreads(v)
           f == [u \in Threads |-> op[u].num]
           g == [u \in Threads |-> op'[u].num]
<1>1. IsFiniteSet(S) BY PendingFacts
<1>2. \A u \in Threads : f[u] \in Nat /\ g[u] \in Nat /\ f[u] = op[u].num /\ g[u] = op'[u].num
  BY DEF TypeOK
<1>3. S \subseteq Threads BY DEF PendingThreads
<1>4. SumOf(g, S \cup {t}) = SumOf(g, S) + g[t] BY <1>1, <1>2, <1>3, SumAdd
<1>5. SumOf(g, S) = SumOf(f, S) BY <1>2, <1>3, SumSame
<1> QED BY <1>2, <1>4, <1>5 DEF Pending

\* ... has its batch made smaller ...
LEMMA PendingShrink ==
  ASSUME TypeOK, TypeOK', NEW v, NEW t \in PendingThreads(v),
         PendingThreads(v)' = PendingThreads(v),
         \A u \in PendingThreads(v) \ {t} : op'[u].num = op[u].num
  PROVE  Pending(v)' = Pending(v) - op[t].num + op'[t].num
<1> DEFINE S == PendingThreads(v)
           f == [u \in Threads |-> op[u].num]
           g == [u \in Threads |-> op'[u].num]
<1>1. IsFiniteSet(S) BY PendingFacts
<1>2. \A u \in Threads : f[u] \in Nat /\ g[u] \in Nat /\ f[u] = op[u].num /\ g[u] = op'[u].num
  BY DEF TypeOK
<1>3. S \subseteq Threads BY DEF PendingThreads
<1>4. SumOf(g, S) = SumOf(f, S) - f[t] + g[t] BY <1>1, <1>2, <1>3, SumChange
<1> QED BY <1>2, <1>3, <1>4 DEF Pending

\* ... or waits no more.
LEMMA PendingLeave ==
  ASSUME TypeOK, TypeOK', NEW v, NEW t \in PendingThreads(v),
         PendingThreads(v)' = PendingThreads(v) \ {t},
         \A u \in PendingThreads(v) \ {t} : op'[u].num = op[u].num
  PROVE  Pending(v)' = Pending(v) - op[t].num
<1> DEFINE S == PendingThreads(v)
           f == [u \in Threads |-> op[u].num]
           g == [u \in Threads |-> op'[u].num]
<1>1. IsFiniteSet(S) BY PendingFacts
<1>2. \A u \in Threads : f[u] \in Nat /\ g[u] \in Nat /\ f[u] = op[u].num /\ g[u] = op'[u].num
  BY DEF TypeOK
<1>3. S \subseteq Threads BY DEF PendingThreads
<1>4. SumOf(f, S \ {t}) = SumOf(f, S) - f[t] BY <1>1, <1>2, <1>3, SumRemove
<1>5. SumOf(g, S \ {t}) = SumOf(f, S \ {t}) BY <1>2, <1>3, SumSame
<1> QED BY <1>2, <1>3, <1>4, <1>5 DEF Pending

\* The counts of the listed machines are numbers, and finitely many.
LEMMA ListedFacts ==
  ASSUME TypeOK, LockedBacked
  PROVE  IsFiniteSet(listed) /\ \A v \in listed : v \in VMs /\ locked[v] \in Nat
<1>1. IsFiniteSet(listed) BY SizesAssumption, FS_Subset DEF TypeOK
<1>2. \A v \in listed : v \in VMs /\ pages[v] \in Nat BY DEF TypeOK
<1> QED BY <1>1, <1>2, PendingFacts DEF LockedBacked

\* A step that changes neither what is counted nor who waits for it.
LEMMA CountsSame ==
  ASSUME TypeOK, CountsInv, UNCHANGED <<listed, freeing, counts, pages, pc, op>>
  PROVE  CountsInv'
<1>1. \A v : Pending(v)' = Pending(v)
  BY DEF Pending, PendingThreads
<1> QED BY <1>1 DEF CountsInv, Registered, LockedExact, LockedSum, LockedBacked, counts

\* A machine comes with nothing locked and nobody working for it, and goes with
\* all it has locked.
LEMMA MachineCounts ==
  ASSUME TypeOK, CountsInv, NEW v \in VMs, CreateVM(v) \/ DeleteVM(v) \/ FreeVM(v)
  PROVE  CountsInv'
<1> USE DEF CountsInv, LockedExact
<1>0. \A u : Pending(u)' = Pending(u)
  BY DEF Pending, PendingThreads, CreateVM, DeleteVM, FreeVM
<1>1. IsFiniteSet(listed) /\ \A u \in listed : u \in VMs /\ locked[u] \in Nat
  BY ListedFacts
<1>2. CASE CreateVM(v)
  <2>1. /\ v \notin listed /\ v \notin freeing /\ listed' = listed \cup {v}
        /\ UNCHANGED <<freeing, locked, numLockedPages, pages, pc, op>>
    BY <1>2 DEF CreateVM, counts
  <2>2. locked[v] = 0 /\ pages[v] = 0 BY <2>1 DEF Registered
  <2>3. PendingThreads(v) = {} BY <2>1 DEF PendingThreads, Registered
  <2>4. Pending(v) = 0 BY <2>3, SumEmpty DEF Pending
  <2>5. SumOf(locked, listed \cup {v}) = SumOf(locked, listed) + locked[v]
    BY <1>1, <2>1, <2>2, SumAdd
  <2>6. SumOf(locked, listed) \in Nat BY <1>1, PagesFinite
  <2>7. LockedSum' BY <2>1, <2>2, <2>5, <2>6 DEF LockedSum
  <2>8. LockedBacked' BY <1>0, <2>1, <2>2, <2>4 DEF LockedBacked
  <2>9. Registered' BY <2>1 DEF Registered
  <2> QED BY <2>7, <2>8, <2>9
<1>3. CASE DeleteVM(v)
  <2>1. /\ v \in listed /\ listed' = listed \ {v} /\ freeing' = freeing \cup {v}
        /\ numLockedPages' = numLockedPages - locked[v]
        /\ UNCHANGED <<locked, pages, pc, op>>
    BY <1>3 DEF DeleteVM
  <2>2. SumOf(locked, listed \ {v}) = SumOf(locked, listed) - locked[v]
    BY <1>1, <2>1, SumRemove
  <2>3. LockedSum' BY <2>1, <2>2 DEF LockedSum
  <2>4. LockedBacked' BY <1>0, <2>1 DEF LockedBacked
  <2>5. Registered' BY <1>3, <2>1 DEF Registered, DeleteVM, Quiet
  <2> QED BY <2>3, <2>4, <2>5
<1>4. CASE FreeVM(v)
  <2>1. /\ v \in freeing /\ freeing' = freeing \ {v} /\ v \notin listed
        /\ locked' = [locked EXCEPT ![v] = 0] /\ pages' = [pages EXCEPT ![v] = 0]
        /\ UNCHANGED <<listed, numLockedPages, pc, op>>
    BY <1>4 DEF FreeVM, Registered
  <2>2. /\ \A u \in VMs \ {v} : locked'[u] = locked[u] /\ pages'[u] = pages[u]
        /\ locked'[v] = 0 /\ pages'[v] = 0
    BY <2>1 DEF TypeOK
  <2>3. SumOf(locked', listed) = SumOf(locked, listed) BY <1>1, <2>1, <2>2, SumSame
  <2>4. LockedSum' BY <2>1, <2>3 DEF LockedSum
  <2>5. LockedBacked' BY <1>0, <1>1, <2>1, <2>2 DEF LockedBacked
  <2>6. Registered' BY <2>1, <2>2 DEF Registered
  <2> QED BY <2>4, <2>5, <2>6
<1> QED BY <1>2, <1>3, <1>4

\* n more pages are locked for the listed machine v, or -n fewer, and its
\* pages and pending batches account for them.
LEMMA ReservedCounts ==
  ASSUME TypeOK, TypeOK', CountsInv, NEW v \in listed, NEW n \in Int, Reserved(v, n),
         UNCHANGED <<listed, freeing>>,
         pages'[v] + Pending(v)' = pages[v] + Pending(v) + n,
         \A u \in listed \ {v} : pages'[u] + Pending(u)' = pages[u] + Pending(u)
  PROVE  LockedExact'
<1> USE DEF CountsInv, LockedExact
<1>1. IsFiniteSet(listed) /\ \A u \in listed : u \in VMs /\ locked[u] \in Nat
  BY ListedFacts
<1>2. /\ locked' = [locked EXCEPT ![v] = locked[v] + n] /\ numLockedPages' = numLockedPages + n
      /\ locked'[v] = locked[v] + n
      /\ \A u \in VMs \ {v} : locked'[u] = locked[u]
  BY <1>1 DEF Reserved, TypeOK
<1>3. \A u \in listed : /\ pages[u] \in Nat /\ Pending(u) \in Nat
                        /\ pages'[u] \in Nat /\ Pending(u)' \in Nat
  BY <1>1, PendingFacts, PendingNat DEF TypeOK
<1>4. LockedBacked'
  BY <1>1, <1>2, <1>3 DEF LockedBacked
<1>5. \A u \in listed : locked'[u] \in Nat
  BY <1>3, <1>4 DEF LockedBacked
<1>6. SumOf(locked', listed) = SumOf(locked, listed) - locked[v] + locked'[v]
  <2>1. \A u \in listed : /\ locked[u] \in Nat /\ locked'[u] \in Nat
                          /\ (u # v => locked'[u] = locked[u])
    BY <1>1, <1>2, <1>5
  <2> QED BY <1>1, <2>1, SumChange
<1>7. SumOf(locked, listed) \in Nat BY <1>1, PagesFinite
<1>8. LockedSum' BY <1>1, <1>2, <1>6, <1>7 DEF LockedSum
<1> QED BY <1>4, <1>8

\* A step of thread t leaves the others alone, and t works for one machine.
Only(t) ==
  /\ UNCHANGED <<listed, freeing>>
  /\ \A u \in Threads \ {t} : pc'[u] = pc[u] /\ op'[u] = op[u]

Waits(t)  == pc[t] \in {"host", "unreserve"}

\* The batches of the machines that t does not work for are those of before.
LEMMA OthersPending ==
  ASSUME NEW t \in Threads, Only(t), NEW u,
         Waits(t) => op[t].vm # u, Waits(t)' => op'[t].vm # u
  PROVE  Pending(u)' = Pending(u) /\ PendingThreads(u)' = PendingThreads(u)
<1>1. PendingThreads(u)' = PendingThreads(u)
  BY DEF PendingThreads, Only, Waits
<1>2. \A w \in PendingThreads(u) : op'[w].num = op[w].num
  BY DEF PendingThreads, Only, Waits
<1> QED BY <1>1, <1>2, PendingSame

\* A step that counts nothing: t does not wait for the host, before or after.
LEMMA IdleStep ==
  ASSUME TypeOK, TypeOK', CountsInv, NEW t \in Threads, Only(t), UNCHANGED <<counts, pages>>,
         ~Waits(t), ~Waits(t)', pc'[t] # "idle" => op'[t].vm \in listed
  PROVE  CountsInv'
<1>1. \A u : Pending(u)' = Pending(u) BY OthersPending
<1>2. LockedExact'
  BY <1>1 DEF Only, CountsInv, LockedExact, LockedSum, LockedBacked, counts
<1>3. Registered' BY DEF Only, CountsInv, Registered, counts
<1> QED BY <1>2, <1>3 DEF CountsInv

\* The threads that wait for v once t begins to, or stops to.
LEMMA WaitingThreads ==
  ASSUME NEW t \in Threads, Only(t), NEW v
  PROVE  /\ (~Waits(t) /\ Waits(t)' /\ op'[t].vm = v)
              => t \notin PendingThreads(v) /\ PendingThreads(v)' = PendingThreads(v) \cup {t}
         /\ (Waits(t) /\ op[t].vm = v /\ ~Waits(t)')
              => t \in PendingThreads(v) /\ PendingThreads(v)' = PendingThreads(v) \ {t}
         /\ (Waits(t) /\ op[t].vm = v /\ Waits(t)' /\ op'[t].vm = v)
              => t \in PendingThreads(v) /\ PendingThreads(v)' = PendingThreads(v)
         /\ \A u \in PendingThreads(v) \ {t} : op'[u].num = op[u].num
BY DEF PendingThreads, Only, Waits

\* Taking a reservation: the batch is locked, and waits for the host.
LEMMA TakeStep ==
  ASSUME TypeOK, TypeOK', CountsInv, NEW t \in Threads, pc[t] \in {"reserve", "force"},
         Reserved(op[t].vm, op[t].num), Goto(t, "host"),
         UNCHANGED <<listed, freeing, pages, op>>
  PROVE  CountsInv'
<1>0. PICK v \in listed, n \in Nat : v = op[t].vm /\ n = op[t].num
  BY DEF CountsInv, Registered, TypeOK
<1>1. v \in listed /\ n \in Nat /\ Reserved(v, n) BY <1>0
<1>2. Only(t) /\ ~Waits(t) /\ Waits(t)' /\ op'[t] = op[t] /\ pc'[t] = "host"
  BY DEF Only, Waits, Goto, TypeOK
<1>3. Pending(v)' = Pending(v) + n
  <2>1. t \notin PendingThreads(v) /\ PendingThreads(v)' = PendingThreads(v) \cup {t}
        /\ \A u \in PendingThreads(v) \ {t} : op'[u].num = op[u].num
    BY <1>0, <1>2, WaitingThreads
  <2> QED BY <1>0, <1>2, <2>1, PendingEnter
<1>4. \A u \in listed \ {v} : pages'[u] + Pending(u)' = pages[u] + Pending(u)
  BY <1>0, <1>2, OthersPending
<1>5. pages'[v] + Pending(v)' = pages[v] + Pending(v) + n
  <2>1. pages[v] \in Nat /\ Pending(v) \in Nat BY <1>1, PendingFacts DEF TypeOK
  <2> QED BY <1>1, <1>3, <2>1
<1>6. LockedExact'
  BY <1>1, <1>4, <1>5, ReservedCounts
<1>7. Registered'
  <2>1. /\ locked' = [locked EXCEPT ![v] = locked[v] + n] BY <1>1 DEF Reserved
  <2> QED BY <1>0, <1>1, <1>2, <2>1 DEF Only, CountsInv, Registered, TypeOK
<1> QED BY <1>6, <1>7 DEF CountsInv

\* The host has locked part of the batch, and the rest is to be given back.
LEMMA GetStep ==
  ASSUME TypeOK, TypeOK', CountsInv, NEW t \in Threads, NEW got \in 0 .. op[t].num, Get(t, got)
  PROVE  CountsInv'
<1>0. PICK v \in listed, n \in Nat :
        v = op[t].vm /\ n = op[t].num /\ pc[t] = "host" /\ UNCHANGED <<listed, freeing, counts>>
  BY DEF Get, CountsInv, Registered, TypeOK
<1>1. v \in listed /\ v \in VMs /\ n \in Nat /\ got \in Nat /\ got <= n
  BY <1>0 DEF TypeOK
<1>2. /\ Only(t) /\ Waits(t)
      /\ pages'[v] = pages[v] + got /\ \A u \in VMs \ {v} : pages'[u] = pages[u]
  BY <1>0, <1>1 DEF Only, Waits, Get, Goto, End, TypeOK
<1>3. Pending(v)' = Pending(v) - got
  <2>1. CASE got < n
    <3>1. Waits(t)' /\ op'[t].vm = v /\ op'[t].num = n - got
      BY <1>0, <1>1, <2>1 DEF Waits, Get, Goto, TypeOK
    <3>2. t \in PendingThreads(v) /\ PendingThreads(v)' = PendingThreads(v)
          /\ \A u \in PendingThreads(v) \ {t} : op'[u].num = op[u].num
      BY <1>0, <1>2, <3>1, WaitingThreads
    <3>3. Pending(v)' = Pending(v) - n + op'[t].num BY <1>0, <3>2, PendingShrink
    <3>4. Pending(v) \in Nat BY PendingFacts
    <3> QED BY <1>1, <3>1, <3>3, <3>4
  <2>2. CASE ~(got < n)
    <3>1. ~Waits(t)' BY <1>0, <2>2 DEF Waits, Get, End, Goto, TypeOK
    <3>2. t \in PendingThreads(v) /\ PendingThreads(v)' = PendingThreads(v) \ {t}
          /\ \A u \in PendingThreads(v) \ {t} : op'[u].num = op[u].num
      BY <1>0, <1>2, <3>1, WaitingThreads
    <3>3. Pending(v)' = Pending(v) - n BY <1>0, <3>2, PendingLeave
    <3> QED BY <1>1, <2>2, <3>3
  <2> QED BY <2>1, <2>2
<1>4. \A u \in listed \ {v} : Pending(u)' = Pending(u)
  <2>1. ASSUME NEW u, u # v PROVE Pending(u)' = Pending(u)
    <3>1. Waits(t)' => op'[t].vm = v
      BY <1>0, <1>1 DEF Waits, Get, Goto, End, TypeOK
    <3> QED BY <1>0, <1>2, <2>1, <3>1, OthersPending
  <2> QED BY <2>1
<1>5. LockedBacked'
  <2> SUFFICES ASSUME NEW u \in listed PROVE locked[u] = pages'[u] + Pending(u)'
    BY <1>0 DEF LockedBacked, counts
  <2>1. locked[u] = pages[u] + Pending(u) /\ u \in VMs /\ pages[u] \in Nat /\ Pending(u) \in Nat
    BY PendingFacts DEF CountsInv, LockedExact, LockedBacked, TypeOK
  <2>2. CASE u = v BY <1>1, <1>2, <1>3, <2>1, <2>2
  <2>3. CASE u # v BY <1>2, <1>4, <2>1, <2>3
  <2> QED BY <2>2, <2>3
<1>6. LockedSum' BY <1>0 DEF CountsInv, LockedExact, LockedSum, counts
<1>7. Registered'
  <2>1. pc'[t] # "idle" => op'[t].vm = v
    BY <1>0, <1>1 DEF Get, Goto, End, TypeOK
  <2> QED BY <1>0, <1>1, <1>2, <2>1 DEF Only, CountsInv, Registered, TypeOK, counts
<1> QED BY <1>5, <1>6, <1>7 DEF CountsInv, LockedExact

\* Pages given up by the host wait to be given back.
LEMMA UnlockStep ==
  ASSUME TypeOK, TypeOK', CountsInv, NEW t \in Threads, NEW v \in VMs, NEW n \in Batches,
         Unlock(t, v, n)
  PROVE  CountsInv'
<1>0. pc[t] = "idle" /\ v \in listed /\ n \in Nat /\ UNCHANGED <<listed, freeing, counts>>
  BY SizesAssumption DEF Unlock
<1>1. /\ Only(t) /\ ~Waits(t) /\ Waits(t)' /\ op'[t].vm = v /\ op'[t].num = n
      /\ pages'[v] = pages[v] - n /\ \A u \in VMs \ {v} : pages'[u] = pages[u]
  BY <1>0 DEF Only, Waits, Unlock, Goto, TypeOK
<1>2. Pending(v)' = Pending(v) + n
  <2>1. t \notin PendingThreads(v) /\ PendingThreads(v)' = PendingThreads(v) \cup {t}
        /\ \A u \in PendingThreads(v) \ {t} : op'[u].num = op[u].num
    BY <1>1, WaitingThreads
  <2> QED BY <1>1, <2>1, PendingEnter
<1>3. \A u \in listed \ {v} : Pending(u)' = Pending(u)
  <2>1. ASSUME NEW u, u # v PROVE Pending(u)' = Pending(u) BY <1>1, <2>1, OthersPending
  <2> QED BY <2>1
<1>4. LockedBacked'
  <2> SUFFICES ASSUME NEW u \in listed PROVE locked[u] = pages'[u] + Pending(u)'
    BY <1>0 DEF LockedBacked, counts
  <2>1. locked[u] = pages[u] + Pending(u) /\ u \in VMs /\ pages[u] \in Nat /\ Pending(u) \in Nat
    BY PendingFacts DEF CountsInv, LockedExact, LockedBacked, TypeOK
  <2>2. CASE u = v BY <1>0, <1>1, <1>2, <2>1, <2>2
  <2>3. CASE u # v BY <1>1, <1>3, <2>1, <2>3
  <2> QED BY <2>2, <2>3
<1>5. LockedSum' BY <1>0 DEF CountsInv, LockedExact, LockedSum, counts
<1>6. Registered'
  BY <1>0, <1>1 DEF Only, CountsInv, Registered, TypeOK, counts
<1> QED BY <1>4, <1>5, <1>6 DEF CountsInv, LockedExact

\* What was given up, or not got, is no longer counted.
LEMMA UnreserveStep ==
  ASSUME TypeOK, TypeOK', CountsInv, NEW t \in Threads, UnreserveFreePages(t)
  PROVE  CountsInv'
<1>0. PICK v \in listed, n \in Nat :
        /\ v = op[t].vm /\ n = op[t].num
        /\ pc[t] = "unreserve" /\ UNCHANGED <<listed, freeing, pages>> /\ Reserved(v, -n)
  BY DEF UnreserveFreePages, CountsInv, Registered, TypeOK
<1>1. v \in VMs /\ -n \in Int
  BY DEF TypeOK
<1>2. Only(t) /\ Waits(t) /\ ~Waits(t)' /\ pc'[t] = "idle"
  BY <1>0 DEF Only, Waits, UnreserveFreePages, Goto, End, TypeOK
<1>3. Pending(v)' = Pending(v) - n
  <2>1. t \in PendingThreads(v) /\ PendingThreads(v)' = PendingThreads(v) \ {t}
        /\ \A u \in PendingThreads(v) \ {t} : op'[u].num = op[u].num
    BY <1>0, <1>2, WaitingThreads
  <2> QED BY <1>0, <2>1, PendingLeave
<1>4. \A u \in listed \ {v} : pages'[u] + Pending(u)' = pages[u] + Pending(u)
  BY <1>0, <1>2, OthersPending
<1>5. pages'[v] + Pending(v)' = pages[v] + Pending(v) + (-n)
  <2>1. pages[v] \in Nat /\ Pending(v) \in Nat BY <1>1, PendingFacts DEF TypeOK
  <2> QED BY <1>0, <1>1, <1>3, <2>1
<1>6. LockedExact'
  BY <1>0, <1>1, <1>4, <1>5, ReservedCounts
<1>7. Registered'
  <2>1. locked' = [locked EXCEPT ![v] = locked[v] + (-n)] BY <1>0 DEF Reserved
  <2> QED BY <1>0, <1>1, <1>2, <2>1 DEF Only, CountsInv, Registered, TypeOK
<1> QED BY <1>6, <1>7 DEF CountsInv

\* A turn of the reservation: it succeeds, or counts nothing.
LEMMA ReserveStep ==
  ASSUME TypeOK, TypeOK', CountsInv, NEW t \in Threads, Reserve(t)
  PROVE  CountsInv'
<1>0. pc[t] = "reserve" /\ op[t].vm \in listed /\ UNCHANGED <<listed, freeing, pages>>
  BY DEF Reserve, CountsInv, Registered
<1>1. CASE Reserved(op[t].vm, op[t].num) /\ Goto(t, "host") /\ UNCHANGED op
  BY <1>0, <1>1, TakeStep
<1>2. CASE Denied(t) /\ UNCHANGED counts
  <2>1. /\ Only(t) /\ ~Waits(t) /\ ~Waits(t)'
        /\ pc'[t] # "idle" => op'[t].vm = op[t].vm
    BY <1>0, <1>2 DEF Only, Waits, Denied, End, Goto, TypeOK
  <2> QED BY <1>0, <1>2, <2>1, IdleStep
<1>3. CASE op' = [op EXCEPT ![t].retries = op[t].retries - 1] /\ UNCHANGED <<pc, counts>>
  <2>1. Only(t) /\ ~Waits(t) /\ ~Waits(t)' /\ op'[t].vm = op[t].vm
    BY <1>0, <1>3 DEF Only, Waits, TypeOK
  <2> QED BY <1>0, <1>3, <2>1, IdleStep
<1> QED BY <1>1, <1>2, <1>3 DEF Reserve

\* A request for pages counts nothing yet.
LEMMA LockStep ==
  ASSUME TypeOK, TypeOK', CountsInv, NEW t \in Threads, NEW v \in VMs, NEW n \in Batches,
         NEW ignoreLimits \in BOOLEAN, Lock(t, v, n, ignoreLimits)
  PROVE  CountsInv'
<1>1. /\ Only(t) /\ ~Waits(t) /\ ~Waits(t)' /\ op'[t].vm = v /\ v \in listed
      /\ UNCHANGED <<counts, pages>>
  BY DEF Only, Waits, Lock, Goto, TypeOK
<1> QED BY <1>1, IdleStep

\* At the start nothing is locked, and no machine exists.
LEMMA CountsInit == Init => CountsInv
<1> SUFFICES ASSUME Init PROVE CountsInv
  OBVIOUS
<1>1. SumOf(locked, listed) = 0
  BY SumEmpty DEF Init
<1> QED
  BY <1>1 DEF Init, NoOp, CountsInv, Registered, LockedExact, LockedSum, LockedBacked

\* Every step keeps the counts exact.
LEMMA CountsStep ==
  ASSUME IInv, IInv', CountsInv, [Next]_vars
  PROVE  CountsInv'
<1> USE DEF IInv
<1>1. ASSUME NEW v \in VMs, CreateVM(v) \/ DeleteVM(v) \/ FreeVM(v) PROVE CountsInv'
  BY <1>1, MachineCounts
<1>2. CASE HostChanges \/ \E limit \in Limits : SetConfiguredLockedPagesLimit(limit)
  BY <1>2, CountsSame DEF HostChanges, SetConfiguredLockedPagesLimit
<1>3. ASSUME NEW v \in VMs, NEW size \in Nonpaged, NEW pct \in Percents, Admit(v, size, pct)
      PROVE  CountsInv'
  BY <1>3, CountsSame DEF Admit
<1>4. ASSUME NEW v \in VMs, NEW size \in Nonpaged, NEW grows \in BOOLEAN,
             Readmit(v, size, grows)
      PROVE  CountsInv'
  BY <1>4, CountsSame DEF Readmit
<1>5. ASSUME NEW t \in Threads, NEW v \in VMs, NEW n \in Batches, NEW ignoreLimits \in BOOLEAN,
             Lock(t, v, n, ignoreLimits)
      PROVE  CountsInv'
  BY <1>5, LockStep
<1>6. ASSUME NEW t \in Threads, NEW v \in VMs, NEW n \in Batches, Unlock(t, v, n)
      PROVE  CountsInv'
  BY <1>6, UnlockStep
<1>7. ASSUME NEW t \in Threads, Going(t) PROVE CountsInv'
  <2>1. CASE Reserve(t) BY <2>1, ReserveStep
  <2>2. CASE ReserveAnyway(t) BY <2>2, TakeStep DEF ReserveAnyway
  <2>3. CASE UnreserveFreePages(t) BY <2>3, UnreserveStep
  <2>4. ASSUME NEW got \in 0 .. op[t].num, Get(t, got) PROVE CountsInv'
    BY <2>4, GetStep
  <2> QED BY <1>7, <2>1, <2>2, <2>3, <2>4 DEF Going
<1>8. CASE UNCHANGED vars
  BY <1>8, CountsSame DEF vars
<1> QED
  BY <1>1, <1>2, <1>3, <1>4, <1>5, <1>6, <1>7, <1>8 DEF Next

\* The invariant the counts rest on.
THEOREM CountsInvariance == Spec => []CountsInv
<1>1. IInv /\ IInv' /\ CountsInv /\ [Next]_vars => CountsInv'
  BY CountsStep
<1> QED
  BY <1>1, CountsInit, Invariance, PTL DEF Spec

\* Whatever the interleaving of the threads, and however much of a batch the host
\* gets, what each machine is charged for is what the host holds for it and what its
\* threads have under way, and the number of all locked pages is their sum.
THEOREM LockedExactHolds == Spec => []LockedExact
<1>1. CountsInv => LockedExact
  BY DEF CountsInv
<1> QED
  BY <1>1, CountsInvariance, PTL

-----------------------------------------------------------------------------
(* The minimum allocations fit.                                              *)

\* PageCnt holds the sum of the largest minimum allocations of MAX_VMS machines.
NoWrap ==
  \E largest \in Nat : /\ \A size \in Nonpaged \cup {0} : MainMemSize + size <= largest
                       /\ MAX_VMS * largest < PageCntSize

\* No more machines than MAX_VMS, of the sizes that are asked for.
Bounded ==
  /\ Cardinality(listed) <= MAX_VMS
  /\ \A v \in VMs : nonpaged[v] \in Nonpaged \cup {0}

\* What leaves machines and sizes alone.
LEMMA ThreadsBounded ==
  ASSUME Bounded, UNCHANGED <<listed, nonpaged>>
  PROVE  Bounded'
BY DEF Bounded

\* Every step stays within them.
LEMMA BoundedStep ==
  ASSUME IInv, Bounded, [Next]_vars
  PROVE  Bounded'
<1> USE DEF IInv
<1>0. IsFiniteSet(listed) /\ Cardinality(listed) \in Nat
  BY SizesAssumption, FS_Subset, FS_CardinalityType DEF TypeOK
<1>1. ASSUME NEW v \in VMs, CreateVM(v) PROVE Bounded'
  <2>1. /\ v \notin listed /\ Cardinality(listed) < MAX_VMS /\ listed' = listed \cup {v}
        /\ UNCHANGED nonpaged
    BY <1>1 DEF CreateVM, usage
  <2>2. Cardinality(listed \cup {v}) = Cardinality(listed) + 1
    BY <1>0, <2>1, FS_AddElement
  <2> QED
    BY <1>0, <2>1, <2>2, SizesAssumption DEF Bounded
<1>2. ASSUME NEW v \in VMs, DeleteVM(v) PROVE Bounded'
  <2>1. listed' = listed \ {v} /\ UNCHANGED nonpaged
    BY <1>2 DEF DeleteVM, usage
  <2>2. Cardinality(listed \ {v}) <= Cardinality(listed) /\ Cardinality(listed \ {v}) \in Nat
    BY <1>0, FS_Subset, FS_CardinalityType
  <2> QED
    BY <1>0, <2>1, <2>2, SizesAssumption DEF Bounded
<1>3. ASSUME NEW v \in VMs, FreeVM(v) PROVE Bounded'
  BY <1>3 DEF FreeVM, Bounded, TypeOK
<1>4. CASE HostChanges \/ \E limit \in Limits : SetConfiguredLockedPagesLimit(limit)
  BY <1>4, ThreadsBounded DEF HostChanges, SetConfiguredLockedPagesLimit, usage
<1>5. ASSUME NEW v \in VMs, NEW size \in Nonpaged, NEW pct \in Percents, Admit(v, size, pct)
      PROVE  Bounded'
  BY <1>5 DEF Admit, Bounded, TypeOK
<1>6. ASSUME NEW v \in VMs, NEW size \in Nonpaged, NEW grows \in BOOLEAN,
             Readmit(v, size, grows)
      PROVE  Bounded'
  BY <1>6 DEF Readmit, Bounded, TypeOK
<1>7. ASSUME NEW t \in Threads, NEW v \in VMs, NEW n \in Batches,
             (\E ignoreLimits \in BOOLEAN : Lock(t, v, n, ignoreLimits)) \/ Unlock(t, v, n)
      PROVE  Bounded'
  BY <1>7, ThreadsBounded DEF Lock, Unlock, usage
<1>8. ASSUME NEW t \in Threads, Going(t) PROVE Bounded'
  BY <1>8, GoingTypes, ThreadsBounded DEF Bookkeeping, usage
<1>9. CASE UNCHANGED vars
  BY <1>9, ThreadsBounded DEF vars, usage
<1> QED
  BY <1>1, <1>2, <1>3, <1>4, <1>5, <1>6, <1>7, <1>8, <1>9 DEF Next

\* There are never more machines than MAX_VMS, nor larger ones than are asked for.
THEOREM BoundedInvariance == Spec => []Bounded
<1>1. Init => Bounded
  BY SizesAssumption, FS_EmptySet DEF Init, Bounded
<1>2. IInv /\ Bounded /\ [Next]_vars => Bounded'
  BY BoundedStep
<1> QED
  BY <1>1, <1>2, Invariance, PTL DEF Spec

\* A minimum allocation is never more than all of the memory.
LEMMA MinAllocationMost ==
  ASSUME NEW mainMem \in Nat, NEW size \in Nat, NEW pct \in 0 .. 100
  PROVE  MinAllocation(mainMem, size, pct) <= mainMem + size
<1>1. pct * mainMem <= 100 * mainMem /\ pct * mainMem \in Nat
  <2>1. (100 - pct) * mainMem >= 0 /\ (100 - pct) * mainMem = 100 * mainMem - pct * mainMem
    OBVIOUS
  <2>2. pct * mainMem \in Nat
    OBVIOUS
  <2> QED
    BY <2>1, <2>2
<1>2. ASSUME NEW n \in Nat, n <= 100 * mainMem PROVE n \div 100 <= mainMem
  BY <1>2
<1>3. ASSUME NEW n \in Nat PROVE n \div 100 \in Nat
  OBVIOUS
<1> DEFINE n == pct * mainMem
<1>4. n \div 100 <= mainMem /\ n \div 100 \in Nat
  BY <1>1, <1>2, <1>3
<1> HIDE DEF n
<1>5. (n \div 100) + size <= mainMem + size
  BY <1>4
<1> QED
  BY <1>5 DEF MinAllocation, n

\* The machines that are admitted are finitely many, and their minimum allocations,
\* also at another percentage, are numbers.
LEMMA AdmittedFacts ==
  ASSUME IInv
  PROVE  /\ IsFiniteSet(listed \cap admitted) /\ listed \cap admitted \subseteq VMs
         /\ minAllocation \in [VMs -> Nat] /\ GlobalMin \in Nat /\ OverallLimit \in Nat
         /\ \A pct \in 0 .. 100, u \in VMs :
              MinAllocation(MainMem(u), nonpaged[u], pct) \in Nat
<1> USE DEF IInv
<1>1. IsFiniteSet(listed \cap admitted) /\ listed \cap admitted \subseteq VMs
  BY SizesAssumption, FS_Subset DEF TypeOK
<1>2. minAllocation \in [VMs -> Nat]
  BY DEF TypeOK
<1>3. GlobalMin \in Nat
  BY <1>1, <1>2, PagesFinite DEF GlobalMin
<1>4. \A pct \in 0 .. 100, u \in VMs : MinAllocation(MainMem(u), nonpaged[u], pct) \in Nat
  BY MinAllocationType, MainMemType DEF TypeOK
<1>5. OverallLimit \in Nat
  BY SizesAssumption DEF OverallLimit, Lesser, TypeOK
<1> QED
  BY <1>1, <1>2, <1>3, <1>4, <1>5

\* A limit for one machine is none above the limit for all.
LEMMA LimitAtMost ==
  ASSUME IInv, NEW overhead \in Nat
  PROVE  LockedPageLimit(overhead) <= OverallLimit
<1>1. OverallLimit \in Nat
  BY AdmittedFacts
<1>2. IsFiniteSet(listed)
  BY SizesAssumption, FS_Subset DEF IInv, TypeOK
<1>3. Cardinality(listed) \in Nat
  BY <1>2, FS_CardinalityType
<1>4. Cardinality(listed) * overhead \in Nat
  BY <1>3
<1> DEFINE extra == Cardinality(listed) * overhead
<1>5. LockedPageLimit(overhead) = IF extra < OverallLimit THEN OverallLimit - extra ELSE 0
  BY DEF LockedPageLimit
<1> HIDE DEF extra
<1> QED
  BY <1>1, <1>4, <1>5 DEF extra

\* An admission that fits leaves all minimum allocations within the limit; another makes
\* them no larger.
LEMMA AdmitFits ==
  ASSUME IInv, NEW v \in VMs, NEW size \in Nonpaged, NEW pct \in Percents,
         Admit(v, size, pct), GlobalMin' > GlobalMin
  PROVE  GlobalMin' <= OverallLimit'
<1> DEFINE needed == GlobalMinAllocation(pct)
           fits   == needed <= OverallLimit
           mine   == MinAllocation(MainMemSize, size, pct)
           L      == listed \cap admitted
           f      == [u \in VMs |-> MinAllocation(MainMem(u), nonpaged[u], pct)]
<1>1. /\ size \in Nat /\ pct \in 0 .. 100 /\ MainMemSize \in Nat /\ PerVMOverhead \in Nat
      /\ mine \in Nat
  BY SizesAssumption, MinAllocationType
<1>2. /\ v \in listed
      /\ minAllocation' = MinAllocationsOf(fits, v, size, pct, pct)
      /\ \/ fits /\ needed + mine <= LockedPageLimit(PerVMOverhead)
                 /\ admitted' = admitted \cup {v}
         \/ admitted' = admitted \ {v}
      /\ UNCHANGED <<listed, configured, host>>
  BY DEF Admit
<1>3. OverallLimit' = OverallLimit
  BY <1>2 DEF OverallLimit
<1>4. /\ IsFiniteSet(L) /\ L \subseteq VMs
      /\ minAllocation \in [VMs -> Nat] /\ GlobalMin \in Nat /\ OverallLimit \in Nat
      /\ \A u \in VMs : f[u] \in Nat
  BY <1>1, AdmittedFacts
<1>5. needed = SumOf(f, L) /\ needed \in Nat
  BY <1>4, PagesFinite DEF GlobalMinAllocation
<1>6. LockedPageLimit(PerVMOverhead) <= OverallLimit
  BY <1>1, LimitAtMost
<1>7. \A u \in VMs : minAllocation'[u] = IF u = v THEN mine
                                           ELSE IF fits /\ u \in L THEN f[u] ELSE minAllocation[u]
  BY <1>2 DEF MinAllocationsOf
<1>8. IsFiniteSet(L \ {v}) /\ L \ {v} \subseteq L
  BY <1>4, FS_Subset
<1> HIDE DEF needed, mine, f
<1>9. fits => SumOf(minAllocation', L \ {v}) <= needed
  <2> SUFFICES ASSUME fits PROVE SumOf(minAllocation', L \ {v}) <= needed
    OBVIOUS
  <2>1. \A u \in L : f[u] \in Nat
    BY <1>4
  <2>2. \A u \in L \ {v} : minAllocation'[u] \in Nat /\ minAllocation'[u] <= f[u]
    BY <1>4, <1>7
  <2> HIDE DEF L
  <2> QED
    BY <1>4, <1>5, <1>8, <2>1, <2>2, SumMonotone
<1>10. ~fits => SumOf(minAllocation', L \ {v}) <= GlobalMin
  <2> SUFFICES ASSUME ~fits PROVE SumOf(minAllocation', L \ {v}) <= GlobalMin
    OBVIOUS
  <2>1. \A u \in L : minAllocation[u] \in Nat
    BY <1>4
  <2>2. \A u \in L \ {v} : minAllocation'[u] \in Nat /\ minAllocation'[u] <= minAllocation[u]
    BY <1>4, <1>7
  <2>3. GlobalMin = SumOf(minAllocation, L)
    BY DEF GlobalMin
  <2> HIDE DEF L
  <2> QED
    BY <1>4, <1>8, <2>1, <2>2, <2>3, SumMonotone
<1>11. \A u \in L \ {v} : minAllocation'[u] \in Nat
  BY <1>4, <1>7
<1>12. SumOf(minAllocation', L \ {v}) \in Nat
  BY <1>8, <1>11, PagesFinite
<1>13. CASE admitted' = admitted \ {v}
  <2>1. listed' \cap admitted' = L \ {v}
    BY <1>2, <1>13
  <2>2. GlobalMin' = SumOf(minAllocation', L \ {v})
    BY <2>1 DEF GlobalMin
  <2> HIDE DEF L
  <2> QED
    BY <1>3, <1>4, <1>5, <1>9, <1>10, <1>12, <2>2
<1>14. CASE fits /\ needed + mine <= LockedPageLimit(PerVMOverhead)
                 /\ admitted' = admitted \cup {v}
  <2>1. listed' \cap admitted' = (L \ {v}) \cup {v}
    BY <1>2, <1>14
  <2>2. GlobalMin' = SumOf(minAllocation', (L \ {v}) \cup {v})
    BY <2>1 DEF GlobalMin
  <2>3. minAllocation'[v] = mine
    BY <1>7
  <2>4. SumOf(minAllocation', (L \ {v}) \cup {v}) = SumOf(minAllocation', L \ {v}) + mine
    <3>1. v \notin L \ {v} /\ minAllocation'[v] \in Nat
      BY <1>1, <2>3
    <3> HIDE DEF L
    <3> QED
      BY <1>8, <1>11, <2>3, <3>1, SumAdd
  <2>5. LockedPageLimit(PerVMOverhead) \in Int
    <3>1. IsFiniteSet(listed)
      BY SizesAssumption, FS_Subset DEF IInv, TypeOK
    <3>2. Cardinality(listed) * PerVMOverhead \in Nat
      BY <1>1, <3>1, FS_CardinalityType
    <3> QED
      BY <1>4, <3>2 DEF LockedPageLimit
  <2> HIDE DEF L, fits
  <2>6. SumOf(minAllocation', L \ {v}) + mine <= needed + mine
    BY <1>1, <1>5, <1>9, <1>12, <1>14
  <2> QED
    BY <1>1, <1>3, <1>4, <1>5, <1>6, <1>12, <1>14, <2>2, <2>4, <2>5, <2>6
<1> QED
  BY <1>2, <1>13, <1>14

\* A readmission makes the minimum allocations larger only when they stay within the limit:
\* the sum that is compared modulo PageCnt is the sum itself.
LEMMA ReadmitFits ==
  ASSUME NoWrap, IInv, Bounded, NEW v \in VMs, NEW size \in Nonpaged, NEW grows \in BOOLEAN,
         Readmit(v, size, grows), GlobalMin' > GlobalMin
  PROVE  GlobalMin' <= OverallLimit'
<1> DEFINE old  == MinAllocation(MainMem(v), nonpaged[v], minVmMemPct)
           mine == MinAllocation(MainMem(v), size, minVmMemPct)
           L    == listed \cap admitted
           f    == [u \in VMs |-> MinAllocation(MainMem(u), nonpaged[u], minVmMemPct)]
<1>1. size \in Nat /\ minVmMemPct \in 0 .. 100 /\ MainMem(v) \in Nat /\ nonpaged[v] \in Nat
  BY SizesAssumption, MainMemType DEF IInv, TypeOK
<1>2. mine \in Nat /\ old \in Nat
  BY <1>1, MinAllocationType
<1>3. /\ v \in listed
      /\ \/ (GlobalMinAllocation(minVmMemPct) - old + mine) % PageCntSize
              <= LockedPageLimit(Overhead(v))
         \/ size <= nonpaged[v]
      /\ minAllocation' = [minAllocation EXCEPT ![v] = mine]
      /\ UNCHANGED <<listed, admitted, configured, host>>
  BY DEF Readmit, limits
<1>4. OverallLimit' = OverallLimit
  BY <1>3 DEF OverallLimit
<1>5. /\ IsFiniteSet(L) /\ L \subseteq VMs
      /\ minAllocation \in [VMs -> Nat] /\ GlobalMin \in Nat /\ OverallLimit \in Nat
  BY AdmittedFacts
<1>6. \A u \in L : minAllocation[u] = f[u] /\ minAllocation[u] \in Nat
  BY <1>5 DEF IInv, MinAllocationsCurrent
<1>7. GlobalMin = GlobalMinAllocation(minVmMemPct)
  <2>1. SumOf(minAllocation, L) = SumOf(f, L)
    <3> HIDE DEF L, f
    <3> QED
      BY <1>6, SumSame
  <2> QED
    BY <2>1 DEF GlobalMin, GlobalMinAllocation
<1>8. GlobalMin' = SumOf(minAllocation', L)
  BY <1>3 DEF GlobalMin
<1>9. GlobalMin = SumOf(minAllocation, L)
  BY DEF GlobalMin
<1>10. /\ minAllocation'[v] = mine
       /\ \A u \in VMs \ {v} : minAllocation'[u] = minAllocation[u]
  BY <1>3, <1>5
<1> HIDE DEF mine, old, L
<1>11. v \in L
  <2>1. ASSUME v \notin L PROVE SumOf(minAllocation', L) = SumOf(minAllocation, L)
    <3>1. \A u \in L : minAllocation'[u] = minAllocation[u]
      BY <1>5, <1>10, <2>1
    <3> QED
      BY <3>1, SumSame
  <2> QED
    BY <1>5, <1>8, <1>9, <2>1
<1>12. minAllocation[v] = old
  BY <1>6, <1>11 DEF old
<1>13. \A u \in L : /\ minAllocation[u] \in Nat /\ minAllocation'[u] \in Nat
                    /\ (u # v => minAllocation'[u] = minAllocation[u])
  BY <1>2, <1>5, <1>6, <1>10
<1>14. GlobalMin' = GlobalMin - old + mine
  <2>1. SumOf(minAllocation', L) = SumOf(minAllocation, L) - minAllocation[v] + minAllocation'[v]
    BY <1>5, <1>11, <1>13, SumChange
  <2> QED
    BY <1>8, <1>9, <1>10, <1>12, <2>1
<1>15. GlobalMin' \in Nat
  BY <1>5, <1>8, <1>13, PagesFinite
<1>16. CASE (GlobalMinAllocation(minVmMemPct) - old + mine) % PageCntSize
              <= LockedPageLimit(Overhead(v))
  <2>1. PICK b \in Nat : /\ \A s \in Nonpaged \cup {0} : MainMemSize + s <= b
                         /\ MAX_VMS * b < PageCntSize
    BY DEF NoWrap
  <2>2. \A u \in L : minAllocation'[u] \in Nat /\ minAllocation'[u] <= b
    <3> SUFFICES ASSUME NEW u \in L PROVE minAllocation'[u] <= b
      BY <1>13
    <3>1. MainMem(u) \in Nat /\ MainMem(u) <= MainMemSize /\ MainMemSize \in Nat
      BY SizesAssumption DEF MainMem
    <3>2. nonpaged[u] \in Nat /\ MainMemSize + nonpaged[u] <= b /\ MainMemSize + size <= b
      BY <1>5, <2>1 DEF Bounded, IInv, TypeOK
    <3>3. CASE u = v
      <4>1. mine <= MainMem(v) + size
        BY <1>1, MinAllocationMost DEF mine
      <4> QED
        BY <1>1, <1>2, <1>10, <3>1, <3>2, <3>3, <4>1
    <3>4. CASE u # v
      <4>1. minAllocation[u] = MinAllocation(MainMem(u), nonpaged[u], minVmMemPct)
        BY <1>6, <1>5
      <4>2. minAllocation[u] <= MainMem(u) + nonpaged[u]
        BY <1>1, <3>1, <3>2, <4>1, MinAllocationMost
      <4> QED
        BY <1>13, <3>1, <3>2, <3>4, <4>2
    <3> QED
      BY <3>3, <3>4
  <2>3. GlobalMin' <= Cardinality(L) * b
    BY <1>5, <1>8, <2>2, SumBound
  <2>4. Cardinality(L) * b <= MAX_VMS * b
    <3>1. IsFiniteSet(listed)
      BY SizesAssumption, FS_Subset DEF IInv, TypeOK
    <3>2. Cardinality(L) <= Cardinality(listed) /\ Cardinality(listed) \in Nat
          /\ Cardinality(L) \in Nat
      BY <1>5, <3>1, FS_Subset, FS_CardinalityType DEF L
    <3>3. Cardinality(L) <= MAX_VMS /\ MAX_VMS \in Nat
      BY <3>2, SizesAssumption DEF Bounded
    <3>4. \A m, n \in Nat : m <= n => m * b <= n * b
      <4> SUFFICES ASSUME NEW m \in Nat, NEW n \in Nat, m <= n PROVE m * b <= n * b
        OBVIOUS
      <4>1. (n - m) * b >= 0 /\ (n - m) * b = n * b - m * b
        OBVIOUS
      <4>2. m * b \in Nat /\ n * b \in Nat
        OBVIOUS
      <4> QED
        BY <4>1, <4>2
    <3> QED
      BY <3>2, <3>3, <3>4
  <2>5. GlobalMin' < PageCntSize
    <3>1. Cardinality(L) * b \in Nat /\ MAX_VMS * b \in Nat /\ PageCntSize \in Nat
      BY <1>5, FS_CardinalityType, SizesAssumption
    <3> QED
      BY <1>15, <2>1, <2>3, <2>4, <3>1
  <2>6. GlobalMin' % PageCntSize = GlobalMin'
    <3>1. PageCntSize \in Nat \ {0}
      BY SizesAssumption
    <3>2. \A k \in Nat, p \in Nat \ {0} : k < p => k % p = k
      OBVIOUS
    <3> QED
      BY <1>15, <2>5, <3>1, <3>2
  <2>7. GlobalMin' <= LockedPageLimit(Overhead(v))
    BY <1>7, <1>14, <1>16, <2>6
  <2>8. LockedPageLimit(Overhead(v)) <= OverallLimit
    BY LimitAtMost, SizesAssumption DEF Overhead
  <2>9. LockedPageLimit(Overhead(v)) \in Int
    <3>1. IsFiniteSet(listed) /\ Overhead(v) \in Nat
      BY SizesAssumption, FS_Subset DEF IInv, TypeOK, Overhead
    <3>2. Cardinality(listed) * Overhead(v) \in Nat
      BY <3>1, FS_CardinalityType
    <3> QED
      BY <1>5, <3>2 DEF LockedPageLimit
  <2> QED
    BY <1>4, <1>5, <1>15, <2>7, <2>8, <2>9
<1>17. CASE size <= nonpaged[v]
  <2>1. mine <= old
    <3> DEFINE share == (minVmMemPct * MainMem(v)) \div 100
    <3>1. share \in Int
      <4>1. minVmMemPct * MainMem(v) \in Int
        BY <1>1
      <4>2. \A k \in Int : k \div 100 \in Int
        OBVIOUS
      <4> QED
        BY <4>1, <4>2
    <3>2. mine = share + size /\ old = share + nonpaged[v]
      BY DEF mine, old, MinAllocation
    <3> HIDE DEF share
    <3> QED
      BY <1>1, <1>17, <3>1, <3>2
  <2> QED
    BY <1>2, <1>5, <1>14, <2>1
<1> QED
  BY <1>3, <1>16, <1>17 DEF old, mine

\* Machines that come and go do not make the minimum allocations larger.
LEMMA MachineFits ==
  ASSUME IInv, Registered, NEW v \in VMs, CreateVM(v) \/ DeleteVM(v) \/ FreeVM(v)
  PROVE  ~(GlobalMin' > GlobalMin)
<1> DEFINE L == listed \cap admitted
<1>1. /\ IsFiniteSet(L) /\ \A u \in L : minAllocation[u] \in Nat
      /\ GlobalMin \in Nat /\ GlobalMin = SumOf(minAllocation, L)
  BY AdmittedFacts DEF GlobalMin
<1>2. CASE CreateVM(v)
  <2>1. UNCHANGED minAllocation /\ listed' \cap admitted' = L
    BY <1>2 DEF CreateVM, IInv, Placed, usage
  <2>2. GlobalMin' = SumOf(minAllocation, L)
    BY <2>1 DEF GlobalMin
  <2> QED
    BY <1>1, <2>2
<1>3. CASE DeleteVM(v)
  <2>1. UNCHANGED minAllocation /\ listed' \cap admitted' = L \ {v}
    BY <1>3 DEF DeleteVM, usage
  <2>2. GlobalMin' = SumOf(minAllocation, L \ {v})
    BY <2>1 DEF GlobalMin
  <2>3. /\ L \ {v} \in SUBSET L /\ IsFiniteSet(L \ {v})
        /\ \A u \in L \ {v} : minAllocation[u] \in Nat /\ minAllocation[u] <= minAllocation[u]
    BY <1>1, FS_Subset
  <2> HIDE DEF L
  <2>4. SumOf(minAllocation, L \ {v}) <= SumOf(minAllocation, L)
    BY <1>1, <2>3, SumMonotone
  <2>5. SumOf(minAllocation, L \ {v}) \in Nat
    BY <2>3, PagesFinite
  <2> QED
    BY <1>1, <2>2, <2>4, <2>5
<1>4. CASE FreeVM(v)
  <2>1. /\ v \notin listed /\ listed' \cap admitted' = L
        /\ minAllocation' = [minAllocation EXCEPT ![v] = 0]
    BY <1>4 DEF FreeVM, Registered
  <2>2. \A u \in L : minAllocation'[u] = minAllocation[u]
    BY <2>1 DEF IInv, TypeOK
  <2>3. GlobalMin' = SumOf(minAllocation', L)
    BY <2>1 DEF GlobalMin
  <2>4. SumOf(minAllocation', L) = SumOf(minAllocation, L)
    BY <2>2, SumSame
  <2> QED
    BY <1>1, <2>3, <2>4
<1> QED
  BY <1>2, <1>3, <1>4

\* As long as PageCnt holds the sum of all: the machines are never made to need
\* more than fits, by an admission, by a readmission, or by machines that come and go.
THEOREM AdmissionFitsHolds == NoWrap => (Spec => AdmissionFits)
<1> SUFFICES ASSUME NoWrap PROVE Spec => AdmissionFits
  OBVIOUS
<1>1. IInv /\ CountsInv /\ Bounded /\ [Next]_vars
        => [GlobalMin' > GlobalMin => GlobalMin' <= OverallLimit']_vars
  <2> SUFFICES ASSUME IInv, CountsInv, Bounded, Next, GlobalMin' > GlobalMin
               PROVE  GlobalMin' <= OverallLimit'
    OBVIOUS
  <2>0. ASSUME UNCHANGED <<listed, admitted, minAllocation>> PROVE FALSE
    <3>1. GlobalMin' = GlobalMin
      BY <2>0 DEF GlobalMin
    <3> QED
      BY <3>1, AdmittedFacts
  <2>1. ASSUME NEW v \in VMs, CreateVM(v) \/ DeleteVM(v) \/ FreeVM(v) PROVE FALSE
    BY <2>1, MachineFits DEF CountsInv
  <2>2. ASSUME NEW limit \in Limits, SetConfiguredLockedPagesLimit(limit) PROVE FALSE
    BY <2>0, <2>2 DEF SetConfiguredLockedPagesLimit, usage
  <2>3. ASSUME NEW v \in VMs, NEW size \in Nonpaged, NEW pct \in Percents, Admit(v, size, pct)
        PROVE  GlobalMin' <= OverallLimit'
    BY <2>3, AdmitFits
  <2>4. ASSUME NEW v \in VMs, NEW size \in Nonpaged, NEW grows \in BOOLEAN,
               Readmit(v, size, grows)
        PROVE  GlobalMin' <= OverallLimit'
    BY <2>4, ReadmitFits
  <2>5. ~HostChanges
    BY <2>0 DEF HostChanges, usage
  <2>6. ASSUME NEW t \in Threads, NEW v \in VMs, NEW n \in Batches,
               (\E ignoreLimits \in BOOLEAN : Lock(t, v, n, ignoreLimits)) \/ Unlock(t, v, n)
        PROVE  FALSE
    BY <2>0, <2>6 DEF Lock, Unlock, usage
  <2>7. ASSUME NEW t \in Threads, Going(t) PROVE FALSE
    BY <2>0, <2>7, GoingTypes DEF IInv, Bookkeeping, usage
  <2> QED
    BY <2>1, <2>2, <2>3, <2>4, <2>5, <2>6, <2>7 DEF Next
<1> QED
  BY <1>1, Invariance, CountsInvariance, BoundedInvariance, PTL DEF Spec, AdmissionFits
=============================================================================
