----------------------------- MODULE SharedArea -----------------------------
(***************************************************************************)
(* The areas that a machine's process shares with its monitor (vmmon,      *)
(* sharedAreaVmmon.c).  An area has one array of pages, of which each VCPU *)
(* has a part; it is allocated when the area is first registered for a     *)
(* VCPU.  A registration pins the VCPU's pages one by one.  Threads        *)
(* register with the file's lock held for reading and no other, so the     *)
(* steps of two registrations interleave; pages are pinned and unpinned    *)
(* with the machine's lock held (HostPages).  A step is what lies between  *)
(* two accesses of the area's record.                                      *)
(*                                                                         *)
(* A page is named by the address it is at, [area, vcpu, num]: the process *)
(* has memory of its own for each part, of the same size every time.       *)
(***************************************************************************)
EXTENDS Integers, Sequences, FiniteSets

CONSTANTS
  Threads,
  Areas,       \* types of areas
  MultiVCPU,   \* those with pages for each VCPU
  VCPUs,       \* 0 .. numVCPUs - 1
  NumPages,    \* pages of a VCPU
  MayOverlap,  \* bound: whether two first registrations of an area may overlap
  MaxArrays    \* bound on the arrays that are allocated

VARIABLES
  pagesPerVcpu,   \* of each area, 0 if no array is known
  pages,          \* the array of each area, 0 for NULL
  arrays,         \* the arrays allocated; the pages of each VCPU
  locked,         \* pages that are pinned
  untracked,      \* pages that were recorded and not pinned (history)
  pc, op          \* the step of a thread, and its locals

regions == <<pagesPerVcpu, pages>>
vars    == <<regions, arrays, locked, untracked, pc, op>>

\* The two addresses that are no page are nobody's.
AreasAssumption ==
  0 \in VCPUs /\ NumPages \in Nat \ {0} /\ Areas \cap {"none", "unset"} = {}

Nums    == 0 .. NumPages - 1
Pages   == [area : Areas, vcpu : VCPUs, num : Nums]
INVALID == [area |-> "none", vcpu |-> 0, num |-> 0]
Unset   == [area |-> "unset", vcpu |-> 0, num |-> 0]   \* memory nobody has written to

\* SharedAreaVmmonIsMultiVCPU.
VCPUsOf(a) == IF a \in MultiVCPU THEN VCPUs ELSE {0}

NoOp == [area |-> "none", vcpu |-> 0, array |-> 0, page |-> 0, reset |-> 0]

Init ==
  /\ pagesPerVcpu = [a \in Areas |-> 0] /\ pages = [a \in Areas |-> 0]
  /\ arrays = <<>> /\ locked = {} /\ untracked = {}
  /\ pc = [t \in Threads |-> "idle"] /\ op = [t \in Threads |-> NoOp]

Goto(t, label) == pc' = [pc EXCEPT ![t] = label]
Return(t)      == Goto(t, "idle") /\ op' = [op EXCEPT ![t] = NoOp]

Mine(t, k) == [area |-> op[t].area, vcpu |-> op[t].vcpu, num |-> k]

-----------------------------------------------------------------------------
\* Mutant: an area that is registered may be registered again.
ValidBlindly(a, c) == c \in VCPUsOf(a)

\* SharedAreaVmmon_ValidateRegionArgs.
Valid(a, c) ==
  /\ c \in VCPUsOf(a)
  /\ pagesPerVcpu[a] # 0 => arrays[pages[a]][c][0] = INVALID

Validate(t, a, c) ==
  /\ pc[t] = "idle" /\ Valid(a, c)
  /\ op' = [op EXCEPT ![t] = [NoOp EXCEPT !.area = a, !.vcpu = c]]
  /\ Goto(t, "test")
  /\ UNCHANGED <<regions, arrays, locked, untracked>>

\* Threads that have found the area without an array, and not given it one yet.
First(a) == {t \in Threads : op[t].area = a /\ pc[t] \in {"alloc", "fill", "publish"}}

\* Whether the area has an array.
Test(t) ==
  LET a == op[t].area
  IN  /\ pc[t] = "test"
      /\ MayOverlap \/ First(a) = {}
      /\ Goto(t, IF pagesPerVcpu[a] = 0 THEN "alloc" ELSE "array")
      /\ UNCHANGED <<regions, arrays, locked, untracked, op>>

AllUnset(a) == [c \in VCPUsOf(a) |-> [k \in Nums |-> Unset]]

\* The array is allocated, and at once the area's.
Alloc(t) ==
  LET a == op[t].area
  IN  /\ pc[t] = "alloc" /\ Len(arrays) < MaxArrays
      /\ arrays' = Append(arrays, AllUnset(a))
      /\ pages' = [pages EXCEPT ![a] = Len(arrays')]
      /\ Goto(t, "fill")
      /\ UNCHANGED <<pagesPerVcpu, locked, untracked, op>>

AllocFails(t) ==
  /\ pc[t] = "alloc" /\ Return(t)
  /\ pages' = [pages EXCEPT ![op[t].area] = 0]
  /\ UNCHANGED <<pagesPerVcpu, arrays, locked, untracked>>

\* The array the area has now is filled.
Fill(t) ==
  LET a == op[t].area
  IN  /\ pc[t] = "fill" /\ pages[a] # 0
      /\ arrays' = [arrays EXCEPT ![pages[a]] = [c \in VCPUsOf(a) |-> [k \in Nums |-> INVALID]]]
      /\ Goto(t, "publish")
      /\ UNCHANGED <<regions, locked, untracked, op>>

\* Mutant: the size is set, and the area used, while its array is not filled.
PublishFirst(t) ==
  /\ pc[t] = "fill"
  /\ pagesPerVcpu' = [pagesPerVcpu EXCEPT ![op[t].area] = NumPages]
  /\ Goto(t, "array")
  /\ UNCHANGED <<pages, arrays, locked, untracked, op>>

\* Its size tells others that the area has one.
Publish(t) ==
  /\ pc[t] = "publish"
  /\ pagesPerVcpu' = [pagesPerVcpu EXCEPT ![op[t].area] = NumPages]
  /\ Goto(t, "array")
  /\ UNCHANGED <<pages, arrays, locked, untracked, op>>

ReadArray(t) ==
  /\ pc[t] = "array" /\ pages[op[t].area] # 0
  /\ op' = [op EXCEPT ![t].array = pages[op[t].area]]
  /\ Goto(t, "lock")
  /\ UNCHANGED <<regions, arrays, locked, untracked>>

Entry(t, k, page) == arrays' = [arrays EXCEPT ![op[t].array][op[t].vcpu][k] = page]

\* Vmx86_LockPage of the next page.
Lock(t) ==
  LET k == op[t].page
  IN  /\ pc[t] = "lock" /\ Mine(t, k) \notin locked
      /\ locked' = locked \cup {Mine(t, k)}
      /\ Entry(t, k, Mine(t, k))
      /\ IF k + 1 < NumPages THEN op' = [op EXCEPT ![t].page = k + 1] /\ UNCHANGED pc
         ELSE Return(t)
      /\ UNCHANGED <<regions, untracked>>

\* The page is locked already, cannot be pinned, or is one too many.
LockFails(t) ==
  /\ pc[t] = "lock" /\ Goto(t, "reset")
  /\ UNCHANGED <<regions, arrays, locked, untracked, op>>

\* The page is pinned and recorded, cannot be tracked for want of memory, and is unpinned.
TrackFails(t) ==
  LET page == Mine(t, op[t].page)
  IN  /\ pc[t] = "lock" /\ page \notin locked
      /\ Entry(t, op[t].page, page) /\ untracked' = untracked \cup {page}
      /\ Goto(t, "reset")
      /\ UNCHANGED <<regions, locked, op>>

\* Mutant: the pages that were locked keep their entries.
ResetUnlocksOnly(t) ==
  /\ pc[t] = "reset"
  /\ locked' = locked \ {Mine(t, k) : k \in 0 .. op[t].page - 1}
  /\ Return(t)
  /\ UNCHANGED <<regions, arrays, untracked>>

\* One page that was locked: its entry is reset, and the page that failed is unlocked.
Reset(t) ==
  LET k == op[t].reset
  IN  /\ pc[t] = "reset"
      /\ IF k < op[t].page
         THEN /\ locked' = locked \ {Mine(t, op[t].page)}
              /\ Entry(t, k, INVALID)
              /\ op' = [op EXCEPT ![t].reset = k + 1]
              /\ UNCHANGED pc
         ELSE Return(t) /\ UNCHANGED <<arrays, locked>>
      /\ UNCHANGED <<regions, untracked>>

\* SharedAreaVmmon_GetRegionMPN.
GetRegionMPN(a, c, k) ==
  IF pages[a] = 0 \/ k >= pagesPerVcpu[a] THEN INVALID ELSE arrays[pages[a]][c][k]

Next ==
  \E t \in Threads :
    \/ \E a \in Areas, c \in VCPUs : Validate(t, a, c)
    \/ Test(t) \/ Alloc(t) \/ AllocFails(t) \/ Fill(t) \/ Publish(t)
    \/ ReadArray(t) \/ Lock(t) \/ LockFails(t) \/ TrackFails(t) \/ Reset(t)

Spec == Init /\ [][Next]_vars

-----------------------------------------------------------------------------
(* Properties.                                                              *)

\* The type of every variable.
TypeOK ==
  /\ pagesPerVcpu \in [Areas -> {0, NumPages}]
  /\ pages \in [Areas -> 0 .. Len(arrays)]
  /\ \A n \in DOMAIN arrays : \A c \in DOMAIN arrays[n] :
       c \in VCPUs /\ arrays[n][c] \in [Nums -> Pages \cup {INVALID, Unset}]
  /\ locked \subseteq Pages /\ untracked \subseteq Pages
  /\ pc \in [Threads -> {"idle", "test", "alloc", "fill", "publish", "array", "lock", "reset"}]
  /\ \A t \in Threads : op[t].array \in 0 .. Len(arrays) /\ op[t].page \in Nums

\* What the monitor is told of an area is a page that is pinned, the one for that VCPU and
\* offset, also while the area is allocated and filled, and while and after a registration
\* fails, unless tracking the page has failed, which leaves it recorded; and no page is
\* recorded in two arrays.
RecordedPinned ==
  /\ \A a \in Areas : \A c \in VCPUsOf(a), k \in Nums :
       LET page == GetRegionMPN(a, c, k)
       IN  page # INVALID => page \in locked \cup untracked /\ page = [area |-> a, vcpu |-> c, num |-> k]
  /\ \A n, m \in DOMAIN arrays : \A c \in DOMAIN arrays[n] \cap DOMAIN arrays[m], k \in Nums :
       n # m /\ arrays[n][c][k] = arrays[m][c][k] => arrays[n][c][k] \in {INVALID, Unset}

\* A registration that fails leaves nothing of the VCPU pinned: with nobody inside, what
\* is pinned is recorded.
FailureUndone ==
  (\A t \in Threads : pc[t] = "idle") =>
    \A page \in locked : \E n \in DOMAIN arrays :
      page.vcpu \in DOMAIN arrays[n] /\ arrays[n][page.vcpu][page.num] = page
=============================================================================
