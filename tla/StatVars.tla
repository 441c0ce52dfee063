------------------------------- MODULE StatVars -------------------------------
(***************************************************************************)
(* The pages of a machine's statistics variables (vmmon, statVarsVmmon.c). *)
(* One array has a part for each VCPU, and is allocated by the first       *)
(* registration.  A registration claims its VCPU by a 0 in its first       *)
(* entry, with the machine's lock held; without it, it then records the    *)
(* pages, each of which must have been pinned by the process before.       *)
(*                                                                         *)
(* A page is named by the thread that registers it and by its number: each *)
(* thread registers memory of its own, and pins and unpins it when it will *)
(* (UNLOCK_PAGE needs no registration to be over).                         *)
(***************************************************************************)
EXTENDS Naturals, FiniteSets

CONSTANTS
  Threads,
  VCPUs,
  NumPages     \* pages of a VCPU

VARIABLES
  pagesPerVcpu, pages,   \* StatVarsVmmon
  pinned,                \* pages that are locked
  pc, op,                \* the step of a thread, and its locals
  registered,            \* the registrations that returned TRUE (history)
  crossed                \* VCPUs claimed while another registration was undone (history)

history == <<registered, crossed>>
vars    == <<pagesPerVcpu, pages, pinned, pc, op, history>>

\* What stands for no page, and for a claim, is nobody's.
PagesAssumption == NumPages \in Nat \ {0} /\ Threads \cap {"invalid", "zero"} = {}

Nums    == 0 .. NumPages - 1
Page(base, num) == [base |-> base, num |-> num]
Pages   == [base : Threads, num : Nums]
INVALID == Page("invalid", 0)
Claim   == Page("zero", 0)

NoOp == [vcpu |-> 0, page |-> 0, reset |-> 0]

Init ==
  /\ pagesPerVcpu = 0
  /\ pages = [c \in VCPUs |-> [k \in Nums |-> INVALID]]
  /\ pinned = {}
  /\ pc = [t \in Threads |-> "idle"] /\ op = [t \in Threads |-> NoOp]
  /\ registered = {} /\ crossed = {}

Goto(t, label) == pc' = [pc EXCEPT ![t] = label]
Return(t)      == Goto(t, "idle") /\ op' = [op EXCEPT ![t] = NoOp]

Registering(t, c) == pc[t] # "idle" /\ op[t].vcpu = c
Undoing(t, c)     == pc[t] \in {"unlock", "undo"} /\ op[t].vcpu = c

Mine(t)        == Page(t, op[t].page)
Record(t, page) == pages' = [pages EXCEPT ![op[t].vcpu][op[t].page] = page]

-----------------------------------------------------------------------------
\* LockPage and UnlockPage by the process.
Pin(page)   == pinned' = pinned \cup {page} /\ UNCHANGED <<pagesPerVcpu, pages, pc, op, history>>
Unpin(page) == pinned' = pinned \ {page} /\ UNCHANGED <<pagesPerVcpu, pages, pc, op, history>>

\* StatVarsVmmonValidateRegistration.
Valid(c) == pagesPerVcpu # 0 => pages[c][0] = INVALID

\* Mutant: the VCPU is not claimed.
RegisterUnclaimed(t, c) ==
  /\ pc[t] = "idle" /\ Valid(c)
  /\ pagesPerVcpu' = NumPages
  /\ op' = [op EXCEPT ![t] = [NoOp EXCEPT !.vcpu = c]]
  /\ Goto(t, "lock")
  /\ crossed' = IF \E u \in Threads : Undoing(u, c) THEN crossed \cup {c} ELSE crossed
  /\ UNCHANGED <<pages, pinned, registered>>

\* The part of a registration that has the machine's lock; if there was no array, it is
\* made and filled.
Register(t, c) ==
  /\ pc[t] = "idle" /\ Valid(c)
  /\ pagesPerVcpu' = NumPages
  /\ pages' = [pages EXCEPT ![c][0] = Claim]
  /\ op' = [op EXCEPT ![t] = [NoOp EXCEPT !.vcpu = c]]
  /\ Goto(t, "lock")
  /\ crossed' = IF \E u \in Threads : Undoing(u, c) THEN crossed \cup {c} ELSE crossed
  /\ UNCHANGED <<pinned, registered>>

\* Vmx86_LockPage says that the page is locked, as it should be.
AlreadyLocked(t) ==
  /\ pc[t] = "lock" /\ Mine(t) \in pinned
  /\ Goto(t, "lookup")
  /\ UNCHANGED <<pagesPerVcpu, pages, pinned, op, history>>

\* It was not, and is now.
LockPage(t) ==
  /\ pc[t] = "lock" /\ Mine(t) \notin pinned
  /\ pinned' = pinned \cup {Mine(t)}
  /\ Record(t, Mine(t))
  /\ Goto(t, "unlock")
  /\ UNCHANGED <<pagesPerVcpu, op, history>>

\* The page cannot be locked; its entry is written if only its tracking fails.
LockFails(t) ==
  /\ pc[t] = "lock" /\ Mine(t) \notin pinned
  /\ Record(t, Mine(t)) \/ UNCHANGED pages
  /\ Goto(t, "undo")
  /\ UNCHANGED <<pagesPerVcpu, pinned, op, history>>

Unlock(t) ==
  /\ pc[t] = "unlock"
  /\ pinned' = pinned \ {Mine(t)}
  /\ Goto(t, "undo")
  /\ UNCHANGED <<pagesPerVcpu, pages, op, history>>

\* Vmx86_LookupUserMPN: the page is recorded, and the last one ends the registration.
Lookup(t) ==
  /\ pc[t] = "lookup"
  /\ Record(t, Mine(t))
  /\ IF op[t].page + 1 < NumPages
     THEN op' = [op EXCEPT ![t].page = @ + 1] /\ Goto(t, "lock") /\ UNCHANGED registered
     ELSE Return(t) /\ registered' = registered \cup {[vcpu |-> op[t].vcpu, base |-> t]}
  /\ UNCHANGED <<pagesPerVcpu, pinned, crossed>>

LookupFails(t) ==
  /\ pc[t] = "lookup"
  /\ Record(t, INVALID)
  /\ Goto(t, "undo")
  /\ UNCHANGED <<pagesPerVcpu, pinned, op, history>>

\* Mutant: the page that failed keeps its entry.
UndoOthers(t) ==
  LET k == op[t].reset
  IN  /\ pc[t] = "undo"
      /\ IF k < op[t].page
         THEN pages' = [pages EXCEPT ![op[t].vcpu][k] = INVALID]
                /\ op' = [op EXCEPT ![t].reset = k + 1] /\ UNCHANGED pc
         ELSE Return(t) /\ UNCHANGED pages
      /\ UNCHANGED <<pagesPerVcpu, pinned, history>>

\* One entry is reset, without the lock.
Undo(t) ==
  LET k == op[t].reset
  IN  /\ pc[t] = "undo"
      /\ pages' = [pages EXCEPT ![op[t].vcpu][k] = INVALID]
      /\ IF k < op[t].page THEN op' = [op EXCEPT ![t].reset = k + 1] /\ UNCHANGED pc ELSE Return(t)
      /\ UNCHANGED <<pagesPerVcpu, pinned, history>>

\* StatVarsVmmon_GetRegionMPN.
GetRegionMPN(c, k) == IF k >= pagesPerVcpu THEN INVALID ELSE pages[c][k]

Next ==
  \/ \E page \in Pages : Pin(page) \/ Unpin(page)
  \/ \E t \in Threads :
       \/ \E c \in VCPUs : Register(t, c)
       \/ AlreadyLocked(t) \/ LockPage(t) \/ LockFails(t) \/ Unlock(t)
       \/ Lookup(t) \/ LookupFails(t) \/ Undo(t)

Spec == Init /\ [][Next]_vars

-----------------------------------------------------------------------------
(* Properties.                                                              *)

\* The type of every variable.
TypeOK ==
  /\ pagesPerVcpu \in {0, NumPages}
  /\ pages \in [VCPUs -> [Nums -> Pages \cup {INVALID, Claim}]]
  /\ pinned \subseteq Pages
  /\ pc \in [Threads -> {"idle", "lock", "unlock", "lookup", "undo"}]
  /\ op \in [Threads -> [vcpu : VCPUs, page : Nums, reset : Nums]]
  /\ registered \subseteq [vcpu : VCPUs, base : Threads] /\ crossed \subseteq VCPUs

\* Unless a VCPU was claimed while another registration of it was being undone, which the
\* code does not exclude: it is registered once, by one at a time, and from then on the
\* monitor finds all the pages of that registration; and before, with nobody inside, none.
ClaimsHold ==
  \A c \in VCPUs \ crossed :
    /\ Cardinality({t \in Threads : Registering(t, c)}) <= 1
    /\ \A r \in registered : r.vcpu = c => \A k \in Nums : GetRegionMPN(c, k) = Page(r.base, k)
    /\ (\A t \in Threads : ~Registering(t, c)) /\ (\A r \in registered : r.vcpu # c) =>
         \A k \in Nums : GetRegionMPN(c, k) = INVALID
=============================================================================
