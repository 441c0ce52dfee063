---------------------------- MODULE MSRUniformity ----------------------------
(***************************************************************************)
(* The values of model-specific registers that stand for all CPUs (vmmon,  *)
(* common/vmx86.c and include/intelVT.h).  Each CPU takes the next free    *)
(* slot of a query and replies in it, in any order; from the replies a     *)
(* value is computed that is right for every CPU, in a way that depends on *)
(* the register's kind.  The query that a user makes has slots of its own. *)
(*                                                                         *)
(* A value has words lo and hi, sets of bits, and a record of the fields   *)
(* that are numbers; a kind uses some of them.                             *)
(***************************************************************************)
EXTENDS Integers, SequencesExt

CONSTANTS
  CPUs,
  Capacities,  \* slots of a user's query
  Members,     \* kinds of register: "ArchCap", "BIOSSignID", ...
  MaxField     \* the greatest number in a field

QueryAssumption == IsFiniteSet(CPUs) /\ Capacities \subseteq Nat /\ MaxField \in Nat

Bits   == {0, 1}
Fields == 0 .. MaxField

RSBA   == 0    \* MSR_ARCH_CAPABILITIES_RSBA, set where something is missing

VARIABLES
  member,      \* the kind of the register that is queried
  msr,         \* its value on each CPU
  purpose,     \* "uniformity" or "query"
  numLogicalCPUs, index, logicalCPUs, \* MSRQuery, and the counter the CPUs take slots by
  replied,     \* CPUs whose handler has run
  result       \* "none", "ok" or "small", and the common value

vars == <<member, msr, purpose, numLogicalCPUs, index, logicalCPUs, replied, result>>

Value(lo, hi, fields) == [lo |-> lo, hi |-> hi, fields |-> fields]

NoFields == [a |-> 0, b |-> 0]

\* The values a register of a kind may have on a CPU.
Values(m) ==
  CASE m = "Ctls"  -> {Value(zeros, ones, NoFields) : zeros \in SUBSET Bits, ones \in SUBSET Bits}
    [] m = "Basic" -> {Value(can, {}, [a |-> id, b |-> 0]) : can \in SUBSET Bits, id \in Fields}
    [] m = "Misc"  -> {Value(can, {}, [a |-> id, b |-> n]) :
                         can \in SUBSET {0}, id \in {0, 1}, n \in Fields}
    [] m = "Enum"  -> {Value({}, {}, [a |-> 0, b |-> n]) : n \in Fields}
    [] OTHER       -> {Value(lo, {}, NoFields) : lo \in SUBSET Bits}

NoValue == Value({}, {}, NoFields)

Init ==
  /\ member \in Members
  /\ msr \in [CPUs -> Values(member)]
  /\ purpose = "none" /\ numLogicalCPUs = 0 /\ index = 0 /\ logicalCPUs = <<>>
  /\ replied = {} /\ result = [status |-> "none", value |-> NoValue]

-----------------------------------------------------------------------------
(* The query.                                                               *)

Start(why, slots) ==
  /\ purpose = "none" /\ purpose' = why
  /\ numLogicalCPUs' = slots /\ index' = 0
  /\ logicalCPUs' = [i \in 1 .. slots |-> [tag |-> 0, msrVal |-> NoValue]]
  /\ replied' = {}
  /\ UNCHANGED <<member, msr, result>>

\* Vmx86_CheckMSRUniformity: as many slots as CPUs have registered.
CheckMSRUniformity == Start("uniformity", Cardinality(CPUs))

\* Vmx86_GetAllMSRs, of a register that is not in the cache.
GetAllMSRs == \E n \in Capacities : Start("query", n)

\* Mutant: the counter is read and written back.
GetMSRUncounted(c) ==
  /\ purpose # "none" /\ c \notin replied
  /\ replied' = replied \cup {c}
  /\ \E seen \in {index, index - 1} : seen >= 0 /\
       /\ index' = seen + 1
       /\ logicalCPUs' = IF seen >= numLogicalCPUs THEN logicalCPUs
                         ELSE [logicalCPUs EXCEPT ![seen + 1] = [tag |-> c, msrVal |-> msr[c]]]
  /\ UNCHANGED <<member, msr, purpose, numLogicalCPUs, result>>

\* Vmx86GetMSR on CPU c: the next slot, if there is one.
GetMSR(c) ==
  /\ purpose # "none" /\ c \notin replied
  /\ replied' = replied \cup {c}
  /\ index' = index + 1
  /\ logicalCPUs' = IF index >= numLogicalCPUs THEN logicalCPUs
                    ELSE [logicalCPUs EXCEPT ![index + 1] = [tag |-> c, msrVal |-> msr[c]]]
  /\ UNCHANGED <<member, msr, purpose, numLogicalCPUs, result>>

-----------------------------------------------------------------------------
(* The common value of the replies.                                         *)

Replies == [i \in 1 .. numLogicalCPUs |-> logicalCPUs[i].msrVal]

\* The first value and the others, one after the other.
Combine(op(_, _), s) == FoldLeft(op, s[1], Tail(s))

And(v, w) == Value(v.lo \cap w.lo, v.hi, v.fields)
Or(v, w)  == Value(v.lo \cup w.lo, v.hi, v.fields)

FindCommonJoin(s) == Combine(And, s)

Flip(v, bit) == Value(IF bit \in v.lo THEN v.lo \ {bit} ELSE v.lo \cup {bit}, v.hi, v.fields)

\* Mutant: the bit is treated as the others.
FindCommonArchCapUnflipped(s) == FindCommonJoin(s)

\* The bit that says what is missing is flipped before and after.
FindCommonArchCap(s) ==
  Flip(Combine(And, [i \in DOMAIN s |-> Flip(s[i], RSBA)]), RSBA)

\* Mutant: as the registers that say what must be set.
FindCommonCtlsOr(s) ==
  Combine(LAMBDA v, w : Value(v.lo \cap w.lo, v.hi \cap w.hi, v.fields), s)

\* lo: the controls that must be 1; hi: those that may be.
FindCommonCtls(s) ==
  Combine(LAMBDA v, w : Value(v.lo \cup w.lo, v.hi \cap w.hi, v.fields), s)

FindCommonFixed0(s) == Combine(Or, s)
FindCommonFixed1(s) == Combine(And, s)

\* VMX_BASIC whose size of the VMCS is 0.
INVALID_VMX_BASIC == Value(Bits, {}, [a |-> -1, b |-> 0])

\* Bit 0 is of the fields that are or-ed (32BITPA), bit 1 of those that are and-ed.
FindCommonBasic(s) ==
  LET Next2(v, w) ==
        IF v = INVALID_VMX_BASIC \/ v.fields.a # w.fields.a THEN INVALID_VMX_BASIC
        ELSE Value((v.lo \cup (w.lo \cap {0})) \ ({1} \ w.lo), v.hi, v.fields)
  IN Combine(Next2, s)

\* Mutant: the first CPU's number is taken.
LeastOfFirst(s, field) == s[1].fields[field]

Least(s, field) == Combine(LAMBDA m, n : IF n < m THEN n ELSE m,
                           [i \in DOMAIN s |-> s[i].fields[field]])

\* If the MSEG identifiers differ, nothing but the least numbers of those before it.
FindCommonMisc(s) ==
  LET differ == {i \in DOMAIN s : s[i].fields.a # s[1].fields.a}
      before == IF differ = {} THEN s
                ELSE SubSeq(s, 1, (CHOOSE i \in differ : \A j \in differ : i <= j) - 1)
      joined == IF differ = {} THEN FindCommonJoin(s) ELSE NoValue
  IN [joined EXCEPT !.fields.b = Least(before, "b")]

FindCommonEnum(s) == [s[1] EXCEPT !.fields.b = Least(s, "b")]

\* Vmx86GenFindCommonCap: the first register that is not of VT is compared, and every other
\* one is joined.
GenFindCommonCap(m, s) == IF m = "ArchCap" THEN FindCommonArchCap(s) ELSE FindCommonJoin(s)

FindCommon(m, s) ==
  CASE m = "Ctls"   -> FindCommonCtls(s)
    [] m = "Fixed0" -> FindCommonFixed0(s)
    [] m = "Fixed1" -> FindCommonFixed1(s)
    [] m = "Basic"  -> FindCommonBasic(s)
    [] m = "Misc"   -> FindCommonMisc(s)
    [] m = "Enum"   -> FindCommonEnum(s)
    [] OTHER        -> GenFindCommonCap(m, s)

\* Every CPU has run the handler.
Finish ==
  /\ purpose # "none" /\ replied = CPUs /\ result.status = "none"
  /\ IF index > numLogicalCPUs
     THEN /\ result' = [status |-> "small", value |-> NoValue]
          /\ UNCHANGED numLogicalCPUs
     ELSE /\ result' = [status |-> "ok",
                        value |-> IF purpose = "uniformity" THEN FindCommon(member, Replies)
                                  ELSE NoValue]
          /\ numLogicalCPUs' = index
  /\ UNCHANGED <<member, msr, purpose, index, logicalCPUs, replied>>

Next == CheckMSRUniformity \/ GetAllMSRs \/ (\E c \in CPUs : GetMSR(c)) \/ Finish

Spec == Init /\ [][Next]_vars

-----------------------------------------------------------------------------
(* Properties.                                                              *)

\* The type of every variable.
TypeOK ==
  /\ member \in Members /\ msr \in [CPUs -> Values(member)]
  /\ purpose \in {"none", "uniformity", "query"}
  /\ numLogicalCPUs \in {0, Cardinality(CPUs)} \cup Capacities
  /\ index \in 0 .. Cardinality(CPUs)
  /\ replied \subseteq CPUs /\ result.status \in {"none", "ok", "small"}

\* A query that succeeds has one reply of each CPU.
AllReplied ==
  result.status = "ok" =>
    {<<logicalCPUs[i].tag, logicalCPUs[i].msrVal>> : i \in 1 .. numLogicalCPUs} =
      {<<c, msr[c]>> : c \in CPUs}

\* The settings x of a register that v permits.
Permits(v, x) ==
  CASE member = "Ctls"   -> v.lo \subseteq x /\ x \subseteq v.hi
    [] member = "Fixed0" -> v.lo \subseteq x
    [] OTHER             -> x \subseteq v.lo

\* What the common value permits is what every CPU does; the bit of a missing feature is
\* set if it is on any; numbers are the least of the CPUs', and if those that must agree do not,
\* nothing is permitted.  But VMX_MISC then still has a number, which is the least of the replies
\* before the first that does not agree: a CPU whose reply comes later may have less.
CommonToAll ==
  (purpose = "uniformity" /\ result.status = "ok") =>
    LET v == result.value
        All == {msr[c] : c \in CPUs}
        Agree == \A x, y \in All : x.fields.a = y.fields.a
    IN CASE member \in {"Ctls", "Fixed0", "Fixed1", "Join"} ->
              \A x \in SUBSET Bits : Permits(v, x) <=> \A y \in All : Permits(y, x)
         [] member = "ArchCap" ->
              \A bit \in Bits : bit \in v.lo <=>
                IF bit = RSBA THEN \E y \in All : bit \in y.lo ELSE \A y \in All : bit \in y.lo
         [] member = "Basic" ->
              IF Agree
              THEN /\ 0 \in v.lo <=> \E y \in All : 0 \in y.lo
                   /\ 1 \in v.lo <=> \A y \in All : 1 \in y.lo
                   /\ \A y \in All : v.fields.a = y.fields.a
              ELSE v = INVALID_VMX_BASIC
         [] member = "Enum" ->
              /\ \A y \in All : v.fields.b <= y.fields.b
              /\ \E y \in All : v.fields.b = y.fields.b
         [] member = "Misc" ->
              IF Agree
              THEN /\ \A x \in SUBSET {0} : Permits(v, x) <=> \A y \in All : Permits(y, x)
                   /\ \A y \in All : v.fields.a = y.fields.a
                   /\ \A y \in All : v.fields.b <= y.fields.b
                   /\ \E y \in All : v.fields.b = y.fields.b
              ELSE /\ v.lo = {} /\ v.fields.a = 0
                   /\ \E i \in DOMAIN Replies :
                        LET before == {Replies[j] : j \in 1 .. i - 1}
                        IN /\ before # {} /\ Replies[i].fields.a # Replies[1].fields.a
                           /\ \A y \in before : y.fields.a = Replies[1].fields.a
                           /\ \A y \in before : v.fields.b <= y.fields.b
                           /\ \E y \in before : v.fields.b = y.fields.b
         [] OTHER -> TRUE

\* "Calculate least common denominator for ... MSR_BIOS_SIGN_ID": the common microcode version
\* is the least of the CPUs' (Vmx86FindCommonMSRBIOSSignID): violated.
VersionOfACPU ==
  (purpose = "uniformity" /\ result.status = "ok" /\ member = "BIOSSignID") =>
    \E c \in CPUs : msr[c] = result.value
=============================================================================
