--------------------------- MODULE HostWaitProofs ---------------------------
(***************************************************************************)
(* Proof, for any set of VCPUs, that a VCPU that sleeps for others is on   *)
(* their lists or about to be woken, and that VCPUs never sleep in a ring  *)
(* (YieldersWake of HostWait).                                             *)
(*                                                                         *)
(* The strengthening says of a VCPU that yields, awake or asleep, what     *)
(* WakeupDue says of one that sleeps, for as long as its task is           *)
(* interruptible (Due).  The ring is excluded by the order in which its    *)
(* VCPUs go to sleep: the last of them looks at its list after it has      *)
(* woken all that were on it.                                              *)
(***************************************************************************)
EXTENDS HostWait, TLAPS

\* The types the argument needs.
Typed ==
  /\ pc \in [VCPUs -> Steps] /\ then \in [VCPUs -> {"call", "switch", "decide"}]
  /\ after \in [VCPUs -> {"call", "switch"}]
  /\ call \in [VCPUs -> [type : Calls \cup {"none"}, set : SUBSET VCPUs, yield : SUBSET VCPUs]]
  /\ vcpuSemaTask \subseteq VCPUs /\ interruptible \subseteq VCPUs
  /\ crosscallWaitSet \in [VCPUs -> SUBSET VCPUs] /\ wake \in [VCPUs -> SUBSET VCPUs]
  /\ ask \in [VCPUs -> SUBSET VCPUs] /\ asked \in [VCPUs -> VCPUs]
  /\ vcpus \in [VCPUs -> SUBSET VCPUs]

\* v is in the loop of Vmx86_YieldToSet, or wakes those that yielded to it before it sleeps.
Yielding(v) ==
  \/ pc[v] \in {"ask", "look", "unask", "confirm", "decide", "asleep", "clear"}
  \/ pc[v] \in {"take", "wake"} /\ then[v] = "decide"

\* A VCPU asks each other once, and not itself.
Asking ==
  \A v \in VCPUs :
    /\ v \notin vcpus[v] /\ v \notin ask[v]
    /\ vcpus[v] \cap ask[v] = {}
    /\ pc[v] \in {"look", "unask", "confirm"} => asked[v] \notin vcpus[v] \cup ask[v] \cup {v}

\* What was taken is woken before anything else is done.
Taken == \A v \in VCPUs : pc[v] # "wake" => wake[v] = {}

\* A VCPU that yields and has not been woken is registered, so that it can be, and is on the
\* lists of those it waits for, or in a set that one of them has taken.
Due ==
  \A v \in interruptible : Yielding(v) =>
    v \in vcpuSemaTask /\ \A w \in vcpus[v] : v \in crosscallWaitSet[w] \/ v \in wake[w]

IInv == Typed /\ Asking /\ Taken /\ Due /\ NoSleepingRing

-----------------------------------------------------------------------------
(* The steps of a VCPU.                                                      *)

\* A step after which no other VCPU sleeps, and each waits for those it waited for.
LEMMA RingKept ==
  ASSUME NoSleepingRing, Sleeping' \subseteq Sleeping, \A u \in Sleeping' : vcpus'[u] = vcpus[u]
  PROVE  NoSleepingRing'
<1> SUFFICES ASSUME NEW S \in (SUBSET Sleeping') \ {{}} PROVE \E v \in S : ~(vcpus'[v] \subseteq S)
  BY DEF NoSleepingRing
<1>1. S \in (SUBSET Sleeping) \ {{}}
  OBVIOUS
<1>2. PICK v \in S : ~(vcpus[v] \subseteq S)
  BY <1>1 DEF NoSleepingRing
<1> QED
  BY <1>2


\* The switch to the monitor and back.
\* A VCPU that goes to a step is at one.
LEMMA PcKept ==
  ASSUME pc \in [VCPUs -> Steps], NEW v \in VCPUs, NEW s \in Steps, pc' = [pc EXCEPT ![v] = s]
  PROVE  pc' \in [VCPUs -> Steps]
OBVIOUS

LEMMA RunVMInv == ASSUME IInv, NEW v \in VCPUs, RunVM(v) PROVE IInv'
<1> USE DEF IInv, RunVM, At, Goto, crosspage, tasks, locals
<1>1. Typed'
  BY DEF Typed, Steps, NoCall
<1>2. Asking'
  BY DEF Typed, Asking
<1>3. Taken'
  BY DEF Typed, Taken
<1>4. Due'
  BY DEF Typed, Asking, Taken, Due, Yielding
<1>5. NoSleepingRing'
  <2>1. Sleeping' \subseteq Sleeping /\ \A u \in Sleeping' : vcpus'[u] = vcpus[u]
    BY DEF Typed, Sleeping
  <2> QED
    BY <2>1, RingKept
<1> QED
  BY <1>1, <1>2, <1>3, <1>4, <1>5

LEMMA TaskSwitchInv == ASSUME IInv, NEW v \in VCPUs, TaskSwitch(v) PROVE IInv'
<1> USE DEF IInv, TaskSwitch, At, Goto, crosspage, tasks, locals
<1>1. Typed'
  BY DEF Typed, Steps, NoCall
<1>2. Asking'
  BY DEF Typed, Asking
<1>3. Taken'
  BY DEF Typed, Taken
<1>4. Due'
  BY DEF Typed, Asking, Taken, Due, Yielding
<1>5. NoSleepingRing'
  <2>1. Sleeping' \subseteq Sleeping /\ \A u \in Sleeping' : vcpus'[u] = vcpus[u]
    BY DEF Typed, Sleeping
  <2> QED
    BY <2>1, RingKept
<1> QED
  BY <1>1, <1>2, <1>3, <1>4, <1>5

LEMMA BackInv == ASSUME IInv, NEW v \in VCPUs, Back(v) PROVE IInv'
<1> USE DEF IInv, Back, At, Goto, crosspage, tasks, locals, SwitchBack, Targets, Others
<1>1. Typed'
  BY DEF Typed, Steps, NoCall
<1>2. Asking'
  BY DEF Typed, Asking
<1>3. Taken'
  BY DEF Typed, Taken
<1>4. Due'
  BY DEF Typed, Asking, Taken, Due, Yielding
<1>5. NoSleepingRing'
  <2>1. Sleeping' \subseteq Sleeping /\ \A u \in Sleeping' : vcpus'[u] = vcpus[u]
    BY DEF Typed, Sleeping
  <2> QED
    BY <2>1, RingKept
<1> QED
  BY <1>1, <1>2, <1>3, <1>4, <1>5

\* Before the call, and at it, a VCPU may begin to yield: it is registered as it begins.
LEMMA SwitchedInv == ASSUME IInv, NEW v \in VCPUs, Switched(v) PROVE IInv'
<1> USE DEF IInv, Switched, At, Goto, crosspage, tasks, locals, WakeThen, YieldToSet
<1>1. Typed'
  <2>1. pc' \in [VCPUs -> Steps]
    BY DEF Typed, Steps
  <2>2. then' \in [VCPUs -> {"call", "switch", "decide"}]
    BY DEF Typed, Steps
  <2>3. after' \in [VCPUs -> {"call", "switch"}]
    BY DEF Typed, Steps
  <2>4. vcpuSemaTask' \subseteq VCPUs /\ interruptible' \subseteq VCPUs
    BY DEF Typed, Steps
  <2>5. crosscallWaitSet' \in [VCPUs -> SUBSET VCPUs]
    BY DEF Typed, Steps
  <2>6. wake' \in [VCPUs -> SUBSET VCPUs]
    BY DEF Typed, Steps
  <2>7. ask' \in [VCPUs -> SUBSET VCPUs] /\ asked' \in [VCPUs -> VCPUs]
    BY DEF Typed, Steps
  <2>8. vcpus' \in [VCPUs -> SUBSET VCPUs]
    BY DEF Typed, Steps
  <2> QED
    BY <2>1, <2>2, <2>3, <2>4, <2>5, <2>6, <2>7, <2>8 DEF Typed
<1>2. Asking'
  BY DEF Typed, Asking
<1>3. Taken'
  BY ZenonT(60) DEF Typed, Taken
<1>4. Due'
  BY DEF Typed, Asking, Taken, Due, Yielding
<1>5. NoSleepingRing'
  <2>1. Sleeping' \subseteq Sleeping /\ \A u \in Sleeping' : vcpus'[u] = vcpus[u]
    BY DEF Typed, Sleeping
  <2> QED
    BY <2>1, RingKept
<1> QED
  BY <1>1, <1>2, <1>3, <1>4, <1>5

LEMMA NoneCallInv == ASSUME IInv, NEW v \in VCPUs, NoneCall(v) PROVE IInv'
<1> USE DEF IInv, NoneCall, At, Goto, crosspage, tasks, locals
<1>1. Typed'
  BY DEF Typed, Steps, NoCall
<1>2. Asking'
  BY DEF Typed, Asking
<1>3. Taken'
  BY DEF Typed, Taken
<1>4. Due'
  BY DEF Typed, Asking, Taken, Due, Yielding
<1>5. NoSleepingRing'
  <2>1. Sleeping' \subseteq Sleeping /\ \A u \in Sleeping' : vcpus'[u] = vcpus[u]
    BY DEF Typed, Sleeping
  <2> QED
    BY <2>1, RingKept
<1> QED
  BY <1>1, <1>2, <1>3, <1>4, <1>5

LEMMA CoschedInv == ASSUME IInv, NEW v \in VCPUs, Cosched(v) PROVE IInv'
<1> USE DEF IInv, Cosched, At, Goto, crosspage, tasks, locals, YieldToSet, WakeThen
<1>1. Typed'
  <2>1. pc' \in [VCPUs -> Steps]
    <3>1. \/ pc' = pc
          \/ \E s \in {"call", "switch", "take", "ask"} : pc' = [pc EXCEPT ![v] = s]
      BY DEF Typed
    <3> QED
      BY <3>1, PcKept DEF Typed, Steps
  <2>2. then' \in [VCPUs -> {"call", "switch", "decide"}]
    BY DEF Typed, Steps
  <2>3. after' \in [VCPUs -> {"call", "switch"}]
    BY DEF Typed, Steps
  <2>4. vcpuSemaTask' \subseteq VCPUs /\ interruptible' \subseteq VCPUs
    BY DEF Typed, Steps
  <2>5. crosscallWaitSet' \in [VCPUs -> SUBSET VCPUs]
    BY DEF Typed, Steps
  <2>6. wake' \in [VCPUs -> SUBSET VCPUs]
    BY DEF Typed, Steps
  <2>7. ask' \in [VCPUs -> SUBSET VCPUs] /\ asked' \in [VCPUs -> VCPUs]
    <3>1. call[v].set \subseteq VCPUs
      BY DEF Typed
    <3>2. ask' = ask \/ ask' = [ask EXCEPT ![v] = call[v].set \ {v}]
      OBVIOUS
    <3> QED
      BY <3>1, <3>2 DEF Typed
  <2>8. vcpus' \in [VCPUs -> SUBSET VCPUs]
    BY DEF Typed, Steps
  <2> QED
    BY <2>1, <2>2, <2>3, <2>4, <2>5, <2>6, <2>7, <2>8 DEF Typed
<1>2. Asking'
  BY DEF Typed, Asking
<1>3. Taken'
  BY ZenonT(60) DEF Typed, Taken
<1>4. Due'
  BY DEF Typed, Asking, Taken, Due, Yielding
<1>5. NoSleepingRing'
  <2>1. Sleeping' \subseteq Sleeping /\ \A u \in Sleeping' : vcpus'[u] = vcpus[u]
    BY DEF Typed, Sleeping
  <2> QED
    BY <2>1, RingKept
<1> QED
  BY <1>1, <1>2, <1>3, <1>4, <1>5

\* Those that are taken off the list are about to be woken, and those that are woken do not
\* sleep.
LEMMA TakeWaitSetInv == ASSUME IInv, NEW v \in VCPUs, TakeWaitSet(v) PROVE IInv'
<1> USE DEF IInv, TakeWaitSet, At, Goto, crosspage, tasks, locals
<1>1. Typed'
  BY DEF Typed, Steps, NoCall
<1>2. Asking'
  BY DEF Typed, Asking
<1>3. Taken'
  BY DEF Typed, Taken
<1>4. Due'
  BY DEF Typed, Asking, Taken, Due, Yielding
<1>5. NoSleepingRing'
  <2>1. Sleeping' \subseteq Sleeping /\ \A u \in Sleeping' : vcpus'[u] = vcpus[u]
    BY DEF Typed, Sleeping
  <2> QED
    BY <2>1, RingKept
<1> QED
  BY <1>1, <1>2, <1>3, <1>4, <1>5

LEMMA WakeUpInv == ASSUME IInv, NEW v \in VCPUs, WakeUp(v) PROVE IInv'
<1> USE DEF IInv, WakeUp, At, Goto, crosspage, tasks, locals, Wakes
<1>1. Typed'
  <2>1. pc' \in [VCPUs -> Steps]
    <3>1. then[v] \in Steps
      BY DEF Typed, Steps
    <3> QED
      BY <3>1 DEF Typed
  <2>2. then' \in [VCPUs -> {"call", "switch", "decide"}]
    BY DEF Typed, Steps
  <2>3. after' \in [VCPUs -> {"call", "switch"}]
    BY DEF Typed, Steps
  <2>4. vcpuSemaTask' \subseteq VCPUs /\ interruptible' \subseteq VCPUs
    BY DEF Typed, Steps
  <2>5. crosscallWaitSet' \in [VCPUs -> SUBSET VCPUs]
    BY DEF Typed, Steps
  <2>6. wake' \in [VCPUs -> SUBSET VCPUs]
    BY DEF Typed, Steps
  <2>7. ask' \in [VCPUs -> SUBSET VCPUs] /\ asked' \in [VCPUs -> VCPUs]
    BY DEF Typed, Steps
  <2>8. vcpus' \in [VCPUs -> SUBSET VCPUs]
    BY DEF Typed, Steps
  <2> QED
    BY <2>1, <2>2, <2>3, <2>4, <2>5, <2>6, <2>7, <2>8 DEF Typed
<1>2. Asking'
  BY ZenonT(60) DEF Typed, Asking
<1>3. Taken'
  BY DEF Typed, Taken
<1>4. Due'
  <2>1. ASSUME NEW w \in wake[v], Wakes(w), wake' = [wake EXCEPT ![v] = wake[v] \ {w}],
               UNCHANGED <<pc, then>>
        PROVE  Due'
    BY <2>1 DEF Typed, Due, Yielding
  <2>2. CASE wake[v] = {} /\ UNCHANGED <<wake, interruptible>>
    BY <2>2, SMTT(40) DEF Typed, Due, Yielding
  <2> QED
    BY <2>1, <2>2
<1>5. NoSleepingRing'
  <2>1. Sleeping' \subseteq Sleeping /\ \A u \in Sleeping' : vcpus'[u] = vcpus[u]
    BY DEF Typed, Sleeping
  <2> QED
    BY <2>1, RingKept
<1> QED
  BY <1>1, <1>2, <1>3, <1>4, <1>5

\* A yielding VCPU is on the list of each VCPU it has asked and of which it has seen it there.
LEMMA AskInv == ASSUME IInv, NEW v \in VCPUs, Ask(v) PROVE IInv'
<1> USE DEF IInv, At, Goto, crosspage, tasks, locals
<1>0. {"look", "take"} \subseteq Steps
  BY DEF Steps
<1>1. ASSUME NEW w \in ask[v],
             crosscallWaitSet' = [crosscallWaitSet EXCEPT ![w] = crosscallWaitSet[w] \cup {v}],
             ask' = [ask EXCEPT ![v] = ask[v] \ {w}],
             asked' = [asked EXCEPT ![v] = w],
             pc[v] = "ask", Goto(v, "look"),
             UNCHANGED <<call, tasks, then, after, wake, vcpus>>
      PROVE  IInv'
  <2>1. w \in VCPUs /\ w # v /\ w \notin vcpus[v]
    BY DEF Typed, Asking
  <2>2. Typed'
    BY <1>0, <1>1, <2>1 DEF Typed
  <2>3. Asking'
    BY <1>1, <2>1 DEF Typed, Asking
  <2>4. Taken'
    BY <1>1 DEF Typed, Taken
  <2>5. Due'
    <3>1. \A u \in VCPUs : crosscallWaitSet[u] \subseteq crosscallWaitSet'[u]
      BY <1>1, <2>1 DEF Typed
    <3>2. \A u \in VCPUs : Yielding(u)' => Yielding(u)
      BY <1>1 DEF Typed, Yielding
    <3> QED
      BY <1>1, <3>1, <3>2 DEF Typed, Due
  <2>6. NoSleepingRing'
    <3>1. Sleeping' \subseteq Sleeping
      BY <1>1 DEF Typed, Sleeping
    <3> QED
      BY <1>1, <3>1, RingKept
  <2> QED
    BY <2>2, <2>3, <2>4, <2>5, <2>6
<1>2. CASE /\ ask[v] = {} /\ pc[v] = "ask" /\ WakeThen(v, "decide")
           /\ UNCHANGED <<call, crosscallWaitSet, ask, asked, tasks, after, wake, vcpus>>
  <2> USE <1>2 DEF WakeThen
  <2>2. Typed'
    BY <1>0 DEF Typed
  <2>3. Asking'
    BY DEF Typed, Asking
  <2>4. Taken'
    BY DEF Typed, Taken
  <2>5. Due'
    BY DEF Typed, Due, Yielding
  <2>6. NoSleepingRing'
    <3>1. Sleeping' \subseteq Sleeping
      BY DEF Typed, Sleeping
    <3> QED
      BY <3>1, RingKept
  <2> QED
    BY <2>2, <2>3, <2>4, <2>5, <2>6
<1> QED
  BY <1>1, <1>2 DEF Ask

LEMMA LookInv == ASSUME IInv, NEW v \in VCPUs, Look(v) PROVE IInv'
<1> USE DEF IInv, Look, At, Goto, crosspage, tasks, locals
<1>1. Typed'
  BY DEF Typed, Steps, NoCall
<1>2. Asking'
  BY DEF Typed, Asking
<1>3. Taken'
  BY DEF Typed, Taken
<1>4. Due'
  BY DEF Typed, Asking, Taken, Due, Yielding
<1>5. NoSleepingRing'
  <2>1. Sleeping' \subseteq Sleeping /\ \A u \in Sleeping' : vcpus'[u] = vcpus[u]
    BY DEF Typed, Sleeping
  <2> QED
    BY <2>1, RingKept
<1> QED
  BY <1>1, <1>2, <1>3, <1>4, <1>5

LEMMA UnaskInv == ASSUME IInv, NEW v \in VCPUs, Unask(v) PROVE IInv'
<1> USE DEF IInv, Unask, At, Goto, crosspage, tasks, locals
<1>1. Typed'
  BY DEF Typed, Steps, NoCall
<1>2. Asking'
  BY DEF Typed, Asking
<1>3. Taken'
  BY DEF Typed, Taken
<1>4. Due'
  BY DEF Typed, Asking, Taken, Due, Yielding
<1>5. NoSleepingRing'
  <2>1. Sleeping' \subseteq Sleeping /\ \A u \in Sleeping' : vcpus'[u] = vcpus[u]
    BY DEF Typed, Sleeping
  <2> QED
    BY <2>1, RingKept
<1> QED
  BY <1>1, <1>2, <1>3, <1>4, <1>5

LEMMA ConfirmInv == ASSUME IInv, NEW v \in VCPUs, Confirm(v) PROVE IInv'
<1> USE DEF IInv, Confirm, At, Goto, crosspage, tasks, locals
<1>1. Typed'
  BY DEF Typed, Steps, NoCall
<1>2. Asking'
  BY DEF Typed, Asking
<1>3. Taken'
  BY DEF Typed, Taken
<1>4. Due'
  BY DEF Typed, Asking, Taken, Due, Yielding
<1>5. NoSleepingRing'
  <2>1. Sleeping' \subseteq Sleeping /\ \A u \in Sleeping' : vcpus'[u] = vcpus[u]
    BY DEF Typed, Sleeping
  <2> QED
    BY <2>1, RingKept
<1> QED
  BY <1>1, <1>2, <1>3, <1>4, <1>5

\* The last of a ring to decide would find that another had asked it.
LEMMA DecideInv == ASSUME IInv, NEW v \in VCPUs, Decide(v) PROVE IInv'
<1> USE DEF IInv, Decide, At, Goto, crosspage, tasks, locals
<1>1. Typed'
  BY DEF Typed, Steps, NoCall
<1>2. Asking'
  BY DEF Typed, Asking
<1>3. Taken'
  BY DEF Typed, Taken
<1>4. Due'
  BY DEF Typed, Asking, Taken, Due, Yielding
<1>5. NoSleepingRing'
  <2>1. CASE ~(vcpus[v] # {} /\ crosscallWaitSet[v] = {})
    <3>1. Sleeping' \subseteq Sleeping /\ UNCHANGED vcpus
      BY <2>1 DEF Typed, Sleeping
    <3> QED
      BY <3>1, RingKept
  <2>2. CASE vcpus[v] # {} /\ crosscallWaitSet[v] = {}
    <3> SUFFICES ASSUME NEW S \in SUBSET Sleeping', S # {}, \A u \in S : vcpus[u] \subseteq S
                 PROVE  FALSE
      BY DEF NoSleepingRing
    <3>1. wake[v] = {} /\ v \notin vcpus[v]
      BY DEF Taken, Asking
    <3>2. S \ {v} \subseteq Sleeping
      BY DEF Typed, Sleeping
    <3>3. \A u \in S \ {v} : v \notin vcpus[u]
      <4> SUFFICES ASSUME NEW u \in S \ {v}, v \in vcpus[u] PROVE FALSE
        OBVIOUS
      <4>1. u \in interruptible /\ Yielding(u)
        BY <3>2 DEF Sleeping, Yielding
      <4>2. u \in crosscallWaitSet[v] \/ u \in wake[v]
        BY <4>1 DEF Due
      <4> QED
        BY <2>2, <3>1, <4>2
    <3>4. \A u \in S \ {v} : vcpus[u] \subseteq S \ {v}
      BY <3>3
    <3>5. S \ {v} = {}
      BY <3>2, <3>4 DEF NoSleepingRing
    <3>6. S = {v}
      BY <3>5
    <3> QED
      BY <2>2, <3>1, <3>6
  <2> QED
    BY <2>1, <2>2
<1> QED
  BY <1>1, <1>2, <1>3, <1>4, <1>5

\* A VCPU is off the lists only when it waits no more.
LEMMA AwakeInv == ASSUME IInv, NEW v \in VCPUs, Awake(v) PROVE IInv'
<1> USE DEF IInv, Awake, At, Goto, crosspage, tasks, locals
<1>1. Typed'
  BY DEF Typed, Steps, NoCall
<1>2. Asking'
  BY DEF Typed, Asking
<1>3. Taken'
  BY DEF Typed, Taken
<1>4. Due'
  BY DEF Typed, Asking, Taken, Due, Yielding
<1>5. NoSleepingRing'
  <2>1. Sleeping' \subseteq Sleeping /\ \A u \in Sleeping' : vcpus'[u] = vcpus[u]
    BY DEF Typed, Sleeping
  <2> QED
    BY <2>1, RingKept
<1> QED
  BY <1>1, <1>2, <1>3, <1>4, <1>5

LEMMA ClearInv == ASSUME IInv, NEW v \in VCPUs, Clear(v) PROVE IInv'
<1> USE DEF IInv, Clear, At, Goto, crosspage, tasks, locals
<1>1. Typed'
  <2>1. pc' \in [VCPUs -> Steps]
    <3>1. \/ pc' = pc
          \/ \E s \in {"call", "switch", "clear"} : pc' = [pc EXCEPT ![v] = s]
      BY DEF Typed
    <3> QED
      BY <3>1, PcKept DEF Typed, Steps
  <2>2. then' \in [VCPUs -> {"call", "switch", "decide"}]
    BY DEF Typed, Steps
  <2>3. after' \in [VCPUs -> {"call", "switch"}]
    BY DEF Typed, Steps
  <2>4. vcpuSemaTask' \subseteq VCPUs /\ interruptible' \subseteq VCPUs
    BY DEF Typed, Steps
  <2>5. crosscallWaitSet' \in [VCPUs -> SUBSET VCPUs]
    BY DEF Typed, Steps
  <2>6. wake' \in [VCPUs -> SUBSET VCPUs]
    BY DEF Typed, Steps
  <2>7. ask' \in [VCPUs -> SUBSET VCPUs] /\ asked' \in [VCPUs -> VCPUs]
    BY DEF Typed, Steps
  <2>8. vcpus' \in [VCPUs -> SUBSET VCPUs]
    BY DEF Typed, Steps
  <2> QED
    BY <2>1, <2>2, <2>3, <2>4, <2>5, <2>6, <2>7, <2>8 DEF Typed
<1>2. Asking'
  BY DEF Typed, Asking
<1>3. Taken'
  BY DEF Typed, Taken
<1>4. Due'
  <2>1. ASSUME NEW w \in vcpus[v],
               crosscallWaitSet' = [crosscallWaitSet EXCEPT ![w] = crosscallWaitSet[w] \ {v}],
               vcpus' = [vcpus EXCEPT ![v] = vcpus[v] \ {w}], UNCHANGED <<pc, then, wake, tasks>>
        PROVE  Due'
    BY <2>1 DEF Typed, Due, Yielding
  <2>2. CASE /\ vcpuSemaTask' = vcpuSemaTask \ {v} /\ interruptible' = interruptible \ {v}
             /\ UNCHANGED <<crosscallWaitSet, vcpus>>
    BY <2>2 DEF Typed, Due, Yielding
  <2> QED
    BY <2>1, <2>2
<1>5. NoSleepingRing'
  <2>1. Sleeping' \subseteq Sleeping /\ \A u \in Sleeping' : vcpus'[u] = vcpus[u]
    BY DEF Typed, Sleeping
  <2> QED
    BY <2>1, RingKept
<1> QED
  BY <1>1, <1>2, <1>3, <1>4, <1>5

\* Semaphores: a thread that waits on one does not yield.
LEMMA SemaphoreWaitInv == ASSUME IInv, NEW v \in VCPUs, SemaphoreWait(v) PROVE IInv'
<1> USE DEF IInv, SemaphoreWait, At, Goto, crosspage, tasks, locals
<1>1. Typed'
  BY DEF Typed, Steps, NoCall
<1>2. Asking'
  BY DEF Typed, Asking
<1>3. Taken'
  BY DEF Typed, Taken
<1>4. Due'
  BY DEF Typed, Asking, Taken, Due, Yielding
<1>5. NoSleepingRing'
  <2>1. Sleeping' \subseteq Sleeping /\ \A u \in Sleeping' : vcpus'[u] = vcpus[u]
    BY DEF Typed, Sleeping
  <2> QED
    BY <2>1, RingKept
<1> QED
  BY <1>1, <1>2, <1>3, <1>4, <1>5

LEMMA RegisterInv == ASSUME IInv, NEW v \in VCPUs, Register(v) PROVE IInv'
<1> USE DEF IInv, Register, At, Goto, crosspage, tasks, locals
<1>1. Typed'
  BY DEF Typed, Steps, NoCall
<1>2. Asking'
  BY DEF Typed, Asking
<1>3. Taken'
  BY DEF Typed, Taken
<1>4. Due'
  BY DEF Typed, Asking, Taken, Due, Yielding
<1>5. NoSleepingRing'
  <2>1. Sleeping' \subseteq Sleeping /\ \A u \in Sleeping' : vcpus'[u] = vcpus[u]
    BY DEF Typed, Sleeping
  <2> QED
    BY <2>1, RingKept
<1> QED
  BY <1>1, <1>2, <1>3, <1>4, <1>5

LEMMA UnregisterInv == ASSUME IInv, NEW v \in VCPUs, Unregister(v) PROVE IInv'
<1> USE DEF IInv, Unregister, At, Goto, crosspage, tasks, locals
<1>1. Typed'
  BY DEF Typed, Steps, NoCall
<1>2. Asking'
  BY DEF Typed, Asking
<1>3. Taken'
  BY DEF Typed, Taken
<1>4. Due'
  BY DEF Typed, Asking, Taken, Due, Yielding
<1>5. NoSleepingRing'
  <2>1. Sleeping' \subseteq Sleeping /\ \A u \in Sleeping' : vcpus'[u] = vcpus[u]
    BY DEF Typed, Sleeping
  <2> QED
    BY <2>1, RingKept
<1> QED
  BY <1>1, <1>2, <1>3, <1>4, <1>5

LEMMA ReadInv == ASSUME IInv, NEW v \in VCPUs, Read(v) PROVE IInv'
<1> USE DEF IInv, Read, At, Goto, crosspage, tasks, locals
<1>1. Typed'
  BY DEF Typed, Steps, NoCall
<1>2. Asking'
  BY DEF Typed, Asking
<1>3. Taken'
  BY DEF Typed, Taken
<1>4. Due'
  BY DEF Typed, Asking, Taken, Due, Yielding
<1>5. NoSleepingRing'
  <2>1. Sleeping' \subseteq Sleeping /\ \A u \in Sleeping' : vcpus'[u] = vcpus[u]
    BY DEF Typed, Sleeping
  <2> QED
    BY <2>1, RingKept
<1> QED
  BY <1>1, <1>2, <1>3, <1>4, <1>5

\* Another thread is woken.
LEMMA SemaphoreSignalInv ==
  ASSUME IInv, NEW v \in VCPUs, NEW w \in Others(v), SemaphoreSignal(v, w)
  PROVE  IInv'
<1> USE DEF IInv, SemaphoreSignal, At, Goto, crosspage, tasks, locals, Others
<1>1. Typed'
  BY DEF Typed, Steps, NoCall
<1>2. Asking'
  BY DEF Typed, Asking
<1>3. Taken'
  BY DEF Typed, Taken
<1>4. Due'
  BY DEF Typed, Asking, Taken, Due, Yielding
<1>5. NoSleepingRing'
  <2>1. Sleeping' \subseteq Sleeping /\ \A u \in Sleeping' : vcpus'[u] = vcpus[u]
    BY DEF Typed, Sleeping
  <2> QED
    BY <2>1, RingKept
<1> QED
  BY <1>1, <1>2, <1>3, <1>4, <1>5

LEMMA ForceWakeupInv ==
  ASSUME IInv, NEW v \in VCPUs, NEW w \in Others(v), ForceWakeup(v, w)
  PROVE  IInv'
<1> USE DEF IInv, ForceWakeup, At, Goto, crosspage, tasks, locals, Wakes, Others
<1>1. Typed'
  BY DEF Typed, Steps, NoCall
<1>2. Asking'
  BY DEF Typed, Asking
<1>3. Taken'
  BY DEF Typed, Taken
<1>4. Due'
  BY DEF Typed, Asking, Taken, Due, Yielding
<1>5. NoSleepingRing'
  <2>1. Sleeping' \subseteq Sleeping /\ \A u \in Sleeping' : vcpus'[u] = vcpus[u]
    BY DEF Typed, Sleeping
  <2> QED
    BY <2>1, RingKept
<1> QED
  BY <1>1, <1>2, <1>3, <1>4, <1>5

-----------------------------------------------------------------------------
(* The theorems.                                                             *)

\* At first no VCPU yields or sleeps.
LEMMA InitInv == Init => IInv
<1> SUFFICES ASSUME Init PROVE IInv
  OBVIOUS
<1> USE DEF Init
<1>1. Typed
  BY DEF Typed, Steps, NoCall
<1>2. Asking /\ Taken /\ Due
  BY DEF Asking, Taken, Due
<1>3. NoSleepingRing
  <2>1. Sleeping = {}
    BY DEF Sleeping, At
  <2> SUFFICES ASSUME NEW S \in (SUBSET Sleeping) \ {{}} PROVE FALSE
    BY DEF NoSleepingRing
  <2>2. PICK u \in S : TRUE
    OBVIOUS
  <2> QED
    BY <2>1, <2>2
<1> QED
  BY <1>1, <1>2, <1>3 DEF IInv

\* Every step of the specification keeps the invariant.
LEMMA NextInv == IInv /\ [Next]_vars => IInv'
<1> SUFFICES ASSUME IInv, [Next]_vars PROVE IInv'
  OBVIOUS
<1>1. ASSUME NEW v \in VCPUs,
             \/ RunVM(v) \/ TaskSwitch(v) \/ Back(v) \/ Switched(v) \/ NoneCall(v) \/ Cosched(v)
      PROVE  IInv'
  BY <1>1, RunVMInv, TaskSwitchInv, BackInv, SwitchedInv, NoneCallInv, CoschedInv
<1>2. ASSUME NEW v \in VCPUs,
             \/ TakeWaitSet(v) \/ WakeUp(v) \/ Ask(v) \/ Look(v) \/ Unask(v) \/ Confirm(v)
             \/ Decide(v) \/ Awake(v) \/ Clear(v)
      PROVE  IInv'
  BY <1>2, TakeWaitSetInv, WakeUpInv, AskInv, LookInv, UnaskInv, ConfirmInv, DecideInv,
     AwakeInv, ClearInv
<1>3. ASSUME NEW v \in VCPUs,
             \/ SemaphoreWait(v) \/ Register(v) \/ Unregister(v) \/ Read(v)
             \/ \E w \in Others(v) : SemaphoreSignal(v, w) \/ ForceWakeup(v, w)
      PROVE  IInv'
  BY <1>3, SemaphoreWaitInv, RegisterInv, UnregisterInv, ReadInv, SemaphoreSignalInv,
     ForceWakeupInv
<1>4. CASE UNCHANGED vars
  <2> USE <1>4 DEF IInv, vars, crosspage, tasks, locals
  <2>1. Typed' /\ Asking' /\ Taken'
    BY DEF Typed, Asking, Taken
  <2>2. Due'
    BY DEF Due, Yielding
  <2>3. NoSleepingRing'
    BY DEF NoSleepingRing, Sleeping, At
  <2> QED
    BY <2>1, <2>2, <2>3
<1> QED
  BY <1>1, <1>2, <1>3, <1>4 DEF Next

\* The invariant holds in every behaviour.
THEOREM Invariance == Spec => []IInv
BY InitInv, NextInv, PTL DEF Spec

\* Whatever VCPUs yield to each other, signal or wake each other, and whenever their timers run
\* out: one that sleeps in Vmx86_YieldToSet is on the list of each VCPU it waits for, or is
\* about to be woken by it, and of VCPUs that sleep one waits for a VCPU that does not.
THEOREM YieldersWakeHolds == Spec => []YieldersWake
<1>1. IInv => YieldersWake
  <2> SUFFICES ASSUME IInv PROVE WakeupDue
    BY DEF YieldersWake, IInv
  <2>1. \A v \in Sleeping : v \in interruptible /\ Yielding(v)
    BY DEF Sleeping, At, Yielding
  <2> QED
    BY <2>1 DEF IInv, Due, WakeupDue
<1> QED
  BY <1>1, Invariance, PTL

\* No VCPU sleeps that nobody could wake: a VCPU that sleeps is registered as a task, which is
\* what a wake-up looks for.
THEOREM SleepersRegistered == Spec => [](Sleeping \subseteq vcpuSemaTask)
<1>1. IInv => Sleeping \subseteq vcpuSemaTask
  BY DEF IInv, Due, Sleeping, At, Yielding
<1> QED
  BY <1>1, Invariance, PTL

-----------------------------------------------------------------------------
(* Types.                                                                    *)

\* The types of what the argument does not need.
OtherTypes ==
  /\ moduleCallInterrupted \in [VCPUs -> BOOLEAN]
  /\ currentHostCpu \subseteq VCPUs
  /\ semaphore \in [VCPUs -> 0 .. MaxSignals]

LEMMA OtherTypesKept ==
  ASSUME SignalsAssumption, IInv, OtherTypes, [Next]_vars
  PROVE  OtherTypes'
<1>1. moduleCallInterrupted \in [VCPUs -> BOOLEAN] /\ currentHostCpu \subseteq VCPUs
      /\ semaphore \in [VCPUs -> 0 .. MaxSignals] /\ MaxSignals \in Nat
  BY DEF OtherTypes, SignalsAssumption
<1>2. CASE UNCHANGED vars
  BY <1>1, <1>2 DEF vars, crosspage, OtherTypes
<1>3. ASSUME NEW v \in VCPUs,
             \/ RunVM(v) \/ TaskSwitch(v) \/ Switched(v) \/ NoneCall(v) \/ Cosched(v)
             \/ TakeWaitSet(v) \/ WakeUp(v) \/ Ask(v) \/ Look(v) \/ Unask(v) \/ Confirm(v)
             \/ Decide(v) \/ Awake(v) \/ Clear(v)
             \/ SemaphoreWait(v) \/ Register(v) \/ Unregister(v)
      PROVE  OtherTypes'
  <2>1. CASE RunVM(v)
    BY <1>1, <2>1 DEF RunVM, OtherTypes
  <2>2. CASE TaskSwitch(v)
    BY <1>1, <2>2 DEF TaskSwitch, OtherTypes
  <2>3. CASE ~RunVM(v) /\ ~TaskSwitch(v)
    <3>1. UNCHANGED <<moduleCallInterrupted, currentHostCpu, semaphore>>
      BY <1>3, <2>3 DEF Switched, NoneCall, Cosched, TakeWaitSet, WakeUp, Ask, Look, Unask,
         Confirm, Decide, Awake, Clear, SemaphoreWait, Register, Unregister, crosspage
    <3> QED
      BY <1>1, <3>1 DEF OtherTypes
  <2> QED
    BY <2>1, <2>2, <2>3
<1>4. ASSUME NEW v \in VCPUs, Back(v)
      PROVE  OtherTypes'
  <2>1. /\ currentHostCpu' = currentHostCpu \ {v}
        /\ moduleCallInterrupted' = moduleCallInterrupted /\ semaphore' = semaphore
    BY <1>4 DEF Back, SwitchBack
  <2> QED
    BY <1>1, <2>1 DEF OtherTypes
<1>5. ASSUME NEW v \in VCPUs, Read(v)
      PROVE  OtherTypes'
  <2>1. /\ semaphore' = semaphore \/ semaphore' = [semaphore EXCEPT ![v] = 0]
        /\ \/ moduleCallInterrupted' = moduleCallInterrupted
           \/ moduleCallInterrupted' = [moduleCallInterrupted EXCEPT ![v] = TRUE]
        /\ currentHostCpu' = currentHostCpu
    BY <1>5 DEF Read
  <2>2. semaphore' \in [VCPUs -> 0 .. MaxSignals]
    BY <1>1, <2>1
  <2> QED
    BY <1>1, <2>1, <2>2 DEF OtherTypes
<1>6. ASSUME NEW v \in VCPUs, NEW w \in Others(v), SemaphoreSignal(v, w) \/ ForceWakeup(v, w)
      PROVE  OtherTypes'
  <2>1. /\ \/ semaphore' = semaphore
           \/ semaphore[w] < MaxSignals /\ semaphore' = [semaphore EXCEPT ![w] = semaphore[w] + 1]
        /\ \/ moduleCallInterrupted' = moduleCallInterrupted
           \/ moduleCallInterrupted' = [moduleCallInterrupted EXCEPT ![v] = TRUE]
        /\ currentHostCpu' = currentHostCpu /\ w \in VCPUs
    BY <1>6 DEF SemaphoreSignal, ForceWakeup, crosspage, Others
  <2>2. semaphore' \in [VCPUs -> 0 .. MaxSignals]
    BY <1>1, <2>1
  <2> QED
    BY <1>1, <2>1, <2>2 DEF OtherTypes
<1> QED
  BY <1>2, <1>3, <1>4, <1>5, <1>6 DEF Next

\* Every variable has its type, whatever VCPUs call, yield, signal and wake.
THEOREM TypeCorrect == ASSUME SignalsAssumption PROVE Spec => []TypeOK
<1>1. Init => OtherTypes
  BY DEF Init, OtherTypes, SignalsAssumption
<1>2. IInv /\ OtherTypes /\ [Next]_vars => OtherTypes'
  BY OtherTypesKept
<1>3. IInv /\ OtherTypes => TypeOK
  BY DEF IInv, Typed, OtherTypes, TypeOK, Steps
<1> QED
  BY <1>1, <1>2, <1>3, Invariance, PTL DEF Spec
=============================================================================
