------------------------------ MODULE HostWait ------------------------------
(***************************************************************************)
(* The threads of the VCPUs of one machine (vmmon): Vmx86_RunVM            *)
(* (moduleloop.c) switches to the monitor and carries out the module call  *)
(* with which it comes back, as far as these calls wait for other VCPUs or *)
(* wake them: Vmx86_YieldToSet (vmx86.c) and the semaphores and wake-ups   *)
(* of hostif.c.                                                            *)
(*                                                                         *)
(* Each access to a variable that VCPUs share is an action of its own.  A  *)
(* thread sleeps while its task is interruptible; the timers of its sleeps *)
(* may end them at any time.                                               *)
(***************************************************************************)
EXTENDS Integers, FiniteSets

CONSTANTS
  VCPUs,
  Calls,        \* the module calls the monitor makes
  MaxSignals    \* no more signals are posted on a semaphore (bound)

VARIABLES
  pc,                     \* where a thread is
  then,                   \* where it goes when it has woken the yielders
  after,                  \* where it goes when it has yielded
  call,                   \* crosspage: [type, set, yield]
  moduleCallInterrupted,  \* crosspage->moduleCallInterrupted
  currentHostCpu,         \* VCPUs in the monitor
  crosscallWaitSet,       \* VCPUs that a VCPU is to wake
  vcpuSemaTask,           \* VCPUs whose task is registered
  interruptible,          \* VCPUs whose task is TASK_INTERRUPTIBLE
  wake,                   \* VCPUs left to wake, of a set taken from a shared one
  ask,                    \* VCPUs left to ask for a wake-up
  asked,                  \* the VCPU asked last
  vcpus,                  \* VCPUs that a VCPU waits for
  semaphore               \* what the file a VCPU waits on holds

crosspage == <<call, moduleCallInterrupted>>
tasks     == <<vcpuSemaTask, interruptible>>
locals    == <<then, after, wake, ask, asked, vcpus>>
vars      == <<pc, crosspage, currentHostCpu, crosscallWaitSet, tasks, locals, semaphore>>

NoCall == [type |-> "none", set |-> {}, yield |-> {}]

SignalsAssumption == MaxSignals \in Nat

Init ==
  /\ pc = [v \in VCPUs |-> "user"]
  /\ then = [v \in VCPUs |-> "call"] /\ after = [v \in VCPUs |-> "call"]
  /\ call = [v \in VCPUs |-> NoCall]
  /\ moduleCallInterrupted = [v \in VCPUs |-> FALSE]
  /\ currentHostCpu = {}
  /\ crosscallWaitSet = [v \in VCPUs |-> {}]
  /\ vcpuSemaTask = {} /\ interruptible = {}
  /\ wake = [v \in VCPUs |-> {}] /\ ask = [v \in VCPUs |-> {}]
  /\ asked = [v \in VCPUs |-> v]
  /\ vcpus = [v \in VCPUs |-> {}]
  /\ semaphore = [v \in VCPUs |-> 0]

At(v, step)   == pc[v] = step
Goto(v, step) == pc' = [pc EXCEPT ![v] = step]

\* wake_up_process: the task is runnable, and does not go to sleep.
Wakes(w) ==
  interruptible' = IF w \in vcpuSemaTask THEN interruptible \ {w} ELSE interruptible

-----------------------------------------------------------------------------
(* Vmx86_RunVM.                                                              *)

RunVM(v) ==
  /\ At(v, "user")
  /\ Goto(v, IF moduleCallInterrupted[v] THEN "call" ELSE "switch")
  /\ moduleCallInterrupted' = [moduleCallInterrupted EXCEPT ![v] = FALSE]
  /\ UNCHANGED <<call, currentHostCpu, crosscallWaitSet, tasks, locals, semaphore>>

\* Task_Switch, to the monitor and back with a call.
TaskSwitch(v) ==
  /\ At(v, "switch") /\ Goto(v, "monitor")
  /\ currentHostCpu' = currentHostCpu \cup {v}
  /\ call' = [call EXCEPT ![v] = NoCall]
  /\ UNCHANGED <<moduleCallInterrupted, crosscallWaitSet, tasks, locals, semaphore>>

SwitchBack(v, type, set, yield) ==
  /\ At(v, "monitor") /\ Goto(v, "switched")
  /\ currentHostCpu' = currentHostCpu \ {v}
  /\ call' = [call EXCEPT ![v] = [type |-> type, set |-> set, yield |-> yield]]
  /\ UNCHANGED <<moduleCallInterrupted, crosscallWaitSet, tasks, locals, semaphore>>

WakeThen(v, step) == Goto(v, "take") /\ then' = [then EXCEPT ![v] = step]

\* Vmx86_YieldToSet up to its loop, and then to step; a short one only wakes.
YieldToSet(v, set, short, step) ==
  \/ /\ set = {} /\ Goto(v, step)
     /\ UNCHANGED <<then, after, ask, vcpus, tasks>>
  \/ /\ set # {} /\ short
     /\ WakeThen(v, step)
     /\ UNCHANGED <<after, ask, vcpus, tasks>>
  \/ /\ set # {} /\ ~short
     /\ Goto(v, "ask")
     /\ after' = [after EXCEPT ![v] = step]
     /\ ask' = [ask EXCEPT ![v] = set \ {v}]
     /\ vcpus' = [vcpus EXCEPT ![v] = {}]
     /\ interruptible' = interruptible \cup {v}
     /\ vcpuSemaTask' = vcpuSemaTask \cup {v}
     /\ UNCHANGED then

\* Before the call: VCPUs that yielded to this one are woken, or it yields.
Switched(v) ==
  LET c == call[v]
  IN  /\ At(v, "switched")
      /\ \/ /\ (c.yield = {} /\ c.type # "cosched") \/ c.type = "semawait"
            /\ WakeThen(v, "call")
            /\ UNCHANGED <<after, ask, vcpus, tasks>>
         \/ /\ c.yield # {} /\ c.type \notin {"cosched", "semawait"}
            /\ YieldToSet(v, c.yield, FALSE, "call")
         \/ /\ c.type = "cosched"
            /\ Goto(v, "call")
            /\ UNCHANGED <<then, after, ask, vcpus, tasks>>
      /\ UNCHANGED <<crosspage, currentHostCpu, crosscallWaitSet, wake, asked, semaphore>>

\* MODULECALL_NONE, a call to the user level, and MODULECALL_COSCHED.
NoneCall(v) ==
  /\ At(v, "call") /\ call[v].type \in {"none", "usercall"}
  /\ Goto(v, IF call[v].type = "none" THEN "switch" ELSE "user")
  /\ UNCHANGED <<crosspage, currentHostCpu, crosscallWaitSet, tasks, locals, semaphore>>

Cosched(v) ==
  /\ At(v, "call") /\ call[v].type = "cosched"
  /\ \E short \in BOOLEAN : YieldToSet(v, call[v].set, short, "switch")
  /\ UNCHANGED <<crosspage, currentHostCpu, crosscallWaitSet, wake, asked, semaphore>>

-----------------------------------------------------------------------------
(* HostIF_WakeUpYielders: the set is taken whole, and its VCPUs are woken.   *)

TakeWaitSet(v) ==
  /\ At(v, "take") /\ Goto(v, "wake")
  /\ wake' = [wake EXCEPT ![v] = crosscallWaitSet[v]]
  /\ crosscallWaitSet' = [crosscallWaitSet EXCEPT ![v] = {}]
  /\ UNCHANGED <<crosspage, currentHostCpu, tasks, then, after, ask, asked,
                 vcpus, semaphore>>

WakeUp(v) ==
  /\ At(v, "wake")
  /\ \/ \E w \in wake[v] :
          /\ Wakes(w)
          /\ wake' = [wake EXCEPT ![v] = @ \ {w}]
          /\ UNCHANGED <<pc, then>>
     \/ /\ wake[v] = {} /\ Goto(v, then[v])
        /\ then' = [then EXCEPT ![v] = "call"]
        /\ UNCHANGED <<wake, interruptible>>
  /\ UNCHANGED <<crosspage, currentHostCpu, crosscallWaitSet, vcpuSemaTask, after, ask, asked,
                 vcpus, semaphore>>

-----------------------------------------------------------------------------
(* The rest of Vmx86_YieldToSet.                                             *)

\* It asks each VCPU for a wake-up before it looks where that VCPU is; one in the monitor
\* has run or is running, and one that has taken its set since will wake it or has.
Ask(v) ==
  /\ At(v, "ask")
  /\ \/ \E w \in ask[v] :
          /\ crosscallWaitSet' = [crosscallWaitSet EXCEPT ![w] = @ \cup {v}]
          /\ ask' = [ask EXCEPT ![v] = @ \ {w}]
          /\ asked' = [asked EXCEPT ![v] = w]
          /\ Goto(v, "look")
          /\ UNCHANGED then
     \/ ask[v] = {} /\ WakeThen(v, "decide") /\ UNCHANGED <<crosscallWaitSet, ask, asked>>
  /\ UNCHANGED <<crosspage, currentHostCpu, tasks, after, wake, vcpus, semaphore>>

Look(v) ==
  /\ At(v, "look")
  /\ Goto(v, IF asked[v] \in currentHostCpu THEN "unask" ELSE "confirm")
  /\ UNCHANGED <<crosspage, currentHostCpu, crosscallWaitSet, tasks, locals, semaphore>>

Unask(v) ==
  /\ At(v, "unask") /\ Goto(v, "ask")
  /\ crosscallWaitSet' = [crosscallWaitSet EXCEPT ![asked[v]] = @ \ {v}]
  /\ asked' = [asked EXCEPT ![v] = v]
  /\ UNCHANGED <<crosspage, currentHostCpu, tasks, then, after, wake, ask, vcpus, semaphore>>

Confirm(v) ==
  /\ At(v, "confirm") /\ Goto(v, "ask")
  /\ vcpus' = IF v \in crosscallWaitSet[asked[v]]
                THEN [vcpus EXCEPT ![v] = @ \cup {asked[v]}] ELSE vcpus
  /\ asked' = [asked EXCEPT ![v] = v]
  /\ UNCHANGED <<crosspage, currentHostCpu, crosscallWaitSet, tasks, then, after, wake, ask,
                 semaphore>>

\* Mutant: the task is made interruptible only here.
DecideAndPrepare(v) ==
  /\ At(v, "decide")
  /\ Goto(v, IF vcpus[v] # {} /\ crosscallWaitSet[v] = {} THEN "asleep" ELSE "clear")
  /\ interruptible' = interruptible \cup {v}
  /\ UNCHANGED <<crosspage, currentHostCpu, crosscallWaitSet, vcpuSemaTask, locals, semaphore>>

\* After it has woken those that yielded to it: it sleeps if nobody has asked it since.
Decide(v) ==
  /\ At(v, "decide")
  /\ Goto(v, IF vcpus[v] # {} /\ crosscallWaitSet[v] = {} THEN "asleep" ELSE "clear")
  /\ UNCHANGED <<crosspage, currentHostCpu, crosscallWaitSet, tasks, locals, semaphore>>

\* HostIF_WaitForThreads returns: the task was woken, or the timer runs out.
Awake(v) ==
  /\ At(v, "asleep") /\ Goto(v, "clear")
  /\ interruptible' = interruptible \ {v}
  /\ UNCHANGED <<crosspage, currentHostCpu, crosscallWaitSet, vcpuSemaTask, locals, semaphore>>

\* The bits are taken back one by one, then HostIF_CancelWaitForThreads.
Clear(v) ==
  /\ At(v, "clear")
  /\ \/ \E w \in vcpus[v] :
          /\ crosscallWaitSet' = [crosscallWaitSet EXCEPT ![w] = @ \ {v}]
          /\ vcpus' = [vcpus EXCEPT ![v] = @ \ {w}]
          /\ UNCHANGED <<pc, after, tasks>>
     \/ /\ vcpus[v] = {} /\ Goto(v, after[v])
        /\ vcpuSemaTask' = vcpuSemaTask \ {v} /\ interruptible' = interruptible \ {v}
        /\ after' = [after EXCEPT ![v] = "call"]
        /\ UNCHANGED <<crosscallWaitSet, vcpus>>
  /\ UNCHANGED <<crosspage, currentHostCpu, then, wake, ask, asked, semaphore>>

-----------------------------------------------------------------------------
(* HostIF_SemaphoreWait, Signal and ForceWakeup.                             *)

\* The poll puts the thread on the wait queue of the file.
SemaphoreWait(v) ==
  /\ At(v, "call") /\ call[v].type = "semawait"
  /\ interruptible' = interruptible \cup {v}
  /\ Goto(v, IF semaphore[v] > 0 THEN "read" ELSE "register")
  /\ UNCHANGED <<crosspage, currentHostCpu, crosscallWaitSet, vcpuSemaTask, locals, semaphore>>

Register(v) ==
  /\ At(v, "register") /\ Goto(v, "semasleep")
  /\ vcpuSemaTask' = vcpuSemaTask \cup {v}
  /\ UNCHANGED <<crosspage, currentHostCpu, crosscallWaitSet, interruptible, locals, semaphore>>

\* schedule_timeout returns: the task was woken, or the timer runs out.
Unregister(v) ==
  /\ At(v, "semasleep") /\ Goto(v, "read")
  /\ vcpuSemaTask' = vcpuSemaTask \ {v} /\ interruptible' = interruptible \ {v}
  /\ UNCHANGED <<crosspage, currentHostCpu, crosscallWaitSet, locals, semaphore>>

\* What the read finds: the value, nothing (MX_WAITTIMEDOUT) or a Unix signal
\* (MX_WAITINTERRUPTED).
Read(v) ==
  /\ At(v, "read")
  /\ interruptible' = interruptible \ {v}
  /\ \/ /\ semaphore' = [semaphore EXCEPT ![v] = 0]
        /\ Goto(v, "switch")
        /\ UNCHANGED moduleCallInterrupted
     \/ /\ semaphore[v] = 0
        /\ Goto(v, "user")
        /\ moduleCallInterrupted' = [moduleCallInterrupted EXCEPT ![v] = TRUE]
        /\ UNCHANGED semaphore
  /\ UNCHANGED <<call, currentHostCpu, crosscallWaitSet, vcpuSemaTask, locals>>

\* The write wakes the thread on the wait queue, or is interrupted by a Unix signal.
SemaphoreSignal(v, w) ==
  /\ At(v, "call") /\ call[v].type = "semasignal" /\ call[v].set = {w}
  /\ \/ /\ semaphore[w] < MaxSignals
        /\ semaphore' = [semaphore EXCEPT ![w] = @ + 1]
        /\ interruptible' = IF pc[w] \in {"register", "semasleep"} THEN interruptible \ {w}
                            ELSE interruptible
        /\ Goto(v, "switch")
        /\ UNCHANGED moduleCallInterrupted
     \/ /\ Goto(v, "user")
        /\ moduleCallInterrupted' = [moduleCallInterrupted EXCEPT ![v] = TRUE]
        /\ UNCHANGED <<semaphore, interruptible>>
  /\ UNCHANGED <<call, currentHostCpu, crosscallWaitSet, vcpuSemaTask, locals>>

\* HostIF_SemaphoreForceWakeup of one VCPU.
ForceWakeup(v, w) ==
  /\ At(v, "call") /\ call[v].type = "forcewakeup" /\ call[v].set = {w}
  /\ vcpuSemaTask' = vcpuSemaTask \ {w}
  /\ Wakes(w)
  /\ Goto(v, "switch")
  /\ UNCHANGED <<crosspage, currentHostCpu, crosscallWaitSet, locals, semaphore>>

-----------------------------------------------------------------------------
\* What the monitor calls with: sets of other VCPUs, of one for a signal or a wake-up.
Others(v) == VCPUs \ {v}

Targets(v, type) ==
  IF type = "cosched" THEN (SUBSET Others(v)) \ {{}}
  ELSE IF type \in {"semasignal", "forcewakeup"} THEN {{w} : w \in Others(v)}
  ELSE {{}}

Back(v) ==
  \E type \in Calls : \E set \in Targets(v, type), yield \in SUBSET Others(v) :
    /\ type = "cosched" => yield = {}
    /\ SwitchBack(v, type, set, yield)

Next ==
  \E v \in VCPUs :
    \/ RunVM(v) \/ TaskSwitch(v) \/ Back(v) \/ Switched(v) \/ NoneCall(v) \/ Cosched(v)
    \/ TakeWaitSet(v) \/ WakeUp(v)
    \/ Ask(v) \/ Look(v) \/ Unask(v) \/ Confirm(v) \/ Decide(v) \/ Awake(v) \/ Clear(v)
    \/ SemaphoreWait(v) \/ Register(v) \/ Unregister(v) \/ Read(v)
    \/ \E w \in Others(v) : SemaphoreSignal(v, w) \/ ForceWakeup(v, w)

Spec == Init /\ [][Next]_vars

-----------------------------------------------------------------------------
(* Properties.                                                              *)

Steps == {"user", "switch", "monitor", "switched", "call", "take", "wake", "ask", "look", "unask",
          "confirm", "decide", "asleep", "clear", "register", "semasleep", "read"}

\* The type of every variable.
TypeOK ==
  /\ pc \in [VCPUs -> Steps] /\ then \in [VCPUs -> Steps] /\ after \in [VCPUs -> Steps]
  /\ \A v \in VCPUs : /\ call[v].type \in Calls \cup {"none"}
                      /\ call[v].set \subseteq VCPUs /\ call[v].yield \subseteq VCPUs
  /\ moduleCallInterrupted \in [VCPUs -> BOOLEAN]
  /\ currentHostCpu \subseteq VCPUs
  /\ vcpuSemaTask \subseteq VCPUs /\ interruptible \subseteq VCPUs
  /\ crosscallWaitSet \in [VCPUs -> SUBSET VCPUs] /\ wake \in [VCPUs -> SUBSET VCPUs]
  /\ ask \in [VCPUs -> SUBSET VCPUs] /\ asked \in [VCPUs -> VCPUs]
  /\ vcpus \in [VCPUs -> SUBSET VCPUs]
  /\ semaphore \in [VCPUs -> 0 .. MaxSignals]

Sleeping == {v \in VCPUs : At(v, "asleep") /\ v \in interruptible}

\* A VCPU that sleeps in Vmx86_YieldToSet is on the list of each VCPU it waits for, or
\* that VCPU has taken its list and is about to wake it.
WakeupDue ==
  \A v \in Sleeping : \A w \in vcpus[v] : v \in crosscallWaitSet[w] \/ v \in wake[w]

\* VCPUs never sleep in a ring: of those that sleep and wait for sleepers only, one is
\* about to be woken.
NoSleepingRing ==
  \A S \in (SUBSET Sleeping) \ {{}} :
    \E v \in S : ~(vcpus[v] \subseteq S)

\* VCPUs that sleep for others are woken.
YieldersWake == WakeupDue /\ NoSleepingRing
=============================================================================
