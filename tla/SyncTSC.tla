------------------------------- MODULE SyncTSC -------------------------------
(***************************************************************************)
(* The reading of the time stamp counters of all CPUs at one time (vmmon,  *)
(* linux/driver.c).  LinuxDriverSyncCallOnEachCPU interrupts every other   *)
(* CPU and joins them; each waits for all to show up, but not for ever,    *)
(* then reads its counter and puts it into the minimum and the maximum     *)
(* with compare and exchange, which other CPUs may disturb.  The counts    *)
(* are on the stack of the CPU that calls, and it has the global lock.     *)
(***************************************************************************)
EXTENDS Integers, FiniteSetsExt

CONSTANTS
  CPUs,
  Caller,    \* the CPU that calls, one of CPUs
  TSCs,      \* values a counter may have, greater than 0
  Rounds     \* reads, of which the last successful counts (3 in the code)

CounterAssumption ==
  /\ IsFiniteSet(CPUs) /\ Caller \in CPUs /\ Rounds \in Nat
  /\ TSCs \subseteq Nat \ {0} /\ \E most \in TSCs : \A v \in TSCs : v <= most

VARIABLES
  pc,                             \* the step of the hook a CPU is at
  numCPUs, ready, failures, done, \* SyncFuncArgs
  min, max,                       \* TSCDelta
  expired,                        \* CPUs that have waited too long
  tsc, old,                       \* the hook's locals
  round, delta, okay,             \* locals of LinuxDriverSyncReadTSCs
  early                           \* CPUs that read before all had shown up (history)

args  == <<numCPUs, ready, failures, done>>
local == <<tsc, old, expired, early>>
call  == <<round, delta, okay>>
vars  == <<pc, args, min, max, local, call>>

Most == Max(TSCs) + 1       \* ~CONST64U(0)

Init ==
  /\ pc = [c \in CPUs |-> "out"]
  /\ numCPUs = 0 /\ ready = 0 /\ failures = 0 /\ done = 0
  /\ min = Most /\ max = 0
  /\ expired = {} /\ early = {}
  /\ tsc = [c \in CPUs |-> 0] /\ old = [c \in CPUs |-> 0]
  /\ round = 0 /\ delta = 0 /\ okay = FALSE

Goto(c, label) == pc' = [pc EXCEPT ![c] = label]

-----------------------------------------------------------------------------
(* LinuxDriverSyncReadTSCs and LinuxDriverSyncCallOnEachCPU.                *)

\* The counts and the extremes are reset, and the other CPUs are interrupted.
Call ==
  /\ round < Rounds /\ pc[Caller] = "out"
  /\ numCPUs' = 0 /\ ready' = 0 /\ failures' = 0 /\ done' = 0
  /\ min' = Most /\ max' = 0 /\ expired' = {} /\ early' = {}
  /\ pc' = [c \in CPUs |-> "enter"]
  /\ UNCHANGED <<tsc, old, call>>

\* Mutant: the caller leaves when it is done itself.
ReturnAtOnce ==
  /\ pc[Caller] = "finished"
  /\ Goto(Caller, "out")
  /\ round' = round + 1
  /\ IF failures = 0 THEN delta' = max - min /\ okay' = TRUE ELSE UNCHANGED <<delta, okay>>
  /\ UNCHANGED <<args, min, max, local>>

\* The caller waits for every hook to be done.
Return ==
  /\ pc[Caller] = "finished" /\ done = numCPUs
  /\ Goto(Caller, "out")
  /\ round' = round + 1
  /\ IF failures = 0 THEN delta' = max - min /\ okay' = TRUE ELSE UNCHANGED <<delta, okay>>
  /\ UNCHANGED <<args, min, max, local>>

-----------------------------------------------------------------------------
(* LinuxDriverSyncCallHook and LinuxDriverReadTSC on CPU c.                 *)

\* The first one in counts the CPUs.
Enter(c) ==
  /\ pc[c] = "enter"
  /\ numCPUs' = IF numCPUs = 0 THEN Cardinality(CPUs) ELSE numCPUs
  /\ Goto(c, "ready")
  /\ UNCHANGED <<ready, failures, done, min, max, local, call>>

Ready(c) ==
  /\ pc[c] = "ready"
  /\ ready' = ready + 1
  /\ Goto(c, "wait")
  /\ UNCHANGED <<numCPUs, failures, done, min, max, local, call>>

ReadTSC(c) ==
  /\ \E v \in TSCs : tsc' = [tsc EXCEPT ![c] = v]
  /\ Goto(c, "readmin")
  /\ early' = IF ready = Cardinality(CPUs) THEN early ELSE early \cup {c}
  /\ UNCHANGED <<args, min, max, old, call>>

\* All are there.
Wait(c) ==
  /\ pc[c] = "wait" /\ ready = numCPUs
  /\ ReadTSC(c)
  /\ UNCHANGED expired

\* Mutant: a CPU that has waited too long does not say so.
ExpireQuietly(c) ==
  /\ pc[c] = "wait" /\ ready # numCPUs
  /\ ReadTSC(c)
  /\ UNCHANGED expired

\* The last iteration.
Expire(c) ==
  /\ pc[c] = "wait" /\ ready # numCPUs
  /\ ReadTSC(c)
  /\ expired' = expired \cup {c}

\* Each extreme: read it, and exchange it if it is to change; again if it has changed.
ReadMin(c) ==
  /\ pc[c] = "readmin"
  /\ old' = [old EXCEPT ![c] = min]
  /\ Goto(c, IF min > tsc[c] THEN "setmin" ELSE "readmax")
  /\ UNCHANGED <<args, min, max, tsc, expired, early, call>>

\* Mutant: another CPU's value is overwritten.
SetMinBlindly(c) ==
  /\ pc[c] = "setmin"
  /\ min' = tsc[c] /\ Goto(c, "readmax")
  /\ UNCHANGED <<args, max, local, call>>

SetMin(c) ==
  /\ pc[c] = "setmin"
  /\ IF min = old[c] THEN min' = tsc[c] /\ Goto(c, "readmax")
     ELSE Goto(c, "readmin") /\ UNCHANGED min
  /\ UNCHANGED <<args, max, local, call>>

ReadMax(c) ==
  /\ pc[c] = "readmax"
  /\ old' = [old EXCEPT ![c] = max]
  /\ Goto(c, IF max < tsc[c] THEN "setmax" ELSE "report")
  /\ UNCHANGED <<args, min, max, tsc, expired, early, call>>

SetMax(c) ==
  /\ pc[c] = "setmax"
  /\ IF max = old[c] THEN max' = tsc[c] /\ Goto(c, "report")
     ELSE Goto(c, "readmax") /\ UNCHANGED max
  /\ UNCHANGED <<args, min, local, call>>

Report(c) ==
  /\ pc[c] = "report"
  /\ failures' = IF c \in expired THEN failures + 1 ELSE failures
  /\ Goto(c, "done")
  /\ UNCHANGED <<numCPUs, ready, done, min, max, local, call>>

\* The last use of the counts by a CPU that was interrupted.
Done(c) ==
  /\ pc[c] = "done"
  /\ done' = done + 1
  /\ Goto(c, IF c = Caller THEN "finished" ELSE "out")
  /\ UNCHANGED <<numCPUs, ready, failures, min, max, local, call>>

Hook(c) ==
  \/ Enter(c) \/ Ready(c) \/ Wait(c) \/ Expire(c)
  \/ ReadMin(c) \/ SetMin(c) \/ ReadMax(c) \/ SetMax(c) \/ Report(c) \/ Done(c)

Next == Call \/ Return \/ \E c \in CPUs : Hook(c)

Spec == Init /\ [][Next]_vars

-----------------------------------------------------------------------------
(* Properties.                                                              *)

\* The type of every variable.
TypeOK ==
  /\ pc \in [CPUs -> {"out", "enter", "ready", "wait", "readmin", "setmin", "readmax",
                      "setmax", "report", "done", "finished"}]
  /\ numCPUs \in {0, Cardinality(CPUs)}
  /\ {ready, failures, done} \subseteq 0 .. Cardinality(CPUs)
  /\ min \in TSCs \cup {Most} /\ max \in TSCs \cup {0}
  /\ expired \subseteq CPUs /\ early \subseteq CPUs
  /\ tsc \in [CPUs -> TSCs \cup {0}] /\ old \in [CPUs -> TSCs \cup {0, Most}]
  /\ round \in 0 .. Rounds /\ delta \in Nat /\ okay \in BOOLEAN

\* When the caller has left, nobody uses the counts on its stack; and when it finds no
\* failure, every CPU has read its counter after all had shown up, and the extremes are
\* those of all that was read, however the exchanges interleaved.
Simultaneous ==
  /\ pc[Caller] = "out" => \A c \in CPUs : pc[c] = "out"
  /\ (pc[Caller] = "finished" /\ done = numCPUs /\ failures = 0) =>
       /\ early = {}
       /\ min = Min({tsc[c] : c \in CPUs}) /\ max = Max({tsc[c] : c \in CPUs})
=============================================================================
