------------------------------ MODULE PseudoTSC ------------------------------
(***************************************************************************)
(* The pseudo TSC of a virtual machine (vmmon, common/task.c and           *)
(* common/vmx86.c): what its VCPUs see as the time stamp counter.  A VCPU  *)
(* that switches to the monitor computes it from the counter of its CPU or *)
(* from the host's clock, which the monitor cannot read: inside, it is the *)
(* counter and an offset.  Where the counters of the CPUs agree, all VCPUs *)
(* inside use the offset of the first that entered; the count of those     *)
(* inside and the number of that one are exchanged as one word.            *)
(***************************************************************************)
EXTENDS Integers, FiniteSets

CONSTANTS
  VCPUs,
  Hz,          \* pseudoTSC.hz: how far behind it is pushed, not followed
  LargeDelta,  \* hz * 4096: a jump that cannot be the time between two switches
  Word,        \* 2^64
  MaxTSC, MaxUptime, \* bounds of the counter and of the clock
  Skews        \* how far the counters of CPUs are off, when they are

ClockAssumption ==
  /\ IsFiniteSet(VCPUs) /\ {Hz, LargeDelta, Word, MaxTSC, MaxUptime} \subseteq Nat
  /\ Skews \subseteq Int /\ 0 \in Skews /\ Hz < LargeDelta /\ 2 * LargeDelta < Word

\* The times are far from 2^64: with 4 GHz they get there in a century.
NoWrapAssumption ==
  \E far \in 0 .. Word : /\ \A s \in Skews : -far <= s /\ s <= far
                         /\ 2 * MaxTSC + MaxUptime + 2 * far + LargeDelta < Word

VARIABLES
  hwTSCsSynced, neverSwitchToRefClock, useRefClock, tscOffset, refAdd, \* pseudoTSC
  tsc, uptime,                 \* the counter, and the clock in cycles
  skew,                        \* of the CPU a VCPU runs on
  polling,                     \* the user's poll of the clocks has begun
  ptscOffsetInfo, ptscLatest, ptscOffsets, \* of the VMDriver
  pc, ptsc, start, old, latest,            \* locals of a VCPU's thread
  add, worldSwitchPTSC,        \* of a VCPU's cross page
  stale, reused, stepped, backwards \* history

host   == <<hwTSCsSynced, neverSwitchToRefClock, tscOffset>>
clocks == <<tsc, uptime, skew>>
env    == <<host, useRefClock, refAdd, clocks, polling>>
info   == <<ptscOffsetInfo, stale, reused>>
shared == <<info, ptscLatest, ptscOffsets>>
locals == <<ptsc, start, old, latest, stepped>>
cross  == <<add, worldSwitchPTSC, backwards>>
vars   == <<env, shared, pc, locals, cross>>

NotRead == [vcpu |-> "none", inVMMCnt |-> 0]

\* As Vmx86_InitPseudoTSC leaves it when the clocks are at 0, and Task_InitCrosspage.
Init ==
  /\ hwTSCsSynced \in BOOLEAN /\ neverSwitchToRefClock \in BOOLEAN /\ useRefClock \in BOOLEAN
  /\ tscOffset = 0 /\ refAdd = 0 /\ tsc = 0 /\ uptime = 0
  /\ skew = [v \in VCPUs |-> 0]
  /\ polling = FALSE
  /\ \E v \in VCPUs : ptscOffsetInfo = [vcpu |-> v, inVMMCnt |-> 0]
  /\ ptscLatest = 0 /\ ptscOffsets = [v \in VCPUs |-> 0]
  /\ pc = [v \in VCPUs |-> "out"]
  /\ ptsc = [v \in VCPUs |-> 0] /\ start = [v \in VCPUs |-> 0]
  /\ old = [v \in VCPUs |-> NotRead] /\ latest = [v \in VCPUs |-> 0]
  /\ add = [v \in VCPUs |-> 0] /\ worldSwitchPTSC = [v \in VCPUs |-> 0]
  /\ stale = {} /\ reused = FALSE /\ stepped = {} /\ backwards = {}

RDTSC(v) == tsc + (IF hwTSCsSynced THEN 0 ELSE skew[v])

\* Vmx86_GetPseudoTSC, when the reference clock is its base or not.
GetPseudoTSC(v, fromClock) == IF fromClock THEN uptime + refAdd ELSE RDTSC(v) + tscOffset

\* The unsigned difference of two 64-bit numbers.
Minus(a, b) == (a - b) % Word

Goto(v, label) == pc' = [pc EXCEPT ![v] = label]

SetPseudoTSCUseRefClock == useRefClock' = (useRefClock \/ ~neverSwitchToRefClock)

\* A local that is not used any more.
Unset(f, v) == f' = [f EXCEPT ![v] = 0]
Forget(v) == old' = [old EXCEPT ![v] = NotRead]

-----------------------------------------------------------------------------
(* The host: its clocks, its CPUs and the user's poll.                      *)

\* The counter ticks; the clock, which is coarser, may stand or catch up.
Tick ==
  /\ tsc < MaxTSC /\ tsc' = tsc + 1
  /\ uptime' \in uptime .. MaxUptime
  /\ UNCHANGED <<host, useRefClock, refAdd, skew, polling, shared, pc, locals, cross>>

\* A VCPU's thread is moved to another CPU.
Migrate(v) ==
  /\ ~hwTSCsSynced /\ pc[v] = "out"
  /\ \E s \in Skews : skew' = [skew EXCEPT ![v] = s]
  /\ UNCHANGED <<host, useRefClock, refAdd, tsc, uptime, polling, shared, pc, locals,
                 cross>>

\* Vmx86_CheckPseudoTSC reads both clocks while the counter is the base.
Poll ==
  /\ ~polling /\ ~useRefClock
  /\ polling' = TRUE
  /\ UNCHANGED <<host, useRefClock, refAdd, clocks, shared, pc, locals, cross>>

\* If it finds no earlier poll, nothing happens; if they have drifted apart since, the counter
\* is given up, and if not the clock follows it (what was read then is as of now).
Compare ==
  /\ polling /\ polling' = FALSE
  /\ \/ UNCHANGED <<useRefClock, refAdd>>
     \/ SetPseudoTSCUseRefClock /\ UNCHANGED refAdd
     \/ refAdd' = tsc + tscOffset - uptime /\ UNCHANGED useRefClock
  /\ UNCHANGED <<host, clocks, shared, pc, locals, cross>>

-----------------------------------------------------------------------------
(* TaskUpdatePTSCParameters, before VCPU v's switch to the monitor.         *)

ReadPTSC(v) ==
  /\ pc[v] = "out"
  /\ ptsc' = [ptsc EXCEPT ![v] = GetPseudoTSC(v, useRefClock)]
  /\ Goto(v, "check")
  /\ UNCHANGED <<env, shared, start, old, latest, stepped, cross>>

\* Behind where it was: the clock is the base from now on; if it is still behind, but by less
\* than a second, it is pushed.
Check(v) ==
  /\ pc[v] = "check"
  /\ IF Minus(ptsc[v], worldSwitchPTSC[v]) > LargeDelta
     THEN LET switched == ~useRefClock /\ ~neverSwitchToRefClock
              now  == IF switched THEN GetPseudoTSC(v, TRUE) ELSE ptsc[v]
              push == Minus(worldSwitchPTSC[v], now) < Hz
          IN /\ SetPseudoTSCUseRefClock
             /\ ptsc' = [ptsc EXCEPT ![v] = IF push THEN worldSwitchPTSC[v] ELSE now]
             /\ stepped' = IF push \/ now > worldSwitchPTSC[v] THEN stepped
                           ELSE stepped \cup {v}
     ELSE UNCHANGED <<useRefClock, ptsc, stepped>>
  /\ Goto(v, "start")
  /\ UNCHANGED <<host, refAdd, clocks, polling, shared, start, old, latest, cross>>

ReadTSC(v) ==
  /\ pc[v] = "start"
  /\ start' = [start EXCEPT ![v] = RDTSC(v)]
  /\ Goto(v, IF hwTSCsSynced THEN "readinfo" ELSE "enter")
  /\ UNCHANGED <<env, shared, ptsc, old, latest, stepped, cross>>

\* The word is read; if nobody is inside, the offset is this VCPU's to choose.
ReadInfo(v) ==
  /\ pc[v] = "readinfo"
  /\ old' = [old EXCEPT ![v] = ptscOffsetInfo]
  /\ Goto(v, IF ptscOffsetInfo.inVMMCnt > 0 THEN "exchange" ELSE "choose")
  /\ stale' = stale \ {v}
  /\ UNCHANGED <<env, ptscOffsetInfo, reused, ptscLatest, ptscOffsets, ptsc, start, latest,
                 stepped, cross>>

\* Mutant: what the VCPUs that have left have seen is not looked at.
FromClockAlone(v) ==
  /\ pc[v] = "choose" /\ useRefClock
  /\ Goto(v, "offset")
  /\ UNCHANGED <<env, shared, locals, cross>>

\* From the clock: not before what a VCPU that has left has seen.
FromClock(v) ==
  /\ pc[v] = "choose" /\ useRefClock
  /\ ptsc' = [ptsc EXCEPT ![v] = IF @ < ptscLatest THEN ptscLatest ELSE @]
  /\ Goto(v, "offset")
  /\ UNCHANGED <<env, shared, start, old, latest, stepped, cross>>

FromCounter(v) ==
  /\ pc[v] = "choose" /\ ~useRefClock
  /\ ptscOffsets' = [ptscOffsets EXCEPT ![v] = tscOffset]
  /\ Goto(v, "exchange")
  /\ UNCHANGED <<env, info, ptscLatest, locals, cross>>

WriteOffset(v) ==
  /\ pc[v] = "offset"
  /\ ptscOffsets' = [ptscOffsets EXCEPT ![v] = ptsc[v] - start[v]]
  /\ Goto(v, "exchange")
  /\ UNCHANGED <<env, info, ptscLatest, locals, cross>>

\* Those that have read the word and are still to exchange it.
Readers == {v \in VCPUs : pc[v] \in {"choose", "offset", "exchange"}}

\* Mutant: a VCPU uses the offset it has chosen, whoever is inside.
NewVcpuOwn(v) == v

\* The VCPU whose offset is used: the one in the word, or this one.
NewVcpu(v) == IF old[v].inVMMCnt = 0 THEN v ELSE old[v].vcpu

Exchange(v) ==
  /\ pc[v] = "exchange"
  /\ IF ptscOffsetInfo = old[v]
     THEN /\ ptscOffsetInfo' = [vcpu |-> NewVcpu(v), inVMMCnt |-> old[v].inVMMCnt + 1]
          /\ stale' = Readers \ {v}
          /\ reused' = (reused \/ v \in stale)
          /\ Goto(v, "enter")
     ELSE Goto(v, "readinfo") /\ UNCHANGED info
  /\ UNCHANGED <<env, ptscLatest, ptscOffsets, locals, cross>>

\* The conversion the monitor uses, and the switch.
Enter(v) ==
  /\ pc[v] = "enter"
  /\ LET offset == IF hwTSCsSynced THEN ptscOffsets[NewVcpu(v)] ELSE ptsc[v] - start[v]
         first  == start[v] + offset
     IN /\ add' = [add EXCEPT ![v] = offset]
        /\ worldSwitchPTSC' = [worldSwitchPTSC EXCEPT ![v] = first]
        /\ backwards' = IF RDTSC(v) + offset < worldSwitchPTSC[v] /\ v \notin stepped
                        THEN backwards \cup {v} ELSE backwards
  /\ Goto(v, "inside")
  /\ Unset(ptsc, v) /\ Unset(start, v) /\ Forget(v)
  /\ stepped' = stepped \ {v}
  /\ UNCHANGED <<env, shared, latest>>

-----------------------------------------------------------------------------
(* BackToHost, which leaves the time of the switch, and TaskUpdateLatestPTSC. *)

Leave(v) ==
  /\ pc[v] = "inside"
  /\ worldSwitchPTSC' = [worldSwitchPTSC EXCEPT ![v] = RDTSC(v) + add[v]]
  /\ IF hwTSCsSynced
     THEN /\ Goto(v, "latest")
          /\ ptsc' = [ptsc EXCEPT ![v] = RDTSC(v) + add[v]]
          /\ UNCHANGED add
     ELSE Goto(v, "out") /\ Unset(add, v) /\ UNCHANGED ptsc
  /\ UNCHANGED <<env, shared, start, old, latest, stepped, backwards>>

ReadLatest(v) ==
  /\ pc[v] = "latest"
  /\ latest' = [latest EXCEPT ![v] = ptscLatest]
  /\ Goto(v, IF ptsc[v] <= ptscLatest THEN "dec" ELSE "setlatest")
  /\ UNCHANGED <<env, shared, ptsc, start, old, stepped, cross>>

\* Mutant: a later time that another VCPU has left is overwritten.
SetLatestBlindly(v) ==
  /\ pc[v] = "setlatest"
  /\ ptscLatest' = ptsc[v] /\ Goto(v, "dec")
  /\ UNCHANGED <<env, info, ptscOffsets, locals, cross>>

\* Mutant: the one that leaves is counted at every try.
SetLatestCounting(v) ==
  /\ pc[v] = "setlatest"
  /\ IF ptscLatest = latest[v]
     THEN ptscLatest' = ptsc[v] /\ Goto(v, "dec") /\ UNCHANGED ptscOffsetInfo
     ELSE /\ ptscOffsetInfo' = [ptscOffsetInfo EXCEPT !.inVMMCnt = @ - 1]
          /\ Goto(v, "latest") /\ UNCHANGED ptscLatest
  /\ UNCHANGED <<env, stale, reused, ptscOffsets, locals, cross>>

SetLatest(v) ==
  /\ pc[v] = "setlatest"
  /\ IF ptscLatest = latest[v] THEN ptscLatest' = ptsc[v] /\ Goto(v, "dec")
     ELSE Goto(v, "latest") /\ UNCHANGED ptscLatest
  /\ UNCHANGED <<env, info, ptscOffsets, locals, cross>>

Dec(v) ==
  /\ pc[v] = "dec"
  /\ ptscOffsetInfo' = [ptscOffsetInfo EXCEPT !.inVMMCnt = @ - 1]
  /\ stale' = Readers
  /\ Goto(v, "out")
  /\ Unset(ptsc, v) /\ Unset(add, v) /\ Unset(latest, v)
  /\ UNCHANGED <<env, reused, ptscLatest, ptscOffsets, start, old, stepped, worldSwitchPTSC,
                 backwards>>

Next ==
  \/ Tick \/ Poll \/ Compare
  \/ \E v \in VCPUs :
       \/ Migrate(v) \/ ReadPTSC(v) \/ Check(v) \/ ReadTSC(v) \/ ReadInfo(v)
       \/ FromClock(v) \/ FromCounter(v) \/ WriteOffset(v) \/ Exchange(v) \/ Enter(v)
       \/ Leave(v) \/ ReadLatest(v) \/ SetLatest(v) \/ Dec(v)

Spec == Init /\ [][Next]_vars

-----------------------------------------------------------------------------
(* Properties.                                                              *)

Inside(v) == pc[v] \in {"inside", "latest", "setlatest", "dec"}

\* The type of every variable.
TypeOK ==
  /\ {hwTSCsSynced, neverSwitchToRefClock, useRefClock, polling, reused} \subseteq BOOLEAN
  /\ {tscOffset, refAdd} \subseteq Int /\ {tsc, uptime} \subseteq Nat
  /\ skew \in [VCPUs -> Skews]
  /\ ptscOffsetInfo \in [vcpu : VCPUs, inVMMCnt : 0 .. Cardinality(VCPUs)]
  /\ ptscLatest \in Int /\ ptscOffsets \in [VCPUs -> Int]
  /\ pc \in [VCPUs -> {"out", "check", "start", "readinfo", "choose", "offset", "exchange",
                       "enter", "inside", "latest", "setlatest", "dec"}]
  /\ {ptsc, start, latest, add, worldSwitchPTSC} \subseteq [VCPUs -> Int]
  /\ old \in [VCPUs -> {NotRead} \cup [vcpu : VCPUs, inVMMCnt : 0 .. Cardinality(VCPUs)]]
  /\ {stale, stepped, backwards} \subseteq SUBSET VCPUs

\* Where the counters agree, all VCPUs inside have the same time; and it is not before what
\* any VCPU of the machine has seen, unless a word was exchanged that had changed and changed
\* back.
OneTime ==
  hwTSCsSynced =>
    \A v \in VCPUs : Inside(v) =>
      /\ \A w \in VCPUs : Inside(w) => add[w] = add[v]
      /\ ~reused => \A w \in VCPUs : tsc + add[v] >= worldSwitchPTSC[w]

\* Where they do not, a VCPU's time does not go back, unless the clock was set back by a
\* second or more.
OwnTime == ~hwTSCsSynced => backwards = {}

\* "nudge PTSC forward to ensure it doesn't go backwards on this VCPU": violated.
NeverBackwards == backwards = {}
=============================================================================
