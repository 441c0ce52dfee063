----------------------------- MODULE HostUptime -----------------------------
(***************************************************************************)
(* The host's uptime (vmmon, linux/hostif.c): the time of day and a base,  *)
(* checked against a time counted in jiffies.  A difference of more than a *)
(* second means that the time of day was set, and whoever finds it moves   *)
(* the base; a timer makes the counted time follow the uptime while the    *)
(* difference is small.  The counted time's two bases are read without a   *)
(* lock, between two readings of a version.  A jiffy is one unit of time.  *)
(*                                                                         *)
(* Before Linux 5.0 the time of day is read, and anyone may set it; since  *)
(* then the raw clock, which nobody sets but which the same code checks.   *)
(***************************************************************************)
EXTENDS Integers, FiniteSets

CONSTANTS
  Readers,       \* threads in HostIF_ReadUptime
  Timer,         \* the timer's handler, HostIFUptimeResyncMono
  UPTIME_FREQ,   \* a second, in jiffies
  MaxJiffies, MaxWarps, \* bounds of the time, and of how often the time of day is set
  Warps,         \* by how much, one way or the other
  Delay          \* a bound: jiffies between a thread's reading of jiffies and of the clock

Threads == Readers \cup {Timer}

UptimeAssumption ==
  /\ IsFiniteSet(Readers) /\ Timer \notin Readers
  /\ {UPTIME_FREQ, MaxJiffies, MaxWarps, Delay} \subseteq Nat /\ Warps \subseteq Nat

VARIABLES
  jiffies, warped, warps,    \* time; how far the time of day is off, and how often it was set
  offsets,                   \* all it was ever off by (history)
  uptimeBase, version, monotimeBase, jiffiesBase, \* uptimeState
  pc, v, jifs, jifBase, monoBase, upBase, clock, attempts, uptime, \* locals
  expires,                   \* when the timer fires
  fixes                      \* how often the base was moved (history)

host   == <<jiffies, warped, warps, offsets>>
base   == <<uptimeBase, fixes>>
bases  == <<version, monotimeBase, jiffiesBase>>
seen   == <<v, jifs, jifBase, monoBase>>
taken  == <<upBase, clock, attempts, uptime>>
vars   == <<host, base, bases, pc, seen, taken, expires>>

HostIFGetTime == jiffies + warped

\* HostIF_InitUptime, at jiffy 0.
Init ==
  /\ jiffies = 0 /\ warped = 0 /\ warps = 0 /\ offsets = {0}
  /\ uptimeBase = 0 /\ version = 0 /\ monotimeBase = 0 /\ jiffiesBase = 0
  /\ pc = [t \in Threads |-> "out"]
  /\ v = [t \in Threads |-> 0] /\ jifs = [t \in Threads |-> 0]
  /\ jifBase = [t \in Threads |-> 0] /\ monoBase = [t \in Threads |-> 0]
  /\ upBase = [t \in Threads |-> 0] /\ clock = [t \in Threads |-> 0]
  /\ attempts = [t \in Threads |-> 0] /\ uptime = [t \in Threads |-> 0]
  /\ fixes = 0 /\ expires = UPTIME_FREQ

Goto(t, label) == pc' = [pc EXCEPT ![t] = label]
Set(f, t, value) == f' = [f EXCEPT ![t] = value]

-----------------------------------------------------------------------------
(* The host.                                                                *)

Between == {"base", "mono", "end", "clock"}

Tick ==
  /\ jiffies < MaxJiffies
  /\ \A t \in Threads : pc[t] \in Between => jiffies - jifs[t] < Delay
  /\ jiffies' = jiffies + 1
  /\ UNCHANGED <<warped, warps, offsets, base, bases, pc, seen, taken, expires>>

SetTimeOfDay ==
  /\ warps < MaxWarps /\ warps' = warps + 1
  /\ \E d \in Warps : warped' \in {warped + d, warped - d}
  /\ offsets' = offsets \cup {warped'}
  /\ UNCHANGED <<jiffies, base, bases, pc, seen, taken, expires>>

-----------------------------------------------------------------------------
(* HostIFReadUptimeWork, in thread t.                                       *)

Start(t) ==
  /\ pc[t] = "out" /\ (t = Timer => jiffies >= expires)
  /\ Goto(t, "begin") /\ Set(attempts, t, 0)
  /\ UNCHANGED <<host, base, bases, seen, upBase, clock, uptime, expires>>

\* The version, and then jiffies.
BeginTryRead(t) ==
  /\ pc[t] = "begin" /\ Goto(t, "base")
  /\ Set(v, t, version) /\ Set(jifs, t, jiffies)
  /\ UNCHANGED <<host, base, bases, jifBase, monoBase, taken, expires>>

ReadJiffiesBase(t) ==
  /\ pc[t] = "base" /\ Goto(t, "mono")
  /\ Set(jifBase, t, jiffiesBase)
  /\ UNCHANGED <<host, base, bases, v, jifs, monoBase, taken, expires>>

ReadMonotimeBase(t) ==
  /\ pc[t] = "mono" /\ Goto(t, "end")
  /\ Set(monoBase, t, monotimeBase)
  /\ UNCHANGED <<host, base, bases, v, jifs, jifBase, taken, expires>>

\* Mutant: bases read while they are written are used.
EndTryReadIfEven(t) ==
  /\ pc[t] = "end"
  /\ Goto(t, IF v[t] % 2 = 0 THEN "clock" ELSE "begin")
  /\ UNCHANGED <<host, base, bases, seen, taken, expires>>

EndTryRead(t) ==
  /\ pc[t] = "end"
  /\ Goto(t, IF version = v[t] /\ v[t] % 2 = 0 THEN "clock" ELSE "begin")
  /\ UNCHANGED <<host, base, bases, seen, taken, expires>>

ReadClock(t) ==
  /\ pc[t] = "clock" /\ Goto(t, "upbase")
  /\ Set(clock, t, HostIFGetTime)
  /\ UNCHANGED <<host, base, bases, seen, upBase, attempts, uptime, expires>>

Monotime(t) == jifs[t] - jifBase[t] + monoBase[t]

Return(t, time) ==
  /\ Set(uptime, t, time)
  /\ Goto(t, IF t = Timer THEN "write" ELSE "done")

\* A second apart, or not.
ReadUptimeBase(t) ==
  /\ pc[t] = "upbase"
  /\ Set(upBase, t, uptimeBase)
  /\ LET diff == clock[t] + uptimeBase - Monotime(t)
     IN IF diff < -UPTIME_FREQ \/ diff > UPTIME_FREQ
        THEN Goto(t, "fix") /\ UNCHANGED uptime
        ELSE Return(t, clock[t] + uptimeBase)
  /\ UNCHANGED <<host, base, bases, seen, clock, attempts, expires>>

\* Mutant: the time that was found to be wrong is returned.
FixUptimeReturned(t) ==
  /\ pc[t] = "fix"
  /\ Set(attempts, t, attempts[t] + 1)
  /\ IF uptimeBase = upBase[t]
     THEN /\ uptimeBase' = Monotime(t) - clock[t] /\ fixes' = fixes + 1
          /\ Return(t, clock[t] + upBase[t])
     ELSE /\ UNCHANGED base
          /\ IF attempts[t] + 1 < 5 THEN Goto(t, "begin") /\ UNCHANGED uptime
             ELSE Return(t, Monotime(t))
  /\ UNCHANGED <<host, bases, seen, upBase, clock, expires>>

\* The base is moved, unless another thread has; five times at most.
Fix(t) ==
  /\ pc[t] = "fix"
  /\ Set(attempts, t, attempts[t] + 1)
  /\ IF uptimeBase = upBase[t]
     THEN /\ uptimeBase' = Monotime(t) - clock[t] /\ fixes' = fixes + 1
          /\ Return(t, Monotime(t))
     ELSE /\ UNCHANGED base
          /\ IF attempts[t] + 1 < 5 THEN Goto(t, "begin") /\ UNCHANGED uptime
             ELSE Return(t, Monotime(t))
  /\ UNCHANGED <<host, bases, seen, upBase, clock, expires>>

\* A reader uses the time and forgets it.
Leave(t) ==
  /\ pc[t] = "done" /\ Goto(t, "out")
  /\ Set(v, t, 0) /\ Set(jifs, t, 0) /\ Set(jifBase, t, 0) /\ Set(monoBase, t, 0)
  /\ Set(upBase, t, 0) /\ Set(clock, t, 0) /\ Set(attempts, t, 0) /\ Set(uptime, t, 0)
  /\ UNCHANGED <<host, base, bases, expires>>

ReadUptimeWork(t) ==
  \/ Start(t) \/ BeginTryRead(t) \/ ReadJiffiesBase(t) \/ ReadMonotimeBase(t) \/ EndTryRead(t)
  \/ ReadClock(t) \/ ReadUptimeBase(t) \/ Fix(t) \/ Leave(t)

-----------------------------------------------------------------------------
(* The end of HostIFUptimeResyncMono: the bases are written one by one.     *)

BeginWrite ==
  /\ pc[Timer] = "write" /\ Goto(Timer, "writemono")
  /\ version' = version + 1
  /\ UNCHANGED <<host, base, monotimeBase, jiffiesBase, seen, taken, expires>>

WriteMonotimeBase ==
  /\ pc[Timer] = "writemono" /\ Goto(Timer, "writebase")
  /\ monotimeBase' = uptime[Timer]
  /\ UNCHANGED <<host, base, version, jiffiesBase, seen, taken, expires>>

WriteJiffiesBase ==
  /\ pc[Timer] = "writebase" /\ Goto(Timer, "endwrite")
  /\ jiffiesBase' = jifs[Timer]
  /\ UNCHANGED <<host, base, version, monotimeBase, seen, taken, expires>>

\* The timer is to fire again a second after the jiffies that were read.
EndWrite ==
  /\ pc[Timer] = "endwrite" /\ Goto(Timer, "done")
  /\ version' = version + 1
  /\ expires' = jifs[Timer] + UPTIME_FREQ
  /\ UNCHANGED <<host, base, monotimeBase, jiffiesBase, seen, taken>>

Resync == BeginWrite \/ WriteMonotimeBase \/ WriteJiffiesBase \/ EndWrite

Next == Tick \/ SetTimeOfDay \/ Resync \/ \E t \in Threads : ReadUptimeWork(t)

Spec == Init /\ [][Next]_vars

-----------------------------------------------------------------------------
(* Properties.                                                              *)

\* The type of every variable.
TypeOK ==
  /\ jiffies \in 0 .. MaxJiffies /\ warped \in offsets /\ warps \in 0 .. MaxWarps
  /\ offsets \subseteq Int
  /\ {uptimeBase, monotimeBase} \subseteq Int /\ {version, jiffiesBase, fixes, expires} \subseteq Nat
  /\ pc \in [Threads -> Between \cup {"out", "begin", "upbase", "fix", "done", "write",
                                       "writemono", "writebase", "endwrite"}]
  /\ {v, jifs, attempts} \subseteq [Threads -> Nat]
  /\ {jifBase, monoBase, upBase, clock, uptime} \subseteq [Threads -> Int]

\* How often the counted time was made to follow the uptime, the present time included.
Resyncs == (version + 1) \div 2

\* The time of day was off by the same, or by more than what is noticed in spite of the delays.
FarApart ==
  \A a, b \in offsets : a # b =>
    \/ a - b > UPTIME_FREQ + 2 * (fixes + 1) * Delay
    \/ b - a > UPTIME_FREQ + 2 * (fixes + 1) * Delay

\* A change of the time of day by a second or less is not noticed: the uptime follows it, and so
\* does the counted time.  But however far the time of day is set, however late its threads are,
\* and whatever the timer and other threads do meanwhile, the uptime that a thread gets is off by
\* no more than a second, and a second for each time that the counted time has followed.
\* While all changes were of more than a second (and of the delays), it is the time it is, or off
\* by no more than the delays of the threads that have moved the base.
OnTrack ==
  \A t \in Threads : pc[t] \in {"done", "write"} =>
    /\ uptime[t] - jifs[t] \in -((Resyncs + 1) * UPTIME_FREQ) .. (Resyncs + 1) * UPTIME_FREQ
    /\ FarApart => uptime[t] \in jifs[t] - fixes * Delay .. jiffies + fixes * Delay
=============================================================================
