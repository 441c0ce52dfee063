------------------------------ MODULE VNetUserIf ------------------------------
(***************************************************************************)
(* The user interface of /dev/vmnet (userif.c): the packet queue between   *)
(* the threads that deliver packets to the port and those that read the    *)
(* file, the poll word it shares with the process, and the ioctls that     *)
(* change both.                                                            *)
(*                                                                         *)
(* A delivery tests the port's flags and the length of the queue without   *)
(* a lock, appends to the queue and sets the poll bit under the queue's    *)
(* lock, and then wakes the readers.  A read goes round a loop of its own: *)
(* it makes itself wakeable, peeks at the queue without a lock, dequeues   *)
(* under the lock, and sleeps unless it has been woken meanwhile.  ioctls  *)
(* of the file exclude each other (vnetIoctlMutex).                        *)
(***************************************************************************)
EXTENDS Integers, FiniteSets, Sequences

CONSTANTS
  Deliveries,    \* threads and softirqs in VNetUserIfReceive at a time (bound)
  Readers,       \* threads reading the file
  MaxQlen        \* vnet_max_qlen

ASSUME DeliveriesAssumption == IsFiniteSet(Deliveries) /\ Deliveries # {}

ASSUME MaxQlenAssumption == MaxQlen \in Nat \ {0}

DeliverySteps == {"idle", "up", "room", "wake"}
ReadSteps     == {"idle", "peek", "dequeue", "check", "asleep"}
IoctlSteps    == {"idle", "drain", "clear"}

VARIABLES
  up,       \* IFF_UP is set in port->flags
  queue,    \* packetQueue
  notify,   \* pollPtr is set
  bit,      \* pollMask is set in the word at pollPtr
  deliver,  \* the next step of a delivery
  stale,    \* the deliveries that started before IFF_UP was last cleared
  read,     \* the next step of a read
  wakeable, \* the readers whose task state is TASK_INTERRUPTIBLE
  ioctl     \* the next step of the ioctl that holds vnetIoctlMutex

vars == <<up, queue, notify, bit, deliver, stale, read, wakeable, ioctl>>

\* A packet: was it queued while the poll word was set up, and did it arrive
\* before the interface was last taken down?
Packet == [told : BOOLEAN, old : BOOLEAN]

Init ==
  /\ up = FALSE
  /\ queue = <<>>
  /\ notify = FALSE /\ bit = FALSE
  /\ deliver = [d \in Deliveries |-> "idle"]
  /\ stale = {}
  /\ read = [r \in Readers |-> "idle"]
  /\ wakeable = {}
  /\ ioctl = "idle"

-----------------------------------------------------------------------------
(* VNetUserIfReceive.                                                       *)

\* A packet for the port arrives while it is up (else it is dropped).
Arrive(d) ==
  /\ deliver[d] = "idle" /\ up
  /\ deliver' = [deliver EXCEPT ![d] = "up"]
  /\ stale' = stale \ {d}
  /\ UNCHANGED <<up, queue, notify, bit, read, wakeable, ioctl>>

\* Mutant: one packet more than vnet_max_qlen.
CheckRoomLate(d) ==
  /\ deliver[d] = "up"
  /\ deliver' = [deliver EXCEPT ![d] = IF Len(queue) > MaxQlen THEN "idle" ELSE "room"]
  /\ UNCHANGED <<up, queue, notify, bit, stale, read, wakeable, ioctl>>

\* The length of the queue, read without its lock.
CheckRoom(d) ==
  /\ deliver[d] = "up"
  /\ deliver' = [deliver EXCEPT ![d] = IF Len(queue) >= MaxQlen THEN "idle" ELSE "room"]
  /\ UNCHANGED <<up, queue, notify, bit, stale, read, wakeable, ioctl>>

\* Under the queue's lock: append, and set the poll bit.
Enqueue(d) ==
  /\ deliver[d] = "room"
  /\ queue' = Append(queue, [told |-> notify, old |-> d \in stale])
  /\ bit' = (bit \/ notify)
  /\ deliver' = [deliver EXCEPT ![d] = "wake"]
  /\ UNCHANGED <<up, notify, stale, read, wakeable, ioctl>>

\* Mutant: the readers are woken for the first packet of a queue only.
WakeOnFirst(d) ==
  /\ deliver[d] = "wake"
  /\ deliver' = [deliver EXCEPT ![d] = "idle"]
  /\ wakeable' = IF Len(queue) = 1 THEN {} ELSE wakeable
  /\ read' = [r \in Readers |->
                IF read[r] = "asleep" /\ Len(queue) = 1 THEN "peek" ELSE read[r]]
  /\ UNCHANGED <<up, queue, notify, bit, stale, ioctl>>

\* wake_up makes every reader on the wait queue runnable.
Wake(d) ==
  /\ deliver[d] = "wake"
  /\ deliver' = [deliver EXCEPT ![d] = "idle"]
  /\ wakeable' = {}
  /\ read' = [r \in Readers |-> IF read[r] = "asleep" THEN "peek" ELSE read[r]]
  /\ UNCHANGED <<up, queue, notify, bit, stale, ioctl>>

-----------------------------------------------------------------------------
(* VNetUserIfRead.                                                          *)

\* add_wait_queue and the first set_current_state of the loop.
ReadStart(r) ==
  /\ read[r] = "idle"
  /\ read' = [read EXCEPT ![r] = "peek"]
  /\ UNCHANGED <<up, queue, notify, bit, deliver, stale, wakeable, ioctl>>

\* Set the task state, then peek; a packet that is too big for the buffer of
\* this read stays in the queue and the read fails.
Peek(r) ==
  /\ read[r] = "peek"
  /\ \/ /\ queue # <<>>
        /\ wakeable' = wakeable \ {r}
        /\ read' = [read EXCEPT ![r] = "idle"]
     \/ /\ wakeable' = wakeable \cup {r}
        /\ read' = [read EXCEPT ![r] = "dequeue"]
  /\ UNCHANGED <<up, queue, notify, bit, deliver, stale, ioctl>>

\* Mutant: the read returns without setting the task state back.
DequeueWakeable(r) ==
  /\ read[r] = "dequeue" /\ queue # <<>>
  /\ queue' = Tail(queue)
  /\ read' = [read EXCEPT ![r] = "idle"]
  /\ UNCHANGED <<up, notify, bit, deliver, stale, wakeable, ioctl>>

\* Under the queue's lock: take the first packet and return it, or clear the
\* poll bit when there is none.
Dequeue(r) ==
  /\ read[r] = "dequeue"
  /\ \/ /\ queue # <<>>
        /\ queue' = Tail(queue)
        /\ read' = [read EXCEPT ![r] = "idle"]
        /\ wakeable' = wakeable \ {r}
        /\ UNCHANGED bit
     \/ /\ queue = <<>>
        /\ bit' = (bit /\ ~notify)
        /\ read' = [read EXCEPT ![r] = "check"]
        /\ UNCHANGED <<queue, wakeable>>
  /\ UNCHANGED <<up, notify, deliver, stale, ioctl>>

\* Mutant: the task state is set just before schedule, not before the queue is
\* looked at.
SleepAnyway(r) ==
  /\ read[r] = "check"
  /\ read' = [read EXCEPT ![r] = "asleep"]
  /\ wakeable' = wakeable \cup {r}
  /\ UNCHANGED <<up, queue, notify, bit, deliver, stale, ioctl>>

\* A file opened with O_NONBLOCK, or a pending signal, ends the read; else it
\* calls schedule, which sleeps if the task is still wakeable.
Sleep(r) ==
  /\ read[r] = "check"
  /\ \/ /\ read' = [read EXCEPT ![r] = "idle"]
        /\ wakeable' = wakeable \ {r}
     \/ /\ read' = [read EXCEPT ![r] = IF r \in wakeable THEN "asleep" ELSE "peek"]
        /\ UNCHANGED wakeable
  /\ UNCHANGED <<up, queue, notify, bit, deliver, stale, ioctl>>

\* A signal wakes a sleeping reader; the next round of the loop ends the read.
Signal(r) ==
  /\ read[r] = "asleep"
  /\ read' = [read EXCEPT ![r] = "peek"]
  /\ wakeable' = wakeable \ {r}
  /\ UNCHANGED <<up, queue, notify, bit, deliver, stale, ioctl>>

-----------------------------------------------------------------------------
(* The ioctls.                                                              *)

\* SIOCSPORTFLAGS: store the flags; the process sees packets from before as
\* old when the interface has been down in between.
SetUp ==
  /\ ioctl = "idle"
  /\ up' = TRUE
  /\ UNCHANGED <<queue, notify, bit, deliver, stale, read, wakeable, ioctl>>

SetDown ==
  /\ ioctl = "idle"
  /\ up' = FALSE
  /\ queue' = [i \in DOMAIN queue |-> [queue[i] EXCEPT !.old = TRUE]]
  /\ stale' = {d \in Deliveries : deliver[d] \in {"up", "room"}}
  /\ ioctl' = "drain"
  /\ UNCHANGED <<notify, bit, deliver, read, wakeable>>

\* The rest of it when the interface is down: dequeue to the last packet, each
\* under the lock of its own ...
Drain ==
  /\ ioctl = "drain"
  /\ \/ /\ queue # <<>>
        /\ queue' = Tail(queue)
        /\ UNCHANGED ioctl
     \/ /\ queue = <<>>
        /\ ioctl' = "clear"
        /\ UNCHANGED queue
  /\ UNCHANGED <<up, notify, bit, deliver, stale, read, wakeable>>

\* Mutant: the bit is cleared without looking at the queue again.
ClearBlindly ==
  /\ ioctl = "clear"
  /\ bit' = (bit /\ ~notify)
  /\ ioctl' = "idle"
  /\ UNCHANGED <<up, queue, notify, deliver, stale, read, wakeable>>

\* ... and clear the poll bit, if the queue is still empty.
Clear ==
  /\ ioctl = "clear"
  /\ bit' = (bit /\ ~(notify /\ queue = <<>>))
  /\ ioctl' = "idle"
  /\ UNCHANGED <<up, queue, notify, deliver, stale, read, wakeable>>

\* SIOCSETNOTIFY2: the process gives a word, in whatever state.
SetupNotify(b) ==
  /\ ioctl = "idle" /\ ~notify
  /\ notify' = TRUE
  /\ bit' = b
  /\ UNCHANGED <<up, queue, deliver, stale, read, wakeable, ioctl>>

\* SIOCUNSETNOTIFY: the word is the process's own again.
UnsetupNotify ==
  /\ ioctl = "idle" /\ notify
  /\ notify' = FALSE
  /\ queue' = [i \in DOMAIN queue |-> [queue[i] EXCEPT !.told = FALSE]]
  /\ bit' = FALSE
  /\ UNCHANGED <<up, deliver, stale, read, wakeable, ioctl>>

-----------------------------------------------------------------------------
Delivery(d) == CheckRoom(d) \/ Enqueue(d) \/ Wake(d)
Reading(r)  == Peek(r) \/ Dequeue(r) \/ Sleep(r)
Ioctl       == \/ SetUp \/ SetDown \/ Drain \/ Clear \/ UnsetupNotify
               \/ \E b \in BOOLEAN : SetupNotify(b)

Next ==
  \/ \E d \in Deliveries : Arrive(d) \/ Delivery(d)
  \/ \E r \in Readers : ReadStart(r) \/ Reading(r) \/ Signal(r)
  \/ Ioctl

\* A delivery that has begun runs to its end, without blocking, and a thread
\* that is not asleep is scheduled.
Fairness ==
  /\ \A d \in Deliveries : WF_vars(Delivery(d))
  /\ \A r \in Readers : WF_vars(Reading(r))

Spec == Init /\ [][Next]_vars /\ Fairness

-----------------------------------------------------------------------------
(* Properties.                                                              *)

\* The types of the variables; only a reading task is ever wakeable, a sleeping
\* one always is, and an ioctl drains the queue of an interface that is down.
TypeOK ==
  /\ up \in BOOLEAN /\ notify \in BOOLEAN /\ bit \in BOOLEAN
  /\ queue \in Seq(Packet)
  /\ deliver \in [Deliveries -> DeliverySteps]
  /\ stale \subseteq Deliveries
  /\ read \in [Readers -> ReadSteps]
  /\ wakeable \subseteq Readers
  /\ ioctl \in IoctlSteps
  /\ \A r \in wakeable : read[r] # "idle"
  /\ \A r \in Readers : read[r] = "asleep" => r \in wakeable
  /\ ioctl # "idle" => ~up

\* The queue is at most as long as vnet_max_qlen and the deliveries that test
\* it at the same time allow: each of the others may pass the test once.
QueueBounded == Len(queue) < MaxQlen + Cardinality(Deliveries)

\* No packet goes unannounced: if one that was queued while the poll word was
\* set up is still there, the bit is set, whatever was read or drained.
Announced == notify /\ (\E i \in DOMAIN queue : queue[i].told) => bit

\* "We drain the queue to avoid having old packets delivered to the guest when
\* reneabled" (VNetUserIfIoctl): once the interface is up again the queue holds
\* no packet that arrived before it was taken down.
NoOldPackets ==
  up => \A i \in DOMAIN queue : ~queue[i].old

\* A reader sleeps on a queue with packets only as long as the delivery that
\* is about to wake it.
NoLostWakeup ==
  \A r \in Readers :
    (read[r] = "asleep" /\ queue # <<>>) => \E d \in Deliveries : deliver[d] = "wake"

\* A reader that sleeps on a queue with packets is woken.
SleeperWakes ==
  \A r \in Readers : (read[r] = "asleep" /\ queue # <<>>) ~> (read[r] # "asleep")
=============================================================================
