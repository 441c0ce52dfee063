--------------------------- MODULE VNetUserIfProofs ---------------------------
(***************************************************************************)
(* Proofs about VNetUserIf, for any number of deliveries and readers and   *)
(* any length of the queue.                                                *)
(***************************************************************************)
EXTENDS VNetUserIf, FiniteSetTheorems, TLAPS

-----------------------------------------------------------------------------
(* The inductive invariant.                                                 *)

\* The deliveries that have found room and not yet taken it.
Ready == {d \in Deliveries : deliver[d] = "room"}

\* They have their place in the queue already.
Reserved == Len(queue) + Cardinality(Ready) < MaxQlen + Cardinality(Deliveries)

\* Packets are told of only while the poll word is set up, and its bit set.
ToldSetsBit == \A i \in DOMAIN queue : queue[i].told => notify /\ bit

\* A reader that has found the queue empty is still wakeable only if nothing
\* has been queued since, or the delivery that has is about to wake it.
Watched ==
  \A r \in Readers :
    (read[r] \in {"check", "asleep"} /\ r \in wakeable /\ queue # <<>>)
      => \E d \in Deliveries : deliver[d] = "wake"

IInv == TypeOK /\ Reserved /\ ToldSetsBit /\ Watched

-----------------------------------------------------------------------------
(* Facts about the queue and the deliveries.                                *)

\* The deliveries that are ready are finitely many.
LEMMA ReadyFinite ==
  /\ IsFiniteSet(Ready) /\ Cardinality(Ready) \in Nat
  /\ Cardinality(Deliveries) \in Nat /\ Cardinality(Ready) <= Cardinality(Deliveries)
BY DeliveriesAssumption, FS_Subset, FS_CardinalityType DEF Ready

\* Taking the first packet leaves packets that were there.
LEMMA TailFacts ==
  ASSUME NEW q \in Seq(Packet), q # <<>>
  PROVE  /\ Tail(q) \in Seq(Packet) /\ Len(Tail(q)) = Len(q) - 1
         /\ \A i \in DOMAIN Tail(q) : i + 1 \in DOMAIN q /\ Tail(q)[i] = q[i + 1]
OBVIOUS

\* A function from the places of a queue to packets is a queue.
LEMMA MapType ==
  ASSUME NEW q \in Seq(Packet), NEW p, p = [i \in DOMAIN q |-> p[i]],
         \A i \in DOMAIN q : p[i] \in Packet
  PROVE  p \in Seq(Packet)
<1>1. DOMAIN q = 1 .. Len(q) /\ Len(q) \in Nat OBVIOUS
<1>2. p \in [1 .. Len(q) -> Packet] BY <1>1
<1> QED BY <1>1, <1>2

\* Rewriting every packet keeps the length of the queue.
LEMMA MapFacts ==
  ASSUME NEW q \in Seq(Packet), NEW p \in Seq(Packet), DOMAIN p = DOMAIN q
  PROVE  Len(p) = Len(q) /\ (p = <<>> <=> q = <<>>)
OBVIOUS

-----------------------------------------------------------------------------
(* One lemma per group of actions.                                          *)

\* Arrivals and tests of the length: room is found only below vnet_max_qlen.
LEMMA DeliveryInv ==
  ASSUME IInv, NEW d \in Deliveries, Arrive(d) \/ CheckRoom(d)
  PROVE  IInv'
<1> USE DEF IInv
<1>1. TypeOK' BY DEF TypeOK, Arrive, CheckRoom, DeliverySteps
<1>2. ToldSetsBit' BY DEF ToldSetsBit, Arrive, CheckRoom
<1>3. Watched' BY DEF Watched, Arrive, CheckRoom, TypeOK
<1>4. Reserved'
  <2>1. CASE Ready' \subseteq Ready /\ UNCHANGED queue
    <3>1. IsFiniteSet(Ready') /\ Cardinality(Ready') <= Cardinality(Ready)
          /\ Cardinality(Ready') \in Nat
      BY <2>1, ReadyFinite, FS_Subset, FS_CardinalityType
    <3>2. Len(queue') = Len(queue) /\ Len(queue) \in Nat BY <2>1 DEF TypeOK
    <3> QED BY <3>1, <3>2, ReadyFinite, MaxQlenAssumption DEF Reserved
  <2>2. CASE Len(queue) < MaxQlen /\ UNCHANGED queue
    <3>1. IsFiniteSet(Ready') /\ Cardinality(Ready') <= Cardinality(Deliveries)
          /\ Cardinality(Ready') \in Nat
      BY DeliveriesAssumption, FS_Subset, FS_CardinalityType DEF Ready
    <3> QED BY <2>2, <3>1, ReadyFinite, MaxQlenAssumption DEF Reserved, TypeOK
  <2>3. CASE Arrive(d)
    BY <2>1, <2>3 DEF Arrive, Ready, TypeOK
  <2>4. CASE CheckRoom(d) /\ Len(queue) >= MaxQlen
    BY <2>1, <2>4 DEF CheckRoom, Ready, TypeOK
  <2>5. CASE CheckRoom(d) /\ ~(Len(queue) >= MaxQlen)
    BY <2>2, <2>5, MaxQlenAssumption DEF CheckRoom, TypeOK
  <2> QED BY <2>3, <2>4, <2>5
<1> QED BY <1>1, <1>2, <1>3, <1>4

\* Appending takes the place that was reserved.
LEMMA EnqueueInv ==
  ASSUME IInv, NEW d \in Deliveries, Enqueue(d)
  PROVE  IInv'
<1> DEFINE e == [told |-> notify, old |-> d \in stale]
<1> USE DEF IInv
<1>1. e \in Packet BY DEF TypeOK, Packet
<1>2. /\ queue' = Append(queue, e) /\ queue' \in Seq(Packet)
      /\ Len(queue') = Len(queue) + 1
      /\ DOMAIN queue' = DOMAIN queue \cup {Len(queue) + 1}
      /\ \A i \in DOMAIN queue : queue'[i] = queue[i]
      /\ queue'[Len(queue) + 1] = e
  BY <1>1 DEF Enqueue, TypeOK
<1>3. TypeOK' BY <1>2 DEF TypeOK, Enqueue, DeliverySteps
<1>4. ToldSetsBit' BY <1>2 DEF ToldSetsBit, Enqueue, TypeOK
<1>5. Watched' BY DEF Watched, Enqueue, TypeOK
<1>6. Reserved'
  <2>1. Ready' = Ready \ {d} /\ d \in Ready BY DEF Ready, Enqueue, TypeOK
  <2>2. Cardinality(Ready') = Cardinality(Ready) - 1
    BY <2>1, ReadyFinite, FS_RemoveElement
  <2> QED BY <1>2, <2>2, ReadyFinite, MaxQlenAssumption DEF Reserved, TypeOK
<1> QED BY <1>3, <1>4, <1>5, <1>6

\* Waking leaves nobody wakeable.
LEMMA WakeInv ==
  ASSUME IInv, NEW d \in Deliveries, Wake(d)
  PROVE  IInv'
<1> USE DEF IInv
<1>1. TypeOK' BY DEF TypeOK, Wake, DeliverySteps, ReadSteps
<1>2. ToldSetsBit' BY DEF ToldSetsBit, Wake
<1>3. Watched' BY DEF Watched, Wake
<1>4. Ready' = Ready BY DEF Ready, Wake, TypeOK
<1>5. Reserved' BY <1>4 DEF Reserved, Wake
<1> QED BY <1>1, <1>2, <1>3, <1>5

\* A read looks at the queue after it has made itself wakeable.
LEMMA ReadInv ==
  ASSUME IInv, NEW r \in Readers, ReadStart(r) \/ Reading(r) \/ Signal(r)
  PROVE  IInv'
<1> USE DEF IInv
<1>1. Ready' = Ready
  BY DEF Ready, ReadStart, Reading, Signal, Peek, Dequeue, Sleep
<1>2. CASE UNCHANGED queue /\ (UNCHANGED bit \/ queue = <<>>)
  <2> USE <1>2
  <2>1. TypeOK'
    <3>1. bit' \in BOOLEAN
      BY DEF TypeOK, ReadStart, Reading, Signal, Peek, Dequeue, Sleep
    <3>2. UNCHANGED <<up, notify, deliver, stale, ioctl>>
      BY DEF ReadStart, Reading, Signal, Peek, Dequeue, Sleep
    <3>3. /\ read' \in [Readers -> ReadSteps] /\ wakeable' \subseteq Readers
          /\ \A s \in wakeable' : read'[s] # "idle"
          /\ \A s \in Readers : read'[s] = "asleep" => s \in wakeable'
      BY DEF TypeOK, ReadStart, Reading, Signal, Peek, Dequeue, Sleep, ReadSteps
    <3> QED BY <3>1, <3>2, <3>3 DEF TypeOK
  <2>2. ToldSetsBit'
    BY DEF ToldSetsBit, ReadStart, Reading, Signal, Peek, Dequeue, Sleep
  <2>3. Watched'
    BY DEF Watched, TypeOK, ReadStart, Reading, Signal, Peek, Dequeue, Sleep
  <2>4. Reserved' BY <1>1 DEF Reserved
  <2> QED BY <2>1, <2>2, <2>3, <2>4
<1>3. CASE queue # <<>> /\ queue' = Tail(queue) /\ Dequeue(r)
  <2>1. /\ queue' \in Seq(Packet) /\ Len(queue') = Len(queue) - 1
        /\ \A i \in DOMAIN queue' : i + 1 \in DOMAIN queue /\ queue'[i] = queue[i + 1]
    BY <1>3, TailFacts DEF TypeOK
  <2>2. /\ read' = [read EXCEPT ![r] = "idle"] /\ wakeable' = wakeable \ {r}
        /\ UNCHANGED <<up, notify, bit, deliver, stale, ioctl>>
    BY <1>3 DEF Dequeue
  <2>3. TypeOK' BY <2>1, <2>2 DEF TypeOK, ReadSteps
  <2>4. ToldSetsBit' BY <2>1, <2>2 DEF ToldSetsBit
  <2>5. Watched' BY <1>3, <2>2 DEF Watched, TypeOK
  <2>6. Reserved'
    BY <1>1, <2>1, ReadyFinite, MaxQlenAssumption DEF Reserved, TypeOK
  <2> QED BY <2>3, <2>4, <2>5, <2>6
<1> QED BY <1>2, <1>3 DEF ReadStart, Reading, Signal, Peek, Dequeue, Sleep

\* The ioctls only shorten the queue, and clear the bit of an empty one.
LEMMA IoctlInv ==
  ASSUME IInv, Ioctl
  PROVE  IInv'
<1> USE DEF IInv
<1>1. Ready' = Ready
  BY DEF Ready, Ioctl, SetUp, SetDown, Drain, Clear, UnsetupNotify, SetupNotify
<1>2. CASE UNCHANGED queue /\ (SetUp \/ Drain \/ Clear \/ \E b \in BOOLEAN : SetupNotify(b))
  <2> USE <1>2 DEF SetUp, Drain, Clear, SetupNotify
  <2>1. TypeOK'
    <3>1. up' \in BOOLEAN /\ notify' \in BOOLEAN /\ bit' \in BOOLEAN BY DEF TypeOK
    <3>2. UNCHANGED <<deliver, stale, read, wakeable>> OBVIOUS
    <3>3. ioctl' \in IoctlSteps /\ (ioctl' # "idle" => ~up')
      BY DEF TypeOK, IoctlSteps
    <3> QED BY <3>1, <3>2, <3>3 DEF TypeOK
  <2>2. ToldSetsBit' BY DEF ToldSetsBit, TypeOK
  <2>3. Watched' BY DEF Watched
  <2>4. Reserved' BY <1>1 DEF Reserved
  <2> QED BY <2>1, <2>2, <2>3, <2>4
<1>3. CASE queue # <<>> /\ queue' = Tail(queue) /\ Drain
  <2>1. /\ queue' \in Seq(Packet) /\ Len(queue') = Len(queue) - 1
        /\ \A i \in DOMAIN queue' : i + 1 \in DOMAIN queue /\ queue'[i] = queue[i + 1]
    BY <1>3, TailFacts DEF TypeOK
  <2>2. UNCHANGED <<up, notify, bit, deliver, stale, read, wakeable, ioctl>>
    BY <1>3 DEF Drain
  <2>3. TypeOK' BY <2>1, <2>2 DEF TypeOK
  <2>4. ToldSetsBit' BY <2>1, <2>2 DEF ToldSetsBit
  <2>5. Watched' BY <1>3, <2>2 DEF Watched
  <2>6. Reserved'
    BY <1>1, <2>1, ReadyFinite, MaxQlenAssumption DEF Reserved, TypeOK
  <2> QED BY <2>3, <2>4, <2>5, <2>6
<1>4. CASE SetDown
  <2>1. /\ queue' \in Seq(Packet) /\ DOMAIN queue' = DOMAIN queue
        /\ \A i \in DOMAIN queue : queue'[i].told = queue[i].told
    <3>1. queue' = [i \in DOMAIN queue |-> [queue[i] EXCEPT !.old = TRUE]]
      BY <1>4 DEF SetDown
    <3>2. \A i \in DOMAIN queue : queue[i] \in Packet BY DEF TypeOK
    <3>3. \A i \in DOMAIN queue : queue'[i] \in Packet /\ queue'[i].told = queue[i].told
      BY <3>1, <3>2 DEF Packet
    <3>4. DOMAIN queue' = DOMAIN queue /\ queue' = [i \in DOMAIN queue |-> queue'[i]]
      BY <3>1
    <3> QED BY <3>3, <3>4, MapType DEF TypeOK
  <2>2. Len(queue') = Len(queue) /\ (queue' = <<>> <=> queue = <<>>)
    BY <2>1, MapFacts DEF TypeOK
  <2>3. TypeOK' BY <1>4, <2>1 DEF SetDown, TypeOK, IoctlSteps
  <2>4. ToldSetsBit' BY <1>4, <2>1 DEF SetDown, ToldSetsBit
  <2>5. Watched' BY <1>4, <2>2 DEF SetDown, Watched
  <2>6. Reserved' BY <1>1, <2>2 DEF Reserved
  <2> QED BY <2>3, <2>4, <2>5, <2>6
<1>5. CASE UnsetupNotify
  <2>1. /\ queue' \in Seq(Packet) /\ DOMAIN queue' = DOMAIN queue
        /\ \A i \in DOMAIN queue : queue'[i].told = FALSE
    <3>1. queue' = [i \in DOMAIN queue |-> [queue[i] EXCEPT !.told = FALSE]]
      BY <1>5 DEF UnsetupNotify
    <3>2. \A i \in DOMAIN queue : queue[i] \in Packet BY DEF TypeOK
    <3>3. \A i \in DOMAIN queue : queue'[i] \in Packet /\ queue'[i].told = FALSE
      BY <3>1, <3>2 DEF Packet
    <3>4. DOMAIN queue' = DOMAIN queue /\ queue' = [i \in DOMAIN queue |-> queue'[i]]
      BY <3>1
    <3> QED BY <3>3, <3>4, MapType DEF TypeOK
  <2>2. Len(queue') = Len(queue) /\ (queue' = <<>> <=> queue = <<>>)
    BY <2>1, MapFacts DEF TypeOK
  <2>3. TypeOK' BY <1>5, <2>1 DEF UnsetupNotify, TypeOK
  <2>4. ToldSetsBit' BY <2>1 DEF ToldSetsBit
  <2>5. Watched' BY <1>5, <2>2 DEF UnsetupNotify, Watched
  <2>6. Reserved' BY <1>1, <2>2 DEF Reserved
  <2> QED BY <2>3, <2>4, <2>5, <2>6
<1> QED BY <1>2, <1>3, <1>4, <1>5 DEF Ioctl, SetUp, Drain, Clear, SetupNotify

-----------------------------------------------------------------------------
(* The invariant holds, and what follows from it.                           *)

\* At first the queue is empty and no thread is in the driver.
LEMMA InitInv == Init => IInv
<1> SUFFICES ASSUME Init PROVE IInv
  OBVIOUS
<1>1. TypeOK
  <2>1. up \in BOOLEAN /\ notify \in BOOLEAN /\ bit \in BOOLEAN BY DEF Init
  <2>2. queue \in Seq(Packet) BY DEF Init
  <2>3. /\ deliver \in [Deliveries -> DeliverySteps] /\ read \in [Readers -> ReadSteps]
        /\ stale \subseteq Deliveries /\ wakeable = {} /\ ioctl = "idle"
        /\ \A r \in Readers : read[r] = "idle"
    BY DEF Init, DeliverySteps, ReadSteps
  <2> QED BY <2>1, <2>2, <2>3 DEF TypeOK, IoctlSteps
<1>2. ToldSetsBit /\ Watched BY DEF Init, ToldSetsBit, Watched
<1>3. Ready = {} /\ Len(queue) = 0 BY DEF Init, Ready
<1>4. Cardinality(Ready) = 0 BY <1>3, FS_EmptySet
<1>5. Cardinality(Deliveries) > 0
  BY DeliveriesAssumption, FS_EmptySet, FS_CardinalityType
<1>6. Reserved BY <1>3, <1>4, <1>5, ReadyFinite, MaxQlenAssumption DEF Reserved
<1> QED BY <1>1, <1>2, <1>6 DEF IInv

\* The invariant is inductive.
LEMMA NextInv == IInv /\ [Next]_vars => IInv'
<1> SUFFICES ASSUME IInv, [Next]_vars PROVE IInv'
  OBVIOUS
<1>1. CASE UNCHANGED vars
  BY <1>1 DEF vars, IInv, TypeOK, Reserved, Ready, ToldSetsBit, Watched
<1>2. CASE \E d \in Deliveries : Arrive(d) \/ Delivery(d)
  BY <1>2, DeliveryInv, EnqueueInv, WakeInv DEF Delivery
<1>3. CASE \E r \in Readers : ReadStart(r) \/ Reading(r) \/ Signal(r)
  BY <1>3, ReadInv
<1>4. CASE Ioctl BY <1>4, IoctlInv
<1> QED BY <1>1, <1>2, <1>3, <1>4 DEF Next

\* The invariant holds in every behaviour of the user interface.
THEOREM Invariance == Spec => []IInv
BY InitInv, NextInv, PTL DEF Spec

\* The variables keep their types, and a task that is not reading is running.
THEOREM TypeCorrect == Spec => []TypeOK
<1>1. IInv => TypeOK BY DEF IInv
<1> QED BY <1>1, Invariance, PTL

\* The queue overruns vnet_max_qlen by less than the number of concurrent
\* deliveries, although they test its length without the lock.
THEOREM QueueBoundedHolds == Spec => []QueueBounded
<1>1. IInv => QueueBounded
  BY ReadyFinite, MaxQlenAssumption DEF IInv, Reserved, QueueBounded, TypeOK
<1> QED BY <1>1, Invariance, PTL

\* A packet queued while the poll word is set up is announced by its bit until
\* it has been read or drained.
THEOREM AnnouncedHolds == Spec => []Announced
<1>1. IInv => Announced BY DEF IInv, ToldSetsBit, Announced
<1> QED BY <1>1, Invariance, PTL

\* No reader sleeps on a packet that nobody is about to wake it for.
THEOREM NoLostWakeupHolds == Spec => []NoLostWakeup
<1>1. IInv => NoLostWakeup BY DEF IInv, TypeOK, Watched, NoLostWakeup
<1> QED BY <1>1, Invariance, PTL
=============================================================================
