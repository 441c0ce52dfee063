------------------------------ MODULE VNetEvent ------------------------------
(***************************************************************************)
(* The event mechanism of one hub (vnetEvent.c) and the user listeners     *)
(* that queue its events for a reading process (vnetUserListener.c).       *)
(*                                                                         *)
(* The hub, its senders and its listeners hold one reference to the        *)
(* mechanism each, and drop it in any order.  What the code does under the *)
(* mechanism's spinlock is one action: sending is one, with the handlers   *)
(* it calls, and so is creating a listener, with the replay of the events  *)
(* already sent.  Destroying is several: the object leaves its list under  *)
(* the lock, the reference is dropped under the lock again, and memory is  *)
(* freed without it.                                                       *)
(*                                                                         *)
(* The senders of vmnet send one event each, the state of their uplink     *)
(* (event id 0, type LINK_STATE), so firstEvent is a value and not a list. *)
(***************************************************************************)
EXTENDS Integers, FiniteSets, Sequences

CONSTANTS
  Senders,      \* sender ids: each is given to one sender (bound)
  Listeners,    \* user listeners (bound)
  Hub,          \* the hub, as a holder of a reference
  MaxEvents,    \* length of a user listener's queue (bound: the code has none)
  MayRunShort,  \* may a kmalloc of the event handler fail, called by a send or a replay?
  None

Holders == Senders \cup Listeners \cup {Hub}

ASSUME HoldersAssumption ==
  /\ IsFiniteSet(Holders)
  /\ Senders \cap Listeners = {} /\ Hub \notin Senders \cup Listeners

ASSUME MaxEventsAssumption == MaxEvents \in Nat

Stages == {"none", "held", "unlisted", "last", "gone"}

VARIABLES
  stage,     \* of each holder: not created, in use, off its list, having
             \* dropped the last reference, or destroyed
  refCount,  \* m->refCount
  freed,     \* how often the mechanism has been freed
  order,     \* the list firstSender: the latest sender first
  event,     \* a sender's last event: the state of its uplink
  wants,     \* the listeners whose class mask has the uplink events
  queue,     \* a user listener's events still to be read
  told,      \* the last event a listener's reader has read of each sender, and
  missed     \* the deliveries that failed for want of memory, of an event sent or
             \* replayed (both are history, kept while listener and sender are in use)

vars == <<stage, refCount, freed, order, event, wants, queue, told, missed>>

Event == [sender : Senders, up : BOOLEAN]

Held(x)   == stage[x] = "held"
Listening == {l \in Listeners : Held(l)}

\* VNetEvent_CreateMechanism, by the hub's first jack.
Init ==
  /\ stage = [x \in Holders |-> IF x = Hub THEN "held" ELSE "none"]
  /\ refCount = 1
  /\ freed = 0
  /\ order = <<>>
  /\ event = [s \in Senders |-> None]
  /\ wants = {}
  /\ queue = [l \in Listeners |-> <<>>]
  /\ told = [l \in Listeners |-> [s \in Senders |-> None]]
  /\ missed = {}

-----------------------------------------------------------------------------
\* VNetEvent_CreateSender, for a port whose jack keeps the hub in use.
CreateSender(s) ==
  /\ Held(Hub) /\ stage[s] = "none"
  /\ stage' = [stage EXCEPT ![s] = "held"]
  /\ refCount' = refCount + 1
  /\ order' = <<s>> \o order
  /\ UNCHANGED <<freed, event, wants, queue, told, missed>>

\* VNetUserListenerEventHandler appends the event to the queues of `to'.
Deliver(s, up, to) ==
  queue' = [l \in Listeners |->
              IF l \in to THEN Append(queue[l], [sender |-> s, up |-> up]) ELSE queue[l]]

\* VNetEvent_Send: keep the event for later listeners and call the handlers;
\* the handlers of `short' get no memory and drop it.
Send(s, up) ==
  LET hears == Listening \cap wants IN
  \E short \in SUBSET hears :
    /\ Held(s)
    /\ short # {} => MayRunShort
    /\ \A l \in hears : Len(queue[l]) < MaxEvents
    /\ event' = [event EXCEPT ![s] = up]
    /\ Deliver(s, up, hears \ short)
    /\ missed' = (missed \ (hears \X {s})) \cup (short \X {s})
    /\ UNCHANGED <<stage, refCount, freed, order, wants, told>>

\* Mutant: only the latest sender's event is replayed.
ReplayedFirst(short) ==
  IF order # <<>> /\ event[order[1]] # None /\ order[1] \notin short THEN <<order[1]>> ELSE <<>>

\* The k-th of a set of positions.
Nth(positions, k) ==
  CHOOSE i \in positions : Cardinality({j \in positions : j <= i}) = k

\* The positions in the list of the senders that have sent.
Sent == {i \in DOMAIN order : event[order[i]] # None}

\* The senders that have sent, in the order of the list, without those whose
\* event got no memory.
Replayed(short) ==
  LET got == {i \in Sent : order[i] \notin short} IN
  [k \in 1 .. Cardinality(got) |-> order[Nth(got, k)]]

\* VNetEvent_CreateListener of VNetUserListener_Create: the listener is listed
\* and its handler called with the last event of every sender; as in a Send, it
\* gets no memory for those of `short' and drops them.
CreateListener(l, wanted) ==
  \E short \in SUBSET {order[i] : i \in Sent} :
    LET replay == Replayed(short) IN
    /\ Held(Hub) /\ stage[l] = "none"
    /\ short # {} => wanted /\ MayRunShort
    /\ Len(replay) <= MaxEvents
    /\ stage' = [stage EXCEPT ![l] = "held"]
    /\ refCount' = refCount + 1
    /\ wants' = IF wanted THEN wants \cup {l} ELSE wants
    /\ queue' = [queue EXCEPT ![l] =
         IF wanted
           THEN [i \in DOMAIN replay |-> [sender |-> replay[i], up |-> event[replay[i]]]]
           ELSE <<>>]
    /\ missed' = missed \cup ({l} \X short)
    /\ UNCHANGED <<freed, order, event, told>>

\* VNetUserListenerRead of a listener that has an event to read.
Read(l) ==
  /\ Held(l) /\ queue[l] # <<>>
  /\ LET e == Head(queue[l]) IN
       told' = [told EXCEPT ![l][e.sender] = IF Held(e.sender) THEN e.up ELSE None]
  /\ queue' = [queue EXCEPT ![l] = Tail(@)]
  /\ UNCHANGED <<stage, refCount, freed, order, event, wants, missed>>

-----------------------------------------------------------------------------
\* Mutant: the list is cut where the object is.
CutAt(x) ==
  IF \E i \in DOMAIN order : order[i] = x
    THEN SubSeq(order, 1, (CHOOSE i \in DOMAIN order : order[i] = x) - 1)
    ELSE order

\* The list of senders without x, when it is there.
Without(x) ==
  IF \E i \in DOMAIN order : order[i] = x
    THEN LET k == CHOOSE i \in DOMAIN order : order[i] = x IN
         [i \in 1 .. Len(order) - 1 |-> order[IF i < k THEN i ELSE i + 1]]
    ELSE order

\* VNetEvent_DestroySender and VNetEvent_DestroyListener take the object off
\* its list, and nobody sees its events any more; the hub, in VNetHubFree, has
\* no list to leave.
Unlist(x) ==
  /\ Held(x)
  /\ stage' = [stage EXCEPT ![x] = "unlisted"]
  /\ order' = Without(x)
  /\ event' = [s \in Senders |-> IF s = x THEN None ELSE event[s]]
  /\ wants' = wants \ {x}
  /\ queue' = [l \in Listeners |-> IF l = x THEN <<>> ELSE queue[l]]
  /\ told' = [l \in Listeners |-> [s \in Senders |->
                IF x \in {l, s} THEN None ELSE told[l][s]]]
  /\ missed' = {m \in missed : x \notin {m[1], m[2]}}
  /\ UNCHANGED <<refCount, freed>>

UnrefBy(x, n, last) ==
  /\ stage[x] = "unlisted"
  /\ refCount' = refCount - n
  /\ stage' = [stage EXCEPT ![x] = IF last THEN "last" ELSE "gone"]
  /\ UNCHANGED <<freed, order, event, wants, queue, told, missed>>

\* Mutants: a listener drops two references, a sender none, and the hub frees
\* the mechanism whoever else refers to it.
UnrefTwice(x)    == UnrefBy(x, IF x \in Listeners THEN 2 ELSE 1, refCount = 1)
UnrefNoSender(x) == UnrefBy(x, IF x \in Senders THEN 0 ELSE 1, refCount = 1)
UnrefHubFrees(x) == UnrefBy(x, 1, refCount = 1 \/ x = Hub)

\* VNetEvent_DestroyMechanism: drop the reference ...
Unref(x) == UnrefBy(x, 1, refCount = 1)

\* ... and free the mechanism without the lock if it was the last.
Free(x) ==
  /\ stage[x] = "last"
  /\ freed' = freed + 1
  /\ stage' = [stage EXCEPT ![x] = "gone"]
  /\ UNCHANGED <<refCount, order, event, wants, queue, told, missed>>

Destroying(x) == Unref(x) \/ Free(x)

Next ==
  \/ \E s \in Senders : CreateSender(s) \/ \E up \in BOOLEAN : Send(s, up)
  \/ \E l \in Listeners : Read(l) \/ \E wanted \in BOOLEAN : CreateListener(l, wanted)
  \/ \E x \in Holders : Unlist(x) \/ Unref(x) \/ Free(x)

\* A thread that has begun to destroy an object goes on: nothing it does blocks.
Fairness == \A x \in Holders : WF_vars(Destroying(x))

Spec == Init /\ [][Next]_vars /\ Fairness

-----------------------------------------------------------------------------
(* Properties.                                                              *)

TypeOK ==
  /\ stage \in [Holders -> Stages]
  /\ refCount \in Nat /\ freed \in Nat
  /\ order \in Seq(Senders)
  /\ event \in [Senders -> BOOLEAN \cup {None}]
  /\ wants \subseteq Listeners
  /\ queue \in [Listeners -> Seq(Event)]
  /\ told \in [Listeners -> [Senders -> BOOLEAN \cup {None}]]
  /\ missed \subseteq Listeners \X Senders

\* The holders that have not dropped their reference yet.
Referring == {x \in Holders : stage[x] \in {"held", "unlisted"}}

\* "Mechanisms, senders, and listeners can be created and destroyed in any
\* order" (vnetEvent.c): while anyone refers to the mechanism nobody has freed
\* it or is about to, and it is freed once at most.
KeptWhileReferred ==
  /\ refCount = Cardinality(Referring)
  /\ Referring # {} => freed = 0 /\ \A x \in Holders : stage[x] # "last"
  /\ freed + Cardinality({x \in Holders : stage[x] = "last"}) <= 1

\* The list firstSender is that of the senders in use, each once.
ListExact ==
  /\ {order[i] : i \in DOMAIN order} = {s \in Senders : Held(s)}
  /\ \A i, j \in DOMAIN order : order[i] = order[j] => i = j

\* The events of sender s in a listener's queue.
Pending(q, s) == {i \in DOMAIN q : q[i].sender = s}

\* What a listener knows of s once it has read its queue: the last event there, or what it knew.
Knows(q, knew, s, e) ==
  \/ Pending(q, s) = {} /\ knew = e
  \/ \E i \in Pending(q, s) : q[i].up = e /\ \A k \in Pending(q, s) : k <= i

\* A listener loses no event and reads none out of order: whether it was
\* created before or after the sender, or between two events, once it has read
\* its queue it knows the last state of every sender, unless the delivery of
\* that very event, when it was sent or when it was replayed, got no memory.
LastEventKnown ==
  \A l \in Listening \cap wants, s \in Senders :
    (Held(s) /\ <<l, s>> \notin missed) => Knows(queue[l], told[l][s], s, event[s])

\* The list has every sender once, and through it every listener knows the last event of each.
EventsExact == ListExact /\ LastEventKnown

\* When the hub and all senders and listeners are destroyed the mechanism is
\* freed: it does not leak.
EventuallyFreed == (\A x \in Holders : ~Held(x)) ~> (freed = 1)
=============================================================================
