--------------------------- MODULE VNetEventProofs ---------------------------
(***************************************************************************)
(* Proofs, for any finite number of senders and listeners: the event       *)
(* mechanism of a hub is freed once at most, and never while one of its    *)
(* holders still refers to it; its list has the senders in use; and a      *)
(* listener's queue ends with the last event of every sender.              *)
(*                                                                         *)
(* The first follows from the count alone (IInv).  The others need besides *)
(* that nothing is known of a sender before it is created, nor by such a   *)
(* listener (Unborn): ids are used once.                                   *)
(***************************************************************************)
EXTENDS VNetEvent, FiniteSetTheorems, TLAPS

\* The holders that have dropped the last reference and not freed yet.
Lasts == {x \in Holders : stage[x] = "last"}

\* The part of the type invariant the argument needs, and the property, which
\* is inductive with it.
IInv ==
  /\ stage \in [Holders -> Stages]
  /\ refCount \in Nat /\ freed \in Nat
  /\ KeptWhileReferred

-----------------------------------------------------------------------------
\* All the sets of holders are finite, and their cardinalities are numbers.
LEMMA SetFacts ==
  /\ IsFiniteSet(Referring) /\ Cardinality(Referring) \in Nat
  /\ IsFiniteSet(Lasts) /\ Cardinality(Lasts) \in Nat
<1>1. Referring \subseteq Holders /\ Lasts \subseteq Holders
  BY DEF Referring, Lasts
<1> QED  BY <1>1, HoldersAssumption, FS_Subset, FS_CardinalityType

\* An object created while the hub holds the mechanism adds its reference.
LEMMA CreateInv ==
  ASSUME IInv, Held(Hub), NEW x \in Holders, stage[x] = "none",
         stage' = [stage EXCEPT ![x] = "held"],
         refCount' = refCount + 1, freed' = freed
  PROVE  IInv'
<1>1. Hub \in Referring /\ x \notin Referring
  BY DEF Held, Referring, Holders
<1>2. Referring' = Referring \cup {x}
  BY DEF IInv, Referring
<1>3. Cardinality(Referring') = Cardinality(Referring) + 1
  BY <1>1, <1>2, SetFacts, FS_AddElement
<1>4. freed = 0 /\ \A y \in Holders : stage[y] # "last"
  BY <1>1 DEF IInv, KeptWhileReferred
<1>5. \A y \in Holders : stage'[y] # "last"
  BY <1>4 DEF IInv
<1>6. Lasts' = {}
  BY <1>5 DEF Lasts
<1>7. Cardinality(Lasts') = 0
  BY <1>6, FS_EmptySet
<1>8. stage' \in [Holders -> Stages] /\ refCount' \in Nat /\ freed' \in Nat
  BY DEF IInv, Stages
<1>9. refCount' = Cardinality(Referring')
  BY <1>3 DEF IInv, KeptWhileReferred
<1>10. freed' + Cardinality(Lasts') <= 1
  BY <1>4, <1>7
<1> QED  BY <1>4, <1>5, <1>8, <1>9, <1>10 DEF IInv, KeptWhileReferred, Lasts

\* Leaving a list keeps the reference.
LEMMA UnlistInv == ASSUME IInv, NEW x \in Holders, Unlist(x) PROVE IInv'
<1>1. Referring' = Referring /\ Lasts' = Lasts
  BY DEF Unlist, Held, IInv, Referring, Lasts
<1>2. /\ stage' \in [Holders -> Stages]
      /\ refCount' = refCount /\ freed' = freed
      /\ \A y \in Holders : stage'[y] = "last" <=> stage[y] = "last"
  BY DEF Unlist, Held, IInv, Stages
<1> QED  BY <1>1, <1>2 DEF IInv, KeptWhileReferred, Lasts

\* Dropping a reference: the last holder, and only it, is to free.
LEMMA UnrefInv == ASSUME IInv, NEW x \in Holders, Unref(x) PROVE IInv'
<1>1. /\ stage[x] = "unlisted"
      /\ stage' = [stage EXCEPT ![x] = IF refCount = 1 THEN "last" ELSE "gone"]
      /\ refCount' = refCount - 1 /\ freed' = freed
  BY DEF Unref, UnrefBy
<1>2. x \in Referring
  BY <1>1 DEF Referring
<1>3. Referring' = Referring \ {x}
  BY <1>1 DEF IInv, Referring
<1>4. Cardinality(Referring') = Cardinality(Referring) - 1
  BY <1>2, <1>3, SetFacts, FS_RemoveElement
<1>5. Cardinality(Referring') \in Nat
  BY <1>3, SetFacts, FS_Subset, FS_CardinalityType
<1>6. refCount' = Cardinality(Referring') /\ refCount' \in Nat
  BY <1>1, <1>4, <1>5 DEF IInv, KeptWhileReferred
<1>7. freed = 0 /\ \A y \in Holders : stage[y] # "last"
  BY <1>2 DEF IInv, KeptWhileReferred
<1>8. stage' \in [Holders -> Stages] /\ freed' \in Nat
  BY <1>1 DEF IInv, Stages
<1>9. CASE refCount = 1
  <2>1. Lasts' = {x}
    BY <1>1, <1>7, <1>9 DEF IInv, Lasts
  <2>2. Cardinality(Lasts') = 1
    BY <2>1, FS_Singleton
  <2>3. Referring' = {}
    BY <1>3, <1>4, <1>9, SetFacts, FS_Subset, FS_EmptySet DEF IInv, KeptWhileReferred
  <2> QED  BY <1>1, <1>6, <1>7, <1>8, <2>2, <2>3 DEF IInv, KeptWhileReferred, Lasts
<1>10. CASE refCount # 1
  <2>1. \A y \in Holders : stage'[y] # "last"
    BY <1>1, <1>7, <1>10 DEF IInv
  <2>2. Lasts' = {}
    BY <2>1 DEF Lasts
  <2>3. Cardinality(Lasts') = 0
    BY <2>2, FS_EmptySet
  <2> QED  BY <1>1, <1>6, <1>7, <1>8, <2>1, <2>3 DEF IInv, KeptWhileReferred, Lasts
<1> QED  BY <1>9, <1>10

\* Freeing happens when nobody refers to the mechanism, and once.
LEMMA FreeInv == ASSUME IInv, NEW x \in Holders, Free(x) PROVE IInv'
<1>1. /\ stage[x] = "last" /\ stage' = [stage EXCEPT ![x] = "gone"]
      /\ refCount' = refCount /\ freed' = freed + 1
  BY DEF Free
<1>2. Referring = {}
  BY <1>1 DEF IInv, KeptWhileReferred
<1>3. Referring' = Referring
  BY <1>1 DEF IInv, Referring
<1>4. x \in Lasts /\ Lasts' = Lasts \ {x}
  BY <1>1 DEF IInv, Lasts
<1>5. Cardinality(Lasts') = Cardinality(Lasts) - 1
  BY <1>4, SetFacts, FS_RemoveElement
<1>6. freed' + Cardinality(Lasts') <= 1
  BY <1>1, <1>5, SetFacts DEF IInv, KeptWhileReferred, Lasts
<1>7. stage' \in [Holders -> Stages] /\ refCount' \in Nat /\ freed' \in Nat
  BY <1>1 DEF IInv, Stages
<1> QED  BY <1>1, <1>2, <1>3, <1>6, <1>7 DEF IInv, KeptWhileReferred, Lasts

-----------------------------------------------------------------------------
\* At first the hub alone holds the mechanism.
LEMMA InitInv == Init => IInv
<1> SUFFICES ASSUME Init PROVE IInv
  OBVIOUS
<1>1. stage \in [Holders -> Stages] /\ refCount = 1 /\ freed = 0
  BY DEF Init, Stages
<1>2. Hub \in Holders
  BY DEF Holders
<1>3. Referring = {Hub}
  BY <1>2 DEF Init, Referring
<1>4. \A y \in Holders : stage[y] # "last"
  BY DEF Init
<1>5. Lasts = {}
  BY <1>4 DEF Lasts
<1>6. Cardinality(Referring) = 1 /\ Cardinality(Lasts) = 0
  BY <1>3, <1>5, FS_Singleton, FS_EmptySet
<1> QED  BY <1>1, <1>4, <1>6 DEF IInv, KeptWhileReferred, Lasts

\* Every step of the specification keeps the invariant.
LEMMA NextInv == IInv /\ [Next]_vars => IInv'
<1> SUFFICES ASSUME IInv, [Next]_vars PROVE IInv'
  OBVIOUS
<1>1. ASSUME NEW s \in Senders, CreateSender(s) PROVE IInv'
  BY <1>1, CreateInv DEF CreateSender, Holders
<1>2. ASSUME NEW l \in Listeners, NEW w \in BOOLEAN, CreateListener(l, w) PROVE IInv'
  BY <1>2, CreateInv DEF CreateListener, Holders
<1>3. ASSUME UNCHANGED <<stage, refCount, freed>> PROVE IInv'
  BY <1>3 DEF IInv, KeptWhileReferred, Referring
<1>4. ASSUME NEW s \in Senders, NEW up \in BOOLEAN, Send(s, up) PROVE IInv'
  BY <1>3, <1>4 DEF Send
<1>5. ASSUME NEW l \in Listeners, Read(l) PROVE IInv'
  BY <1>3, <1>5 DEF Read
<1>6. CASE UNCHANGED vars
  BY <1>3, <1>6 DEF vars
<1> QED  BY <1>1, <1>2, <1>4, <1>5, <1>6, UnlistInv, UnrefInv, FreeInv DEF Next

\* The invariant holds in every behaviour.
THEOREM Invariance == Spec => []IInv
BY InitInv, NextInv, PTL DEF Spec

\* The mechanism outlives everyone that refers to it and is freed at most once,
\* whatever the order of destruction (VNetEvent_DestroyMechanism).
THEOREM KeptWhileReferredHolds == Spec => []KeptWhileReferred
<1>1. IInv => KeptWhileReferred
  BY DEF IInv
<1> QED  BY <1>1, Invariance, PTL
-----------------------------------------------------------------------------
(* The events.                                                               *)

\* Nothing is known of a sender that was never created, or by such a listener.
Unborn ==
  /\ \A s \in Senders : stage[s] = "none" => event[s] = None
  /\ \A l \in Listeners : stage[l] = "none" => l \notin wants
  /\ \A l \in Listeners, s \in Senders :
       stage[l] = "none" \/ stage[s] = "none" => told[l][s] = None /\ Pending(queue[l], s) = {}

EventsInv == TypeOK /\ ListExact /\ Unborn /\ LastEventKnown

\* Every position is the k-th of its set for one k.
LEMMA NthIsBijection ==
  ASSUME NEW n \in Nat, NEW I \in SUBSET (1 .. n)
  PROVE  /\ Cardinality(I) \in Nat
         /\ \A k \in 1 .. Cardinality(I) : Nth(I, k) \in I
         /\ \A i \in I : \E k \in 1 .. Cardinality(I) : Nth(I, k) = i
         /\ \A j, k \in 1 .. Cardinality(I) : Nth(I, j) = Nth(I, k) => j = k
<1> DEFINE Upto(i) == {j \in I : j <= i}
           rank == [i \in I |-> Cardinality(Upto(i))]
           N == Cardinality(I)
<1>0. \A i \in I : i \in Nat
  OBVIOUS
<1>1. IsFiniteSet(I) /\ N \in Nat
  <2>1. IsFiniteSet(1 .. n)
    BY FS_Interval
  <2> QED
    BY <2>1, FS_Subset, FS_CardinalityType
<1>2. \A i \in I : IsFiniteSet(Upto(i)) /\ Cardinality(Upto(i)) \in 1 .. N
  <2> SUFFICES ASSUME NEW i \in I
               PROVE  IsFiniteSet(Upto(i)) /\ Cardinality(Upto(i)) \in 1 .. N
    OBVIOUS
  <2>1. Upto(i) \in SUBSET I /\ i \in Upto(i)
    OBVIOUS
  <2>2. IsFiniteSet(Upto(i)) /\ Cardinality(Upto(i)) <= N /\ Cardinality(Upto(i)) \in Nat
    BY <1>1, <2>1, FS_Subset, FS_CardinalityType
  <2>3. Cardinality(Upto(i)) # 0
    BY <2>1, <2>2, FS_EmptySet
  <2> QED
    BY <1>1, <2>2, <2>3
<1>3. \A i, j \in I : i < j => Cardinality(Upto(i)) # Cardinality(Upto(j))
  <2> SUFFICES ASSUME NEW i \in I, NEW j \in I, i < j, Cardinality(Upto(i)) = Cardinality(Upto(j))
               PROVE  FALSE
    OBVIOUS
  <2>1. \A k \in I : k <= i => k <= j
    BY <1>0
  <2>2. j <= j /\ ~(j <= i)
    BY <1>0
  <2>3. Upto(i) \in SUBSET Upto(j) /\ j \in Upto(j) /\ j \notin Upto(i)
    BY <2>1, <2>2
  <2> QED
    BY <1>2, <2>3, FS_Subset
<1>4. rank \in Injection(I, 1 .. N)
  <2>1. rank \in [I -> 1 .. N]
    BY <1>2
  <2>2. \A i, j \in I : rank[i] = rank[j] => i = j
    <3> SUFFICES ASSUME NEW i \in I, NEW j \in I, rank[i] = rank[j] PROVE i = j
      OBVIOUS
    <3>1. ~(i < j) /\ ~(j < i)
      BY <1>3
    <3> QED
      BY <1>0, <3>1
  <2> HIDE DEF rank
  <2> QED
    BY <2>1, <2>2 DEF Injection, IsInjective
<1>5. IsFiniteSet(1 .. N) /\ Cardinality(1 .. N) = N
  BY <1>1, FS_Interval
<1>6. \A k \in 1 .. N : \E i \in I : Cardinality(Upto(i)) = k
  <2>1. rank \in Surjection(I, 1 .. N)
    BY <1>4, <1>5, FS_Injection
  <2> QED
    BY <2>1 DEF Surjection
<1>7. \A k \in 1 .. N : Nth(I, k) \in I /\ Cardinality(Upto(Nth(I, k))) = k
  BY <1>6 DEF Nth
<1>8. \A i \in I : \E k \in 1 .. N : Nth(I, k) = i
  <2> SUFFICES ASSUME NEW i \in I PROVE \E k \in 1 .. N : Nth(I, k) = i
    OBVIOUS
  <2>1. PICK k \in 1 .. N : k = Cardinality(Upto(i))
    BY <1>2
  <2>2. PICK j \in I : j = Nth(I, k)
    BY <1>7
  <2>3. Cardinality(Upto(j)) = Cardinality(Upto(i))
    BY <1>7, <2>1, <2>2
  <2>4. ~(j < i) /\ ~(i < j)
    BY <1>3, <2>3
  <2>5. j = i
    BY <1>0, <2>4
  <2> QED
    BY <2>2, <2>5
<1> QED
  BY <1>1, <1>7, <1>8

\* The replay has each sender of an event once, but for those that got no memory.
LEMMA ReplayedExact ==
  ASSUME TypeOK, ListExact, NEW short
  PROVE  LET replay == Replayed(short) IN
         /\ replay \in Seq(Senders)
         /\ \A k \in DOMAIN replay : event[replay[k]] # None
         /\ \A j, k \in DOMAIN replay : replay[j] = replay[k] => j = k
         /\ \A s \in Senders : Held(s) /\ event[s] # None /\ s \notin short =>
              \E k \in DOMAIN replay : replay[k] = s
<1> DEFINE replay == Replayed(short)
<1>1. PICK got : got = {i \in Sent : order[i] \notin short}
  OBVIOUS
<1>2. Len(order) \in Nat /\ DOMAIN order = 1 .. Len(order) /\ got \in SUBSET (1 .. Len(order))
  BY <1>1 DEF TypeOK, Sent
<1>3. PICK n \in Nat : n = Cardinality(got)
  BY <1>2, NthIsBijection
<1>4. replay = [k \in 1 .. n |-> order[Nth(got, k)]] /\ DOMAIN replay = 1 .. n
  BY <1>1, <1>3 DEF Replayed
<1>5. /\ \A k \in 1 .. n : Nth(got, k) \in got
      /\ \A i \in got : \E k \in 1 .. n : Nth(got, k) = i
      /\ \A j, k \in 1 .. n : Nth(got, j) = Nth(got, k) => j = k
  BY <1>2, <1>3, NthIsBijection, ZenonT(60)
<1> HIDE DEF replay
<1>6. \A i \in got : i \in DOMAIN order /\ order[i] \in Senders /\ event[order[i]] # None
  BY <1>1 DEF TypeOK, Sent
<1>7. replay \in Seq(Senders)
  BY <1>4, <1>5, <1>6
<1>8. \A k \in DOMAIN replay : event[replay[k]] # None
  BY <1>4, <1>5, <1>6
<1>9. \A j, k \in DOMAIN replay : replay[j] = replay[k] => j = k
  BY <1>4, <1>5, <1>6 DEF ListExact
<1>10. \A s \in Senders : Held(s) /\ event[s] # None /\ s \notin short =>
         \E k \in DOMAIN replay : replay[k] = s
  <2> SUFFICES ASSUME NEW s \in Senders, Held(s), event[s] # None, s \notin short
               PROVE  \E k \in 1 .. n : replay[k] = s
    BY <1>4
  <2>1. PICK i \in DOMAIN order : order[i] = s
    BY DEF ListExact
  <2>2. i \in got
    BY <1>1, <2>1 DEF Sent
  <2> QED
    BY <1>4, <1>5, <2>1, <2>2
<1> QED
  BY <1>7, <1>8, <1>9, <1>10 DEF replay

\* What a listener knows once it has read its queue, when the queue grows by an event of r.
LEMMA KnowsAppend ==
  ASSUME NEW q \in Seq(Event), NEW knew, NEW r \in Senders, NEW up \in BOOLEAN
  PROVE  LET p == Append(q, [sender |-> r, up |-> up]) IN
         /\ Knows(p, knew, r, up)
         /\ \A s \in Senders \ {r} : Pending(p, s) = Pending(q, s)
         /\ \A s \in Senders \ {r} : \A e : Knows(q, knew, s, e) => Knows(p, knew, s, e)
<1> DEFINE p == Append(q, [sender |-> r, up |-> up])
<1>1. /\ Len(q) \in Nat /\ DOMAIN q = 1 .. Len(q) /\ DOMAIN p = 1 .. Len(q) + 1
      /\ \A i \in DOMAIN q : p[i] = q[i]
      /\ p[Len(q) + 1].sender = r /\ p[Len(q) + 1].up = up
  OBVIOUS
<1> HIDE DEF p
<1>2. Knows(p, knew, r, up)
  <2>1. Len(q) + 1 \in Pending(p, r) /\ \A k \in Pending(p, r) : k <= Len(q) + 1
    BY <1>1 DEF Pending
  <2> QED
    BY <1>1, <2>1 DEF Knows
<1>3. \A s \in Senders \ {r} : Pending(p, s) = Pending(q, s)
  BY <1>1 DEF Pending
<1>4. ASSUME NEW s \in Senders \ {r}, NEW e, Knows(q, knew, s, e) PROVE Knows(p, knew, s, e)
  <2>1. \A i \in Pending(q, s) : p[i] = q[i]
    BY <1>1 DEF Pending
  <2> QED
    BY <1>3, <1>4, <2>1 DEF Knows
<1> QED
  BY <1>2, <1>3, <1>4 DEF p

\* ... and when its first event is read.
LEMMA KnowsTail ==
  ASSUME NEW q \in Seq(Event), q # <<>>, NEW knew, NEW s \in Senders
  PROVE  LET now == IF Head(q).sender = s THEN Head(q).up ELSE knew IN
         /\ \A e : Knows(q, knew, s, e) => Knows(Tail(q), now, s, e)
         /\ Pending(q, s) = {} => Pending(Tail(q), s) = {} /\ Head(q).sender # s
<1> DEFINE now == IF Head(q).sender = s THEN Head(q).up ELSE knew
           t == Tail(q)
<1>1. /\ Len(q) \in Nat \ {0} /\ DOMAIN q = 1 .. Len(q) /\ DOMAIN t = 1 .. Len(q) - 1
      /\ \A i \in DOMAIN t : t[i] = q[i + 1]
      /\ Head(q) = q[1]
  OBVIOUS
<1> HIDE DEF t
<1>2. \A i : i \in Pending(t, s) <=> i \in 1 .. Len(q) - 1 /\ i + 1 \in Pending(q, s)
  BY <1>1 DEF Pending
<1>3. \A i \in Pending(q, s) : i \in 1 .. Len(q) /\ (i # 1 => i - 1 \in Pending(t, s))
  BY <1>1 DEF Pending
<1>4. 1 \in Pending(q, s) <=> Head(q).sender = s
  BY <1>1 DEF Pending
<1>5. Pending(q, s) = {} => Pending(t, s) = {} /\ Head(q).sender # s
  BY <1>2, <1>4
<1>6. ASSUME NEW e, Knows(q, knew, s, e) PROVE Knows(t, now, s, e)
  <2>1. CASE Pending(q, s) = {}
    BY <1>5, <1>6, <2>1 DEF Knows
  <2>2. CASE Pending(q, s) # {}
    <3>1. PICK i \in Pending(q, s) : q[i].up = e /\ \A k \in Pending(q, s) : k <= i
      BY <1>6, <2>2 DEF Knows
    <3>2. CASE i = 1
      <4>1. Pending(t, s) = {}
        <5> SUFFICES ASSUME NEW k \in Pending(t, s) PROVE FALSE
          OBVIOUS
        <5> QED
          BY <1>1, <1>2, <3>1, <3>2
      <4> QED
        BY <1>1, <1>4, <3>1, <3>2, <4>1 DEF Knows
    <3>3. CASE i # 1
      <4>1. i - 1 \in Pending(t, s) /\ t[i - 1].up = e
        BY <1>1, <1>3, <3>1, <3>3
      <4>2. \A k \in Pending(t, s) : k <= i - 1
        BY <1>1, <1>2, <1>3, <3>1
      <4> QED
        BY <4>1, <4>2 DEF Knows
    <3> QED
      BY <3>2, <3>3
  <2> QED
    BY <2>1, <2>2
<1> QED
  BY <1>5, <1>6 DEF t

\* ... and when the queue has one event of each sender that has sent and got the memory.
LEMMA KnowsReplayed ==
  ASSUME TypeOK, ListExact, NEW short, NEW R, R = Replayed(short),
         NEW q, q = [k \in DOMAIN R |-> [sender |-> R[k], up |-> event[R[k]]]]
  PROVE  /\ q \in Seq(Event)
         /\ \A s \in Senders : event[s] = None => Pending(q, s) = {}
         /\ \A s \in Senders : Held(s) /\ s \notin short => Knows(q, None, s, event[s])
<1>1. /\ R \in Seq(Senders)
      /\ \A k \in DOMAIN R : event[R[k]] # None
      /\ \A j, k \in DOMAIN R : R[j] = R[k] => j = k
      /\ \A s \in Senders : Held(s) /\ event[s] # None /\ s \notin short =>
           \E k \in DOMAIN R : R[k] = s
  BY ReplayedExact
<1>3. /\ Len(R) \in Nat /\ DOMAIN R = 1 .. Len(R) /\ DOMAIN q = 1 .. Len(R)
      /\ \A k \in DOMAIN q : q[k].sender = R[k] /\ q[k].up = event[R[k]]
  BY <1>1
<1>4. \A k \in 1 .. Len(R) : R[k] \in Senders /\ event[R[k]] \in BOOLEAN
  <2>1. \A s \in Senders : event[s] # None => event[s] \in BOOLEAN
    BY DEF TypeOK
  <2> QED
    BY <1>1, <1>3, <2>1
<1>5. q \in Seq(Event)
  <2>1. q = [k \in 1 .. Len(R) |-> [sender |-> R[k], up |-> event[R[k]]]]
    BY <1>3
  <2> QED
    BY <1>3, <1>4, <2>1 DEF Event
<1>6. \A s \in Senders : event[s] = None => Pending(q, s) = {}
  BY <1>1, <1>3 DEF Pending
<1>7. ASSUME NEW s \in Senders, Held(s), event[s] # None, s \notin short
      PROVE  Knows(q, None, s, event[s])
  <2>1. PICK k \in DOMAIN R : R[k] = s
    BY <1>1, <1>7
  <2>2. k \in Pending(q, s) /\ \A j \in Pending(q, s) : j = k
    BY <1>1, <1>3, <2>1 DEF Pending
  <2>3. \A j \in Pending(q, s) : j <= k
    BY <1>3, <2>1, <2>2
  <2> QED
    BY <1>3, <2>1, <2>2, <2>3 DEF Knows
<1>8. ASSUME NEW s \in Senders, event[s] = None PROVE Knows(q, None, s, event[s])
  BY <1>6, <1>8 DEF Knows
<1> QED
  BY <1>5, <1>6, <1>7, <1>8

-----------------------------------------------------------------------------
(* The steps, and the events.                                                *)

\* A step that leaves the events alone: objects that were created stay so.
LEMMA EventsKept ==
  ASSUME EventsInv, stage' \in [Holders -> Stages], refCount' \in Nat, freed' \in Nat,
         UNCHANGED <<order, event, wants, queue, told, missed>>,
         \A y \in Holders : /\ stage'[y] = "held" <=> stage[y] = "held"
                            /\ stage'[y] = "none" => stage[y] = "none"
  PROVE  EventsInv'
<1> USE DEF EventsInv, Held, Holders
<1>1. TypeOK'
  BY DEF TypeOK
<1>2. ListExact'
  BY DEF ListExact
<1>3. Unborn'
  BY DEF Unborn
<1>4. LastEventKnown'
  BY DEF LastEventKnown, Listening
<1> QED
  BY <1>1, <1>2, <1>3, <1>4

\* A new sender has sent nothing, and nothing is known of it.
LEMMA CreateSenderEvents == ASSUME IInv, EventsInv, NEW s \in Senders, CreateSender(s) PROVE EventsInv'
<1> USE DEF EventsInv, CreateSender, Held, Holders
<1>1. PICK n \in Nat : n = Len(order) /\ DOMAIN order = 1 .. n
  BY DEF TypeOK
<1>2. /\ order' \in Seq(Senders) /\ DOMAIN order' = 1 .. n + 1 /\ order'[1] = s
      /\ \A i \in 1 .. n : order'[i + 1] = order[i]
      /\ \A i \in 2 .. n + 1 : order'[i] = order[i - 1]
  BY <1>1 DEF TypeOK
<1>3. TypeOK'
  BY <1>2 DEF TypeOK, Stages
<1>4. ListExact'
  <2>1. s \notin {order[i] : i \in DOMAIN order}
    BY DEF ListExact
  <2>2. {order'[i] : i \in DOMAIN order'} = {order[i] : i \in DOMAIN order} \cup {s}
    <3>1. \A i \in DOMAIN order' : i = 1 \/ (i - 1 \in DOMAIN order /\ order'[i] = order[i - 1])
      BY <1>1, <1>2
    <3>2. \A i \in DOMAIN order : i + 1 \in DOMAIN order' /\ order'[i + 1] = order[i]
      BY <1>1, <1>2
    <3>3. 1 \in DOMAIN order'
      BY <1>1, <1>2
    <3>4. \A i \in DOMAIN order' : order'[i] \in {order[j] : j \in DOMAIN order} \cup {s}
      BY <1>2, <3>1
    <3>5. \A i \in DOMAIN order : order[i] \in {order'[j] : j \in DOMAIN order'}
      BY <3>2
    <3>6. s \in {order'[j] : j \in DOMAIN order'}
      BY <1>2, <3>3
    <3> QED
      BY <3>4, <3>5, <3>6
  <2>3. {t \in Senders : stage'[t] = "held"} = {t \in Senders : stage[t] = "held"} \cup {s}
    BY DEF TypeOK
  <2>4. \A i, j \in DOMAIN order' : order'[i] = order'[j] => i = j
    BY <1>1, <1>2, <2>1 DEF ListExact
  <2> QED
    BY <2>2, <2>3, <2>4 DEF ListExact
<1>5. Unborn'
  BY DEF TypeOK, Unborn
<1>6. LastEventKnown'
  <2> SUFFICES ASSUME NEW l \in Listeners, stage'[l] = "held", l \in wants,
                      NEW r \in Senders, stage'[r] = "held", <<l, r>> \notin missed
               PROVE  Knows(queue[l], told[l][r], r, event[r])
    BY DEF LastEventKnown, Listening
  <2>1. stage[l] = "held"
    BY HoldersAssumption DEF TypeOK
  <2>2. CASE r = s
    BY <2>2 DEF Unborn, Knows
  <2>3. CASE r # s
    BY <2>1, <2>3 DEF LastEventKnown, Listening, TypeOK
  <2> QED
    BY <2>2, <2>3
<1> QED
  BY <1>3, <1>4, <1>5, <1>6

\* An event that is sent is queued for each listener that hears it and has the memory.
LEMMA SendEvents ==
  ASSUME IInv, EventsInv, NEW s \in Senders, NEW up \in BOOLEAN, Send(s, up)
  PROVE  EventsInv'
<1> USE DEF EventsInv, Send, Held, Holders
<1> DEFINE e == [sender |-> s, up |-> up]
           hears == Listening \cap wants
<1>1. PICK short \in SUBSET hears :
        /\ queue' = [l \in Listeners |->
             IF l \in hears \ short THEN Append(queue[l], e) ELSE queue[l]]
        /\ missed' = (missed \ (hears \X {s})) \cup (short \X {s})
  BY DEF Deliver
<1>2. /\ event' = [event EXCEPT ![s] = up] /\ stage[s] = "held"
      /\ UNCHANGED <<stage, refCount, freed, order, wants, told>>
  OBVIOUS
<1>3. hears \subseteq Listeners /\ e \in Event /\ \A l \in Listeners : queue[l] \in Seq(Event)
  BY DEF Listening, TypeOK, Event
<1>4. TypeOK'
  <2>1. queue' \in [Listeners -> Seq(Event)]
    BY <1>1, <1>3
  <2>2. event' \in [Senders -> BOOLEAN \cup {None}]
    BY <1>2 DEF TypeOK
  <2>3. missed' \subseteq Listeners \X Senders
    BY <1>1, <1>3 DEF TypeOK
  <2> QED
    BY <1>2, <2>1, <2>2, <2>3 DEF TypeOK
<1>5. ListExact'
  BY <1>2 DEF ListExact
<1>6. ASSUME NEW l \in Listeners, l \in hears \ short
      PROVE  /\ Knows(queue'[l], told[l][s], s, up)
             /\ \A r \in Senders \ {s} : Pending(queue'[l], r) = Pending(queue[l], r)
             /\ \A r \in Senders \ {s} : \A x :
                  Knows(queue[l], told[l][r], r, x) => Knows(queue'[l], told[l][r], r, x)
  <2>1. PICK q \in Seq(Event) : q = queue[l] /\ queue'[l] = Append(q, e)
    BY <1>1, <1>3, <1>6
  <2>2. ASSUME NEW knew
        PROVE  /\ Knows(Append(q, e), knew, s, up)
               /\ \A r \in Senders \ {s} : Pending(Append(q, e), r) = Pending(q, r)
               /\ \A r \in Senders \ {s} : \A x :
                    Knows(q, knew, r, x) => Knows(Append(q, e), knew, r, x)
    BY KnowsAppend
  <2> HIDE DEF e
  <2>3. Knows(queue'[l], told[l][s], s, up)
    BY <2>1, <2>2
  <2>4. \A r \in Senders \ {s} : Pending(queue'[l], r) = Pending(queue[l], r)
    BY <2>1, <2>2
  <2>5. ASSUME NEW r \in Senders \ {s}, NEW x, Knows(queue[l], told[l][r], r, x)
        PROVE  Knows(queue'[l], told[l][r], r, x)
    BY <2>1, <2>2, <2>5, SMTT(40)
  <2> QED
    BY <2>3, <2>4, <2>5
<1>7. \A l \in Listeners : l \notin hears \ short => queue'[l] = queue[l]
  BY <1>1
<1>8. Unborn'
  <2>1. \A r \in Senders : stage'[r] = "none" => event'[r] = None
    BY <1>2 DEF Unborn, TypeOK
  <2>2. ASSUME NEW l \in Listeners, NEW r \in Senders, stage[l] = "none" \/ stage[r] = "none"
        PROVE  Pending(queue'[l], r) = {}
    BY <1>2, <1>6, <1>7, <2>2 DEF Unborn, Listening
  <2> QED
    BY <1>2, <2>1, <2>2 DEF Unborn
<1>9. LastEventKnown'
  <2> SUFFICES ASSUME NEW l \in Listeners, l \in hears,
                      NEW r \in Senders, stage[r] = "held", <<l, r>> \notin missed'
               PROVE  Knows(queue'[l], told[l][r], r, event'[r])
    BY <1>2 DEF LastEventKnown, Listening
  <2>1. CASE r = s
    <3>1. l \notin short /\ event'[r] = up
      BY <1>1, <1>2, <2>1 DEF TypeOK
    <3> QED
      BY <1>6, <2>1, <3>1
  <2>2. CASE r # s
    <3>1. <<l, r>> \notin missed /\ event'[r] = event[r]
      BY <1>1, <1>2, <2>2 DEF TypeOK
    <3>2. Knows(queue[l], told[l][r], r, event[r])
      BY <3>1 DEF LastEventKnown, Listening
    <3> QED
      BY <1>6, <1>7, <2>2, <3>1, <3>2
  <2> QED
    BY <2>1, <2>2
<1> QED
  BY <1>4, <1>5, <1>8, <1>9

\* A new listener is handed the last event of every sender, as far as there is memory.
LEMMA CreateListenerEvents ==
  ASSUME IInv, EventsInv, NEW l \in Listeners, NEW wanted \in BOOLEAN, CreateListener(l, wanted)
  PROVE  EventsInv'
<1> USE DEF EventsInv, Held, Holders
<1> DEFINE queued(R) == [k \in DOMAIN R |-> [sender |-> R[k], up |-> event[R[k]]]]
<1>1. PICK short \in SUBSET {order[i] : i \in Sent} :
        /\ stage[l] = "none" /\ stage' = [stage EXCEPT ![l] = "held"]
        /\ queue' = [queue EXCEPT ![l] = IF wanted THEN queued(Replayed(short)) ELSE <<>>]
        /\ wants' = IF wanted THEN wants \cup {l} ELSE wants
        /\ refCount' = refCount + 1
        /\ missed' = missed \cup ({l} \X short)
        /\ UNCHANGED <<freed, order, event, told>>
  BY DEF CreateListener
<1>a. PICK q : q = queued(Replayed(short))
  OBVIOUS
<1>b. short \subseteq Senders
  BY DEF TypeOK, Sent
<1>2. /\ q \in Seq(Event)
      /\ \A s \in Senders : event[s] = None => Pending(q, s) = {}
      /\ \A s \in Senders : stage[s] = "held" /\ s \notin short => Knows(q, None, s, event[s])
  BY <1>a, KnowsReplayed
<1>3. /\ stage[l] = "none" /\ stage' = [stage EXCEPT ![l] = "held"]
      /\ queue' = [queue EXCEPT ![l] = IF wanted THEN q ELSE <<>>]
      /\ wants' = IF wanted THEN wants \cup {l} ELSE wants
      /\ refCount' = refCount + 1
      /\ missed' = missed \cup ({l} \X short)
      /\ UNCHANGED <<freed, order, event, told>>
  BY <1>1, <1>a
<1> HIDE DEF queued
<1>4. \A s \in Senders : stage'[s] = stage[s]
  BY <1>3, HoldersAssumption DEF TypeOK
<1>5. TypeOK'
  BY <1>2, <1>3, <1>b DEF TypeOK, Stages
<1>6. ListExact'
  BY <1>3, <1>4 DEF ListExact
<1>7. Unborn'
  <2>1. \A s \in Senders : stage[s] = "none" => Pending(q, s) = {}
    BY <1>2 DEF Unborn
  <2>2. \A s : Pending(<<>>, s) = {}
    BY DEF Pending
  <2>3. \A s \in Senders : stage'[s] = "none" => event'[s] = None
    BY <1>3, <1>4 DEF Unborn
  <2>4. \A m \in Listeners : stage'[m] = "none" => m \notin wants'
    BY <1>3 DEF Unborn, TypeOK
  <2>5. ASSUME NEW m \in Listeners, NEW s \in Senders, stage'[m] = "none" \/ stage'[s] = "none"
        PROVE  told'[m][s] = None /\ Pending(queue'[m], s) = {}
    <3>1. told[m][s] = None
      BY <1>3, <1>4, <2>5 DEF Unborn, TypeOK
    <3>2. CASE m = l
      <4>1. queue'[m] = q \/ queue'[m] = <<>>
        BY <1>3, <3>2 DEF TypeOK
      <4>2. stage[s] = "none"
        BY <1>3, <1>4, <2>5, <3>2 DEF TypeOK
      <4> QED
        BY <1>3, <2>1, <2>2, <3>1, <4>1, <4>2
    <3>3. CASE m # l
      <4>1. queue'[m] = queue[m] /\ stage'[m] = stage[m]
        BY <1>3, <3>3 DEF TypeOK
      <4> QED
        BY <1>3, <1>4, <2>5, <3>1, <4>1 DEF Unborn
    <3> QED
      BY <3>2, <3>3
  <2> QED
    BY <2>3, <2>4, <2>5 DEF Unborn
<1>8. LastEventKnown'
  <2> SUFFICES ASSUME NEW m \in Listeners, stage'[m] = "held", m \in wants',
                      NEW s \in Senders, stage'[s] = "held", <<m, s>> \notin missed'
               PROVE  Knows(queue'[m], told[m][s], s, event[s])
    BY <1>3 DEF LastEventKnown, Listening
  <2>0. <<m, s>> \notin missed
    BY <1>3
  <2>1. CASE m = l
    <3>1. told[m][s] = None /\ queue'[m] = q
      BY <1>3, <2>1 DEF Unborn, TypeOK
    <3>2. s \notin short
      BY <1>3, <2>1
    <3> QED
      BY <1>2, <1>4, <3>1, <3>2
  <2>2. CASE m # l
    <3>1. stage[m] = "held" /\ m \in wants /\ queue'[m] = queue[m]
      BY <1>3, <2>2 DEF TypeOK
    <3> QED
      BY <1>4, <2>0, <3>1 DEF LastEventKnown, Listening
  <2> QED
    BY <2>1, <2>2
<1> QED
  BY <1>5, <1>6, <1>7, <1>8

\* An event that is read goes from the queue to what is known.
LEMMA ReadEvents == ASSUME IInv, EventsInv, NEW l \in Listeners, Read(l) PROVE EventsInv'
<1> USE DEF EventsInv, Read, Held, Holders
<1>1. PICK q \in Seq(Event) : q = queue[l]
  BY DEF TypeOK
<1>2. PICK r \in Senders, up \in BOOLEAN : r = Head(q).sender /\ up = Head(q).up
  <2>1. Head(q) \in Event
    BY <1>1
  <2> QED
    BY <2>1 DEF Event
<1>3. PICK now \in BOOLEAN \cup {None} : now = IF stage[r] = "held" THEN up ELSE None
  OBVIOUS
<1>4. /\ q # <<>> /\ Tail(q) \in Seq(Event)
      /\ told' = [told EXCEPT ![l][r] = now]
      /\ queue' = [queue EXCEPT ![l] = Tail(q)]
      /\ UNCHANGED <<stage, refCount, freed, order, event, wants, missed>>
  BY <1>1, <1>2, <1>3
<1>5. \A s \in Senders :
        /\ told'[l][s] = IF r = s THEN now ELSE told[l][s]
        /\ \A m \in Listeners \ {l} : told'[m][s] = told[m][s] /\ queue'[m] = queue[m]
  BY <1>4 DEF TypeOK
<1>6. TypeOK'
  <2>1. told' \in [Listeners -> [Senders -> BOOLEAN \cup {None}]]
    <3>1. told[l] \in [Senders -> BOOLEAN \cup {None}]
      BY DEF TypeOK
    <3>2. PICK k \in [Senders -> BOOLEAN \cup {None}] : k = [told[l] EXCEPT ![r] = now]
      BY <3>1
    <3>3. told' = [told EXCEPT ![l] = k]
      BY <1>4, <3>2
    <3> QED
      BY <3>2, <3>3 DEF TypeOK
  <2>2. queue' \in [Listeners -> Seq(Event)]
    BY <1>4 DEF TypeOK
  <2> QED
    BY <1>4, <2>1, <2>2 DEF TypeOK
<1>7. ListExact'
  BY <1>4 DEF ListExact
<1>8. queue'[l] = Tail(q)
  BY <1>4 DEF TypeOK
<1>9. \A s \in Senders : Pending(q, s) = {} => Pending(Tail(q), s) = {} /\ r # s
  BY <1>2, <1>4, KnowsTail
<1>10. Unborn'
  <2>1. ASSUME NEW m \in Listeners, NEW s \in Senders, stage[m] = "none" \/ stage[s] = "none"
        PROVE  told'[m][s] = None /\ Pending(queue'[m], s) = {}
    <3>1. told[m][s] = None /\ Pending(queue[m], s) = {}
      BY <2>1 DEF Unborn
    <3>2. CASE m = l
      <4>1. Pending(Tail(q), s) = {} /\ r # s
        BY <1>1, <1>9, <3>1, <3>2
      <4> QED
        BY <1>5, <1>8, <3>1, <3>2, <4>1
    <3>3. CASE m # l
      BY <1>5, <3>1, <3>3
    <3> QED
      BY <3>2, <3>3
  <2>2. \A m \in Listeners : stage[m] = "none" => m \notin wants
    BY DEF Unborn
  <2>3. \A t \in Senders : stage[t] = "none" => event[t] = None
    BY DEF Unborn
  <2> QED
    BY <1>4, <2>1, <2>2, <2>3, ZenonT(60) DEF Unborn
<1>11. LastEventKnown'
  <2> SUFFICES ASSUME NEW m \in Listeners, stage[m] = "held", m \in wants,
                      NEW s \in Senders, stage[s] = "held", <<m, s>> \notin missed
               PROVE  Knows(queue'[m], told'[m][s], s, event[s])
    BY <1>4 DEF LastEventKnown, Listening
  <2>1. Knows(queue[m], told[m][s], s, event[s])
    BY DEF LastEventKnown, Listening
  <2>2. CASE m = l
    <3>1. told'[m][s] = IF Head(q).sender = s THEN Head(q).up ELSE told[m][s]
      BY <1>2, <1>3, <1>5, <2>2
    <3>2. Knows(q, told[m][s], s, event[s])
      BY <1>1, <2>1, <2>2
    <3>3. Knows(Tail(q), IF Head(q).sender = s THEN Head(q).up ELSE told[m][s], s, event[s])
      BY <1>4, <3>2, KnowsTail
    <3> QED
      BY <1>8, <2>2, <3>1, <3>3
  <2>3. CASE m # l
    BY <1>5, <2>1, <2>3
  <2> QED
    BY <2>2, <2>3
<1> QED
  BY <1>6, <1>7, <1>10, <1>11

\* The list without x has the other senders, each once.
LEMMA WithoutExact ==
  ASSUME TypeOK, ListExact, NEW x
  PROVE  /\ Without(x) \in Seq(Senders)
         /\ {Without(x)[i] : i \in DOMAIN Without(x)} = {order[i] : i \in DOMAIN order} \ {x}
         /\ \A i, j \in DOMAIN Without(x) : Without(x)[i] = Without(x)[j] => i = j
<1>1. PICK n \in Nat : n = Len(order) /\ DOMAIN order = 1 .. n
  BY DEF TypeOK
<1>2. \A i \in 1 .. n : order[i] \in Senders
  BY <1>1 DEF TypeOK
<1>3. CASE \E i \in DOMAIN order : order[i] = x
  <2>1. PICK k \in 1 .. n : order[k] = x /\ k = CHOOSE i \in DOMAIN order : order[i] = x
    BY <1>1, <1>3
  <2>2. PICK w : w = [i \in 1 .. n - 1 |-> order[IF i < k THEN i ELSE i + 1]]
    OBVIOUS
  <2>3. Without(x) = w
    BY <1>1, <1>3, <2>1, <2>2 DEF Without
  <2>4. /\ DOMAIN w = 1 .. n - 1
        /\ \A i \in 1 .. n - 1 : i < k => i \in 1 .. n /\ w[i] = order[i]
        /\ \A i \in 1 .. n - 1 : ~(i < k) => i + 1 \in 1 .. n /\ w[i] = order[i + 1]
    BY <2>2
  <2>5. \A i, j \in 1 .. n : order[i] = order[j] => i = j
    BY <1>1 DEF ListExact
  <2>6. w \in Seq(Senders)
    BY <1>2, <2>2, <2>4
  <2>7. \A i \in 1 .. n - 1 : w[i] # x
    <3> SUFFICES ASSUME NEW i \in 1 .. n - 1, w[i] = order[k] PROVE FALSE
      BY <2>1
    <3>1. CASE i < k
      <4>1. i \in 1 .. n /\ order[i] = order[k] /\ i # k
        BY <2>4, <3>1
      <4> QED
        BY <2>5, <4>1
    <3>2. CASE ~(i < k)
      <4>1. i + 1 \in 1 .. n /\ order[i + 1] = order[k] /\ i + 1 # k
        BY <2>4, <3>2
      <4> QED
        BY <2>5, <4>1
    <3> QED
      BY <3>1, <3>2
  <2>8. ASSUME NEW j \in 1 .. n, order[j] # x PROVE \E i \in 1 .. n - 1 : w[i] = order[j]
    <3>1. j # k
      BY <2>1, <2>8
    <3>2. CASE j < k
      <4>1. j \in 1 .. n - 1
        BY <3>2
      <4> QED
        BY <2>4, <3>2, <4>1
    <3>3. CASE k < j
      <4>1. j - 1 \in 1 .. n - 1 /\ ~(j - 1 < k) /\ (j - 1) + 1 = j
        BY <3>3
      <4> QED
        BY <2>4, <4>1
    <3> QED
      BY <3>1, <3>2, <3>3
  <2>9. {w[i] : i \in 1 .. n - 1} = {order[i] : i \in 1 .. n} \ {x}
    BY <2>4, <2>7, <2>8
  <2>10. \A i, j \in 1 .. n - 1 : w[i] = w[j] => i = j
    BY <2>4, <2>5
  <2>11. /\ w \in Seq(Senders)
         /\ {w[i] : i \in DOMAIN w} = {order[i] : i \in DOMAIN order} \ {x}
         /\ \A i, j \in DOMAIN w : w[i] = w[j] => i = j
    BY <1>1, <2>4, <2>6, <2>9, <2>10
  <2> QED
    BY <2>3, <2>11, SMTT(40)
<1>4. CASE ~ \E i \in DOMAIN order : order[i] = x
  BY <1>4 DEF Without, TypeOK, ListExact
<1> QED
  BY <1>3, <1>4

\* Who leaves is forgotten.
LEMMA UnlistEvents == ASSUME IInv, EventsInv, NEW x \in Holders, Unlist(x) PROVE EventsInv'
<1> USE DEF EventsInv, Held, Holders
<1>1. PICK w : w = Without(x)
  OBVIOUS
<1>2. /\ w \in Seq(Senders)
      /\ {w[i] : i \in DOMAIN w} = {order[i] : i \in DOMAIN order} \ {x}
      /\ \A i, j \in DOMAIN w : w[i] = w[j] => i = j
  BY <1>1, WithoutExact
<1>3. /\ stage[x] = "held" /\ stage' = [stage EXCEPT ![x] = "unlisted"]
      /\ order' = w
      /\ event' = [s \in Senders |-> IF s = x THEN None ELSE event[s]]
      /\ wants' = wants \ {x}
      /\ queue' = [l \in Listeners |-> IF l = x THEN <<>> ELSE queue[l]]
      /\ told' = [l \in Listeners |-> [s \in Senders |->
                    IF x \in {l, s} THEN None ELSE told[l][s]]]
      /\ missed' = {m \in missed : x \notin {m[1], m[2]}}
      /\ UNCHANGED <<refCount, freed>>
  BY <1>1 DEF Unlist
<1>4. TypeOK'
  <2>1. stage' \in [Holders -> Stages]
    BY <1>3 DEF TypeOK, Stages
  <2>2. event' \in [Senders -> BOOLEAN \cup {None}] /\ wants' \subseteq Listeners
    BY <1>3 DEF TypeOK
  <2>3. queue' \in [Listeners -> Seq(Event)]
    BY <1>3 DEF TypeOK
  <2>4. told' \in [Listeners -> [Senders -> BOOLEAN \cup {None}]]
    BY <1>3 DEF TypeOK
  <2>5. missed' \subseteq Listeners \X Senders
    BY <1>3 DEF TypeOK
  <2> QED
    BY <1>2, <1>3, <2>1, <2>2, <2>3, <2>4, <2>5 DEF TypeOK
<1>5. ListExact'
  <2>1. {s \in Senders : stage'[s] = "held"} = {s \in Senders : stage[s] = "held"} \ {x}
    BY <1>3 DEF TypeOK
  <2>2. {order[i] : i \in DOMAIN order} = {s \in Senders : stage[s] = "held"}
    BY DEF ListExact
  <2>3. {w[i] : i \in DOMAIN w} = {s \in Senders : stage'[s] = "held"}
    BY <1>2, <2>1, <2>2
  <2> QED
    BY <1>2, <1>3, <2>3 DEF ListExact
<1>6. Unborn'
  <2>1. \A l \in Listeners, s \in Senders :
          /\ told'[l][s] = None \/ told'[l][s] = told[l][s]
          /\ queue'[l] = <<>> \/ queue'[l] = queue[l]
    BY <1>3
  <2>2. \A s : Pending(<<>>, s) = {}
    BY DEF Pending
  <2>3. \A y \in Holders : stage'[y] = "none" => stage[y] = "none"
    BY <1>3 DEF TypeOK
  <2>4. \A s \in Senders : event'[s] = None \/ event'[s] = event[s]
    BY <1>3
  <2> QED
    BY <1>3, <2>1, <2>2, <2>3, <2>4, SMTT(40) DEF Unborn
<1>7. LastEventKnown'
  <2> SUFFICES ASSUME NEW l \in Listeners, stage'[l] = "held", l \in wants',
                      NEW s \in Senders, stage'[s] = "held", <<l, s>> \notin missed'
               PROVE  Knows(queue'[l], told'[l][s], s, event'[s])
    BY DEF LastEventKnown, Listening
  <2>1. l # x /\ s # x /\ stage[l] = "held" /\ stage[s] = "held" /\ l \in wants
    BY <1>3 DEF TypeOK
  <2>2. <<l, s>> \notin missed
    BY <1>3, <2>1
  <2>3. queue'[l] = queue[l] /\ told'[l][s] = told[l][s] /\ event'[s] = event[s]
    BY <1>3, <2>1
  <2> QED
    BY <2>1, <2>2, <2>3 DEF LastEventKnown, Listening
<1> QED
  BY <1>4, <1>5, <1>6, <1>7

\* At first there are no events.
LEMMA InitEvents == Init => EventsInv
<1> SUFFICES ASSUME Init PROVE EventsInv
  OBVIOUS
<1> USE DEF Init, Held, Holders
<1>1. TypeOK
  BY DEF TypeOK, Stages
<1>2. ListExact
  BY HoldersAssumption DEF ListExact
<1>3. Unborn
  BY DEF Unborn, Pending
<1>4. LastEventKnown
  BY DEF LastEventKnown
<1> QED
  BY <1>1, <1>2, <1>3, <1>4 DEF EventsInv

\* Every step of the specification keeps the events exact.
LEMMA NextEvents == IInv /\ EventsInv /\ [Next]_vars => EventsInv'
<1> SUFFICES ASSUME IInv, EventsInv, [Next]_vars PROVE EventsInv'
  OBVIOUS
<1>1. ASSUME NEW x \in Holders, Unref(x) \/ Free(x) PROVE EventsInv'
  <2>1. stage' \in [Holders -> Stages] /\ refCount' \in Nat /\ freed' \in Nat
    <3>1. IInv'
      BY <1>1, UnrefInv, FreeInv
    <3> QED
      BY <3>1 DEF IInv
  <2>2. UNCHANGED <<order, event, wants, queue, told, missed>>
    BY <1>1 DEF Unref, UnrefBy, Free
  <2>3. \A y \in Holders : /\ stage'[y] = "held" <=> stage[y] = "held"
                           /\ stage'[y] = "none" => stage[y] = "none"
    BY <1>1 DEF Unref, UnrefBy, Free, IInv
  <2> QED
    BY <2>1, <2>2, <2>3, EventsKept
<1>2. CASE UNCHANGED vars
  BY <1>2, EventsKept DEF vars, EventsInv, TypeOK
<1> QED
  BY <1>1, <1>2, CreateSenderEvents, SendEvents, CreateListenerEvents, ReadEvents, UnlistEvents
  DEF Next

\* The type invariant holds in every behaviour.
THEOREM TypeCorrect == Spec => []TypeOK
<1>1. EventsInv => TypeOK
  BY DEF EventsInv
<1> QED
  BY <1>1, InitInv, NextInv, InitEvents, NextEvents, PTL DEF Spec

\* The list has every sender in use, once; and a listener that wants the events, however late
\* it was created and whatever it has read, knows the last event of every sender once it has
\* read its queue, but for deliveries that failed (VNetEvent_Send, VNetEvent_CreateListener).
THEOREM EventsExactHolds == Spec => []EventsExact
<1>1. EventsInv => EventsExact
  BY DEF EventsInv, EventsExact
<1> QED
  BY <1>1, InitInv, NextInv, InitEvents, NextEvents, PTL DEF Spec
=============================================================================
