------------------------ MODULE VNetStructureProofs ------------------------
(***************************************************************************)
(* Proofs about VNetStructure, for every set of files, ports, hubs, jacks  *)
(* and names.                                                              *)
(***************************************************************************)
EXTENDS VNetStructure, FiniteSetTheorems, TLAPS

-----------------------------------------------------------------------------
(* The inductive invariant.                                                 *)

\* What the locals of an operation hold at each of its steps.
Phases ==
  \A f \in Filps :
    /\ pc[f] = "idle" => new[f] = None
    /\ pc[f] \in {"idle", "lookup", "insert"} => hubJack[f] = None
    /\ pc[f] \in Holding \ {"switch"} => hubJack[f] # None
    /\ pc[f] \in Working \ {"switch"} => (new[f] = None <=> filp[f] # None)
    /\ pc[f] = "connect" => new[f] # None
    /\ pc[f] = "switch" => filp[f] # None /\ (new[f] = None <=> hubJack[f] # None)
    /\ pc[f] \notin {"put", "hubfree"} => putPort[f] = None /\ putHub[f] = None
    /\ pc[f] = "hubfree" => putHub[f] # None

\* Ports in hand are allocated, jacks in hand are in use.
InHand ==
  \A f \in Filps :
    /\ \A p \in Ports : HasPort(f, p) => kind[p] # "free"
    /\ \A j \in HubJacks : HasJack(f, j) => j \in used

\* The hub of a jack in use is on the list.
UsedListed == \A j \in used : HubOf(j) \in hubs

\* A jack is published from HubPublish until its release.
Published ==
  /\ private \subseteq used
  /\ \A f \in Filps, j \in HubJacks :
       /\ IsPeer(f, j) => j \in private
       /\ IsTaken(f, j) => (j \in private <=> pc[f] \in {"connect", "switch"})
       /\ IsHubPut(f, j) => (j \in private <=> pc[f] = "put")

\* The port of a file and its hub jack are each other's peer, connected or not.
Cabled ==
  \A f \in Filps : filp[f] # None =>
    /\ peer[filp[f]] \in HubJacks
    /\ peer[peer[filp[f]]] = filp[f]
    /\ filp[f] \in state <=> peer[filp[f]] \in state

\* Only the two ends of a file's cable are ever enabled.
StateOwned ==
  \A j \in state : \E f \in Filps : filp[f] # None /\ j \in {filp[f], peer[filp[f]]}

IInv ==
  /\ TypeOK /\ Phases /\ Exclusive /\ InHand /\ UsedListed
  /\ Published /\ Cabled /\ StateOwned

-----------------------------------------------------------------------------
(* Facts about the constants.                                               *)

\* NULL is no object, and a port is not a hub jack.
LEMMA NoneFacts ==
  /\ None \notin Ports /\ None \notin HubJacks /\ None \notin Filps
  /\ None \notin Jacks /\ None \notin HubNums
  /\ \A p \in Ports : p \notin HubJacks
  /\ Ports \subseteq Jacks /\ HubJacks \subseteq Jacks
BY NoneAssumption, PoolAssumption DEF Jacks

\* What VNetHubPortsChanged computes is a number: a hub has finitely many jacks.
LEMMA TotalType ==
  ASSUME NEW pr, NEW st, NEW h PROVE Total(pr, st, h) \in Nat
<1> DEFINE S == {j \in JacksOf(h) : j \in private /\ Attached(pr, st, j)}
<1>1. IsFiniteSet({h} \X JackIds)
  BY JackIdsAssumption, FS_Singleton, FS_Product
<1>2. IsFiniteSet(S)
  BY <1>1, FS_Subset DEF JacksOf
<1> QED BY <1>2, FS_CardinalityType DEF Total

\* Recounting leaves a number at every hub jack ...
LEMMA RenumberType ==
  ASSUME NEW count \in [HubJacks -> Int], NEW pr, NEW st, NEW this
  PROVE  Renumber(count, pr, st, this) \in [HubJacks -> Int]
BY TotalType DEF Renumber

\* ... and at every hub.
LEMMA RetotalType ==
  ASSUME NEW total \in [HubMem -> Nat], NEW pr, NEW st, NEW this
  PROVE  Retotal(total, pr, st, this) \in [HubMem -> Nat]
BY TotalType DEF Retotal

\* A hub jack is its hub and an index on it.
LEMMA HubJackFacts ==
  /\ \A j \in HubJacks : HubOf(j) \in HubMem
  /\ \A h \in HubMem, i \in JackIds : <<h, i>> \in HubJacks /\ HubOf(<<h, i>>) = h
  /\ \A h \in HubMem, j \in HubJacks : j \in JacksOf(h) <=> HubOf(j) = h
  /\ \A h \in HubMem : JacksOf(h) \subseteq HubJacks
BY DEF HubJacks, HubOf, JacksOf

-----------------------------------------------------------------------------
(* One lemma per action: it preserves the invariant.                        *)

\* Opening takes a port nobody has.
LEMMA OpenInv ==
  ASSUME IInv, NEW f \in Filps, NEW n \in HubNums, Open(f, n) PROVE IInv'
<1>0. PICK p \in Ports : Create(p, "userif", None) /\ new' = [new EXCEPT ![f] = p]
  BY DEF Open
<1> USE NoneFacts, <1>0 DEF IInv, Open, Create, hubVars, fileVars
<1>1. TypeOK' BY DEF TypeOK, Kinds, Steps, putVars, Jacks
<1>2. Phases' BY DEF TypeOK, Phases, Working, Holding, putVars
<1> USE DEF HasPort, HasJack, IsFilps, IsNew, IsPut, IsPeer, IsTaken, IsHubPut, Working, Holding, putVars, TypeOK
<1>3. Exclusive' BY DEF Exclusive, InHand, Phases
<1>4. InHand' BY DEF InHand, Phases
<1>5. UsedListed' BY DEF UsedListed
<1>6. Published' BY DEF Published
<1>7. Cabled' BY DEF Cabled
<1>8. StateOwned' BY DEF StateOwned
<1> QED BY <1>1, <1>2, <1>3, <1>4, <1>5, <1>6, <1>7, <1>8

\* A bind only takes the ioctl lock and names its hub.
LEMMA BindInv ==
  ASSUME IInv, NEW f \in Filps, NEW n \in HubNums, Bind(f, n) PROVE IInv'
<1> USE NoneFacts DEF IInv, Bind, memVars, hubVars, netVars, fileVars, putVars
<1>1. TypeOK' BY DEF TypeOK, Kinds, Steps, Jacks
<1> USE DEF HasPort, HasJack, IsFilps, IsNew, IsPut, IsPeer, IsTaken, IsHubPut, Working, Holding, TypeOK
<1>2. Phases' BY DEF Phases
<1>3. Exclusive' BY DEF Exclusive, InHand, Phases
<1>4. InHand' BY DEF InHand, Phases
<1>5. UsedListed' BY DEF UsedListed
<1>6. Published' BY DEF Published, Phases
<1>7. Cabled' BY DEF Cabled
<1>8. StateOwned' BY DEF StateOwned
<1> QED BY <1>1, <1>2, <1>3, <1>4, <1>5, <1>6, <1>7, <1>8

\* Plugging creates a port nobody has.
LEMMA PlugInv ==
  ASSUME IInv, NEW f \in Filps, NEW k \in PlugKinds, NEW name \in IfNames \cup {None},
         Plug(f, k, name) PROVE IInv'
<1>0. PICK p \in Ports : Create(p, k, name) /\ new' = [new EXCEPT ![f] = p]
  BY DEF Plug
<1> USE <1>0, KindsAssumption
<1> USE NoneFacts DEF IInv, Plug, Create, hubVars, fileVars, putVars
<1>1. TypeOK' BY DEF TypeOK, Kinds, Steps, Jacks
<1> USE DEF HasPort, HasJack, IsFilps, IsNew, IsPut, IsPeer, IsTaken, IsHubPut, Working, Holding, TypeOK
<1>2. Phases' BY DEF Phases
<1>3. Exclusive' BY DEF Exclusive, InHand, Phases
<1>4. InHand' BY DEF InHand, Phases
<1>5. UsedListed' BY DEF UsedListed
<1>6. Published' BY DEF Published, Phases
<1>7. Cabled' BY DEF Cabled
<1>8. StateOwned' BY DEF StateOwned
<1> QED BY <1>1, <1>2, <1>3, <1>4, <1>5, <1>6, <1>7, <1>8

\* TakeJack gives out a jack that nobody has, or none at all.
LEMMA TakeJackFacts ==
  ASSUME IInv, NEW f \in Filps, NEW h \in HubMem, TakeJack(f, h, used)
  PROVE  \/ NoJack(f)
         \/ \E j \in HubJacks \ used :
              /\ HubOf(j) = h
              /\ used' = used \cup {j}
              /\ hubJack' = [hubJack EXCEPT ![f] = j]
              /\ pc' = [pc EXCEPT ![f] = "fill"]
              /\ UNCHANGED putVars
BY HubJackFacts DEF TakeJack

\* What VNetHubAlloc's two locked sections have in common.
LEMMA TakenInv ==
  ASSUME IInv, NEW f \in Filps, pc[f] \in {"lookup", "insert"},
         NEW j \in HubJacks \ used, HubOf(j) \in hubs', hubs \subseteq hubs',
         hubs' \subseteq HubMem, hubNum' \in [HubMem -> HubNums \cup {None}],
         totalPorts' \in [HubMem -> Nat],
         used' = used \cup {j}, hubJack' = [hubJack EXCEPT ![f] = j],
         pc' = [pc EXCEPT ![f] = "fill"], UNCHANGED putVars,
         UNCHANGED <<memVars, private, peer, state, kref, numPorts, fileVars,
                     ioctlMutex, oom, new, num>>
  PROVE  IInv'
<1> USE NoneFacts DEF IInv, memVars, fileVars, putVars, TypeOK
<1>1. TypeOK' BY DEF Steps
<1> USE DEF HasPort, HasJack, IsFilps, IsNew, IsPut, IsPeer, IsTaken, IsHubPut,
            Working, Holding
<1>2. Phases' BY DEF Phases
<1>3. Exclusive' BY DEF Exclusive, InHand, Phases
<1>4. InHand' BY DEF InHand, Phases
<1>5. UsedListed' BY DEF UsedListed
<1>6. Published' BY DEF Published, InHand, Phases
<1>7. Cabled' BY DEF Cabled
<1>8. StateOwned' BY DEF StateOwned
<1> QED BY <1>1, <1>2, <1>3, <1>4, <1>5, <1>6, <1>7, <1>8

\* ... when they give out a jack (TakenInv), and when they give out none.
LEMMA NotTakenInv ==
  ASSUME IInv, NEW f \in Filps, pc[f] \in {"lookup", "insert"}, NoJack(f),
         hubs \subseteq hubs', hubs' \subseteq HubMem,
         hubNum' \in [HubMem -> HubNums \cup {None}], totalPorts' \in [HubMem -> Nat],
         UNCHANGED <<memVars, private, peer, state, kref, numPorts, fileVars,
                     ioctlMutex, oom, new, num>>
  PROVE  IInv'
<1> USE NoneFacts DEF IInv, NoJack, memVars, fileVars, TypeOK
<1>1. TypeOK' BY DEF Steps
<1> USE DEF HasPort, HasJack, IsFilps, IsNew, IsPut, IsPeer, IsTaken, IsHubPut,
            Working, Holding
<1>2. Phases' BY DEF Phases
<1>3. Exclusive' BY DEF Exclusive, InHand, Phases
<1>4. InHand' BY DEF InHand, Phases
<1>5. UsedListed' BY DEF UsedListed
<1>6. Published' BY DEF Published, Phases
<1>7. Cabled' BY DEF Cabled
<1>8. StateOwned' BY DEF StateOwned
<1> QED BY <1>1, <1>2, <1>3, <1>4, <1>5, <1>6, <1>7, <1>8

\* The first locked section of VNetHubAlloc.
LEMMA HubLookupInv ==
  ASSUME IInv, NEW f \in Filps, HubLookup(f) PROVE IInv'
<1> USE DEF HubLookup
<1>1. CASE \E h \in hubs : hubNum[h] = num[f] /\ TakeJack(f, h, used)
  <2>1. PICK h \in hubs : TakeJack(f, h, used) BY <1>1
  <2>2. h \in HubMem BY <2>1 DEF IInv, TypeOK
  <2>3. CASE NoJack(f)
    BY <2>3, NotTakenInv DEF IInv, TypeOK, netVars
  <2>4. ASSUME NEW j \in HubJacks \ used, HubOf(j) = h, used' = used \cup {j},
               hubJack' = [hubJack EXCEPT ![f] = j], pc' = [pc EXCEPT ![f] = "fill"],
               UNCHANGED putVars
        PROVE  IInv'
    <3>1. hubs \subseteq HubMem /\ hubNum \in [HubMem -> HubNums \cup {None}]
          /\ totalPorts \in [HubMem -> Nat]
      BY DEF IInv, TypeOK
    <3> QED BY <2>4, <2>1, <3>1, TakenInv DEF netVars
  <2> QED BY <2>1, <2>2, <2>3, <2>4, TakeJackFacts
<1>2. CASE pc' = [pc EXCEPT ![f] = "insert"] /\ UNCHANGED <<used, hubJack, putVars>>
  <2> USE <1>2, NoneFacts DEF IInv, memVars, netVars, fileVars, putVars, TypeOK
  <2>1. TypeOK' BY DEF Steps
  <2> USE DEF HasPort, HasJack, IsFilps, IsNew, IsPut, IsPeer, IsTaken, IsHubPut,
              Working, Holding
  <2>2. Phases' BY DEF Phases
  <2>3. Exclusive' BY DEF Exclusive, Phases
  <2>4. InHand' BY DEF InHand, Phases
  <2>5. UsedListed' BY DEF UsedListed
  <2>6. Published' BY DEF Published, Phases
  <2>7. Cabled' BY DEF Cabled
  <2>8. StateOwned' BY DEF StateOwned
  <2> QED BY <2>1, <2>2, <2>3, <2>4, <2>5, <2>6, <2>7, <2>8
<1> QED BY <1>1, <1>2

\* The second one, which may add a hub.
LEMMA HubInsertInv ==
  ASSUME IInv, NEW f \in Filps, HubInsert(f) PROVE IInv'
<1> USE DEF HubInsert
<1>1. hubs \subseteq HubMem /\ hubNum \in [HubMem -> HubNums \cup {None}]
      /\ totalPorts \in [HubMem -> Nat] /\ num \in [Filps -> HubNums \cup {None}]
  BY DEF IInv, TypeOK
<1>2. CASE NoJack(f) /\ UNCHANGED <<hubs, hubNum, totalPorts>>
  BY <1>1, <1>2, NotTakenInv
<1>3. ASSUME NEW h \in HubMem, h \in hubs', TakeJack(f, h, used),
             \/ UNCHANGED <<hubs, hubNum, totalPorts>>
             \/ /\ hubs' = hubs \cup {h}
                /\ hubNum' = [hubNum EXCEPT ![h] = num[f]]
                /\ totalPorts' = [totalPorts EXCEPT ![h] = 0]
      PROVE  IInv'
  <2>1. hubs \subseteq hubs' /\ hubs' \subseteq HubMem
        /\ hubNum' \in [HubMem -> HubNums \cup {None}] /\ totalPorts' \in [HubMem -> Nat]
    BY <1>1, <1>3
  <2>2. CASE NoJack(f)
    BY <2>1, <2>2, NotTakenInv
  <2>3. ASSUME NEW j \in HubJacks \ used, HubOf(j) = h, used' = used \cup {j},
               hubJack' = [hubJack EXCEPT ![f] = j], pc' = [pc EXCEPT ![f] = "fill"],
               UNCHANGED putVars
        PROVE  IInv'
    BY <1>3, <2>1, <2>3, TakenInv
  <2> QED BY <1>3, <2>2, <2>3, TakeJackFacts
<1> QED BY <1>1, <1>2, <1>3

\* The jack being filled is disconnected and nobody else has it.
LEMMA HubFillInv ==
  ASSUME IInv, NEW f \in Filps, HubFill(f) PROVE IInv'
<1> DEFINE j == hubJack[f]
<1> USE NoneFacts DEF IInv, TypeOK, memVars, fileVars
<1>1. j \in HubJacks /\ j \notin private /\ j \notin state
      /\ \A g \in Filps : ~IsPeer(g, j) /\ (g # f => ~HasJack(g, j))
  BY DEF HubFill, Phases, Exclusive, Published, StateOwned, Cabled, HasJack, IsTaken,
         IsPeer, Holding
\* the jack is either filled or handed back
<1>2. /\ numPorts' \in [HubJacks -> Int]
      /\ peer' \in [Jacks -> Jacks \cup {None}] /\ peer'[j] \in Ports \cup {None}
      /\ \A k \in Jacks \ {j} : peer'[k] = peer[k]
      /\ \/ /\ pc' = [pc EXCEPT ![f] = "publish"]
            /\ UNCHANGED <<used, hubJack, putVars>>
         \/ /\ pc' = [pc EXCEPT ![f] = "put"]
            /\ used' = used \ {j}
            /\ hubJack' = [hubJack EXCEPT ![f] = None]
            /\ putPort' = [putPort EXCEPT ![f] = new[f]]
            /\ UNCHANGED putHub
  BY <1>1, HubJackFacts DEF HubFill
<1>3. /\ pc[f] = "fill"
      /\ UNCHANGED <<memVars, hubs, hubNum, private, state, kref, totalPorts, fileVars,
                     ioctlMutex, oom, new, num>>
  BY DEF HubFill
<1> USE <1>1, <1>2, <1>3 DEF putVars
<1>4. TypeOK' BY DEF Steps
<1> USE DEF HasPort, HasJack, IsFilps, IsNew, IsPut, IsPeer, IsTaken, IsHubPut,
            Working, Holding
<1>5. Phases' BY DEF Phases
<1>6. \A g \in Filps, k \in HubJacks : IsPeer(g, k)' <=> IsPeer(g, k)
  BY DEF Cabled
<1>7. Exclusive'
  <2>1. \A p \in Ports, g \in Filps : HasPort(g, p)' => HasPort(g, p)
    BY DEF Phases
  <2>2. \A k \in HubJacks, g \in Filps : HasJack(g, k)' => HasJack(g, k)
    BY <1>6
  <2>3. \A p \in Ports, g \in Filps : IsFilps(g, p)' => ~IsNew(g, p)' /\ ~IsPut(g, p)'
    BY DEF Exclusive, Phases
  <2>4. \A k \in HubJacks, g \in Filps : IsPeer(g, k)' => ~IsTaken(g, k)' /\ ~IsHubPut(g, k)'
    BY <1>6 DEF Exclusive
  <2> HIDE DEF HasPort, HasJack, IsFilps, IsNew, IsPut, IsPeer, IsTaken, IsHubPut
  <2> QED BY <2>1, <2>2, <2>3, <2>4 DEF Exclusive
<1>8. InHand' BY <1>6 DEF InHand, Phases
<1>9. UsedListed' BY DEF UsedListed
<1>10. Published' BY <1>6 DEF Published, Phases
<1>11. Cabled' BY DEF Cabled
<1>12. StateOwned' BY DEF StateOwned, Cabled
<1> QED BY <1>4, <1>5, <1>7, <1>8, <1>9, <1>10, <1>11, <1>12

\* Publishing the jack an operation has taken.
LEMMA HubPublishInv ==
  ASSUME IInv, NEW f \in Filps, HubPublish(f) PROVE IInv'
<1> USE NoneFacts DEF IInv, HubPublish, TypeOK, memVars, netVars, fileVars, putVars
<1>1. hubJack[f] \in HubJacks BY DEF Phases, Holding
<1>2. TypeOK' BY <1>1 DEF Steps
<1> USE <1>1 DEF HasPort, HasJack, IsFilps, IsNew, IsPut, IsPeer, IsTaken, IsHubPut,
                 Working, Holding
<1>3. Phases' BY DEF Phases
<1>4. Exclusive' BY DEF Exclusive
<1>5. InHand' BY DEF InHand
<1>6. UsedListed' BY DEF UsedListed
<1>7. Published'
  <2>1. private' \subseteq used' BY DEF Published, InHand
  <2>2. ASSUME NEW g \in Filps, NEW j \in HubJacks
        PROVE  /\ IsPeer(g, j)' => j \in private'
               /\ IsTaken(g, j)' => (j \in private' <=> pc'[g] \in {"connect", "switch"})
               /\ IsHubPut(g, j)' => (j \in private' <=> pc'[g] = "put")
    <3>1. CASE g = f BY <3>1 DEF Published, Phases
    <3>2. CASE g # f BY <3>2 DEF Published, Exclusive
    <3> QED BY <3>1, <3>2
  <2> QED BY <2>1, <2>2 DEF Published
<1>8. Cabled' BY DEF Cabled
<1>9. StateOwned' BY DEF StateOwned
<1> QED BY <1>2, <1>3, <1>4, <1>5, <1>6, <1>7, <1>8, <1>9

\* The port that is put is freed or leaked, and is nobody's afterwards.
LEMMA KrefPutPortInv ==
  ASSUME IInv, NEW f \in Filps, KrefPutPort(f) PROVE IInv'
<1> DEFINE p == putPort[f]
<1> USE NoneFacts DEF IInv, TypeOK, memVars, fileVars
<1>1. p \in Ports /\ p \notin state
      /\ \A g \in Filps : filp[g] # p /\ (g # f => ~HasPort(g, p))
  BY DEF KrefPutPort, Phases, Exclusive, StateOwned, Cabled, HasPort, IsPut, IsFilps
\* whether the port is released or kept, nothing else changes
<1>2. /\ kref' \in [Jacks -> Nat \cup {Uninit, Saturated}]
      /\ peer' \in [Jacks -> Jacks \cup {None}] /\ peer'[p] \in HubJacks \cup {None}
      /\ \A j \in Jacks \ {p} : peer'[j] = peer[j]
      /\ kind' \in [Ports -> Kinds] /\ ifname' \in [Ports -> IfNames \cup {None}]
      /\ \A q \in Ports \ {p} : kind'[q] = kind[q]
      /\ UNCHANGED <<state, private>>
  <2>1. CASE ReleasePort(p)
    BY <1>1, <2>1 DEF ReleasePort, Kinds
  <2>2. CASE PutKeeps(p)
    BY <1>1, <2>2 DEF PutKeeps, Uninit, Saturated
  <2> QED BY <2>1, <2>2 DEF KrefPutPort
<1>3. /\ pc[f] = "put" /\ putPort' = [putPort EXCEPT ![f] = None]
      /\ UNCHANGED <<hubs, hubNum, used, numPorts, totalPorts, fileVars, ioctlMutex,
                     oom, pc, new, num, hubJack, putHub>>
  BY DEF KrefPutPort
<1>4. TypeOK' BY <1>1, <1>2, <1>3
<1> USE <1>1, <1>2, <1>3 DEF HasPort, HasJack, IsFilps, IsNew, IsPut, IsPeer, IsTaken,
                             IsHubPut, Working, Holding
<1>5. Phases' BY DEF Phases
<1>6. Exclusive'
  <2>1. \A q \in Ports, g \in Filps : HasPort(g, q)' => HasPort(g, q) OBVIOUS
  <2>2. \A k \in HubJacks, g \in Filps : HasJack(g, k)' => HasJack(g, k) OBVIOUS
  <2>3. \A q \in Ports, g \in Filps : IsFilps(g, q)' => ~IsNew(g, q)' /\ ~IsPut(g, q)'
    BY DEF Exclusive
  <2>4. \A k \in HubJacks, g \in Filps : IsPeer(g, k)' => ~IsTaken(g, k)' /\ ~IsHubPut(g, k)'
    BY DEF Exclusive
  <2> HIDE DEF HasPort, HasJack, IsFilps, IsNew, IsPut, IsPeer, IsTaken, IsHubPut
  <2> QED BY <2>1, <2>2, <2>3, <2>4 DEF Exclusive
<1>7. InHand' BY DEF InHand, Phases
<1>8. UsedListed' BY DEF UsedListed
<1>9. Published' BY DEF Published, Phases
<1>10. Cabled' BY DEF Cabled
<1>11. StateOwned' BY DEF StateOwned
<1> QED BY <1>4, <1>5, <1>6, <1>7, <1>8, <1>9, <1>10, <1>11

\* The hub jack that is put is disconnected and nobody else has it.
LEMMA KrefPutHubInv ==
  ASSUME IInv, NEW f \in Filps, KrefPutHub(f) PROVE IInv'
<1> DEFINE j == putHub[f]
<1> USE NoneFacts DEF IInv, TypeOK, memVars, fileVars
<1>1. j \in HubJacks /\ j \notin state
      /\ \A g \in Filps : ~IsPeer(g, j) /\ ~IsTaken(g, j) /\ (g # f => ~IsHubPut(g, j))
  BY DEF KrefPutHub, Phases, Exclusive, StateOwned, Cabled, HasJack, IsHubPut, IsPeer,
         IsTaken, Working, Holding
<1>2. /\ kref' \in [Jacks -> Nat \cup {Uninit, Saturated}]
      /\ peer' \in [Jacks -> Jacks \cup {None}] /\ peer'[j] \in Ports \cup {None}
      /\ \A k \in Jacks \ {j} : peer'[k] = peer[k]
      /\ UNCHANGED <<state, kind, ifname>>
      /\ \/ /\ private' = private \ {j} /\ UNCHANGED putHub
            /\ pc' = [pc EXCEPT ![f] = "hubfree"]
         \/ /\ UNCHANGED <<private, pc>>
            /\ putHub' = [putHub EXCEPT ![f] = None]
  <2>1. CASE ReleaseHubJack(j) /\ pc' = [pc EXCEPT ![f] = "hubfree"] /\ UNCHANGED putHub
    BY <1>1, <2>1 DEF ReleaseHubJack
  <2>2. CASE PutKeeps(j) /\ putHub' = [putHub EXCEPT ![f] = None] /\ UNCHANGED pc
    BY <1>1, <2>2 DEF PutKeeps, Uninit, Saturated
  <2> QED BY <2>1, <2>2 DEF KrefPutHub
<1>3. /\ pc[f] = "put" /\ putPort[f] = None
      /\ UNCHANGED <<hubs, hubNum, used, numPorts, totalPorts, fileVars, ioctlMutex,
                     oom, new, num, hubJack, putPort>>
  BY DEF KrefPutHub
<1>4. TypeOK' BY <1>1, <1>2, <1>3 DEF Steps
<1> USE <1>1, <1>2, <1>3 DEF HasPort, HasJack, IsFilps, IsNew, IsPut, IsPeer, IsTaken,
                             IsHubPut, Working, Holding
<1>5. Phases' BY DEF Phases
<1>6. Exclusive' BY DEF Exclusive, Cabled
<1>7. InHand' BY DEF InHand, Cabled
<1>8. UsedListed' BY DEF UsedListed
<1>9. Published' BY DEF Published, Phases, Cabled
<1>10. Cabled' BY DEF Cabled
<1>11. StateOwned' BY DEF StateOwned, Cabled
<1> QED BY <1>4, <1>5, <1>6, <1>7, <1>8, <1>9, <1>10, <1>11

\* A hub leaves the list only when no jack of it is in use.
LEMMA HubFreeInv ==
  ASSUME IInv, NEW f \in Filps, HubFree(f) PROVE IInv'
<1> DEFINE j == putHub[f]
           h == HubOf(j)
<1> USE NoneFacts DEF IInv, TypeOK, HubFree, FreeHubJack, memVars, fileVars
<1>1. j \in HubJacks /\ h \in HubMem /\ j \in used /\ j \notin private
      /\ \A g \in Filps : ~IsPeer(g, j) /\ ~IsTaken(g, j) /\ (g # f => ~IsHubPut(g, j))
  BY HubJackFacts DEF Phases, Exclusive, InHand, Published, HasJack, IsHubPut, IsPeer,
                      IsTaken, Working, Holding
<1>2. TypeOK' BY <1>1 DEF Steps, Uninit
<1> USE <1>1 DEF HasPort, HasJack, IsFilps, IsNew, IsPut, IsPeer, IsTaken, IsHubPut,
                 Working, Holding
<1>3. Phases' BY DEF Phases
<1>4. Exclusive' BY DEF Exclusive
<1>5. InHand' BY DEF InHand, Phases, Cabled
\* the hub is freed only with its last jack, so the hub of another jack stays
<1>6. UsedListed'
  <2> SUFFICES ASSUME NEW k \in used \ {j} PROVE HubOf(k) \in hubs'
    BY DEF UsedListed
  <2>1. HubOf(k) \in hubs /\ k \in HubJacks BY DEF UsedListed
  <2>2. HubOf(k) = h => k \in JacksOf(h) \cap used BY <2>1, HubJackFacts
  <2> QED BY <2>1, <2>2
<1>7. Published' BY DEF Published, Phases
<1>8. Cabled' BY DEF Cabled
<1>9. StateOwned' BY DEF StateOwned
<1> QED BY <1>2, <1>3, <1>4, <1>5, <1>6, <1>7, <1>8, <1>9

\* VNetDisconnect keeps the types of the wiring.
LEMMA DisconnectTypes ==
  ASSUME TypeOK, NEW f \in Filps
  PROVE  /\ Unwired(f) \in SUBSET Jacks
         /\ CountOff(f) \in [HubJacks -> Int]
         /\ TotalOff(f) \in [HubMem -> Nat]
BY RenumberType, RetotalType DEF TypeOK, Unwired, CountOff, TotalOff

\* The cable an open plugs in is between its own port and jack.
LEMMA OpenConnectInv ==
  ASSUME IInv, NEW f \in Filps, OpenConnect(f) PROVE IInv'
<1> DEFINE p == new[f]
           j == hubJack[f]
<1> USE NoneFacts DEF IInv
\* the port and the jack are the operation's own, and so not connected
<1>1. /\ p \in Ports /\ j \in HubJacks /\ filp[f] = None
      /\ p \notin state /\ j \notin state /\ kind[p] # "free" /\ j \in private
      /\ \A g \in Filps : filp[g] # p /\ ~IsPeer(g, j) /\ ~IsPut(g, p) /\ ~IsHubPut(g, j)
      /\ \A g \in Filps \ {f} : ~HasPort(g, p) /\ ~HasJack(g, j)
  <2>1. p \in Ports /\ j \in HubJacks /\ filp[f] = None /\ IsNew(f, p) /\ IsTaken(f, j)
        /\ putPort[f] = None /\ putHub[f] = None /\ pc[f] = "connect"
    BY DEF TypeOK, OpenConnect, Phases, IsNew, IsTaken, Working, Holding
  <2>2. kind[p] # "free" /\ j \in private
    BY <2>1 DEF InHand, Published, HasPort
  <2>3. \A g \in Filps \ {f} : ~HasPort(g, p) /\ ~HasJack(g, j)
    BY <2>1 DEF Exclusive, HasPort, HasJack
  <2>4. \A g \in Filps : filp[g] # p /\ ~IsPeer(g, j) /\ ~IsPut(g, p) /\ ~IsHubPut(g, j)
    BY <2>1, <2>3 DEF HasPort, HasJack, IsFilps, IsPut, IsPeer, IsHubPut
  <2>5. p \notin state /\ j \notin state
    BY <2>1, <2>4 DEF StateOwned, Cabled, IsPeer, TypeOK
  <2> QED BY <2>1, <2>2, <2>3, <2>4, <2>5
<1>2. /\ pc[f] = "connect" /\ pc' = [pc EXCEPT ![f] = "put"]
      /\ UNCHANGED <<memVars, hubVars, ioctlMutex, new, num, hubJack>>
  BY DEF OpenConnect
<1>3. CASE /\ Connect(state, numPorts, totalPorts, p, j)
           /\ filp' = [filp EXCEPT ![f] = p] /\ allPorts' = allPorts \cup {p}
           /\ UNCHANGED <<oom, putVars>>
  <2>1. /\ peer' \in [Jacks -> Jacks \cup {None}]
        /\ peer'[p] = j /\ peer'[j] = p
        /\ \A k \in Jacks \ {p, j} : peer'[k] = peer[k]
        /\ state' = state \cup {p, j}
        /\ kref' \in [Jacks -> Nat \cup {Uninit, Saturated}]
        /\ numPorts' \in [HubJacks -> Int] /\ totalPorts' \in [HubMem -> Nat]
    BY <1>1, <1>3, RenumberType, RetotalType DEF Connect, Wired, TypeOK
  <2> USE <1>1, <1>2, <1>3, <2>1 DEF TypeOK, memVars, hubVars, putVars
  <2>2. TypeOK' BY DEF Steps
  <2> USE DEF HasPort, HasJack, IsFilps, IsNew, IsPut, IsPeer, IsTaken, IsHubPut,
              Working, Holding
  <2>3. Phases' BY DEF Phases
  <2>4. /\ \A g \in Filps \ {f} : /\ \A q \in Ports : HasPort(g, q)' <=> HasPort(g, q)
                                  /\ \A k \in HubJacks : IsPeer(g, k)' <=> IsPeer(g, k)
                                  /\ \A k \in HubJacks : HasJack(g, k)' <=> HasJack(g, k)
        /\ \A q \in Ports : HasPort(f, q)' <=> q = p
        /\ \A k \in HubJacks : IsPeer(f, k)' <=> k = j
        /\ \A k \in HubJacks : HasJack(f, k)' <=> k = j
    BY DEF Cabled, Phases
  <2>5. Exclusive'
    <3>1. \A q \in Ports, g, h \in Filps : HasPort(g, q)' /\ HasPort(h, q)' => g = h
      <4> HIDE DEF HasPort
      <4> QED BY <2>4 DEF Exclusive
    <3>2. \A k \in HubJacks, g, h \in Filps : HasJack(g, k)' /\ HasJack(h, k)' => g = h
      <4> HIDE DEF HasJack
      <4> QED BY <2>4 DEF Exclusive
    <3>3. \A q \in Ports, g \in Filps : IsFilps(g, q)' => ~IsNew(g, q)' /\ ~IsPut(g, q)'
      BY DEF Exclusive
    <3>4. \A k \in HubJacks, g \in Filps :
            IsPeer(g, k)' => ~IsTaken(g, k)' /\ ~IsHubPut(g, k)'
      BY <2>4 DEF Exclusive, Phases
    <3> HIDE DEF HasPort, HasJack, IsFilps, IsNew, IsPut, IsPeer, IsTaken, IsHubPut
    <3> QED BY <3>1, <3>2, <3>3, <3>4 DEF Exclusive
  <2>6. InHand' BY <2>4 DEF InHand
  <2>7. UsedListed' BY DEF UsedListed
  <2>8. Published' BY <2>4 DEF Published, Phases
  <2>9. Cabled' BY DEF Cabled
  <2>10. StateOwned' BY DEF StateOwned, Cabled
  <2> QED BY <2>2, <2>3, <2>5, <2>6, <2>7, <2>8, <2>9, <2>10
<1>4. CASE /\ oom' \in BOOLEAN
           /\ putPort' = [putPort EXCEPT ![f] = p] /\ putHub' = [putHub EXCEPT ![f] = j]
           /\ UNCHANGED <<netVars, fileVars>>
  <2> USE <1>1, <1>2, <1>4 DEF TypeOK, memVars, hubVars, netVars, fileVars
  <2>1. TypeOK' BY DEF Steps
  <2> USE DEF HasPort, HasJack, IsFilps, IsNew, IsPut, IsPeer, IsTaken, IsHubPut,
              Working, Holding
  <2>2. Phases' BY DEF Phases
  <2>3. Exclusive' BY DEF Exclusive
  <2>4. InHand' BY DEF InHand
  <2>5. UsedListed' BY DEF UsedListed
  <2>6. Published' BY DEF Published, Phases
  <2>7. Cabled' BY DEF Cabled
  <2>8. StateOwned' BY DEF StateOwned
  <2> QED BY <2>1, <2>2, <2>3, <2>4, <2>5, <2>6, <2>7, <2>8
<1>5. oom \in BOOLEAN BY DEF TypeOK
<1> QED BY <1>3, <1>4, <1>5 DEF OpenConnect

\* The port and the jack a close puts were the file's own.
LEMMA CloseInv ==
  ASSUME IInv, NEW f \in Filps, Close(f) PROVE IInv'
<1> USE NoneFacts DEF IInv, Close, memVars, hubVars
<1>1. filp[f] \in Ports /\ OldJack(f) \in HubJacks /\ OldJack(f) = peer[filp[f]]
  BY DEF TypeOK, Cabled, OldJack
<1>2. TypeOK' BY <1>1, DisconnectTypes DEF TypeOK, Steps
<1> USE <1>1 DEF TypeOK, Unwired, HasPort, HasJack, IsFilps, IsNew, IsPut, IsPeer, IsTaken,
                 IsHubPut, Working, Holding
<1>3. Phases' BY DEF Phases
<1>4. Exclusive' BY DEF Exclusive, Phases
<1>5. InHand' BY DEF InHand, Phases
<1>6. UsedListed' BY DEF UsedListed
<1>7. Published' BY DEF Published, Phases
<1>8. Cabled' BY DEF Cabled, Exclusive
<1>9. StateOwned' BY DEF StateOwned, Cabled
<1> QED BY <1>2, <1>3, <1>4, <1>5, <1>6, <1>7, <1>8, <1>9

\* A refused switch keeps the file's cable, connected or not.
LEMMA SwitchRefusedInv ==
  ASSUME IInv, NEW f \in Filps, Switch(f), SwitchRefused(f) PROVE IInv'
<1> USE NoneFacts DEF IInv
<1>1. filp[f] \in Ports /\ OldJack(f) \in HubJacks /\ OldJack(f) = peer[filp[f]]
      /\ peer[OldJack(f)] = filp[f]
  BY DEF TypeOK, Cabled, OldJack, Switch, Phases
\* restored or not, the cable's two ends stay each other's peer
<1>2. /\ peer' = peer
      /\ state' \in {Unwired(f), Unwired(f) \cup {filp[f], OldJack(f)}}
      /\ kref' \in [Jacks -> Nat \cup {Uninit, Saturated}]
      /\ numPorts' \in [HubJacks -> Int] /\ totalPorts' \in [HubMem -> Nat]
  <2>1. CASE Connect(Unwired(f), CountOff(f), TotalOff(f), filp[f], OldJack(f))
    <3>1. peer' = peer
      BY <1>1, <2>1 DEF Connect, Wired, TypeOK
    <3> QED BY <1>1, <2>1, <3>1, DisconnectTypes, RenumberType, RetotalType
               DEF Connect, TypeOK
  <2>2. CASE /\ state' = Unwired(f) /\ numPorts' = CountOff(f) /\ totalPorts' = TotalOff(f)
             /\ UNCHANGED <<peer, kref>>
    BY <2>2, DisconnectTypes DEF TypeOK
  <2> QED BY <2>1, <2>2 DEF SwitchRefused
<1>3. /\ pc[f] = "switch" /\ pc' = [pc EXCEPT ![f] = "put"] /\ oom' \in BOOLEAN
      /\ putPort' = [putPort EXCEPT ![f] = new[f]]
      /\ putHub' = [putHub EXCEPT ![f] = hubJack[f]]
      /\ UNCHANGED <<memVars, hubVars, fileVars, ioctlMutex, new, num, hubJack>>
  BY DEF Switch, SwitchRefused, TypeOK
<1> USE <1>1, <1>2, <1>3 DEF memVars, hubVars, fileVars
<1>4. TypeOK' BY DEF TypeOK, Steps, Unwired
<1> USE DEF TypeOK, HasPort, HasJack, IsFilps, IsNew, IsPut, IsPeer, IsTaken, IsHubPut,
            Working, Holding
<1>5. Phases' BY DEF Phases
<1>6. Exclusive'
  <2>1. \A p \in Ports, g \in Filps : HasPort(g, p)' => HasPort(g, p) OBVIOUS
  <2>2. \A k \in HubJacks, g \in Filps : HasJack(g, k)' => HasJack(g, k) OBVIOUS
  <2>3. \A p \in Ports, g \in Filps : IsFilps(g, p)' => ~IsNew(g, p)' /\ ~IsPut(g, p)'
    BY DEF Exclusive
  <2>4. \A k \in HubJacks, g \in Filps : IsPeer(g, k)' => ~IsTaken(g, k)' /\ ~IsHubPut(g, k)'
    BY DEF Exclusive
  <2> HIDE DEF HasPort, HasJack, IsFilps, IsNew, IsPut, IsPeer, IsTaken, IsHubPut
  <2> QED BY <2>1, <2>2, <2>3, <2>4 DEF Exclusive
<1>7. InHand' BY DEF InHand
<1>8. UsedListed' BY DEF UsedListed
<1>9. Published' BY DEF Published, Phases
<1>10. Cabled'
  <2> SUFFICES ASSUME NEW g \in Filps, filp[g] # None
               PROVE  filp[g] \in state' <=> peer[filp[g]] \in state'
    BY DEF Cabled
  <2>1. CASE g = f BY <2>1 DEF Unwired
  <2>2. CASE g # f BY <2>2 DEF Unwired, Exclusive, Cabled
  <2> QED BY <2>1, <2>2
<1>11. StateOwned' BY DEF StateOwned, Unwired
<1> QED BY <1>4, <1>5, <1>6, <1>7, <1>8, <1>9, <1>10, <1>11

\* A switch leaves the file with its new cable and puts its old end.
LEMMA SwitchDoneInv ==
  ASSUME IInv, NEW f \in Filps, Switch(f), SwitchDone(f) PROVE IInv'
<1> DEFINE p == filp[f]
           j == OldJack(f)
           q == NewPort(f)
           k == NewJack(f)
<1> USE NoneFacts DEF IInv
<1>1. /\ p \in Ports /\ j \in HubJacks /\ j = peer[p] /\ peer[j] = p
      /\ q \in Ports /\ k \in HubJacks
      /\ (q = p /\ k # j /\ IsTaken(f, k)) \/ (q # p /\ IsNew(f, q) /\ k = j)
      /\ pc[f] = "switch" /\ putPort[f] = None /\ putHub[f] = None
  BY DEF TypeOK, Cabled, OldJack, NewPort, NewJack, IsBind, Switch, Phases, Exclusive,
         IsTaken, IsNew, IsPeer, IsFilps, Working, Holding
\* what is connected is in the hands of this operation
<1>2. /\ HasPort(f, p) /\ HasPort(f, q) /\ HasJack(f, j) /\ HasJack(f, k)
      /\ \A g \in Filps \ {f} :
           ~HasPort(g, p) /\ ~HasPort(g, q) /\ ~HasJack(g, j) /\ ~HasJack(g, k)
  <2>1. HasPort(f, p) /\ HasPort(f, q) /\ HasJack(f, j) /\ HasJack(f, k)
    BY <1>1 DEF HasPort, HasJack, IsFilps, IsPeer
  <2> QED BY <1>1, <2>1 DEF Exclusive
<1>3. kind[q] # "free" /\ k \in used /\ k \in private
  BY <1>1, <1>2 DEF InHand, Published, IsPeer
<1>4. /\ peer' \in [Jacks -> Jacks \cup {None}]
      /\ peer'[q] = k /\ peer'[k] = q
      /\ \A i \in Jacks \ {q, k} : peer'[i] = peer[i]
      /\ state' = Unwired(f) \cup {q, k}
      /\ kref' \in [Jacks -> Nat \cup {Uninit, Saturated}]
      /\ numPorts' \in [HubJacks -> Int] /\ totalPorts' \in [HubMem -> Nat]
  BY <1>1, DisconnectTypes, RenumberType, RetotalType
     DEF SwitchDone, Connect, Wired, TypeOK
<1>5. /\ pc' = [pc EXCEPT ![f] = "put"]
      /\ filp' = [filp EXCEPT ![f] = q]
      /\ allPorts' \subseteq Ports
      /\ putPort' = [putPort EXCEPT ![f] = IF q = p THEN None ELSE p]
      /\ putHub' = [putHub EXCEPT ![f] = IF q = p THEN j ELSE None]
      /\ UNCHANGED <<memVars, hubVars, ioctlMutex, oom, new, num, hubJack>>
  BY <1>1 DEF Switch, SwitchDone, TypeOK, NewPort, NewJack, IsBind, OldJack, NewList
<1> HIDE DEF p, j, q, k
<1> USE <1>1, <1>2, <1>3, <1>4, <1>5 DEF memVars, hubVars
<1>6. TypeOK' BY SMTT(40) DEF TypeOK, Steps, Unwired
<1>7. Phases' BY DEF Phases, TypeOK, Working, Holding
<1>8. /\ \A g \in Filps \ {f} :
           /\ filp'[g] = filp[g] /\ (filp[g] # None => peer'[filp[g]] = peer[filp[g]])
           /\ \A r \in Ports : HasPort(g, r)' <=> HasPort(g, r)
           /\ \A i \in HubJacks : IsPeer(g, i)' <=> IsPeer(g, i)
           /\ \A i \in HubJacks : HasJack(g, i)' <=> HasJack(g, i)
      /\ \A r \in Ports : HasPort(f, r)' <=> r \in {p, q}
      /\ \A i \in HubJacks : IsPeer(f, i)' <=> i = k
      /\ \A i \in HubJacks : HasJack(f, i)' <=> i \in {j, k}
  <2> USE DEF TypeOK, HasPort, HasJack, IsFilps, IsNew, IsPut, IsPeer, IsTaken, IsHubPut,
              Working, Holding
  <2>1. \A g \in Filps \ {f} : filp[g] # q /\ filp'[g] = filp[g] /\ pc'[g] = pc[g]
                               /\ putPort'[g] = putPort[g] /\ putHub'[g] = putHub[g]
    OBVIOUS
  <2>2. \A g \in Filps \ {f} : filp[g] # None => peer'[filp[g]] = peer[filp[g]]
    BY <2>1
  <2>3. pc'[f] = "put" /\ filp'[f] = q
    OBVIOUS
  <2>4. \A r \in Ports : HasPort(f, r)' <=> r \in {p, q}
    BY <2>3
  <2>5. \A i \in HubJacks : IsPeer(f, i)' <=> i = k
    BY <2>3
  <2>6. \A i \in HubJacks : HasJack(f, i)' <=> i \in {j, k}
    BY <2>3, <2>5
  <2>7. \A g \in Filps \ {f} :
           /\ \A r \in Ports : HasPort(g, r)' <=> HasPort(g, r)
           /\ \A i \in HubJacks : IsPeer(g, i)' <=> IsPeer(g, i)
           /\ \A i \in HubJacks : HasJack(g, i)' <=> HasJack(g, i)
    BY <2>1, <2>2
  <2> QED BY <2>1, <2>2, <2>4, <2>5, <2>6, <2>7
<1>9. Exclusive'
  <2>1. \A r \in Ports, g, h \in Filps : HasPort(g, r)' /\ HasPort(h, r)' => g = h
    BY <1>8 DEF Exclusive
  <2>2. \A i \in HubJacks, g, h \in Filps : HasJack(g, i)' /\ HasJack(h, i)' => g = h
    BY <1>8 DEF Exclusive
  <2>3. \A r \in Ports, g \in Filps : IsFilps(g, r)' => ~IsNew(g, r)' /\ ~IsPut(g, r)'
    BY <1>8 DEF Exclusive, IsFilps, IsNew, IsPut, Working, TypeOK
  <2>4. \A i \in HubJacks, g \in Filps : IsPeer(g, i)' => ~IsTaken(g, i)' /\ ~IsHubPut(g, i)'
    BY <1>8 DEF Exclusive, IsTaken, IsHubPut, Holding, TypeOK
  <2> QED BY <2>1, <2>2, <2>3, <2>4 DEF Exclusive
<1>10. InHand'
  BY <1>8 DEF InHand
<1>11. UsedListed' BY DEF UsedListed
<1>12. Published'
  <2>1. ASSUME NEW g \in Filps, NEW i \in HubJacks
        PROVE  /\ IsPeer(g, i)' => i \in private'
               /\ IsTaken(g, i)' => (i \in private' <=> pc'[g] \in {"connect", "switch"})
               /\ IsHubPut(g, i)' => (i \in private' <=> pc'[g] = "put")
    <3>1. CASE g = f
      <4>1. pc'[f] = "put" /\ (putHub'[f] # None => putHub'[f] = j)
        BY DEF TypeOK
      <4>2. j \in private
        BY DEF Published, IsPeer, p, j
      <4> QED BY <1>8, <3>1, <4>1, <4>2 DEF IsTaken, IsHubPut, Holding
    <3>2. CASE g # f
      BY <1>8, <3>2 DEF Published, IsTaken, IsHubPut, Holding, TypeOK
    <3> QED BY <3>1, <3>2
  <2> QED BY <2>1 DEF Published
<1>13. Cabled'
  <2> SUFFICES ASSUME NEW g \in Filps, filp'[g] # None
               PROVE  /\ peer'[filp'[g]] \in HubJacks
                      /\ peer'[peer'[filp'[g]]] = filp'[g]
                      /\ filp'[g] \in state' <=> peer'[filp'[g]] \in state'
    BY DEF Cabled
  <2>1. CASE g = f BY <2>1 DEF TypeOK
  <2>2. CASE g # f
    <3> DEFINE r == filp[g]
    <3>1. /\ r \in Ports /\ filp'[g] = r /\ peer'[r] = peer[r] /\ peer[r] \in HubJacks
          /\ peer[peer[r]] = r /\ (r \in state <=> peer[r] \in state)
      BY <1>8, <2>2 DEF Cabled, TypeOK
    <3>2. HasPort(g, r) /\ HasJack(g, peer[r])
      BY <3>1 DEF HasPort, HasJack, IsFilps, IsPeer
    <3>3. r \notin {p, q} /\ peer[r] \notin {j, k}
      BY <2>2, <3>2
    <3>4. peer'[peer[r]] = r
      BY <3>1, <3>3
    <3>5. (r \in state' <=> r \in state) /\ (peer[r] \in state' <=> peer[r] \in state)
      BY <3>1, <3>3 DEF Unwired, p, j
    <3> QED BY <3>1, <3>4, <3>5
  <2> QED BY <2>1, <2>2
<1>14. StateOwned'
  <2> SUFFICES ASSUME NEW i \in state'
               PROVE  \E g \in Filps : filp'[g] # None /\ i \in {filp'[g], peer'[filp'[g]]}
    BY DEF StateOwned
  <2>1. CASE i \in {q, k} BY <2>1 DEF TypeOK
  <2>2. CASE i \in Unwired(f)
    <3>1. PICK g \in Filps : filp[g] # None /\ i \in {filp[g], peer[filp[g]]}
      BY <2>2 DEF StateOwned, Unwired
    <3>2. g # f BY <2>2, <3>1 DEF Unwired, p, j
    <3> QED BY <1>8, <3>1, <3>2
  <2> QED BY <2>1, <2>2
<1> QED BY <1>6, <1>7, <1>9, <1>10, <1>11, <1>12, <1>13, <1>14

\* A return only clears the locals of the operation.
LEMMA ReturnInv ==
  ASSUME IInv, NEW f \in Filps, Return(f) PROVE IInv'
<1> USE NoneFacts DEF IInv, Return, memVars, hubVars, netVars, fileVars, putVars
<1>1. TypeOK' BY DEF TypeOK, Kinds, Steps, Jacks
<1> USE DEF HasPort, HasJack, IsFilps, IsNew, IsPut, IsPeer, IsTaken, IsHubPut, Working, Holding, TypeOK
<1>2. Phases' BY DEF Phases
<1>3. Exclusive' BY DEF Exclusive, InHand, Phases
<1>4. InHand' BY DEF InHand, Phases
<1>5. UsedListed' BY DEF UsedListed
<1>6. Published' BY DEF Published, Phases
<1>7. Cabled' BY DEF Cabled
<1>8. StateOwned' BY DEF StateOwned
<1> QED BY <1>1, <1>2, <1>3, <1>4, <1>5, <1>6, <1>7, <1>8

-----------------------------------------------------------------------------
(* The invariant holds, and what follows from it.                           *)

\* Nothing is allocated at first.
LEMMA InitInv == Init => IInv
<1> SUFFICES ASSUME Init PROVE IInv
  OBVIOUS
<1> USE NoneFacts DEF Init, IInv
<1>1. TypeOK
  <2>1. peer \in [Jacks -> Jacks \cup {None}] /\ kref \in [Jacks -> Nat \cup {Uninit, Saturated}]
    OBVIOUS
  <2>2. \A p \in Ports : peer[p] \in HubJacks \cup {None} OBVIOUS
  <2>3. \A j \in HubJacks : peer[j] \in Ports \cup {None} OBVIOUS
  <2>4. kind \in [Ports -> Kinds] /\ pc \in [Filps -> Steps] BY DEF Kinds, Steps
  <2>5. /\ ifname \in [Ports -> IfNames \cup {None}]
        /\ hubs \subseteq HubMem /\ hubNum \in [HubMem -> HubNums \cup {None}]
        /\ used \subseteq HubJacks /\ private \subseteq HubJacks /\ state \subseteq Jacks
        /\ allPorts \subseteq Ports
    OBVIOUS
  <2>6. numPorts \in [HubJacks -> Int] /\ totalPorts \in [HubMem -> Nat]
    OBVIOUS
  <2>7. /\ filp \in [Filps -> Ports \cup {None}] /\ new \in [Filps -> Ports \cup {None}]
        /\ num \in [Filps -> HubNums \cup {None}]
        /\ hubJack \in [Filps -> HubJacks \cup {None}]
        /\ putPort \in [Filps -> Ports \cup {None}]
        /\ putHub \in [Filps -> HubJacks \cup {None}]
    OBVIOUS
  <2>8. ioctlMutex \in Filps \cup {None} /\ oom \in BOOLEAN
    OBVIOUS
  <2> HIDE DEF Init
  <2> QED BY <2>1, <2>2, <2>3, <2>4, <2>5, <2>6, <2>7, <2>8 DEF TypeOK
<1> USE DEF HasPort, HasJack, IsFilps, IsNew, IsPut, IsPeer, IsTaken, IsHubPut,
            Working, Holding
<1>2. Phases /\ Exclusive /\ InHand BY DEF Phases, Exclusive, InHand
<1>3. UsedListed /\ Published /\ Cabled /\ StateOwned
  BY DEF UsedListed, Published, Cabled, StateOwned
<1> QED BY <1>1, <1>2, <1>3

\* A step that changes nothing preserves the invariant.
LEMMA StutterInv == ASSUME IInv, UNCHANGED vars PROVE IInv'
BY DEF IInv, vars, memVars, hubVars, netVars, fileVars, localVars, putVars, TypeOK, Phases,
       Exclusive, InHand, UsedListed, Published, Cabled, StateOwned, HasPort, HasJack,
       IsFilps, IsNew, IsPut, IsPeer, IsTaken, IsHubPut

\* The invariant is inductive.
LEMMA NextInv == IInv /\ [Next]_vars => IInv'
<1> SUFFICES ASSUME IInv, [Next]_vars PROVE IInv'
  OBVIOUS
<1>1. CASE UNCHANGED vars BY <1>1, StutterInv
<1>2. ASSUME NEW f \in Filps, Begin(f) PROVE IInv'
  BY <1>2, OpenInv, BindInv, PlugInv, CloseInv DEF Begin
<1>3. ASSUME NEW f \in Filps, Continue(f) PROVE IInv'
  <2>1. CASE HubLookup(f) \/ HubInsert(f) \/ HubFill(f) \/ HubPublish(f)
    BY <2>1, HubLookupInv, HubInsertInv, HubFillInv, HubPublishInv
  <2>2. CASE OpenConnect(f) \/ Switch(f)
    BY <2>2, OpenConnectInv, SwitchDoneInv, SwitchRefusedInv DEF Switch
  <2>3. CASE KrefPutPort(f) \/ KrefPutHub(f) \/ HubFree(f) \/ Return(f)
    BY <2>3, KrefPutPortInv, KrefPutHubInv, HubFreeInv, ReturnInv
  <2> QED BY <1>3, <2>1, <2>2, <2>3 DEF Continue
<1> QED BY <1>1, <1>2, <1>3 DEF Next

\* The invariant holds in every behaviour of open, bind, plug and close.
THEOREM Invariance == Spec => []IInv
BY InitInv, NextInv, PTL DEF Spec

\* Every variable keeps its type, in every behaviour of the structure code.
THEOREM TypeCorrect == Spec => []TypeOK
<1>1. IInv => TypeOK BY DEF IInv
<1> QED BY <1>1, Invariance, PTL

\* No port and no hub jack is ever in two hands: opens, binds, plugs, closes
\* and releases of any number of files never share one.
THEOREM ExclusiveHolds == Spec => []Exclusive
<1>1. IInv => Exclusive BY DEF IInv
<1> QED BY <1>1, Invariance, PTL

\* What an operation or a file has in hand has not been freed.
THEOREM NoUseAfterFreeHolds == Spec => []NoUseAfterFree
<1>1. IInv => NoUseAfterFree
  BY DEF IInv, NoUseAfterFree, InHand, UsedListed, TypeOK
<1> QED BY <1>1, Invariance, PTL

\* Cables are symmetric: the peer of an enabled jack is enabled, and back.
THEOREM PeerSymmetricHolds == Spec => []PeerSymmetric
<1>1. IInv => PeerSymmetric
  BY NoneFacts DEF IInv, PeerSymmetric, Cabled, StateOwned, TypeOK
<1> QED BY <1>1, Invariance, PTL

-----------------------------------------------------------------------------
(* One hub per number.                                                      *)

\* Only HubInsert adds a hub, and it looks for the number first, under the
\* lock.
LEMMA OneHubNext == IInv /\ OneHubPerNumber /\ [Next]_vars => OneHubPerNumber'
<1> SUFFICES ASSUME IInv, OneHubPerNumber, [Next]_vars PROVE OneHubPerNumber'
  OBVIOUS
<1> USE DEF OneHubPerNumber
<1>1. CASE UNCHANGED <<hubs, hubNum>> BY <1>1
<1>2. ASSUME NEW f \in Filps, HubInsert(f) PROVE OneHubPerNumber'
  \* a hub is added only when, under the lock, no hub has its number
  BY <1>2 DEF HubInsert, IInv, TypeOK
<1>3. ASSUME NEW f \in Filps, HubFree(f) PROVE OneHubPerNumber'
  BY <1>3 DEF HubFree, FreeHubJack, IInv, TypeOK
<1>4. CASE UNCHANGED vars BY <1>1, <1>4 DEF vars, hubVars
<1>5. ASSUME NEW f \in Filps, Begin(f) PROVE UNCHANGED <<hubs, hubNum>>
  BY <1>5 DEF Begin, Open, Bind, Plug, Close, hubVars
<1>6. ASSUME NEW f \in Filps, Continue(f), ~HubInsert(f), ~HubFree(f)
      PROVE  UNCHANGED <<hubs, hubNum>>
  BY <1>6 DEF Continue, HubLookup, HubFill, HubPublish, OpenConnect, Switch, KrefPutPort,
              KrefPutHub, Return, hubVars
<1> QED BY <1>1, <1>2, <1>3, <1>4, <1>5, <1>6 DEF Next

\* Racing allocations leave one hub of each number on the list.
THEOREM OneHubPerNumberHolds == Spec => []OneHubPerNumber
<1>1. Init => OneHubPerNumber BY DEF Init, OneHubPerNumber
<1> QED BY <1>1, OneHubNext, Invariance, PTL DEF Spec

-----------------------------------------------------------------------------
(* The other properties of the structure, from the invariant.               *)

\* Which actions change the wiring, the list of ports or the hubs' counts.
Rewires(f) == OpenConnect(f) \/ Switch(f) \/ Close(f)

\* No other action connects a jack, changes the list or recounts a hub; and
\* a jack that is released is not connected.
LEMMA QuietSteps ==
  ASSUME IInv, NEW f \in Filps, Begin(f) \/ Continue(f), ~Rewires(f)
  PROVE  /\ UNCHANGED <<fileVars, state>>
         /\ \A j \in state : peer'[j] = peer[j]
         /\ \A p \in Ports \cap state : ifname'[p] = ifname[p]
         /\ oom' = oom
<1> USE NoneFacts DEF IInv, TypeOK, fileVars, memVars, netVars, Rewires
<1>1. \A p \in Ports \cap state : kind[p] # "free"
  BY DEF StateOwned, Cabled, InHand, HasPort, IsFilps
<1>2. CASE \E n \in HubNums : Open(f, n) BY <1>1, <1>2 DEF Open, Create
<1>3. CASE \E n \in HubNums : Bind(f, n) BY <1>3 DEF Bind
<1>4. CASE \E k \in PlugKinds, name \in IfNames \cup {None} : Plug(f, k, name)
  BY <1>1, <1>4 DEF Plug, Create
<1>5. CASE HubLookup(f) \/ HubInsert(f) \/ HubPublish(f) \/ HubFree(f) \/ Return(f)
  BY <1>5 DEF HubLookup, HubInsert, HubPublish, HubFree, Return
<1>6. CASE HubFill(f)
  <2>1. hubJack[f] \notin state
    BY <1>6 DEF HubFill, Phases, Published, StateOwned, Cabled, IsTaken, IsPeer, Exclusive,
                Holding
  <2> QED BY <1>6, <2>1 DEF HubFill
<1>7. CASE KrefPutPort(f)
  <2>1. putPort[f] \notin state
    BY <1>7 DEF KrefPutPort, StateOwned, Cabled, Exclusive, HasPort, IsFilps, IsPut
  <2>2. putPort[f] \in Ports BY <1>7 DEF KrefPutPort
  <2>3. UNCHANGED <<fileVars, oom>> BY <1>7 DEF KrefPutPort
  <2>4. CASE ReleasePort(putPort[f])
    <3>1. state' = state \ {putPort[f]} /\ peer' = [peer EXCEPT ![putPort[f]] = None]
      BY <2>4 DEF ReleasePort
    <3>2. state' = state BY <2>1, <3>1
    <3>3. \A j \in state : peer'[j] = peer[j] BY <2>1, <3>1
    <3>4. \A p \in Ports \cap state : ifname'[p] = ifname[p] BY <2>1, <2>2, <2>4 DEF ReleasePort
    <3> QED BY <2>3, <3>2, <3>3, <3>4
  <2>5. CASE PutKeeps(putPort[f]) BY <2>3, <2>5 DEF PutKeeps
  <2> QED BY <1>7, <2>4, <2>5 DEF KrefPutPort
<1>8. CASE KrefPutHub(f)
  <2>1. putHub[f] \notin state
    BY <1>8 DEF KrefPutHub, StateOwned, Cabled, Exclusive, HasJack, IsPeer, IsHubPut
  <2>2. putHub[f] \in HubJacks BY <1>8 DEF KrefPutHub
  <2>3. UNCHANGED <<fileVars, oom>> BY <1>8 DEF KrefPutHub
  <2>4. CASE ReleaseHubJack(putHub[f])
    <3>1. state' = state \ {putHub[f]} /\ peer' = [peer EXCEPT ![putHub[f]] = None]
      BY <2>4 DEF ReleaseHubJack
    <3>2. state' = state BY <2>1, <3>1
    <3>3. \A j \in state : peer'[j] = peer[j] BY <2>1, <3>1
    <3>4. \A p \in Ports \cap state : ifname'[p] = ifname[p] BY <2>1, <2>2, <2>4 DEF ReleaseHubJack
    <3> QED BY <2>3, <3>2, <3>3, <3>4
  <2>5. CASE PutKeeps(putHub[f]) BY <2>3, <2>5 DEF PutKeeps
  <2> QED BY <1>8, <2>4, <2>5 DEF KrefPutHub
<1> QED BY <1>2, <1>3, <1>4, <1>5, <1>6, <1>7, <1>8 DEF Begin, Continue

\* The two ends of a file's cable, and where no other cable ends.
LEMMA CableFacts ==
  ASSUME IInv, NEW f \in Filps, filp[f] # None
  PROVE  /\ filp[f] \in Ports /\ OldJack(f) \in HubJacks /\ OldJack(f) = peer[filp[f]]
         /\ peer[OldJack(f)] = filp[f]
         /\ \A k \in Unwired(f) : k \in state /\ peer[k] \in Unwired(f)
         /\ \A k \in state : peer[k] # None /\ peer[k] \in state /\ peer[peer[k]] = k
         /\ \A k \in state \cap HubJacks : k \in private /\ peer[k] \in Ports
<1> USE NoneFacts DEF IInv, TypeOK
<1>1. /\ filp[f] \in Ports /\ OldJack(f) \in HubJacks /\ OldJack(f) = peer[filp[f]]
      /\ peer[OldJack(f)] = filp[f]
  BY DEF Cabled, OldJack
<1>2. \A k \in state : peer[k] # None /\ peer[k] \in state /\ peer[peer[k]] = k
  BY DEF StateOwned, Cabled
<1>3. \A k \in state \cap HubJacks : k \in private /\ peer[k] \in Ports
  BY <1>2 DEF StateOwned, Cabled, Published, IsPeer
<1>4. \A k \in Unwired(f) : k \in state /\ peer[k] \in Unwired(f)
  BY <1>1, <1>2 DEF Unwired
<1> QED BY <1>1, <1>2, <1>3, <1>4

\* What a switch connects is not part of the remaining wiring.
LEMMA SwitchFacts ==
  ASSUME IInv, NEW f \in Filps, Switch(f)
  PROVE  /\ filp[f] # None
         /\ NewPort(f) \in Ports /\ NewJack(f) \in HubJacks
         /\ NewPort(f) \notin Unwired(f) /\ NewJack(f) \notin Unwired(f)
         /\ NewJack(f) \in private
<1> USE NoneFacts DEF IInv, TypeOK
<1>1. filp[f] # None /\ pc[f] = "switch" /\ (new[f] = None <=> hubJack[f] # None)
  BY DEF Switch, Phases
<1>2. NewPort(f) \in Ports /\ NewJack(f) \in HubJacks
  BY <1>1, CableFacts DEF NewPort, NewJack, IsBind
<1>3. CASE IsBind(f)
  <2>1. NewPort(f) = filp[f] /\ NewJack(f) = hubJack[f] /\ IsTaken(f, hubJack[f])
    BY <1>1, <1>3 DEF NewPort, NewJack, IsBind, IsTaken, Holding
  <2>2. hubJack[f] \notin state
    BY <1>2, <2>1, SMTT(40) DEF StateOwned, Cabled, Exclusive, HasJack, IsPeer
  <2> QED BY <1>1, <1>2, <2>1, <2>2 DEF Unwired, Published
<1>4. CASE ~IsBind(f)
  <2>1. NewPort(f) = new[f] /\ NewJack(f) = OldJack(f) /\ IsNew(f, new[f])
    BY <1>1, <1>4 DEF NewPort, NewJack, IsBind, IsNew, Working
  <2>2. new[f] \notin state
    BY <1>2, <2>1 DEF StateOwned, Cabled, Exclusive, HasPort, IsFilps
  <2>3. OldJack(f) \in private
    BY <1>1, CableFacts DEF Published, IsPeer
  <2> QED BY <1>1, <1>2, <2>1, <2>2, <2>3 DEF Unwired
<1> QED BY <1>3, <1>4

\* What an open connects is not connected.
LEMMA OpenFacts ==
  ASSUME IInv, NEW f \in Filps, OpenConnect(f)
  PROVE  /\ new[f] \in Ports /\ hubJack[f] \in HubJacks /\ hubJack[f] \in private
         /\ new[f] \notin state /\ hubJack[f] \notin state /\ filp[f] = None
<1> USE NoneFacts DEF IInv, TypeOK
<1>1. new[f] \in Ports /\ hubJack[f] \in HubJacks /\ pc[f] = "connect" /\ filp[f] = None
      /\ IsNew(f, new[f]) /\ IsTaken(f, hubJack[f])
  BY DEF OpenConnect, Phases, Working, Holding, IsNew, IsTaken
<1>2. hubJack[f] \in private BY <1>1 DEF Published
<1>3. new[f] \notin state
  BY <1>1 DEF StateOwned, Cabled, Exclusive, HasPort, IsFilps
<1>4. hubJack[f] \notin state
  BY <1>1 DEF StateOwned, Cabled, Exclusive, HasJack, IsPeer
<1> QED BY <1>1, <1>2, <1>3, <1>4

-----------------------------------------------------------------------------
(* The list of ports.                                                       *)

\* The list of ports changes only with the private data of a file.
LEMMA ListNext == IInv /\ ListMatchesFiles /\ [Next]_vars => ListMatchesFiles'
<1> SUFFICES ASSUME IInv, ListMatchesFiles, [Next]_vars PROVE ListMatchesFiles'
  OBVIOUS
<1> USE NoneFacts DEF ListMatchesFiles
<1>1. CASE UNCHANGED vars BY <1>1 DEF vars, fileVars
<1>2. ASSUME NEW f \in Filps, OpenConnect(f) PROVE ListMatchesFiles'
  <2>1. new[f] \in Ports /\ filp[f] = None /\ filp \in [Filps -> Ports \cup {None}]
        /\ \A g \in Filps : filp[g] # new[f]
    BY <1>2, OpenFacts DEF IInv, TypeOK, OpenConnect, Exclusive, HasPort, IsFilps, IsNew, Working
  <2>2. CASE allPorts' = allPorts \cup {new[f]} /\ filp' = [filp EXCEPT ![f] = new[f]]
    BY <2>1, <2>2
  <2>3. CASE UNCHANGED fileVars BY <2>3 DEF fileVars
  <2> QED BY <1>2, <2>2, <2>3 DEF OpenConnect
<1>3. ASSUME NEW f \in Filps, Switch(f) PROVE ListMatchesFiles'
  <2>1. filp[f] \in Ports /\ filp \in [Filps -> Ports \cup {None}]
    BY <1>3, SwitchFacts DEF IInv, TypeOK
  <2>2. CASE SwitchDone(f) /\ IsBind(f)
    BY <2>1, <2>2 DEF SwitchDone, NewPort, NewList
  <2>3. CASE SwitchDone(f) /\ ~IsBind(f)
    <3>1. new[f] \in Ports /\ \A g \in Filps : filp[g] # new[f]
      BY <1>3, <2>3 DEF IInv, TypeOK, Switch, IsBind, Exclusive, HasPort, IsFilps, IsNew,
                        Working
    <3>2. allPorts' = (allPorts \cup {new[f]}) \ {filp[f]}
          /\ filp' = [filp EXCEPT ![f] = new[f]]
      BY <2>3 DEF SwitchDone, NewPort, NewList
    <3> QED BY <2>1, <3>1, <3>2
  <2>4. CASE SwitchRefused(f) BY <2>4 DEF SwitchRefused, fileVars
  <2> QED BY <1>3, <2>2, <2>3, <2>4 DEF Switch
<1>4. ASSUME NEW f \in Filps, Close(f) PROVE ListMatchesFiles'
  BY <1>4 DEF Close, IInv, TypeOK
<1>5. ASSUME NEW f \in Filps, Begin(f) \/ Continue(f), ~Rewires(f) PROVE ListMatchesFiles'
  BY <1>5, QuietSteps DEF fileVars
<1> QED BY <1>1, <1>2, <1>3, <1>4, <1>5 DEF Next, Rewires

\* The list of ports is that of the open files, whatever is replaced when.
THEOREM ListMatchesFilesHolds == Spec => []ListMatchesFiles
<1>1. Init => ListMatchesFiles
  BY NoneFacts DEF Init, ListMatchesFiles
<1> QED BY <1>1, ListNext, Invariance, PTL DEF Spec

-----------------------------------------------------------------------------
(* No interface is attached to a hub twice.                                 *)

\* A wiring in which the enabled jacks are the two ends of whole cables.
Whole(st) ==
  /\ st \subseteq state
  /\ \A k \in st : peer[k] \in st
  /\ \A k \in st \cap HubJacks : k \in private /\ peer[k] \in Ports

\* A step connects p and j, which have nothing connected, to the wiring st and
\* finds no cycle.
Connects(st, p, j) ==
  /\ p \in Ports \ st /\ j \in HubJacks \ st /\ j \in private
  /\ ~Cycle(st, p, j)
  /\ peer' = Wired(p, j) /\ state' = st \cup {p, j}

\* What a rewiring step can do: nothing to the wiring, take the file's own
\* cable off, or connect one port and one hub jack to what is left.
LEMMA RewiringSteps ==
  ASSUME IInv, NEW f \in Filps, Rewires(f)
  PROVE  /\ UNCHANGED <<memVars, hubVars>>
         /\ \/ UNCHANGED <<peer, state, totalPorts>>
            \/ /\ filp[f] # None /\ Whole(Unwired(f))
               /\ peer' = peer /\ state' = Unwired(f) /\ totalPorts' = TotalOff(f)
            \/ \E p, j : /\ Whole(state) /\ Connects(state, p, j)
                         /\ totalPorts' = Retotal(totalPorts, peer', state', j)
            \/ \E p, j : /\ filp[f] # None /\ Whole(Unwired(f)) /\ Connects(Unwired(f), p, j)
                         /\ totalPorts' = Retotal(TotalOff(f), peer', state', j)
<1>1. Whole(state)
  BY NoneFacts DEF IInv, TypeOK, Whole, StateOwned, Cabled, Published, IsPeer
<1>2. filp[f] # None => Whole(Unwired(f))
  BY CableFacts DEF Whole
<1>3. UNCHANGED <<memVars, hubVars>>
  BY DEF Rewires, OpenConnect, Switch, Close
<1>4. CASE OpenConnect(f)
  BY <1>1, <1>3, <1>4, OpenFacts DEF OpenConnect, Connect, Connects, netVars
<1>5. CASE Close(f)
  BY <1>2, <1>3, <1>5 DEF Close
<1>6. CASE Switch(f)
  <2>1. filp[f] # None /\ Whole(Unwired(f)) BY <1>2, <1>6, SwitchFacts
  <2>2. CASE SwitchDone(f)
    <3>1. Connects(Unwired(f), NewPort(f), NewJack(f))
      BY <1>6, <2>2, SwitchFacts DEF SwitchDone, Connect, Connects
    <3>2. totalPorts' = Retotal(TotalOff(f), peer', state', NewJack(f))
      BY <2>2 DEF SwitchDone, Connect
    <3> QED BY <1>3, <2>1, <3>1, <3>2
  <2>3. CASE SwitchRefused(f)
    <3>1. filp[f] \in Ports /\ OldJack(f) \in HubJacks /\ OldJack(f) \in private
      BY <2>1, CableFacts DEF IInv, Published, IsPeer
    <3>2. filp[f] \notin Unwired(f) /\ OldJack(f) \notin Unwired(f)
      BY DEF Unwired
    <3>3. CASE /\ ~Cycle(Unwired(f), filp[f], OldJack(f))
               /\ Connect(Unwired(f), CountOff(f), TotalOff(f), filp[f], OldJack(f))
      <4>1. Connects(Unwired(f), filp[f], OldJack(f))
        BY <3>1, <3>2, <3>3 DEF Connect, Connects
      <4> QED BY <1>3, <2>1, <3>3, <4>1 DEF Connect
    <3>4. CASE state' = Unwired(f) /\ totalPorts' = TotalOff(f) /\ peer' = peer
      BY <1>3, <2>1, <3>4
    <3> QED BY <2>3, <3>3, <3>4 DEF SwitchRefused
  <2> QED BY <1>6, <2>2, <2>3 DEF Switch
<1> QED BY <1>4, <1>5, <1>6 DEF Rewires

\* A connection that the cycle detection lets through brings no name to a hub
\* twice: the detection meets the port of every enabled jack beside j.
LEMMA ConnectApart ==
  ASSUME IInv, NoDuplicateInterface, NEW st, Whole(st), NEW p, NEW j, Connects(st, p, j),
         ifname' = ifname
  PROVE  NoDuplicateInterface'
<1> USE NoneFacts
<1>1. peer \in [Jacks -> Jacks \cup {None}] /\ state \subseteq Jacks
  BY DEF IInv, TypeOK
<1>2. /\ p \in Ports /\ j \in HubJacks /\ p \notin st /\ j \notin st
      /\ peer'[j] = p /\ state' = st \cup {p, j}
      /\ \A k \in st : k \in Jacks /\ peer'[k] = peer[k]
  BY <1>1 DEF Connects, Wired, Whole
\* every other enabled jack of j's hub is one the cycle detection meets
<1>3. ASSUME NEW k \in st \cap HubJacks, HubOf(k) = HubOf(j)
      PROVE  peer[k] \in Met(st, p, j) /\ peer[k] # p
  <2>1. k \in Siblings(j) \cap private \cap st
    BY <1>2, <1>3, HubJackFacts DEF Siblings, Whole
  <2>2. peer[k] # None /\ peer[k] # p BY <1>2, <1>3 DEF Whole
  <2> QED BY <2>1, <2>2 DEF Met
<1>4. ASSUME NEW k \in st \cap HubJacks, HubOf(k) = HubOf(j), ifname[peer[k]] = ifname[p]
      PROVE  ifname[p] = None
  <2>1. p \in Met(st, p, j) BY DEF Met
  <2> QED BY <1>3, <1>4, <2>1 DEF Connects, Cycle
<1> SUFFICES ASSUME NEW i \in state' \cap HubJacks, NEW k \in state' \cap HubJacks, i # k,
                    HubOf(i) = HubOf(k), ifname[peer'[i]] = ifname[peer'[k]]
             PROVE  ifname[peer'[i]] = None
  BY DEF NoDuplicateInterface
<1>5. CASE i = j
  <2>1. k \in st BY <1>2, <1>5
  <2> QED BY <1>2, <1>4, <1>5, <2>1
<1>6. CASE k = j
  <2>1. i \in st BY <1>2, <1>6
  <2> QED BY <1>2, <1>4, <1>6, <2>1
<1>7. CASE i # j /\ k # j
  <2>1. i \in st /\ k \in st BY <1>2, <1>7
  <2> QED BY <1>2, <2>1 DEF Whole, NoDuplicateInterface
<1> QED BY <1>5, <1>6, <1>7

\* No step brings a name to a hub twice.
LEMMA NoDuplicateNext == IInv /\ NoDuplicateInterface /\ [Next]_vars => NoDuplicateInterface'
<1> SUFFICES ASSUME IInv, NoDuplicateInterface, [Next]_vars PROVE NoDuplicateInterface'
  OBVIOUS
<1>1. \A k \in state \cap HubJacks : peer[k] \in Ports /\ peer[k] \in state
  BY NoneFacts DEF IInv, TypeOK, StateOwned, Cabled
<1>2. CASE UNCHANGED <<ifname, peer, state>>
  BY <1>2 DEF NoDuplicateInterface
<1>3. ASSUME NEW f \in Filps, Rewires(f) PROVE NoDuplicateInterface'
  <2>1. ifname' = ifname BY <1>3, RewiringSteps DEF memVars
  <2>2. CASE UNCHANGED <<peer, state, totalPorts>> BY <1>2, <2>1, <2>2
  <2>3. CASE peer' = peer /\ state' = Unwired(f)
    BY <2>1, <2>3 DEF NoDuplicateInterface, Unwired
  <2>4. ASSUME NEW st, Whole(st), NEW p, NEW j, Connects(st, p, j) PROVE NoDuplicateInterface'
    BY <2>1, <2>4, ConnectApart
  <2> QED BY <1>3, <2>2, <2>3, <2>4, RewiringSteps
<1>4. ASSUME NEW f \in Filps, Begin(f) \/ Continue(f), ~Rewires(f)
      PROVE  NoDuplicateInterface'
  <2>1. /\ state' = state
        /\ \A k \in state \cap HubJacks : peer'[k] = peer[k] /\ ifname'[peer[k]] = ifname[peer[k]]
    BY <1>1, <1>4, QuietSteps
  <2> QED BY <2>1 DEF NoDuplicateInterface
<1> QED BY <1>2, <1>3, <1>4 DEF Next, vars, memVars, netVars

\* No interface is ever attached to a hub twice, by any sequence of opens,
\* binds and replacements: what VNetCycleDetect is for.
THEOREM NoDuplicateInterfaceHolds == Spec => []NoDuplicateInterface
<1>1. Init => NoDuplicateInterface BY DEF Init, NoDuplicateInterface
<1> QED BY <1>1, NoDuplicateNext, Invariance, PTL DEF Spec

-----------------------------------------------------------------------------
(* The hubs' counts.                                                        *)

\* In a whole wiring, what VNetHubPortsChanged counts at a hub is every enabled
\* jack of it.
LEMMA TotalOfWhole ==
  ASSUME NEW h \in HubMem, NEW pr, NEW st,
         \A k \in st \cap HubJacks : k \in private /\ pr[k] # None /\ pr[k] \in st
  PROVE  Total(pr, st, h) = Cardinality(st \cap JacksOf(h))
<1>1. {j \in JacksOf(h) : j \in private /\ Attached(pr, st, j)} = st \cap JacksOf(h)
  BY HubJackFacts DEF Attached
<1> QED BY <1>1 DEF Total

\* The totals count the enabled jacks of each hub of the list.
Counted(total, st) == \A h \in hubs : total[h] = Cardinality(st \cap JacksOf(h))

\* Reporting a change at the one jack whose state changed keeps them right:
\* the other hubs have no part in the change.
LEMMA RetotalCounted ==
  ASSUME IInv, NEW total \in [HubMem -> Nat], NEW old, Counted(total, old),
         NEW pr, NEW st, NEW this \in HubJacks,
         \A k \in st \cap HubJacks : k \in private /\ pr[k] # None /\ pr[k] \in st,
         \A k \in HubJacks \ {this} : k \in st <=> k \in old
  PROVE  /\ Counted(Retotal(total, pr, st, this), st)
         /\ Retotal(total, pr, st, this) \in [HubMem -> Nat]
<1>1. Retotal(total, pr, st, this) \in [HubMem -> Nat] BY RetotalType
<1>2. ASSUME NEW h \in hubs
      PROVE  Retotal(total, pr, st, this)[h] = Cardinality(st \cap JacksOf(h))
  <2>1. h \in HubMem /\ HubOf(this) \in HubMem BY HubJackFacts DEF IInv, TypeOK
  <2>2. CASE h = HubOf(this)
    BY <2>1, <2>2, TotalOfWhole DEF Retotal
  <2>3. CASE h # HubOf(this)
    <3>1. st \cap JacksOf(h) = old \cap JacksOf(h) BY <2>1, <2>3, HubJackFacts
    <3> QED BY <2>1, <2>3, <3>1 DEF Retotal, Counted
  <2> QED BY <2>2, <2>3
<1> QED BY <1>1, <1>2 DEF Counted

\* No enabled jack is on a hub that is not on the list.
LEMMA UnlistedHubEmpty ==
  ASSUME IInv, NEW h \in HubMem \ hubs PROVE state \cap JacksOf(h) = {}
<1>1. \A k \in state \cap HubJacks : HubOf(k) \in hubs
  BY NoneFacts DEF IInv, TypeOK, StateOwned, Cabled, Published, IsPeer, UsedListed
<1> QED BY <1>1, HubJackFacts

\* Every step that connects or disconnects reports it to the hub it is about;
\* a new hub has nothing connected.
LEMMA TotalPortsNext == IInv /\ TotalPortsExact /\ [Next]_vars => TotalPortsExact'
<1> SUFFICES ASSUME IInv, TotalPortsExact, [Next]_vars PROVE TotalPortsExact'
  OBVIOUS
<1>0. /\ totalPorts \in [HubMem -> Nat] /\ hubs \subseteq HubMem /\ Counted(totalPorts, state)
      /\ peer \in [Jacks -> Jacks \cup {None}]
  BY DEF IInv, TypeOK, TotalPortsExact, Counted
<1>1. CASE UNCHANGED <<hubs, totalPorts, state>> BY <1>1 DEF TotalPortsExact
<1>2. ASSUME NEW f \in Filps, Rewires(f) PROVE TotalPortsExact'
  <2>1. hubs' = hubs BY <1>2, RewiringSteps DEF hubVars
  <2>2. CASE UNCHANGED <<peer, state, totalPorts>> BY <1>1, <2>1, <2>2
  <2>3. ASSUME filp[f] # None, Whole(Unwired(f))
        PROVE  Counted(TotalOff(f), Unwired(f)) /\ TotalOff(f) \in [HubMem -> Nat]
    <3>1. \A k \in Unwired(f) \cap HubJacks :
            k \in private /\ peer[k] # None /\ peer[k] \in Unwired(f)
      BY <2>3, NoneFacts DEF Whole
    <3>2. OldJack(f) \in HubJacks /\ filp[f] \notin HubJacks
      BY <2>3, CableFacts, NoneFacts
    <3>3. \A k \in HubJacks \ {OldJack(f)} : k \in Unwired(f) <=> k \in state
      BY <3>2 DEF Unwired
    <3> QED BY <1>0, <3>1, <3>2, <3>3, RetotalCounted DEF TotalOff
  <2>4. CASE /\ filp[f] # None /\ Whole(Unwired(f))
             /\ peer' = peer /\ state' = Unwired(f) /\ totalPorts' = TotalOff(f)
    BY <2>1, <2>3, <2>4 DEF Counted, TotalPortsExact
  <2>5. ASSUME NEW st, NEW total \in [HubMem -> Nat], Counted(total, st), Whole(st),
               NEW p, NEW j, Connects(st, p, j),
               totalPorts' = Retotal(total, peer', state', j)
        PROVE  TotalPortsExact'
    <3>1. /\ p \in Ports /\ j \in HubJacks /\ j \in private /\ p # j /\ p \notin HubJacks
          /\ p \notin st /\ j \notin st
          /\ peer'[j] = p /\ state' = st \cup {p, j} /\ p # None
          /\ \A k \in Jacks \ {p, j} : peer'[k] = peer[k]
      BY <1>0, <2>5, NoneFacts DEF Connects, Wired
    <3>2. \A k \in state' \cap HubJacks :
            k \in private /\ peer'[k] # None /\ peer'[k] \in state'
      BY <2>5, <3>1, NoneFacts DEF Whole
    <3>3. \A k \in HubJacks \ {j} : k \in state' <=> k \in st BY <3>1
    <3>4. Counted(totalPorts', state')
      BY <2>5, <3>1, <3>2, <3>3, RetotalCounted
    <3> QED BY <2>1, <3>4 DEF Counted, TotalPortsExact
  <2> QED BY <1>0, <1>2, <2>2, <2>3, <2>4, <2>5, RewiringSteps
<1>3. ASSUME NEW f \in Filps, HubInsert(f) PROVE TotalPortsExact'
  <2>1. state' = state BY <1>3 DEF HubInsert
  <2>2. \A h \in hubs' \ hubs : h \in HubMem /\ totalPorts'[h] = 0
    BY <1>0, <1>3 DEF HubInsert
  <2>3. \A h \in hubs' \cap hubs : totalPorts'[h] = totalPorts[h]
    BY <1>0, <1>3 DEF HubInsert
  <2>4. \A h \in hubs' \ hubs : Cardinality(state' \cap JacksOf(h)) = 0
    BY <2>1, <2>2, UnlistedHubEmpty, FS_EmptySet
  <2> QED BY <2>1, <2>2, <2>3, <2>4 DEF TotalPortsExact
<1>4. ASSUME NEW f \in Filps, HubFree(f) PROVE TotalPortsExact'
  BY <1>0, <1>4 DEF HubFree, FreeHubJack, TotalPortsExact
<1>5. ASSUME NEW f \in Filps, Begin(f) \/ Continue(f), ~Rewires(f), ~HubInsert(f), ~HubFree(f)
      PROVE  TotalPortsExact'
  <2>1. UNCHANGED <<hubs, totalPorts>>
    BY <1>5 DEF Begin, Continue, Rewires, Open, Bind, Plug, Close, HubLookup, HubFill, HubPublish,
                KrefPutPort, KrefPutHub, Return, hubVars, netVars
  <2> QED BY <1>1, <1>5, <2>1, QuietSteps
<1> QED BY <1>1, <1>2, <1>3, <1>4, <1>5 DEF Next, vars, hubVars, netVars

\* hub->totalPorts counts the hub's connected ports in every state.
THEOREM TotalPortsExactHolds == Spec => []TotalPortsExact
<1>1. Init => TotalPortsExact BY DEF Init, TotalPortsExact
<1> QED BY <1>1, TotalPortsNext, Invariance, PTL DEF Spec

-----------------------------------------------------------------------------
(* What is listed is connected.                                             *)

\* Without a failed allocation, the cable that a refused switch has taken off
\* goes back on: its names were apart before.
LEMMA RestoredUnlessShort ==
  ASSUME IInv, NoDuplicateInterface, NEW f \in Filps, filp[f] \in state
  PROVE  ~Cycle(Unwired(f), filp[f], OldJack(f))
<1> DEFINE p == filp[f]
           j == OldJack(f)
<1> USE NoneFacts
<1>0. filp[f] # None BY DEF IInv, TypeOK
<1>1. /\ p \in Ports /\ j \in HubJacks /\ p \in state /\ j \in state /\ peer[j] = p
      /\ \A k \in Unwired(f) : k \in state
      /\ \A k \in state \cap HubJacks : peer[k] \in Ports
  BY <1>0, CableFacts DEF IInv, TypeOK
\* each port the detection meets is the peer of an enabled jack of j's hub
<1>2. ASSUME NEW a \in Met(Unwired(f), p, j)
      PROVE  \E k \in state \cap HubJacks : HubOf(k) = HubOf(j) /\ peer[k] = a
  <2>1. CASE a = p BY <1>1, <2>1
  <2>2. ASSUME NEW k \in Siblings(j) \cap private \cap Unwired(f), peer[k] = a
        PROVE  k \in state \cap HubJacks /\ HubOf(k) = HubOf(j)
    BY <1>1, <2>2, HubJackFacts DEF Siblings
  <2> QED BY <1>2, <2>1, <2>2 DEF Met
<1>3. ASSUME NEW a \in Met(Unwired(f), p, j), NEW b \in Met(Unwired(f), p, j), a # b,
             ifname[a] = ifname[b]
      PROVE  ifname[a] = None
  BY <1>2, <1>3 DEF NoDuplicateInterface
<1> QED BY <1>3 DEF Cycle

\* As long as no allocation fails, every step leaves what is listed connected.
LEMMA ListedConnectedNext ==
  /\ IInv /\ NoDuplicateInterface /\ ListMatchesFiles /\ ListedConnected
  /\ [Next]_vars
  => ListedConnected'
<1> SUFFICES ASSUME IInv, NoDuplicateInterface, ListMatchesFiles, ListedConnected, [Next]_vars
             PROVE  ListedConnected'
  OBVIOUS
<1> USE NoneFacts
<1>0. /\ filp \in [Filps -> Ports \cup {None}] /\ oom \in BOOLEAN
      /\ allPorts = {filp[f] : f \in Filps} \ {None} /\ allPorts \subseteq Ports
  BY DEF IInv, TypeOK, ListMatchesFiles
<1>1. CASE UNCHANGED <<oom, allPorts, state>> BY <1>1 DEF ListedConnected
<1>2. ASSUME NEW f \in Filps, OpenConnect(f) PROVE ListedConnected'
  <2>1. CASE Connect(state, numPorts, totalPorts, new[f], hubJack[f]) /\ oom' = oom
             /\ allPorts' = allPorts \cup {new[f]}
    BY <2>1 DEF Connect, ListedConnected
  <2>2. CASE UNCHANGED <<netVars, fileVars>> /\ (oom' = FALSE => oom = FALSE)
    BY <1>0, <2>2 DEF ListedConnected, netVars, fileVars
  <2> QED BY <1>0, <1>2, <2>1, <2>2 DEF OpenConnect
\* the list without the file's own port stays connected
<1>3. ASSUME NEW f \in Filps, filp[f] # None, ~oom
      PROVE  allPorts \ {filp[f]} \subseteq Unwired(f) /\ filp[f] \in state
  <2>1. OldJack(f) \in HubJacks /\ filp[f] \in allPorts BY <1>0, <1>3, CableFacts
  <2> QED BY <1>0, <1>3, <2>1 DEF ListedConnected, Unwired
<1>4. ASSUME NEW f \in Filps, Close(f) PROVE ListedConnected'
  BY <1>3, <1>4 DEF Close, ListedConnected
<1>5. ASSUME NEW f \in Filps, Switch(f), SwitchDone(f) PROVE ListedConnected'
  <2>1. /\ filp[f] # None /\ state' = Unwired(f) \cup {NewPort(f), NewJack(f)} /\ oom' = oom
        /\ allPorts' \subseteq (allPorts \ {filp[f]}) \cup {NewPort(f)}
    <3>1. filp[f] # None BY <1>5, SwitchFacts
    <3> QED BY <1>5, <3>1 DEF SwitchDone, Connect, NewList, NewPort
  <2> QED BY <1>3, <2>1 DEF ListedConnected
<1>6. ASSUME NEW f \in Filps, Switch(f), SwitchRefused(f) PROVE ListedConnected'
  <2>1. filp[f] # None /\ UNCHANGED <<allPorts, filp>>
    BY <1>6, SwitchFacts DEF SwitchRefused, fileVars
  <2>2. SUFFICES ASSUME ~oom' PROVE allPorts \subseteq state'
    BY <2>1 DEF ListedConnected
  <2>3. ~oom /\ ~Cycle(Unwired(f), filp[f], OldJack(f))
    <3>1. ~oom BY <1>6, <2>2 DEF SwitchRefused
    <3> QED BY <1>3, <2>1, <3>1, RestoredUnlessShort
  <2>4. Connect(Unwired(f), CountOff(f), TotalOff(f), filp[f], OldJack(f))
    BY <1>6, <2>2, <2>3 DEF SwitchRefused
  <2> QED BY <1>3, <2>1, <2>3, <2>4 DEF Connect
<1>7. ASSUME NEW f \in Filps, Begin(f) \/ Continue(f), ~Rewires(f) PROVE ListedConnected'
  BY <1>1, <1>7, QuietSteps DEF fileVars
<1> QED BY <1>1, <1>2, <1>4, <1>5, <1>6, <1>7 DEF Next, Rewires, Switch, vars, netVars, fileVars

\* The hubs count what is connected, and as long as no allocation fails what is
\* listed is connected, however refused switches and other operations overlap.
THEOREM ConnectedCountedHolds == Spec => []ConnectedCounted
<1>1. Init => ListedConnected BY DEF Init, ListedConnected
<1>2. Spec => []ListedConnected
  BY <1>1, ListedConnectedNext, Invariance, NoDuplicateInterfaceHolds, ListMatchesFilesHolds,
     PTL DEF Spec
<1>3. TotalPortsExact /\ ListedConnected => ConnectedCounted BY DEF ConnectedCounted
<1> QED BY <1>2, <1>3, TotalPortsExactHolds, PTL

-----------------------------------------------------------------------------
(* The patch panel.                                                         *)

\* The hubs of the list have the numbers that were asked for.
NumsListed ==
  /\ \A h \in hubs : hubNum[h] \in HubNums
  /\ \A f \in Filps : pc[f] \in {"lookup", "insert"} => num[f] \in HubNums

\* The user interface an open has created has no interface behind it.
OpeningUnnamed ==
  \A f \in Filps :
    (pc[f] \in Working \ {"switch"} /\ new[f] # None) => ifname[new[f]] = None

\* A hub is numbered when it is added to the list, with the number asked for.
LEMMA NumsListedNext == IInv /\ NumsListed /\ [Next]_vars => NumsListed'
<1> SUFFICES ASSUME IInv, NumsListed, [Next]_vars PROVE NumsListed'
  OBVIOUS
<1> USE DEF NumsListed
<1>0. /\ hubNum \in [HubMem -> HubNums \cup {None}] /\ hubs \subseteq HubMem
      /\ num \in [Filps -> HubNums \cup {None}] /\ pc \in [Filps -> Steps]
  BY DEF IInv, TypeOK
<1>1. CASE UNCHANGED vars BY <1>1 DEF vars, hubVars, localVars
<1>2. ASSUME NEW f \in Filps, NEW n \in HubNums, Open(f, n) \/ Bind(f, n) PROVE NumsListed'
  BY <1>0, <1>2 DEF Open, Bind, hubVars
<1>3. ASSUME NEW f \in Filps, HubInsert(f) PROVE NumsListed'
  <2>1. num[f] \in HubNums /\ num' = num BY <1>3 DEF HubInsert
  <2>2. \A g \in Filps : pc'[g] \in {"lookup", "insert"} => pc[g] \in {"lookup", "insert"}
    BY <1>0, <1>3 DEF HubInsert, TakeJack, NoJack
  <2>3. \A h \in hubs' : hubNum'[h] \in HubNums
    BY <1>0, <1>3, <2>1 DEF HubInsert
  <2> QED BY <2>1, <2>2, <2>3
<1>4. ASSUME NEW f \in Filps, HubFree(f) PROVE NumsListed'
  BY <1>0, <1>4 DEF HubFree, FreeHubJack
<1>5. ASSUME NEW f \in Filps, HubLookup(f) PROVE NumsListed'
  BY <1>0, <1>5 DEF HubLookup, TakeJack, NoJack
<1>6. ASSUME NEW f \in Filps, Return(f) PROVE NumsListed'
  BY <1>0, <1>6 DEF Return, hubVars
<1>7. ASSUME NEW f \in Filps, Begin(f) \/ Continue(f),
             ~HubInsert(f), ~HubFree(f), ~HubLookup(f), ~Return(f),
             \A n \in HubNums : ~Open(f, n) /\ ~Bind(f, n)
      PROVE  NumsListed'
  <2>1. /\ UNCHANGED <<hubs, hubNum, num>>
        /\ \E s \in Steps \ {"lookup", "insert"} : pc' = [pc EXCEPT ![f] = s] \/ pc' = pc
    BY <1>7 DEF Steps, Begin, Continue, Plug, Close, HubFill, HubPublish, OpenConnect, Switch,
                KrefPutPort, KrefPutHub, hubVars
  <2> QED BY <1>0, <2>1
<1> QED BY <1>1, <1>2, <1>3, <1>4, <1>5, <1>6, <1>7 DEF Next, Begin

\* A port keeps its name from its creation to its release, and only the
\* operation that has it in hand releases it.
LEMMA OpeningUnnamedNext == IInv /\ OpeningUnnamed /\ [Next]_vars => OpeningUnnamed'
<1> SUFFICES ASSUME IInv, OpeningUnnamed, [Next]_vars PROVE OpeningUnnamed'
  OBVIOUS
<1> USE NoneFacts DEF OpeningUnnamed, Working
<1>0. /\ ifname \in [Ports -> IfNames \cup {None}] /\ new \in [Filps -> Ports \cup {None}]
      /\ pc \in [Filps -> Steps] /\ kind \in [Ports -> Kinds]
      /\ putPort \in [Filps -> Ports \cup {None}]
  BY DEF IInv, TypeOK
<1>1. CASE UNCHANGED vars BY <1>1 DEF vars, memVars, localVars
\* the ports of operations are allocated, and no operation puts another's
<1>2. \A g \in Filps : IsNew(g, new[g]) /\ new[g] # None =>
        kind[new[g]] # "free" /\ \A f \in Filps : f # g => putPort[f] # new[g]
  BY <1>0 DEF IInv, InHand, Exclusive, HasPort, IsPut
<1>3. ASSUME NEW f \in Filps, NEW n \in HubNums, Open(f, n) PROVE OpeningUnnamed'
  BY <1>0, <1>2, <1>3 DEF Open, Create, IsNew
<1>4. ASSUME NEW f \in Filps, NEW k, NEW name \in IfNames \cup {None}, Plug(f, k, name)
      PROVE  OpeningUnnamed'
  BY <1>0, <1>2, <1>4 DEF Plug, Create, IsNew
<1>5. ASSUME NEW f \in Filps, KrefPutPort(f) PROVE OpeningUnnamed'
  BY <1>0, <1>2, <1>5 DEF KrefPutPort, ReleasePort, PutKeeps, memVars, IsNew
<1>6. ASSUME NEW f \in Filps, NEW n \in HubNums, Bind(f, n) PROVE OpeningUnnamed'
  BY <1>0, <1>6 DEF Bind, memVars, IInv, Phases
<1>7. ASSUME NEW f \in Filps, Return(f) PROVE OpeningUnnamed'
  BY <1>0, <1>7 DEF Return, memVars
<1>8. ASSUME NEW f \in Filps, HubLookup(f) \/ HubInsert(f) \/ HubFill(f) \/ HubPublish(f)
      PROVE  OpeningUnnamed'
  <2>1. pc[f] \in Working \ {"switch"} /\ UNCHANGED <<ifname, new>>
        /\ \A g \in Filps \ {f} : pc'[g] = pc[g]
    BY <1>0, <1>8 DEF HubLookup, HubInsert, HubFill, HubPublish, TakeJack, NoJack, memVars
  <2> QED BY <2>1
<1>9. ASSUME NEW f \in Filps, OpenConnect(f) \/ Switch(f) \/ Close(f) \/ HubFree(f) \/ KrefPutHub(f)
      PROVE  OpeningUnnamed'
  <2>1. /\ UNCHANGED <<ifname, new>>
        /\ pc' = [pc EXCEPT ![f] = "put"] \/ pc' = [pc EXCEPT ![f] = "hubfree"] \/ pc' = pc
    BY <1>9 DEF OpenConnect, Switch, Close, HubFree, KrefPutHub, ReleaseHubJack, PutKeeps, memVars
  <2> QED BY <1>0, <2>1
<1> QED BY <1>1, <1>3, <1>4, <1>5, <1>6, <1>7, <1>8, <1>9 DEF Next, Begin, Continue

\* The step of an operation that rewires nothing changes no file's cable, not
\* even one that is down: what it creates, releases and numbers is nobody's.
LEMMA QuietCables ==
  ASSUME IInv, NEW f \in Filps, Begin(f) \/ Continue(f), ~Rewires(f), NEW g \in Filps
  PROVE  CableOf(g)' = CableOf(g)
<1> USE NoneFacts
<1>0. /\ filp \in [Filps -> Ports \cup {None}] /\ peer \in [Jacks -> Jacks \cup {None}]
      /\ kind \in [Ports -> Kinds] /\ ifname \in [Ports -> IfNames \cup {None}]
      /\ hubs \subseteq HubMem /\ hubNum \in [HubMem -> HubNums \cup {None}]
  BY DEF IInv, TypeOK
<1>1. state' = state /\ filp' = filp BY QuietSteps DEF fileVars
<1>2. CASE filp[g] = None BY <1>1, <1>2 DEF CableOf
<1>3. CASE filp[g] # None
  <2> DEFINE p == filp[g]
             j == peer[p]
  <2>1. /\ p \in Ports /\ j \in HubJacks /\ kind[p] # "free" /\ HasPort(g, p) /\ HasJack(g, j)
        /\ j \in used /\ HubOf(j) \in hubs /\ HubOf(j) \in HubMem
    BY <1>0, <1>3, HubJackFacts
       DEF IInv, Cabled, InHand, UsedListed, HasPort, HasJack, IsFilps, IsPeer
  <2>2. putPort[f] # p /\ putHub[f] # j
    BY <1>3, <2>1 DEF IInv, Exclusive, HasPort, HasJack, IsFilps, IsPeer, IsPut, IsHubPut
  <2> HIDE DEF p, j
  <2>3. peer'[p] = j
    <3>1. peer[p] = j BY DEF p, j
    <3>2. CASE HubFill(f)
      <4>1. hubJack[f] \in HubJacks
        BY <3>2 DEF HubFill, IInv, TypeOK, Phases, Holding
      <4> QED BY <1>0, <2>1, <3>1, <3>2, <4>1 DEF HubFill
    <3>3. CASE KrefPutPort(f)
      BY <1>0, <2>1, <2>2, <3>1, <3>3 DEF KrefPutPort, ReleasePort, PutKeeps
    <3>4. CASE KrefPutHub(f)
      <4>1. putHub[f] \in HubJacks BY <3>4 DEF KrefPutHub, IInv, TypeOK
      <4> QED BY <1>0, <2>1, <3>1, <3>4, <4>1 DEF KrefPutHub, ReleaseHubJack, PutKeeps
    <3>5. CASE ~HubFill(f) /\ ~KrefPutPort(f) /\ ~KrefPutHub(f)
      <4>1. peer' = peer
        BY <3>5 DEF Rewires, Begin, Continue, Open, Bind, Plug, HubLookup, HubInsert, HubPublish,
                    HubFree, Return, netVars
      <4> QED BY <3>1, <4>1
    <3> QED BY <3>2, <3>3, <3>4, <3>5
  <2>4. ifname'[p] = ifname[p]
    <3>1. CASE KrefPutPort(f)
      BY <1>0, <2>1, <2>2, <3>1 DEF KrefPutPort, ReleasePort, PutKeeps, memVars
    <3>2. CASE ~KrefPutPort(f)
      BY <1>0, <2>1, <3>2
         DEF Rewires, Begin, Continue, Open, Bind, Plug, Create, HubLookup, HubInsert, HubFill,
             HubPublish, KrefPutHub, ReleaseHubJack, PutKeeps, HubFree, Return, memVars
    <3> QED BY <3>1, <3>2
  <2>5. hubNum'[HubOf(j)] = hubNum[HubOf(j)]
    <3>1. CASE HubInsert(f) BY <1>0, <2>1, <3>1 DEF HubInsert
    <3>2. CASE HubFree(f)
      <4>1. ~(JacksOf(HubOf(putHub[f])) \cap used \subseteq {putHub[f]}) \/ HubOf(j) # HubOf(putHub[f])
        BY <2>1, <2>2, HubJackFacts
      <4> QED BY <1>0, <2>1, <3>2, <4>1 DEF HubFree, FreeHubJack
    <3>3. CASE ~HubInsert(f) /\ ~HubFree(f)
      BY <3>3 DEF Rewires, Begin, Continue, Open, Bind, Plug, HubLookup, HubFill, HubPublish,
                  KrefPutPort, KrefPutHub, Return, hubVars
    <3> QED BY <3>1, <3>2, <3>3
  <2> QED BY <1>1, <2>3, <2>4, <2>5 DEF CableOf, p, j
<1> QED BY <1>2, <1>3

\* A step of one file's operation leaves the cables of the others alone.
LEMMA OtherCables ==
  ASSUME IInv, NEW f \in Filps, Rewires(f), NEW g \in Filps \ {f}
  PROVE  CableOf(g)' = CableOf(g)
<1> USE NoneFacts
<1>0. /\ filp \in [Filps -> Ports \cup {None}] /\ peer \in [Jacks -> Jacks \cup {None}]
      /\ UNCHANGED <<ifname, hubNum>>
  BY RewiringSteps DEF IInv, TypeOK, memVars, hubVars
<1>1. filp'[g] = filp[g]
  BY <1>0 DEF Rewires, OpenConnect, Switch, SwitchDone, SwitchRefused, Close, fileVars
<1>2. CASE filp[g] = None BY <1>1, <1>2 DEF CableOf
<1>3. CASE filp[g] # None
  <2> DEFINE p == filp[g]
             j == peer[p]
  <2>1. p \in Ports /\ j \in HubJacks /\ HasPort(g, p) /\ HasJack(g, j)
    BY <1>0, <1>3 DEF IInv, Cabled, HasPort, HasJack, IsFilps, IsPeer
  <2>2. ~HasPort(f, p) /\ ~HasJack(f, j) BY <2>1 DEF IInv, Exclusive
  <2> HIDE DEF p, j
  <2>3. filp[f] # None => filp[f] # p /\ OldJack(f) \in HubJacks
    BY <2>2, CableFacts DEF HasPort, IsFilps
  <2>4. peer'[p] = j /\ (p \in state' <=> p \in state)
    <3>0. peer[p] = j BY DEF p, j
    <3>1. CASE OpenConnect(f)
      <4>1. new[f] # p /\ new[f] \in Ports /\ hubJack[f] \in HubJacks
        BY <2>2, <3>1, OpenFacts DEF OpenConnect, HasPort, IsNew, Working
      <4> QED BY <1>0, <2>1, <3>0, <3>1, <4>1 DEF OpenConnect, Connect, Wired, netVars
    <3>2. CASE Close(f)
      BY <2>1, <2>3, <3>0, <3>2 DEF Close, Unwired
    <3>3. CASE Switch(f)
      <4>1. filp[f] # None /\ filp[f] \in Ports /\ NewPort(f) \in Ports /\ NewJack(f) \in HubJacks
        BY <3>3, SwitchFacts, CableFacts
      <4>2. NewPort(f) # p
        BY <2>2, <2>3, <3>3, <4>1 DEF Switch, NewPort, IsBind, HasPort, IsNew, Working
      <4>3. p \in Unwired(f) <=> p \in state BY <2>1, <2>3, <4>1 DEF Unwired
      <4> QED BY <1>0, <2>1, <2>3, <3>0, <3>3, <4>1, <4>2, <4>3
              DEF Switch, SwitchDone, SwitchRefused, Connect, Wired
    <3> QED BY <3>1, <3>2, <3>3 DEF Rewires
  <2> QED BY <1>0, <1>1, <2>4 DEF CableOf, p, j
<1> QED BY <1>2, <1>3

\* When the cycle detection lets p be connected to j, no other file has p's
\* interface on j's hub: it meets the port of every connected file there, for
\* one hub number is one hub.
LEMMA FreeWithoutCycle ==
  ASSUME IInv, OneHubPerNumber, NEW f \in Filps, filp[f] # None,
         NEW p \in Ports, NEW j \in HubJacks, j \in used,
         \A g \in Filps \ {f} : filp[g] # p /\ ~IsPeer(g, j),
         ~Cycle(Unwired(f), p, j)
  PROVE  Panel!Free(f, hubNum[HubOf(j)], ifname[p])
<1> USE NoneFacts
<1> SUFFICES ASSUME NEW g \in Filps \ {f}, ifname[p] # None, filp[g] # None, filp[g] \in state,
                    hubNum[HubOf(peer[filp[g]])] = hubNum[HubOf(j)], ifname[filp[g]] = ifname[p]
             PROVE  FALSE
  BY DEF Panel!Free, CableOf
<1> DEFINE k == peer[filp[g]]
<1>1. /\ filp[g] \in Ports /\ k \in HubJacks /\ peer[k] = filp[g] /\ k \in state
      /\ k \in private /\ HubOf(k) \in hubs /\ HubOf(j) \in hubs /\ k # j
  BY DEF IInv, TypeOK, Cabled, Published, UsedListed, IsPeer
<1>2. HubOf(k) = HubOf(j) BY <1>1 DEF OneHubPerNumber
<1>3. k \in Unwired(f)
  <2>1. filp[f] \in Ports /\ OldJack(f) \in HubJacks /\ IsPeer(f, OldJack(f)) /\ IsPeer(g, k)
    BY CableFacts DEF IsPeer
  <2>2. k # OldJack(f) BY <1>1, <2>1 DEF IInv, Exclusive, HasJack
  <2> QED BY <1>1, <2>1, <2>2 DEF Unwired
<1>4. k \in Siblings(j) \cap private \cap Unwired(f)
  BY <1>1, <1>2, <1>3, HubJackFacts DEF Siblings
<1>5. filp[g] \in Met(Unwired(f), p, j) /\ p \in Met(Unwired(f), p, j)
  BY <1>1, <1>4 DEF Met
<1> QED BY <1>5 DEF Cycle

\* A file's cable is on a hub with a number.
LEMMA CableFields ==
  ASSUME IInv, NumsListed, NEW f \in Filps, filp[f] # None
  PROVE  /\ CableOf(f).hub = hubNum[HubOf(peer[filp[f]])]
         /\ CableOf(f).name = ifname[filp[f]]
         /\ CableOf(f) # None
<1> DEFINE up == filp[f] \in state
           h  == hubNum[HubOf(peer[filp[f]])]
           n  == ifname[filp[f]]
<1>1. CableOf(f) = [hub |-> h, name |-> n, up |-> up] BY DEF CableOf
<1>2. up \in BOOLEAN OBVIOUS
<1>3. n \in IfNames \cup {None} BY DEF IInv, TypeOK
<1>4. h \in HubNums
  BY DEF IInv, TypeOK, Cabled, InHand, HasJack, IsPeer, UsedListed, NumsListed
<1> HIDE DEF up, h, n
<1>5. CableOf(f) \in [hub : HubNums, name : IfNames \cup {None}, up : BOOLEAN]
  BY <1>1, <1>2, <1>3, <1>4
<1>6. CableOf(f).hub = h /\ CableOf(f).name = n BY <1>1
<1> QED BY <1>5, <1>6, CableAssumption DEF h, n

\* Each step of the structure code is a step of the patch panel, or none.
LEMMA PanelStep ==
  IInv /\ OneHubPerNumber /\ NumsListed /\ OpeningUnnamed /\ [Next]_vars
    => [Panel!Next]_[f \in Filps |-> CableOf(f)]
<1> DEFINE cable == [f \in Filps |-> CableOf(f)]
<1> SUFFICES ASSUME IInv, OneHubPerNumber, NumsListed, OpeningUnnamed, [Next]_vars
             PROVE  Panel!Next \/ cable' = cable
  OBVIOUS
<1> USE NoneFacts
<1>0. /\ filp \in [Filps -> Ports \cup {None}] /\ peer \in [Jacks -> Jacks \cup {None}]
      /\ ifname \in [Ports -> IfNames \cup {None}] /\ hubs \subseteq HubMem
  BY DEF IInv, TypeOK
<1>1. CASE UNCHANGED vars
  <2>1. \A f \in Filps : CableOf(f)' = CableOf(f)
    BY <1>1 DEF CableOf, vars, memVars, hubVars, netVars, fileVars
  <2> QED BY <2>1
<1>2. ASSUME NEW f \in Filps, Begin(f) \/ Continue(f), ~Rewires(f) PROVE cable' = cable
  BY <1>2, QuietCables
\* what a rewiring step of f does to the panel is what it does to f's cable
<1>3. ASSUME NEW f \in Filps, Rewires(f)
      PROVE  /\ UNCHANGED <<ifname, hubNum>>
             /\ \A c : CableOf(f)' = c => cable' = [cable EXCEPT ![f] = c]
  BY <1>3, OtherCables, RewiringSteps DEF memVars, hubVars
<1>4. ASSUME NEW f \in Filps, OpenConnect(f) PROVE Panel!Next \/ cable' = cable
  <2>1. /\ filp[f] = None /\ new[f] \in Ports /\ hubJack[f] \in HubJacks /\ pc[f] = "connect"
    BY <1>4, OpenFacts DEF OpenConnect
  <2>2. Rewires(f) BY <1>4 DEF Rewires
  <2>3. CASE UNCHANGED <<netVars, fileVars>>
    <3>1. CableOf(f)' = CableOf(f) BY <1>3, <2>2, <2>3 DEF CableOf, netVars, fileVars
    <3> QED BY <2>2, <3>1, OtherCables
  <2>4. CASE /\ Connect(state, numPorts, totalPorts, new[f], hubJack[f])
             /\ filp' = [filp EXCEPT ![f] = new[f]]
    <3> DEFINE h == hubNum[HubOf(hubJack[f])]
    <3>1. ifname[new[f]] = None BY <2>1 DEF OpeningUnnamed, Working
    <3>2. h \in HubNums
      BY <2>1 DEF NumsListed, IInv, InHand, UsedListed, HasJack, IsTaken, Holding
    <3>3. CableOf(f)' = [hub |-> h, name |-> None, up |-> TRUE]
      BY <1>0, <1>3, <2>1, <2>2, <2>4, <3>1 DEF CableOf, Connect, Wired
    <3>4. CableOf(f) = None BY <2>1 DEF CableOf
    <3>5. Panel!Open(f, h) BY <1>3, <2>2, <3>3, <3>4 DEF Panel!Open
    <3> QED BY <3>2, <3>5 DEF Panel!Next
  <2> QED BY <1>4, <2>3, <2>4 DEF OpenConnect
<1>5. ASSUME NEW f \in Filps, Close(f) PROVE Panel!Next \/ cable' = cable
  <2>1. Rewires(f) BY <1>5 DEF Rewires
  <2>2. CableOf(f)' = None BY <1>0, <1>5 DEF CableOf, Close
  <2>3. CableOf(f) # None BY <1>5, CableFields DEF CableOf, Close
  <2>4. Panel!Close(f) BY <1>3, <2>1, <2>2, <2>3 DEF Panel!Close
  <2> QED BY <2>4 DEF Panel!Next
<1>6. ASSUME NEW f \in Filps, Switch(f) PROVE Panel!Next \/ cable' = cable
  <2>0. Rewires(f) BY <1>6 DEF Rewires
  <2>1. /\ filp[f] \in Ports /\ OldJack(f) \in HubJacks /\ OldJack(f) = peer[filp[f]]
        /\ peer[OldJack(f)] = filp[f]
        /\ NewPort(f) \in Ports /\ NewJack(f) \in HubJacks /\ filp[f] # None
    BY <1>6, SwitchFacts, CableFacts
  <2>2. /\ cable[f].hub = hubNum[HubOf(OldJack(f))] /\ cable[f].name = ifname[filp[f]]
        /\ cable[f] # None
    BY <2>1, CableFields
  <2>3. /\ HasPort(f, filp[f]) /\ HasJack(f, OldJack(f))
        /\ HasPort(f, NewPort(f)) /\ HasJack(f, NewJack(f))
    BY <1>6, <2>1 DEF Switch, IInv, Phases, NewPort, NewJack, IsBind, HasPort, HasJack, IsFilps, IsNew,
                      IsPeer, IsTaken, Working, Holding
  <2>4. /\ OldJack(f) \in used /\ NewJack(f) \in used
        /\ \A g \in Filps \ {f} :
             /\ filp[g] # filp[f] /\ ~IsPeer(g, OldJack(f))
             /\ filp[g] # NewPort(f) /\ ~IsPeer(g, NewJack(f))
    BY <2>1, <2>3 DEF IInv, InHand, Exclusive, HasPort, HasJack, IsFilps
  <2>5. CASE SwitchDone(f)
    <3>1. CableOf(f)' = [hub |-> hubNum[HubOf(NewJack(f))], name |-> ifname[NewPort(f)],
                         up |-> TRUE]
      <4>1. filp'[f] = NewPort(f) /\ peer'[NewPort(f)] = NewJack(f) /\ NewPort(f) \in state'
        BY <1>0, <2>1, <2>5 DEF SwitchDone, Connect, Wired
      <4> QED BY <1>3, <2>0, <2>1, <4>1 DEF CableOf
    <3>2. Panel!Free(f, hubNum[HubOf(NewJack(f))], ifname[NewPort(f)])
      BY <2>1, <2>4, <2>5, FreeWithoutCycle DEF SwitchDone
    <3>3. CASE IsBind(f)
      <4>1. NewPort(f) = filp[f] BY <3>3 DEF NewPort
      <4>2. hubNum[HubOf(NewJack(f))] \in HubNums BY <2>4 DEF IInv, UsedListed, NumsListed
      <4>3. Panel!Move(f, hubNum[HubOf(NewJack(f))])
        BY <1>3, <2>0, <2>2, <3>1, <3>2, <4>1 DEF Panel!Move
      <4> QED BY <4>2, <4>3 DEF Panel!Next
    <3>4. CASE ~IsBind(f)
      <4>1. NewJack(f) = OldJack(f) /\ ifname[NewPort(f)] \in IfNames \cup {None}
        BY <1>0, <2>1, <3>4 DEF NewJack
      <4>2. Panel!Replace(f, ifname[NewPort(f)])
        BY <1>3, <2>0, <2>2, <3>1, <3>2, <4>1 DEF Panel!Replace
      <4> QED BY <4>1, <4>2 DEF Panel!Next
    <3> QED BY <3>3, <3>4
  <2>6. CASE SwitchRefused(f)
    <3>0. filp' = filp BY <2>6 DEF SwitchRefused, fileVars
    <3>1. CASE /\ ~Cycle(Unwired(f), filp[f], OldJack(f))
               /\ Connect(Unwired(f), CountOff(f), TotalOff(f), filp[f], OldJack(f))
      <4>1. CableOf(f)' = [hub |-> hubNum[HubOf(OldJack(f))], name |-> ifname[filp[f]],
                           up |-> TRUE]
        <5>1. peer'[filp[f]] = OldJack(f) /\ filp[f] \in state'
          BY <1>0, <2>1, <3>1 DEF Connect, Wired
        <5> QED BY <1>3, <2>0, <2>1, <3>0, <5>1 DEF CableOf
      <4>2. Panel!Free(f, hubNum[HubOf(OldJack(f))], ifname[filp[f]])
        BY <2>1, <2>4, <3>1, FreeWithoutCycle
      <4>3. Panel!Replace(f, ifname[filp[f]])
        BY <1>3, <2>0, <2>2, <4>1, <4>2 DEF Panel!Replace
      <4> QED BY <1>0, <2>1, <4>3 DEF Panel!Next
    <3>2. CASE state' = Unwired(f) /\ peer' = peer
      <4>1. CableOf(f)' = [hub |-> hubNum[HubOf(OldJack(f))], name |-> ifname[filp[f]],
                           up |-> FALSE]
        <5>1. filp'[f] \notin state' /\ filp'[f] = filp[f] /\ peer'[filp[f]] = OldJack(f)
          BY <2>1, <3>0, <3>2 DEF Unwired
        <5>2. (filp'[f] \in state') = FALSE BY <5>1
        <5> QED BY <1>3, <2>0, <2>1, <5>1, <5>2 DEF CableOf
      <4>2. Panel!Fault(f)
        BY <1>3, <2>0, <2>2, <4>1 DEF Panel!Fault
      <4> QED BY <4>2 DEF Panel!Next
    <3> QED BY <2>6, <3>1, <3>2 DEF SwitchRefused
  <2> QED BY <1>6, <2>5, <2>6 DEF Switch
<1> QED BY <1>1, <1>2, <1>4, <1>5, <1>6 DEF Next, Rewires

\* The structure code implements the patch panel: every operation takes effect
\* in one step, on its own file's cable only, and brings no interface to a hub
\* that has it, whatever the interleaving, refusals and failed allocations.
THEOREM ImplementsPanelHolds == Spec => ImplementsPanel
<1>1. Init => Panel!Init
  BY DEF Init, Panel!Init, CableOf
<1>2. Init => NumsListed /\ OpeningUnnamed
  BY DEF Init, NumsListed, OpeningUnnamed, Working
<1>3. Spec => []NumsListed
  BY <1>2, NumsListedNext, Invariance, PTL DEF Spec
<1>4. Spec => []OpeningUnnamed
  BY <1>2, OpeningUnnamedNext, Invariance, PTL DEF Spec
<1> QED
  BY <1>1, <1>3, <1>4, PanelStep, Invariance, OneHubPerNumberHolds, PTL
     DEF Spec, ImplementsPanel, Panel!Spec

=============================================================================
