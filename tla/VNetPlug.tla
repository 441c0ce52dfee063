------------------------------- MODULE VNetPlug -------------------------------
(***************************************************************************)
(* What the structure code of vmnet promises to the files that use it: a   *)
(* patch panel.  Each file has at most one cable, to one hub, with one     *)
(* interface name behind it or none; an operation moves the cable of its   *)
(* own file in one step, and no step brings an interface to a hub where it *)
(* already is.  VNetStructure implements it (Plug there).                  *)
(***************************************************************************)

CONSTANTS Filps, HubNums, IfNames, None

VARIABLE cable   \* for each file None, or its hub, its interface, and whether
                 \* the cable is connected at both ends

Cables == [hub : HubNums, name : IfNames \cup {None}, up : BOOLEAN]

TypeOK == cable \in [Filps -> Cables \cup {None}]

Init == cable = [f \in Filps |-> None]

\* May file f bring the interface name to the hub h?
Free(f, h, name) ==
  name # None =>
    \A g \in Filps \ {f} :
      cable[g] # None => ~(cable[g].up /\ cable[g].hub = h /\ cable[g].name = name)

Open(f, h) ==
  /\ cable[f] = None
  /\ cable' = [cable EXCEPT ![f] = [hub |-> h, name |-> None, up |-> TRUE]]

Close(f) ==
  /\ cable[f] # None
  /\ cable' = [cable EXCEPT ![f] = None]

\* The port of f is replaced by one for the interface name, on the same hub.
Replace(f, name) ==
  /\ cable[f] # None
  /\ Free(f, cable[f].hub, name)
  /\ cable' = [cable EXCEPT ![f] = [hub |-> @.hub, name |-> name, up |-> TRUE]]

\* The port of f moves to the hub h.
Move(f, h) ==
  /\ cable[f] # None
  /\ Free(f, h, cable[f].name)
  /\ cable' = [cable EXCEPT ![f] = [hub |-> h, name |-> @.name, up |-> TRUE]]

\* A refused replacement or move after which the old cable cannot be restored.
Fault(f) ==
  /\ cable[f] # None
  /\ cable' = [cable EXCEPT ![f] = [hub |-> @.hub, name |-> @.name, up |-> FALSE]]

Next ==
  \E f \in Filps :
    \/ \E h \in HubNums : Open(f, h) \/ Move(f, h)
    \/ \E name \in IfNames \cup {None} : Replace(f, name)
    \/ Close(f)
    \/ Fault(f)

Spec == Init /\ [][Next]_cable
=============================================================================
