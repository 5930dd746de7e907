----------------------------- MODULE FlowTable -----------------------------
(***************************************************************************)
(* What the session manager promises to the datapath: a table that gives   *)
(* every flow its fate.  Flows change one at a time; a FAR is only ever    *)
(* replaced through "pass"; a flow whose program has been made reachable   *)
(* drops until its FAR is installed, and that always happens.              *)
(***************************************************************************)
CONSTANTS Flows, Fars

VARIABLE table

Init == table = [f \in Flows |-> "pass"]

Open(f) == table[f] = "pass" /\ table' = [table EXCEPT ![f] = "drop"]

Install(f) ==
  /\ table[f] = "drop"
  /\ \E far \in Fars : table' = [table EXCEPT ![f] = far]

Close(f) == table[f] \in Fars /\ table' = [table EXCEPT ![f] = "pass"]

Reset == table' = [f \in Flows |-> "pass"]

Next == Reset \/ \E f \in Flows : Open(f) \/ Install(f) \/ Close(f)

Spec == Init /\ [][Next]_table

FairSpec == Spec /\ \A f \in Flows : WF_table(Install(f))
=============================================================================
