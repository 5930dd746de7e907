------------------------------ MODULE RuleTable ------------------------------
(* What a PFCP session promises its control plane: a table of at most one rule
   per identifier, in which an accepted request has exactly its effect and a
   refused one has none. *)
CONSTANTS Ids, Rules, NoRule

VARIABLES table, answer

Init == table = [i \in Ids |-> NoRule] /\ answer = [op |-> "none", rule |-> NoRule, ok |-> TRUE]

(* The control plane learns which request was served, on which rule. *)
Answer(op, i, ok) == answer' = [op |-> op, rule |-> i, ok |-> ok]

(* Only the rule of i changes, to some rule. *)
Store(i) ==
  table'[i] \in Rules /\ table' = [table EXCEPT ![i] = table'[i]]

Create(i) == table[i] = NoRule /\ Store(i) /\ Answer("create", i, TRUE)

Update(i) == table[i] # NoRule /\ Store(i) /\ Answer("update", i, TRUE)

Remove(i) ==
  /\ table[i] # NoRule
  /\ table' = [table EXCEPT ![i] = NoRule]
  /\ Answer("remove", i, TRUE)

Refuse == table' = table /\ \E op \in {"create", "update", "remove", "deploy"} :
                              Answer(op, NoRule, FALSE)

Deploy == table' = table /\ Answer("deploy", NoRule, TRUE)

Clear == table' = [i \in Ids |-> NoRule] /\ Answer("cleanup", NoRule, TRUE)

Next ==
  \/ \E i \in Ids : Create(i) \/ Update(i) \/ Remove(i)
  \/ Refuse \/ Deploy \/ Clear

Spec == Init /\ [][Next]_<<table, answer>>
=============================================================================
