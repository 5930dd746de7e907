----------------------------- MODULE PfcpSession -----------------------------
(***************************************************************************)
(* pfcp::pfcp_session: the PDRs and FARs of one PFCP session, kept in two  *)
(* vectors that are searched front to back, the requests that create,      *)
(* update and remove them, and createBPFSession, which sorts the session's *)
(* own vector of PDRs and copies the FAR of the first one into a FAR       *)
(* program.                                                                *)
(***************************************************************************)
EXTENDS Naturals, SequencesExt

CONSTANTS
  PdrIds, FarIds,
  Precedences,
  Flows,            \* (teid, source interface, UE address)
  Destinations,     \* destination interfaces of forwarding parameters, 0 included
  Headers,          \* outer header creations, 0 included
  CreatePdrs, CreateFars, UpdatePdrs, UpdateFars,   \* the requests that arrive
  UniqueIds,        \* TRUE: the control plane creates no rule under an id in use
  MaxRules,         \* bound on each vector
  None              \* an absent information element

Optional(S) == S \cup {None}

(* A PDI: the interface it detects on, whether it holds an F-TEID, a UE address
   and a traffic endpoint id, and the flow these describe. *)
Pdi == [source : {"access", "core", "other", "absent"}, fteid : BOOLEAN,
        ue : BOOLEAN, endpoint : BOOLEAN, flow : Flows]

Ids == {<<"pdr", id>> : id \in PdrIds} \cup {<<"far", id>> : id \in FarIds}

Pdr == [id : PdrIds, precedence : Precedences, pdi : Pdi, far : Optional(FarIds)]

Parameters == [dest : Destinations, header : Headers]

(* fwd is forwarding_parameters.second, which holds zeros when hasFwd, its first,
   was never set. *)
Far == [id : FarIds, forw : BOOLEAN, dupl : BOOLEAN, hasFwd : BOOLEAN,
        fwd : Parameters, hasDup : BOOLEAN]

CreatePdrType == [id : Optional(PdrIds), precedence : Optional(Precedences),
                  pdi : Optional(Pdi), far : Optional(FarIds)]
CreateFarType == [id : Optional(FarIds), action : BOOLEAN, forw : BOOLEAN,
                  dupl : BOOLEAN, fwd : Optional(Parameters), dup : BOOLEAN]
UpdatePdrType == [id : PdrIds, precedence : Optional(Precedences), pdi : Optional(Pdi),
                  far : Optional(FarIds)]
UpdateFarType == [id : FarIds, action : BOOLEAN, forw : BOOLEAN, dupl : BOOLEAN,
                  dest : Optional(Destinations), header : Optional(Headers)]

ASSUME PfcpAssumption ==
  /\ MaxRules \in Nat /\ UniqueIds \in BOOLEAN
  /\ Precedences \subseteq Nat /\ Destinations \subseteq Nat /\ Headers \subseteq Nat
  /\ 0 \in Destinations /\ 0 \in Headers
  /\ None \notin PdrIds \cup FarIds \cup Pdi \cup Parameters
             \cup Precedences \cup Destinations \cup Headers \cup Pdr \cup Far \cup Ids
  /\ CreatePdrs \subseteq CreatePdrType /\ CreateFars \subseteq CreateFarType
  /\ UpdatePdrs \subseteq UpdatePdrType /\ UpdateFars \subseteq UpdateFarType

VARIABLES
  pdrs, fars,       \* the two vectors
  deployed,         \* the flow and the FAR last handed to createPipeline
  answer            \* the last request served, on which rule, and whether it was accepted

vars == <<pdrs, fars, deployed, answer>>

DeployedType == [flow : Flows, forw : BOOLEAN, fwd : Parameters]

PfcpTypeOK ==
  /\ pdrs \in Seq(Pdr) /\ Len(pdrs) <= MaxRules
  /\ fars \in Seq(Far) /\ Len(fars) <= MaxRules
  /\ deployed \in Optional(DeployedType)
  /\ answer \in [op : {"none", "create", "update", "remove", "deploy", "cleanup"},
                 rule : Optional(Ids), ok : BOOLEAN]

Init ==
  /\ pdrs = <<>> /\ fars = <<>>
  /\ deployed = None
  /\ answer = [op |-> "none", rule |-> None, ok |-> TRUE]

Answer(op, rule, ok) == answer' = [op |-> op, rule |-> rule, ok |-> ok]
Accept(op, kind, id) == Answer(op, <<kind, id>>, TRUE)
Refuse(op) == Answer(op, None, FALSE) /\ UNCHANGED <<pdrs, fars, deployed>>

-----------------------------------------------------------------------------
(* get: the first rule with the id. *)
Has(rules, id) == \E n \in DOMAIN rules : rules[n].id = id

First(rules, id) ==
  CHOOSE n \in DOMAIN rules :
    rules[n].id = id /\ \A m \in 1 .. n - 1 : rules[m].id # id

EraseFront(rules, id) == Tail(rules)

Erase(rules, id) == RemoveAt(rules, First(rules, id))

Unused(rules, id) == UniqueIds => ~Has(rules, id)

-----------------------------------------------------------------------------
(* create(create_pdr): the checks, in any order since each refuses. *)
AdmitsAnyPdr(c) == TRUE

AdmitsPdr(c) ==
  /\ c.id # None /\ c.pdi # None /\ c.precedence # None
  /\ c.pdi.source \in {"access", "core"}
  /\ ~c.pdi.endpoint
  /\ c.pdi.source = "access" => c.pdi.fteid

CreatePdr(c) ==
  /\ AdmitsPdr(c) /\ Unused(pdrs, c.id)
  /\ Len(pdrs) < MaxRules
  /\ pdrs' = Append(pdrs, c)
  /\ Accept("create", "pdr", c.id)
  /\ UNCHANGED <<fars, deployed>>

CreatePdrRefused(c) == ~AdmitsPdr(c) /\ Refuse("create")

(* create(create_far) *)
AdmitsFar(c) ==
  /\ c.id # None /\ c.action
  /\ c.forw => c.fwd # None
  /\ c.dupl => c.dup

CreateFar(c) ==
  /\ AdmitsFar(c) /\ Unused(fars, c.id)
  /\ Len(fars) < MaxRules
  /\ fars' = Append(fars,
       [id |-> c.id, forw |-> c.forw, dupl |-> c.dupl, hasFwd |-> c.fwd # None,
        fwd |-> IF c.fwd = None THEN [dest |-> 0, header |-> 0] ELSE c.fwd,
        hasDup |-> c.dup])
  /\ Accept("create", "far", c.id)
  /\ UNCHANGED <<pdrs, deployed>>

CreateFarRefused(c) == ~AdmitsFar(c) /\ Refuse("create")

(* pfcp_pdr::update and pfcp_far::update replace the fields that are present; the
   PDI is replaced as a whole, and hasFwd stays as it was. *)
Given(new, old) == IF new = None THEN old ELSE new

UpdatedPdr(pdr, u) ==
  [pdr EXCEPT !.precedence = Given(u.precedence, @), !.pdi = Given(u.pdi, @),
              !.far = Given(u.far, @)]

UpdatedFar(far, u) ==
  [far EXCEPT !.forw = IF u.action THEN u.forw ELSE @,
              !.dupl = IF u.action THEN u.dupl ELSE @,
              !.fwd = [dest |-> Given(u.dest, @.dest), header |-> Given(u.header, @.header)]]

UpdatePdr(u) ==
  /\ Has(pdrs, u.id)
  /\ pdrs' = [pdrs EXCEPT ![First(pdrs, u.id)] = UpdatedPdr(@, u)]
  /\ Accept("update", "pdr", u.id)
  /\ UNCHANGED <<fars, deployed>>

UpdateFar(u) ==
  /\ Has(fars, u.id)
  /\ fars' = [fars EXCEPT ![First(fars, u.id)] = UpdatedFar(@, u)]
  /\ Accept("update", "far", u.id)
  /\ UNCHANGED <<pdrs, deployed>>

UpdateRefused ==
  /\ \/ \E u \in UpdatePdrs : ~Has(pdrs, u.id)
     \/ \E u \in UpdateFars : ~Has(fars, u.id)
  /\ Refuse("update")

RemovePdr(id) ==
  /\ Has(pdrs, id)
  /\ pdrs' = Erase(pdrs, id)
  /\ Accept("remove", "pdr", id)
  /\ UNCHANGED <<fars, deployed>>

RemoveFar(id) ==
  /\ Has(fars, id)
  /\ fars' = Erase(fars, id)
  /\ Accept("remove", "far", id)
  /\ UNCHANGED <<pdrs, deployed>>

(* The id is absent from the request or from the session. *)
RemoveRefused ==
  /\ \/ \E id \in Optional(PdrIds) : ~Has(pdrs, id)
     \/ \E id \in Optional(FarIds) : ~Has(fars, id)
  /\ Refuse("remove")

Cleanup ==
  /\ pdrs' = <<>> /\ fars' = <<>>
  /\ Answer("cleanup", None, TRUE)
  /\ UNCHANGED deployed

-----------------------------------------------------------------------------
(* createBPFSession.  std::sort is not stable: rules of equal precedence may end
   in any order. *)
comparePDRReversed(first, second) == first.precedence > second.precedence

comparePDR(first, second) == first.precedence < second.precedence

Sorted(rules) ==
  {s \in {[n \in DOMAIN rules |-> rules[p[n]]] :
            p \in {q \in [DOMAIN rules -> DOMAIN rules] : IsInjective(q)}} :
     \A m, n \in DOMAIN s : m < n => ~comparePDR(s[n], s[m])}

Deployable(pdr) ==
  /\ pdr.pdi.fteid /\ pdr.pdi.source # "absent" /\ pdr.pdi.ue
  /\ pdr.far # None /\ Has(fars, pdr.far)

(* createPipeline copies the FAR; how it can fail is the subject of
   SessionPipeline, here it is an answer. *)
Deploy ==
  \E s \in Sorted(pdrs), ok \in BOOLEAN :
    /\ s # <<>> /\ Deployable(s[1])
    /\ pdrs' = s
    /\ deployed' = LET far == fars[First(fars, s[1].far)] IN
         [flow |-> s[1].pdi.flow, forw |-> far.forw, fwd |-> far.fwd]
    /\ Answer("deploy", None, ok)
    /\ UNCHANGED fars

(* An exception of the checks comes after the sort. *)
DeployRefused ==
  \E s \in Sorted(pdrs) :
    /\ s # <<>> => ~Deployable(s[1])
    /\ pdrs' = s
    /\ Answer("deploy", None, FALSE)
    /\ UNCHANGED <<fars, deployed>>

Next ==
  \/ \E c \in CreatePdrs : CreatePdr(c) \/ CreatePdrRefused(c)
  \/ \E c \in CreateFars : CreateFar(c) \/ CreateFarRefused(c)
  \/ \E u \in UpdatePdrs : UpdatePdr(u)
  \/ \E u \in UpdateFars : UpdateFar(u)
  \/ \E id \in PdrIds : RemovePdr(id)
  \/ \E id \in FarIds : RemoveFar(id)
  \/ UpdateRefused \/ RemoveRefused
  \/ Deploy \/ DeployRefused
  \/ Cleanup

Spec == Init /\ [][Next]_vars

-----------------------------------------------------------------------------
(* What get returns for each id. *)
TableOf(kind, rules) ==
  [i \in Ids |-> IF i[1] = kind /\ Has(rules, i[2]) THEN rules[First(rules, i[2])] ELSE None]

Table == [i \in Ids |-> IF i[1] = "pdr" THEN TableOf("pdr", pdrs)[i]
                        ELSE TableOf("far", fars)[i]]

Rules == INSTANCE RuleTable
           WITH table <- Table, Rules <- Pdr \cup Far, NoRule <- None

(* As long as the control plane keeps ids unique, the two vectors, searched front
   to back and reordered by every deployment, are a table of rules: an accepted
   create, update or remove changes what get returns for its id and for no other,
   a refused request, a deployment that throws after its sort included, nothing. *)
ImplementsRuleTable == Rules!Spec

(* What createBPFSession hands to createPipeline is the flow of a PDR that no other
   PDR of the session precedes, with the FAR that PDR refers to, whatever order
   creations, updates and earlier deployments left the vectors in. *)
DeployedIsHighest ==
  [][deployed' # deployed =>
       \E id \in PdrIds :
         LET pdr == Table[<<"pdr", id>>]  far == Table[<<"far", pdr.far>>] IN
           /\ pdr # None
           /\ \A other \in PdrIds : Table[<<"pdr", other>>] # None =>
                pdr.precedence <= Table[<<"pdr", other>>].precedence
           /\ far # None
           /\ deployed' = [flow |-> pdr.pdi.flow, forw |-> far.forw, fwd |-> far.fwd]]_vars
=============================================================================
