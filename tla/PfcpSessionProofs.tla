-------------------------- MODULE PfcpSessionProofs --------------------------
(***************************************************************************)
(* Proofs about the rule vectors of one PFCP session, for every number of  *)
(* rules, identifiers and requests, when the control plane creates no rule *)
(* under an identifier in use: they are a table of rules, and what is      *)
(* deployed is the rule of highest precedence.                             *)
(***************************************************************************)
EXTENDS PfcpSession, SequenceTheorems, FiniteSetTheorems, TLAPS

(* No two rules of a vector have one id: the searches front to back, the erasure
   of the first match and any reordering then agree on what an id stands for. *)
Unique(rules) ==
  \A m, n \in DOMAIN rules : rules[m].id = rules[n].id => m = n

UniqueInv == PfcpTypeOK /\ Unique(pdrs) /\ Unique(fars)

(* get, None for a null pointer. *)
Get(rules, id) == IF Has(rules, id) THEN rules[First(rules, id)] ELSE None

-----------------------------------------------------------------------------
(* The first rule with an id is the only one. *)
LEMMA FirstIs ==
  ASSUME NEW R, NEW rules \in Seq(R), Unique(rules), NEW n \in DOMAIN rules
  PROVE  /\ Has(rules, rules[n].id)
         /\ First(rules, rules[n].id) = n
         /\ Get(rules, rules[n].id) = rules[n]
<1>1. DOMAIN rules = 1 .. Len(rules) /\ Len(rules) \in Nat
  BY LenProperties
<1>2. \A m \in 1 .. n - 1 : m \in DOMAIN rules /\ m # n
  BY <1>1
<1>3. \A m \in 1 .. n - 1 : rules[m].id # rules[n].id
  BY <1>2 DEF Unique
<1>4. \A k \in DOMAIN rules :
        rules[k].id = rules[n].id /\ (\A m \in 1 .. k - 1 : rules[m].id # rules[n].id) => k = n
  BY DEF Unique
<1>5. First(rules, rules[n].id) = n
  BY <1>3, <1>4 DEF First
<1>6. Has(rules, rules[n].id)
  BY DEF Has
<1> QED
  BY <1>5, <1>6 DEF Get

(* What get finds is in the vector, under the id. *)
LEMMA GetIs ==
  ASSUME NEW R, NEW rules \in Seq(R), Unique(rules), NEW id, Has(rules, id)
  PROVE  /\ First(rules, id) \in DOMAIN rules /\ rules[First(rules, id)].id = id
         /\ Get(rules, id) = rules[First(rules, id)] /\ Get(rules, id) \in R
<1>1. PICK n \in DOMAIN rules : rules[n].id = id
  BY DEF Has
<1>2. First(rules, id) = n
  BY <1>1, FirstIs
<1>3. rules[n] \in R
  BY <1>1, ElementOfSeq, LenProperties
<1> QED
  BY <1>1, <1>2, <1>3 DEF Get

(* Two vectors that hold the same rules answer alike. *)
LEMMA SameRules ==
  ASSUME NEW R, NEW a \in Seq(R), NEW b \in Seq(R), Unique(a), Unique(b), NEW id,
         \A m \in DOMAIN a : a[m].id = id => \E n \in DOMAIN b : b[n] = a[m],
         \A n \in DOMAIN b : b[n].id = id => \E m \in DOMAIN a : a[m] = b[n]
  PROVE  Get(a, id) = Get(b, id)
<1>1. Has(a, id) <=> Has(b, id)
  BY DEF Has
<1>2. CASE Has(a, id)
  <2>1. PICK m \in DOMAIN a : a[m].id = id
    BY <1>2 DEF Has
  <2>2. PICK n \in DOMAIN b : b[n] = a[m]
    BY <2>1
  <2>3. Get(a, id) = a[m]
    BY <2>1, FirstIs
  <2>4. Get(b, id) = b[n]
    BY <2>1, <2>2, FirstIs
  <2> QED
    BY <2>2, <2>3, <2>4
<1>3. CASE ~Has(a, id)
  BY <1>1, <1>3 DEF Get
<1> QED
  BY <1>2, <1>3

(* create appends a rule under an id not in use. *)
LEMMA Appended ==
  ASSUME NEW R, NEW rules \in Seq(R), Unique(rules), NEW r \in R, ~Has(rules, r.id)
  PROVE  /\ Append(rules, r) \in Seq(R) /\ Len(Append(rules, r)) = Len(rules) + 1
         /\ Unique(Append(rules, r))
         /\ Get(Append(rules, r), r.id) = r /\ ~Has(rules, r.id)
         /\ \A id : id # r.id => Get(Append(rules, r), id) = Get(rules, id)
<1> DEFINE new == Append(rules, r)
<1>1. /\ new \in Seq(R) /\ Len(new) = Len(rules) + 1 /\ Len(rules) \in Nat
      /\ \A n \in 1 .. Len(rules) : new[n] = rules[n]
      /\ new[Len(rules) + 1] = r
      /\ DOMAIN rules = 1 .. Len(rules) /\ DOMAIN new = 1 .. Len(rules) + 1
  BY AppendProperties, LenProperties
<1> HIDE DEF new
<1>2. DOMAIN new = DOMAIN rules \cup {Len(rules) + 1} /\ Len(rules) + 1 \notin DOMAIN rules
  BY <1>1
<1>3. \A n \in DOMAIN rules : new[n] = rules[n] /\ rules[n].id # r.id
  BY <1>1 DEF Has
<1>4. Unique(new)
  BY <1>1, <1>2, <1>3 DEF Unique
<1>5. Get(new, r.id) = r
  <2>1. Len(rules) + 1 \in DOMAIN new
    BY <1>2
  <2> QED
    BY <1>1, <1>4, <2>1, FirstIs
<1>6. ASSUME NEW id, id # r.id PROVE Get(new, id) = Get(rules, id)
  <2>1. \A m \in DOMAIN new : new[m].id = id => \E n \in DOMAIN rules : rules[n] = new[m]
    BY <1>1, <1>2, <1>3, <1>6
  <2>2. \A n \in DOMAIN rules : rules[n].id = id => \E m \in DOMAIN new : new[m] = rules[n]
    BY <1>2, <1>3
  <2> QED
    BY <1>1, <1>4, <2>1, <2>2, SameRules
<1> QED
  BY <1>1, <1>4, <1>5, <1>6 DEF new

(* One rule of a vector is overwritten. *)
LEMMA Overwritten ==
  ASSUME NEW R, NEW rules \in Seq(R), NEW n \in DOMAIN rules, NEW r \in R
  PROVE  /\ [rules EXCEPT ![n] = r] \in Seq(R)
         /\ DOMAIN [rules EXCEPT ![n] = r] = DOMAIN rules
         /\ \A m \in DOMAIN rules :
              [rules EXCEPT ![n] = r][m] = IF m = n THEN r ELSE rules[m]
<1> DEFINE new == [rules EXCEPT ![n] = r]
<1>1. DOMAIN rules = 1 .. Len(rules) /\ Len(rules) \in Nat /\ rules \in [1 .. Len(rules) -> R]
  BY LenProperties
<1>2. new \in [1 .. Len(rules) -> R] /\ DOMAIN new = DOMAIN rules
  BY <1>1
<1>3. new \in Seq(R)
  BY <1>1, <1>2, IsASeq
<1> QED
  BY <1>2, <1>3

(* update replaces the first rule with the id by one with the same id. *)
LEMMA Replaced ==
  ASSUME NEW R, NEW rules \in Seq(R), Unique(rules), NEW n \in DOMAIN rules,
         NEW r \in R, r.id = rules[n].id, NEW new \in Seq(R), DOMAIN new = DOMAIN rules,
         \A m \in DOMAIN rules : new[m] = IF m = n THEN r ELSE rules[m]
  PROVE  /\ Len(new) = Len(rules) /\ Unique(new)
         /\ Get(new, r.id) = r
         /\ \A id : id # r.id => Get(new, id) = Get(rules, id)
<1>1. Len(new) = Len(rules)
  BY LenProperties
<1>2. \A m \in DOMAIN rules : new[m].id = rules[m].id
  OBVIOUS
<1>3. Unique(new)
  BY <1>2 DEF Unique
<1>4. new[n] = r
  OBVIOUS
<1>5. Get(new, r.id) = r
  BY <1>3, <1>4, FirstIs
<1>6. ASSUME NEW id, id # r.id PROVE Get(new, id) = Get(rules, id)
  <2>1. \A m \in DOMAIN rules : new[m].id = id => new[m] = rules[m]
    BY <1>6
  <2> QED
    BY <1>2, <1>3, <2>1, SameRules
<1> QED
  BY <1>1, <1>3, <1>5, <1>6

(* erase closes the gap: which rule is where afterwards. *)
LEMMA Removed ==
  ASSUME NEW R, NEW rules \in Seq(R), NEW n \in 1 .. Len(rules)
  PROVE  /\ RemoveAt(rules, n) \in Seq(R) /\ Len(RemoveAt(rules, n)) = Len(rules) - 1
         /\ \A m \in 1 .. Len(rules) - 1 :
              RemoveAt(rules, n)[m] = rules[IF m < n THEN m ELSE m + 1]
<1> DEFINE a == SubSeq(rules, 1, n - 1)
           b == SubSeq(rules, n + 1, Len(rules))
<1>1. Len(rules) \in Nat /\ rules \in [1 .. Len(rules) -> R]
  BY LenProperties
<1>2. \A i \in 1 .. n - 1 : rules[i] \in R
  BY <1>1
<1>3. /\ a \in Seq(R) /\ Len(a) = n - 1
      /\ \A i \in 1 .. n - 1 : a[i] = rules[i]
  <2>1. 1 \in Int /\ n - 1 \in Int
    BY <1>1
  <2>2. /\ a \in Seq(R) /\ Len(a) = IF 1 <= n - 1 THEN n - 1 - 1 + 1 ELSE 0
        /\ \A i \in 1 .. n - 1 - 1 + 1 : a[i] = rules[1 + i - 1]
    BY <1>2, <2>1, SubSeqProperties
  <2> HIDE DEF a
  <2>3. n - 1 - 1 + 1 = n - 1 /\ \A i \in 1 .. n - 1 : 1 + i - 1 = i
    BY <1>1
  <2> QED
    BY <1>1, <2>2, <2>3
<1>4. /\ b \in Seq(R) /\ Len(b) = Len(rules) - n
      /\ \A i \in 1 .. Len(rules) - n : b[i] = rules[n + i]
  <2>1. n + 1 \in Int /\ Len(rules) \in Int
    BY <1>1
  <2>2. \A i \in n + 1 .. Len(rules) : rules[i] \in R
    BY <1>1
  <2>3. /\ b \in Seq(R)
        /\ Len(b) = IF n + 1 <= Len(rules) THEN Len(rules) - (n + 1) + 1 ELSE 0
        /\ \A i \in 1 .. Len(rules) - (n + 1) + 1 : b[i] = rules[n + 1 + i - 1]
    BY <2>1, <2>2, SubSeqProperties
  <2> HIDE DEF b
  <2>4. /\ Len(rules) - (n + 1) + 1 = Len(rules) - n
        /\ \A i \in 1 .. Len(rules) - n : n + 1 + i - 1 = n + i
    BY <1>1
  <2>5. Len(b) = Len(rules) - n
    <3>1. Len(b) = IF n + 1 <= Len(rules) THEN Len(rules) - (n + 1) + 1 ELSE 0
      BY <2>3
    <3>2. n \in Nat /\ n <= Len(rules) /\ Len(rules) \in Nat
      BY <1>1
    <3>3. CASE n + 1 <= Len(rules)
      BY <2>4, <3>1, <3>3
    <3>4. CASE ~(n + 1 <= Len(rules))
      BY <3>1, <3>2, <3>4
    <3> QED
      BY <3>3, <3>4
  <2>6. \A i \in 1 .. Len(rules) - n : b[i] = rules[n + i]
    <3>1. \A i \in 1 .. Len(rules) - n : b[i] = rules[n + 1 + i - 1]
      BY <2>3, <2>4, Zenon
    <3> QED
      BY <2>4, <3>1, Zenon
  <2> QED
    BY <2>3, <2>5, <2>6
<1>5. RemoveAt(rules, n) = a \o b
  BY DEF RemoveAt
<1> HIDE DEF a, b
<1>6. /\ a \o b \in Seq(R) /\ Len(a \o b) = Len(a) + Len(b)
      /\ \A i \in 1 .. Len(a) + Len(b) :
           (a \o b)[i] = IF i <= Len(a) THEN a[i] ELSE b[i - Len(a)]
  BY <1>3, <1>4, ConcatProperties
<1>7. Len(a) + Len(b) = Len(rules) - 1
  BY <1>1, <1>3, <1>4
<1>8. ASSUME NEW m \in 1 .. Len(rules) - 1
      PROVE  (a \o b)[m] = rules[IF m < n THEN m ELSE m + 1]
  <2>1. CASE m < n
    <3>1. m \in 1 .. n - 1 /\ m <= Len(a)
      BY <1>1, <1>3, <2>1
    <3>2. (a \o b)[m] = a[m]
      BY <1>6, <1>7, <3>1
    <3> QED
      BY <1>3, <2>1, <3>1, <3>2
  <2>2. CASE ~(m < n)
    <3>1. ~(m <= Len(a)) /\ m - Len(a) \in 1 .. Len(rules) - n /\ n + (m - Len(a)) = m + 1
      BY <1>1, <1>3, <2>2
    <3>2. (a \o b)[m] = b[m - Len(a)]
      BY <1>6, <1>7, <3>1
    <3>3. b[m - Len(a)] = rules[m + 1]
      BY <1>4, <3>1
    <3> QED
      BY <2>2, <3>2, <3>3
  <2> QED
    BY <2>1, <2>2
<1> QED
  BY <1>5, <1>6, <1>7, <1>8

(* remove takes exactly the rule away that get would return. *)
LEMMA Erased ==
  ASSUME NEW R, NEW rules \in Seq(R), Unique(rules), NEW id, Has(rules, id)
  PROVE  /\ Erase(rules, id) \in Seq(R) /\ Len(Erase(rules, id)) = Len(rules) - 1
         /\ Unique(Erase(rules, id))
         /\ ~Has(Erase(rules, id), id)
         /\ \A other : other # id => Get(Erase(rules, id), other) = Get(rules, other)
<1> DEFINE n == First(rules, id)
           new == RemoveAt(rules, n)
<1>1. n \in DOMAIN rules /\ rules[n].id = id
  BY GetIs
<1>2. DOMAIN rules = 1 .. Len(rules) /\ Len(rules) \in Nat
  BY SMTT(60), LenProperties
<1> HIDE DEF n
<1>3. /\ new \in Seq(R) /\ Len(new) = Len(rules) - 1
      /\ \A m \in 1 .. Len(rules) - 1 : new[m] = rules[IF m < n THEN m ELSE m + 1]
  BY <1>1, <1>2, Removed
<1> HIDE DEF new
<1>4. DOMAIN new = 1 .. Len(rules) - 1
  BY <1>3, LenProperties
<1>5. \A m \in DOMAIN new : (IF m < n THEN m ELSE m + 1) \in DOMAIN rules \ {n}
  BY <1>1, <1>2, <1>4
<1>6. \A m, k \in DOMAIN new :
        (IF m < n THEN m ELSE m + 1) = (IF k < n THEN k ELSE k + 1) => m = k
  BY <1>1, <1>2, <1>4
<1>7. Unique(new)
  BY SMTT(60), <1>3, <1>4, <1>5, <1>6 DEF Unique
<1>8. \A m \in DOMAIN new : new[m].id # id
  BY <1>1, <1>3, <1>4, <1>5 DEF Unique
<1>9. ~Has(new, id)
  BY <1>8 DEF Has
<1>10. ASSUME NEW other, other # id PROVE Get(new, other) = Get(rules, other)
  <2>1. \A m \in DOMAIN new : \E k \in DOMAIN rules : rules[k] = new[m]
    BY <1>3, <1>4, <1>5
  <2>2. ASSUME NEW k \in DOMAIN rules, rules[k].id = other
        PROVE  \E m \in DOMAIN new : new[m] = rules[k]
    <3>1. k # n
      BY <1>1, <1>10, <2>2
    <3>2. CASE k < n
      <4>1. k \in DOMAIN new
        BY <1>1, <1>2, <1>4, <3>2
      <4> QED
        BY <1>3, <1>4, <3>2, <4>1
    <3>3. CASE k > n
      <4>1. k - 1 \in DOMAIN new /\ ~(k - 1 < n) /\ (k - 1) + 1 = k
        BY <1>1, <1>2, <1>4, <3>3
      <4>2. new[k - 1] = rules[k]
        BY <1>3, <1>4, <4>1
      <4> QED
        BY <4>1, <4>2
    <3> QED
      BY <1>1, <1>2, <3>1, <3>2, <3>3
  <2> QED
    BY SMTT(60), <1>3, <1>7, <2>1, <2>2, SameRules
<1> QED
  BY <1>3, <1>7, <1>9, <1>10 DEF Erase, new, n

(* The sort of a deployment, stable or not, loses and doubles no rule. *)
LEMMA Reordered ==
  ASSUME NEW R, NEW rules \in Seq(R), Unique(rules), NEW s \in Sorted(rules)
  PROVE  /\ s \in Seq(R) /\ Len(s) = Len(rules) /\ DOMAIN s = DOMAIN rules
         /\ Unique(s)
         /\ \A id : Get(s, id) = Get(rules, id)
         /\ \A m \in DOMAIN rules : \E n \in DOMAIN s : s[n] = rules[m]
         /\ \A n \in DOMAIN s : \E m \in DOMAIN rules : s[n] = rules[m]
         /\ \A m, n \in DOMAIN s : m < n => ~(s[n].precedence < s[m].precedence)
<1>1. DOMAIN rules = 1 .. Len(rules) /\ Len(rules) \in Nat /\ rules \in [1 .. Len(rules) -> R]
  BY LenProperties
<1>2. PICK p \in [DOMAIN rules -> DOMAIN rules] :
        IsInjective(p) /\ s = [n \in DOMAIN rules |-> rules[p[n]]]
  BY DEF Sorted
<1>3. \A m, n \in DOMAIN s : m < n => ~(s[n].precedence < s[m].precedence)
  BY DEF Sorted, comparePDR
<1>4. \A t \in DOMAIN rules : \E n \in DOMAIN rules : p[n] = t
  <2>1. IsFiniteSet(1 .. Len(rules))
    BY <1>1, FS_Interval
  <2>2. p \in Injection(DOMAIN rules, DOMAIN rules)
    BY <1>2 DEF Injection
  <2>3. p \in Surjection(DOMAIN rules, DOMAIN rules)
    BY <1>1, <2>1, <2>2, FS_Injection
  <2> QED
    BY <2>3 DEF Surjection
<1>5. s \in [1 .. Len(rules) -> R] /\ DOMAIN s = DOMAIN rules
  BY <1>1, <1>2
<1>6. s \in Seq(R)
  BY <1>1, <1>5, IsASeq
<1>7. Len(s) = Len(rules)
  BY <1>1, <1>5, <1>6, LenProperties
<1>8. \A n \in DOMAIN rules : s[n] = rules[p[n]] /\ p[n] \in DOMAIN rules
  BY <1>2
<1>9. Unique(s)
  BY <1>2, <1>5, <1>8 DEF Unique, IsInjective
<1>10. \A m \in DOMAIN rules : \E n \in DOMAIN s : s[n] = rules[m]
  <2> SUFFICES ASSUME NEW m \in DOMAIN rules PROVE \E n \in DOMAIN s : s[n] = rules[m]
    OBVIOUS
  <2>1. PICK n \in DOMAIN rules : p[n] = m
    BY <1>4
  <2>2. s[n] = rules[m] /\ n \in DOMAIN s
    BY <1>5, <1>8, <2>1, Zenon
  <2> QED
    BY <2>2
<1>11. \A n \in DOMAIN s : \E m \in DOMAIN rules : s[n] = rules[m]
  BY <1>5, <1>8
<1>12. \A id : Get(s, id) = Get(rules, id)
  BY <1>6, <1>9, <1>10, <1>11, SameRules
<1> QED
  BY <1>3, <1>5, <1>6, <1>7, <1>9, <1>10, <1>11, <1>12

-----------------------------------------------------------------------------
(* A PDR whose creation is accepted has all the elements a rule needs. *)
LEMMA PdrAdmitted ==
  ASSUME NEW c \in CreatePdrs, AdmitsPdr(c)
  PROVE  c \in Pdr
<1>1. c \in CreatePdrType
  BY PfcpAssumption
<1> QED
  BY <1>1 DEF AdmitsPdr, CreatePdrType, Pdr, Optional

(* So has a FAR, whose absent forwarding parameters are zeros. *)
LEMMA FarAdmitted ==
  ASSUME NEW c \in CreateFars, AdmitsFar(c)
  PROVE  /\ c.id \in FarIds
         /\ [id |-> c.id, forw |-> c.forw, dupl |-> c.dupl, hasFwd |-> c.fwd # None,
             fwd |-> IF c.fwd = None THEN [dest |-> 0, header |-> 0] ELSE c.fwd,
             hasDup |-> c.dup] \in Far
<1>1. c \in CreateFarType
  BY PfcpAssumption
<1>2. c.id \in FarIds /\ c.forw \in BOOLEAN /\ c.dupl \in BOOLEAN /\ c.dup \in BOOLEAN
      /\ c.fwd \in Parameters \cup {None}
  BY <1>1 DEF AdmitsFar, CreateFarType, Optional
<1> DEFINE fwd == IF c.fwd = None THEN [dest |-> 0, header |-> 0] ELSE c.fwd
           has == c.fwd # None
<1>3. fwd \in Parameters /\ has \in BOOLEAN
  BY <1>2, PfcpAssumption DEF Parameters
<1> HIDE DEF fwd, has
<1>4. [id |-> c.id, forw |-> c.forw, dupl |-> c.dupl, hasFwd |-> has,
       fwd |-> fwd, hasDup |-> c.dup] \in Far
  BY <1>2, <1>3 DEF Far
<1> QED
  BY <1>2, <1>4 DEF fwd, has

(* An update makes a rule of a rule and keeps its id. *)
LEMMA PdrUpdated ==
  ASSUME NEW r \in Pdr, NEW u \in UpdatePdrs
  PROVE  UpdatedPdr(r, u) \in Pdr /\ UpdatedPdr(r, u).id = r.id /\ u.id \in PdrIds
<1>1. u \in UpdatePdrType
  BY PfcpAssumption
<1>2. /\ Given(u.precedence, r.precedence) \in Precedences
      /\ Given(u.pdi, r.pdi) \in Pdi /\ Given(u.far, r.far) \in Optional(FarIds)
      /\ u.id \in PdrIds
  BY <1>1 DEF UpdatePdrType, Pdr, Given, Optional
<1> DEFINE x == Given(u.precedence, r.precedence)
           y == Given(u.pdi, r.pdi)
           z == Given(u.far, r.far)
<1>3. UpdatedPdr(r, u) = [r EXCEPT !.precedence = x, !.pdi = y, !.far = z]
  BY DEF UpdatedPdr, Pdr
<1> HIDE DEF x, y, z
<1>4. x \in Precedences /\ y \in Pdi /\ z \in Optional(FarIds)
  BY <1>2 DEF x, y, z
<1>5. [r EXCEPT !.precedence = x, !.pdi = y, !.far = z] \in Pdr
      /\ [r EXCEPT !.precedence = x, !.pdi = y, !.far = z].id = r.id
  BY <1>4 DEF Pdr
<1> QED
  BY <1>2, <1>3, <1>5

(* The same for a FAR. *)
LEMMA FarUpdated ==
  ASSUME NEW r \in Far, NEW u \in UpdateFars
  PROVE  UpdatedFar(r, u) \in Far /\ UpdatedFar(r, u).id = r.id /\ u.id \in FarIds
<1>1. u \in UpdateFarType
  BY PfcpAssumption
<1> DEFINE x == IF u.action THEN u.forw ELSE r.forw
           y == IF u.action THEN u.dupl ELSE r.dupl
           z == [dest |-> Given(u.dest, r.fwd.dest), header |-> Given(u.header, r.fwd.header)]
<1>2. x \in BOOLEAN /\ y \in BOOLEAN /\ u.id \in FarIds
  BY <1>1 DEF UpdateFarType, Far
<1>3. z \in Parameters
  <2>1. r.fwd.dest \in Destinations /\ r.fwd.header \in Headers
    BY DEF Far, Parameters
  <2>2. u.dest \in Destinations \cup {None} /\ u.header \in Headers \cup {None}
    BY <1>1 DEF UpdateFarType, Optional
  <2> QED
    BY <2>1, <2>2 DEF Given, Parameters
<1>4. UpdatedFar(r, u) = [r EXCEPT !.forw = x, !.dupl = y, !.fwd = z]
  BY DEF UpdatedFar, Far
<1> HIDE DEF x, y, z
<1>5. [r EXCEPT !.forw = x, !.dupl = y, !.fwd = z] \in Far
      /\ [r EXCEPT !.forw = x, !.dupl = y, !.fwd = z].id = r.id
  BY <1>2, <1>3 DEF Far
<1> QED
  BY <1>2, <1>4, <1>5

(* The abstract table of two vectors. *)
TableFor(p, f) ==
  [i \in Ids |-> IF i[1] = "pdr" THEN TableOf("pdr", p)[i] ELSE TableOf("far", f)[i]]

(* Where the table keeps the rules. *)
LEMMA TableIs ==
  ASSUME NEW p, NEW f
  PROVE  /\ \A id \in PdrIds : <<"pdr", id>> \in Ids /\ TableFor(p, f)[<<"pdr", id>>] = Get(p, id)
         /\ \A id \in FarIds : <<"far", id>> \in Ids /\ TableFor(p, f)[<<"far", id>>] = Get(f, id)
<1>1. ASSUME NEW id \in PdrIds
      PROVE  <<"pdr", id>> \in Ids /\ TableFor(p, f)[<<"pdr", id>>] = Get(p, id)
  <2>1. <<"pdr", id>> \in Ids
    BY DEF Ids
  <2> QED
    BY <2>1 DEF TableFor, TableOf, Get
<1>2. ASSUME NEW id \in FarIds
      PROVE  <<"far", id>> \in Ids /\ TableFor(p, f)[<<"far", id>>] = Get(f, id)
  <2>1. <<"far", id>> \in Ids
    BY DEF Ids
  <2> QED
    BY <2>1 DEF TableFor, TableOf, Get
<1> QED
  BY <1>1, <1>2

(* Tables whose entries are those of the same rules are equal. *)
LEMMA TableEqual ==
  ASSUME NEW p, NEW f, NEW T, T = [i \in Ids |-> T[i]],
         \A id \in PdrIds : T[<<"pdr", id>>] = Get(p, id),
         \A id \in FarIds : T[<<"far", id>>] = Get(f, id)
  PROVE  TableFor(p, f) = T
<1>1. ASSUME NEW i \in Ids PROVE TableFor(p, f)[i] = T[i]
  <2>1. CASE \E id \in PdrIds : i = <<"pdr", id>>
    BY <2>1, TableIs
  <2>2. CASE \E id \in FarIds : i = <<"far", id>>
    BY <2>2, TableIs
  <2> QED
    BY <2>1, <2>2 DEF Ids
<1>2. TableFor(p, f) = [i \in Ids |-> TableFor(p, f)[i]]
  BY DEF TableFor
<1> QED
  BY <1>1, <1>2, Zenon

(* A change of one PDR is a change of one entry. *)
LEMMA PdrEntry ==
  ASSUME NEW p, NEW f, NEW q, NEW id \in PdrIds,
         \A other \in PdrIds : other # id => Get(q, other) = Get(p, other)
  PROVE  \A i \in Ids :
           TableFor(q, f)[i] = IF i = <<"pdr", id>> THEN Get(q, id) ELSE TableFor(p, f)[i]
<1> DEFINE T == [TableFor(p, f) EXCEPT ![<<"pdr", id>>] = Get(q, id)]
<1>1. DOMAIN TableFor(p, f) = Ids
  BY DEF TableFor
<1>2. T = [i \in Ids |-> T[i]]
  BY <1>1
<1>3. ASSUME NEW k \in PdrIds PROVE T[<<"pdr", k>>] = Get(q, k)
  <2>1. CASE k = id
    BY <1>1, <2>1, TableIs
  <2>2. CASE k # id
    <3>1. <<"pdr", k>> # <<"pdr", id>> /\ <<"pdr", k>> \in Ids
      BY <2>2, TableIs
    <3>2. T[<<"pdr", k>>] = TableFor(p, f)[<<"pdr", k>>]
      BY <1>1, <3>1
    <3> QED
      BY <2>2, <3>2, TableIs
  <2> QED
    BY <2>1, <2>2
<1>4. ASSUME NEW k \in FarIds PROVE T[<<"far", k>>] = Get(f, k)
  <2>1. <<"far", k>> # <<"pdr", id>> /\ <<"far", k>> \in Ids
    BY TableIs
  <2>2. T[<<"far", k>>] = TableFor(p, f)[<<"far", k>>]
    BY <1>1, <2>1
  <2> QED
    BY <2>2, TableIs
<1>6. \A i \in Ids : T[i] = IF i = <<"pdr", id>> THEN Get(q, id) ELSE TableFor(p, f)[i]
  BY <1>1
<1> HIDE DEF T
<1>5. TableFor(q, f) = T
  BY <1>2, <1>3, <1>4, TableEqual
<1> QED
  BY <1>5, <1>6

(* A change of one FAR likewise. *)
LEMMA FarEntry ==
  ASSUME NEW p, NEW f, NEW g, NEW id \in FarIds,
         \A other \in FarIds : other # id => Get(g, other) = Get(f, other)
  PROVE  \A i \in Ids :
           TableFor(p, g)[i] = IF i = <<"far", id>> THEN Get(g, id) ELSE TableFor(p, f)[i]
<1> DEFINE T == [TableFor(p, f) EXCEPT ![<<"far", id>>] = Get(g, id)]
<1>1. DOMAIN TableFor(p, f) = Ids
  BY DEF TableFor
<1>2. T = [i \in Ids |-> T[i]]
  BY <1>1
<1>3. ASSUME NEW k \in FarIds PROVE T[<<"far", k>>] = Get(g, k)
  <2>1. CASE k = id
    BY <1>1, <2>1, TableIs
  <2>2. CASE k # id
    <3>1. <<"far", k>> # <<"far", id>> /\ <<"far", k>> \in Ids
      BY <2>2, TableIs
    <3>2. T[<<"far", k>>] = TableFor(p, f)[<<"far", k>>]
      BY <1>1, <3>1
    <3> QED
      BY <2>2, <3>2, TableIs
  <2> QED
    BY <2>1, <2>2
<1>4. ASSUME NEW k \in PdrIds PROVE T[<<"pdr", k>>] = Get(p, k)
  <2>1. <<"pdr", k>> # <<"far", id>> /\ <<"pdr", k>> \in Ids
    BY TableIs
  <2>2. T[<<"pdr", k>>] = TableFor(p, f)[<<"pdr", k>>]
    BY <1>1, <2>1
  <2> QED
    BY <2>2, TableIs
<1>6. \A i \in Ids : T[i] = IF i = <<"far", id>> THEN Get(g, id) ELSE TableFor(p, f)[i]
  BY <1>1
<1> HIDE DEF T
<1>5. TableFor(p, g) = T
  BY <1>2, <1>3, <1>4, TableEqual
<1> QED
  BY <1>5, <1>6

(* A request on one rule, as a step of the abstract table. *)
LEMMA EntryStep ==
  ASSUME NEW i \in Ids, NEW r, Table' = [Table EXCEPT ![i] = r],
         \/ r \in Pdr \cup Far /\ Table[i] = None /\ Answer("create", i, TRUE)
         \/ r \in Pdr \cup Far /\ Table[i] # None /\ Answer("update", i, TRUE)
         \/ r = None /\ Table[i] # None /\ Answer("remove", i, TRUE)
  PROVE  Rules!Next
<1>1. DOMAIN Table = Ids
  BY DEF Table
<1>2. Table'[i] = r
  BY <1>1
<1>3. Table' = [Table EXCEPT ![i] = Table'[i]]
  BY <1>2
<1>4. CASE r \in Pdr \cup Far /\ Table[i] = None /\ Answer("create", i, TRUE)
  <2>1. Rules!Create(i)
    BY <1>2, <1>3, <1>4 DEF Answer, Rules!Create, Rules!Store, Rules!Answer
  <2> QED
    BY <2>1 DEF Rules!Next
<1>5. CASE r \in Pdr \cup Far /\ Table[i] # None /\ Answer("update", i, TRUE)
  <2>1. Rules!Update(i)
    BY <1>2, <1>3, <1>5 DEF Answer, Rules!Update, Rules!Store, Rules!Answer
  <2> QED
    BY <2>1 DEF Rules!Next
<1>6. CASE r = None /\ Table[i] # None /\ Answer("remove", i, TRUE)
  <2>1. Rules!Remove(i)
    BY <1>6 DEF Answer, Rules!Remove, Rules!Answer
  <2> QED
    BY <2>1 DEF Rules!Next
<1> QED
  BY <1>4, <1>5, <1>6

-----------------------------------------------------------------------------
Answers == [op : {"none", "create", "update", "remove", "deploy", "cleanup"},
            rule : Optional(Ids), ok : BOOLEAN]

(* The types of the two vectors, in the form the lemmas on vectors want. *)
LEMMA Vectors ==
  ASSUME UniqueInv
  PROVE  /\ pdrs \in Seq(Pdr) /\ Unique(pdrs) /\ Len(pdrs) \in Nat /\ Len(pdrs) <= MaxRules
         /\ fars \in Seq(Far) /\ Unique(fars) /\ Len(fars) \in Nat /\ Len(fars) <= MaxRules
         /\ Table = TableFor(pdrs, fars) /\ Table' = TableFor(pdrs', fars')
         /\ MaxRules \in Nat
BY LenProperties, PfcpAssumption DEF UniqueInv, PfcpTypeOK, Table, TableFor

(* A request on one PDR that leaves the vector of PDRs in order. *)
LEMMA PdrRequest ==
  ASSUME UniqueInv, UNCHANGED <<fars, deployed>>, NEW id \in PdrIds,
         pdrs' \in Seq(Pdr), Len(pdrs') <= MaxRules, Unique(pdrs'),
         \A other : other # id => Get(pdrs', other) = Get(pdrs, other),
         \/ Get(pdrs', id) \in Pdr /\ Get(pdrs, id) = None /\ Accept("create", "pdr", id)
         \/ Get(pdrs', id) \in Pdr /\ Get(pdrs, id) # None /\ Accept("update", "pdr", id)
         \/ Get(pdrs', id) = None /\ Get(pdrs, id) # None /\ Accept("remove", "pdr", id)
  PROVE  UniqueInv' /\ Rules!Next
<1>1. <<"pdr", id>> \in Ids /\ Table[<<"pdr", id>>] = Get(pdrs, id)
  BY Vectors, TableIs
<1>2. Table' = [Table EXCEPT ![<<"pdr", id>>] = Get(pdrs', id)]
  <2>1. Table = TableFor(pdrs, fars) /\ Table' = TableFor(pdrs', fars)
    BY Vectors
  <2>2. \A other \in PdrIds : other # id => Get(pdrs', other) = Get(pdrs, other)
    OBVIOUS
  <2>3. \A i \in Ids : TableFor(pdrs', fars)[i] =
          IF i = <<"pdr", id>> THEN Get(pdrs', id) ELSE TableFor(pdrs, fars)[i]
    BY <2>2, PdrEntry
  <2>4. DOMAIN TableFor(pdrs, fars) = Ids
        /\ TableFor(pdrs', fars) = [i \in Ids |-> TableFor(pdrs', fars)[i]]
    BY DEF TableFor
  <2> QED
    BY <2>1, <2>3, <2>4
<1>3. Rules!Next
  BY <1>1, <1>2, EntryStep DEF Accept
<1>4. answer' \in Answers
  <2>1. PICK op \in {"create", "update", "remove"} :
          answer' = [op |-> op, rule |-> <<"pdr", id>>, ok |-> TRUE]
    BY DEF Accept, Answer
  <2> DEFINE i == <<"pdr", id>>
  <2>2. i \in Optional(Ids)
    BY <1>1 DEF Optional
  <2> HIDE DEF i
  <2>3. [op |-> op, rule |-> i, ok |-> TRUE] \in Answers
    BY <2>2 DEF Answers
  <2> QED
    BY <2>1, <2>3 DEF i
<1> QED
  BY <1>3, <1>4 DEF UniqueInv, PfcpTypeOK, Answers

(* A request on one FAR. *)
LEMMA FarRequest ==
  ASSUME UniqueInv, UNCHANGED <<pdrs, deployed>>, NEW id \in FarIds,
         fars' \in Seq(Far), Len(fars') <= MaxRules, Unique(fars'),
         \A other : other # id => Get(fars', other) = Get(fars, other),
         \/ Get(fars', id) \in Far /\ Get(fars, id) = None /\ Accept("create", "far", id)
         \/ Get(fars', id) \in Far /\ Get(fars, id) # None /\ Accept("update", "far", id)
         \/ Get(fars', id) = None /\ Get(fars, id) # None /\ Accept("remove", "far", id)
  PROVE  UniqueInv' /\ Rules!Next
<1>1. <<"far", id>> \in Ids /\ Table[<<"far", id>>] = Get(fars, id)
  BY Vectors, TableIs
<1>2. Table' = [Table EXCEPT ![<<"far", id>>] = Get(fars', id)]
  <2>1. Table = TableFor(pdrs, fars) /\ Table' = TableFor(pdrs, fars')
    BY Vectors
  <2>2. \A other \in FarIds : other # id => Get(fars', other) = Get(fars, other)
    OBVIOUS
  <2>3. \A i \in Ids : TableFor(pdrs, fars')[i] =
          IF i = <<"far", id>> THEN Get(fars', id) ELSE TableFor(pdrs, fars)[i]
    BY <2>2, FarEntry
  <2>4. DOMAIN TableFor(pdrs, fars) = Ids
        /\ TableFor(pdrs, fars') = [i \in Ids |-> TableFor(pdrs, fars')[i]]
    BY DEF TableFor
  <2> QED
    BY <2>1, <2>3, <2>4
<1>3. Rules!Next
  BY <1>1, <1>2, EntryStep DEF Accept
<1>4. answer' \in Answers
  <2>1. PICK op \in {"create", "update", "remove"} :
          answer' = [op |-> op, rule |-> <<"far", id>>, ok |-> TRUE]
    BY DEF Accept, Answer
  <2> DEFINE i == <<"far", id>>
  <2>2. i \in Optional(Ids)
    BY <1>1 DEF Optional
  <2> HIDE DEF i
  <2>3. [op |-> op, rule |-> i, ok |-> TRUE] \in Answers
    BY <2>2 DEF Answers
  <2> QED
    BY <2>1, <2>3 DEF i
<1> QED
  BY <1>3, <1>4 DEF UniqueInv, PfcpTypeOK, Answers

(* A refused request changes no rule. *)
LEMMA Refused ==
  ASSUME UniqueInv, NEW op \in {"create", "update", "remove"}, Refuse(op)
  PROVE  UniqueInv' /\ Rules!Next
<1>1. UNCHANGED <<pdrs, fars, deployed>> /\ answer' = [op |-> op, rule |-> None, ok |-> FALSE]
  BY DEF Refuse, Answer
<1>2. answer' \in Answers
  BY <1>1 DEF Answers, Optional
<1>3. Table' = Table
  BY <1>1, Vectors
<1>4. Rules!Refuse
  BY <1>1, <1>3 DEF Rules!Refuse, Rules!Answer
<1> QED
  BY <1>1, <1>2, <1>4 DEF UniqueInv, PfcpTypeOK, Answers, Rules!Next

(* The requests on PDRs. *)
LEMMA PdrSteps ==
  ASSUME UniqueIds, UniqueInv,
         \/ \E c \in CreatePdrs : CreatePdr(c) \/ CreatePdrRefused(c)
         \/ \E u \in UpdatePdrs : UpdatePdr(u)
         \/ \E id \in PdrIds : RemovePdr(id)
  PROVE  UniqueInv' /\ Rules!Next
<1>0. /\ pdrs \in Seq(Pdr) /\ Unique(pdrs) /\ Len(pdrs) \in Nat /\ Len(pdrs) <= MaxRules
      /\ MaxRules \in Nat /\ None \notin Pdr
  BY Vectors, PfcpAssumption
<1>1. ASSUME NEW c \in CreatePdrs, CreatePdr(c) PROVE UniqueInv' /\ Rules!Next
  <2>1. /\ c \in Pdr /\ ~Has(pdrs, c.id) /\ Len(pdrs) < MaxRules /\ pdrs' = Append(pdrs, c)
        /\ Accept("create", "pdr", c.id) /\ UNCHANGED <<fars, deployed>>
    BY <1>1, PdrAdmitted DEF CreatePdr, Unused
  <2>2. c.id \in PdrIds
    BY <2>1 DEF Pdr
  <2>3. /\ pdrs' \in Seq(Pdr) /\ Len(pdrs') = Len(pdrs) + 1 /\ Unique(pdrs')
        /\ Get(pdrs', c.id) = c
        /\ \A id : id # c.id => Get(pdrs', id) = Get(pdrs, id)
    BY <1>0, <2>1, Appended
  <2>4. Get(pdrs, c.id) = None
    BY <2>1 DEF Get
  <2>5. Len(pdrs') <= MaxRules
    BY <1>0, <2>1, <2>3
  <2> QED
    BY <2>1, <2>2, <2>3, <2>4, <2>5, PdrRequest
<1>2. ASSUME NEW c \in CreatePdrs, CreatePdrRefused(c) PROVE UniqueInv' /\ Rules!Next
  BY <1>2, Refused DEF CreatePdrRefused
<1>3. ASSUME NEW u \in UpdatePdrs, UpdatePdr(u) PROVE UniqueInv' /\ Rules!Next
  <2> DEFINE n == First(pdrs, u.id)
             r == UpdatedPdr(pdrs[n], u)
  <2>1. Has(pdrs, u.id) /\ Accept("update", "pdr", u.id) /\ UNCHANGED <<fars, deployed>>
        /\ pdrs' = [pdrs EXCEPT ![n] = r]
    BY <1>3 DEF UpdatePdr
  <2>2. /\ n \in DOMAIN pdrs /\ pdrs[n].id = u.id /\ Get(pdrs, u.id) = pdrs[n]
        /\ pdrs[n] \in Pdr
    BY <1>0, <2>1, GetIs
  <2> HIDE DEF n
  <2>3. r \in Pdr /\ r.id = u.id /\ u.id \in PdrIds
    BY <2>2, PdrUpdated
  <2> HIDE DEF r
  <2>4. /\ pdrs' \in Seq(Pdr) /\ Len(pdrs') = Len(pdrs) /\ Unique(pdrs')
        /\ Get(pdrs', u.id) = r
        /\ \A id : id # u.id => Get(pdrs', id) = Get(pdrs, id)
    <3>1. /\ r.id = pdrs[n].id /\ pdrs' \in Seq(Pdr) /\ DOMAIN pdrs' = DOMAIN pdrs
          /\ \A m \in DOMAIN pdrs : pdrs'[m] = IF m = n THEN r ELSE pdrs[m]
      BY <1>0, <2>1, <2>2, <2>3, Overwritten
    <3>2. /\ pdrs' \in Seq(Pdr) /\ Len(pdrs') = Len(pdrs) /\ Unique(pdrs')
          /\ Get(pdrs', r.id) = r
          /\ \A id : id # r.id => Get(pdrs', id) = Get(pdrs, id)
      BY <1>0, <2>2, <2>3, <3>1, Replaced
    <3> QED
      BY <2>3, <3>2
  <2>5. Get(pdrs, u.id) # None
    BY <1>0, <2>2
  <2> QED
    BY <1>0, <2>1, <2>3, <2>4, <2>5, PdrRequest
<1>4. ASSUME NEW id \in PdrIds, RemovePdr(id) PROVE UniqueInv' /\ Rules!Next
  <2>1. /\ Has(pdrs, id) /\ Accept("remove", "pdr", id) /\ UNCHANGED <<fars, deployed>>
        /\ pdrs' = Erase(pdrs, id)
    BY <1>4 DEF RemovePdr
  <2>2. /\ pdrs' \in Seq(Pdr) /\ Len(pdrs') = Len(pdrs) - 1 /\ Unique(pdrs')
        /\ ~Has(pdrs', id)
        /\ \A other : other # id => Get(pdrs', other) = Get(pdrs, other)
    BY <1>0, <2>1, Erased
  <2>3. Get(pdrs', id) = None /\ Get(pdrs, id) # None
    BY <1>0, <2>1, <2>2, GetIs DEF Get
  <2>4. Len(pdrs') <= MaxRules
    BY <1>0, <2>2
  <2> QED
    BY <2>1, <2>2, <2>3, <2>4, PdrRequest
<1> QED
  BY <1>1, <1>2, <1>3, <1>4

(* The requests on FARs. *)
LEMMA FarSteps ==
  ASSUME UniqueIds, UniqueInv,
         \/ \E c \in CreateFars : CreateFar(c) \/ CreateFarRefused(c)
         \/ \E u \in UpdateFars : UpdateFar(u)
         \/ \E id \in FarIds : RemoveFar(id)
  PROVE  UniqueInv' /\ Rules!Next
<1>0. /\ fars \in Seq(Far) /\ Unique(fars) /\ Len(fars) \in Nat /\ Len(fars) <= MaxRules
      /\ MaxRules \in Nat /\ None \notin Far
  BY Vectors, PfcpAssumption
<1>1. ASSUME NEW c \in CreateFars, CreateFar(c) PROVE UniqueInv' /\ Rules!Next
  <2> DEFINE r == [id |-> c.id, forw |-> c.forw, dupl |-> c.dupl, hasFwd |-> c.fwd # None,
                   fwd |-> IF c.fwd = None THEN [dest |-> 0, header |-> 0] ELSE c.fwd,
                   hasDup |-> c.dup]
  <2>1. /\ r \in Far /\ c.id \in FarIds /\ ~Has(fars, c.id) /\ Len(fars) < MaxRules
        /\ Accept("create", "far", c.id) /\ UNCHANGED <<pdrs, deployed>>
    BY <1>1, FarAdmitted DEF CreateFar, Unused
  <2>2. fars' = Append(fars, r) /\ r.id = c.id
    BY <1>1 DEF CreateFar
  <2> HIDE DEF r
  <2>3. /\ fars' \in Seq(Far) /\ Len(fars') = Len(fars) + 1 /\ Unique(fars')
        /\ Get(fars', c.id) = r
        /\ \A id : id # c.id => Get(fars', id) = Get(fars, id)
    <3>1. ~Has(fars, r.id)
      BY <2>1, <2>2
    <3>2. /\ fars' \in Seq(Far) /\ Len(fars') = Len(fars) + 1 /\ Unique(fars')
          /\ Get(fars', r.id) = r
          /\ \A id : id # r.id => Get(fars', id) = Get(fars, id)
      BY <1>0, <2>1, <2>2, <3>1, Appended
    <3> QED
      BY <2>2, <3>2
  <2>4. Get(fars, c.id) = None
    BY <2>1 DEF Get
  <2>5. Len(fars') <= MaxRules
    BY <1>0, <2>1, <2>3
  <2> QED
    BY <2>1, <2>2, <2>3, <2>4, <2>5, FarRequest
<1>2. ASSUME NEW c \in CreateFars, CreateFarRefused(c) PROVE UniqueInv' /\ Rules!Next
  BY <1>2, Refused DEF CreateFarRefused
<1>3. ASSUME NEW u \in UpdateFars, UpdateFar(u) PROVE UniqueInv' /\ Rules!Next
  <2> DEFINE n == First(fars, u.id)
             r == UpdatedFar(fars[n], u)
  <2>1. Has(fars, u.id) /\ Accept("update", "far", u.id) /\ UNCHANGED <<pdrs, deployed>>
        /\ fars' = [fars EXCEPT ![n] = r]
    BY <1>3 DEF UpdateFar
  <2>2. /\ n \in DOMAIN fars /\ fars[n].id = u.id /\ Get(fars, u.id) = fars[n]
        /\ fars[n] \in Far
    BY <1>0, <2>1, GetIs
  <2> HIDE DEF n
  <2>3. r \in Far /\ r.id = u.id /\ u.id \in FarIds
    BY <2>2, FarUpdated
  <2> HIDE DEF r
  <2>4. /\ fars' \in Seq(Far) /\ Len(fars') = Len(fars) /\ Unique(fars')
        /\ Get(fars', u.id) = r
        /\ \A id : id # u.id => Get(fars', id) = Get(fars, id)
    <3>1. /\ r.id = fars[n].id /\ fars' \in Seq(Far) /\ DOMAIN fars' = DOMAIN fars
          /\ \A m \in DOMAIN fars : fars'[m] = IF m = n THEN r ELSE fars[m]
      BY <1>0, <2>1, <2>2, <2>3, Overwritten
    <3>2. /\ fars' \in Seq(Far) /\ Len(fars') = Len(fars) /\ Unique(fars')
          /\ Get(fars', r.id) = r
          /\ \A id : id # r.id => Get(fars', id) = Get(fars, id)
      BY <1>0, <2>2, <2>3, <3>1, Replaced
    <3> QED
      BY <2>3, <3>2
  <2>5. Get(fars, u.id) # None
    BY <1>0, <2>2
  <2> QED
    BY <1>0, <2>1, <2>3, <2>4, <2>5, FarRequest
<1>4. ASSUME NEW id \in FarIds, RemoveFar(id) PROVE UniqueInv' /\ Rules!Next
  <2>1. /\ Has(fars, id) /\ Accept("remove", "far", id) /\ UNCHANGED <<pdrs, deployed>>
        /\ fars' = Erase(fars, id)
    BY <1>4 DEF RemoveFar
  <2>2. /\ fars' \in Seq(Far) /\ Len(fars') = Len(fars) - 1 /\ Unique(fars')
        /\ ~Has(fars', id)
        /\ \A other : other # id => Get(fars', other) = Get(fars, other)
    BY <1>0, <2>1, Erased
  <2>3. Get(fars', id) = None /\ Get(fars, id) # None
    BY <1>0, <2>1, <2>2, GetIs DEF Get
  <2>4. Len(fars') <= MaxRules
    BY <1>0, <2>2
  <2> QED
    BY <2>1, <2>2, <2>3, <2>4, FarRequest
<1> QED
  BY <1>1, <1>2, <1>3, <1>4

(* A deployment, whether it is refused after its sort or not, changes no rule. *)
LEMMA SortStep ==
  ASSUME UniqueInv, NEW s \in Sorted(pdrs), pdrs' = s, fars' = fars
  PROVE  /\ pdrs' \in Seq(Pdr) /\ Len(pdrs') <= MaxRules /\ Unique(pdrs')
         /\ Table' = Table
<1>1. pdrs \in Seq(Pdr) /\ Unique(pdrs) /\ Len(pdrs) <= MaxRules
      /\ Table = TableFor(pdrs, fars) /\ Table' = TableFor(s, fars)
  BY Vectors
<1>2. s \in Seq(Pdr) /\ Len(s) = Len(pdrs) /\ Unique(s) /\ \A id : Get(s, id) = Get(pdrs, id)
  BY <1>1, Reordered
<1>3. TableFor(s, fars) = TableFor(pdrs, fars)
  <2> DEFINE T == TableFor(pdrs, fars)
  <2>1. T = [i \in Ids |-> T[i]]
    BY DEF TableFor
  <2>2. /\ \A id \in PdrIds : T[<<"pdr", id>>] = Get(s, id)
        /\ \A id \in FarIds : T[<<"far", id>>] = Get(fars, id)
    BY <1>2, TableIs
  <2> HIDE DEF T
  <2>3. TableFor(s, fars) = T
    BY <2>1, <2>2, TableEqual
  <2> QED
    BY <2>3 DEF T
<1> QED
  BY <1>1, <1>2, <1>3

(* What is deployed was asked for by the first of the sorted PDRs. *)
LEMMA DeploySteps ==
  ASSUME UniqueInv, Deploy \/ DeployRefused
  PROVE  UniqueInv' /\ Rules!Next
<1>1. CASE Deploy
  <2>1. PICK s \in Sorted(pdrs), ok \in BOOLEAN :
          /\ s # <<>> /\ Deployable(s[1]) /\ pdrs' = s /\ fars' = fars
          /\ deployed' = [flow |-> s[1].pdi.flow,
                          forw |-> fars[First(fars, s[1].far)].forw,
                          fwd |-> fars[First(fars, s[1].far)].fwd]
          /\ answer' = [op |-> "deploy", rule |-> None, ok |-> ok]
    BY <1>1 DEF Deploy, Answer
  <2>2. /\ pdrs' \in Seq(Pdr) /\ Len(pdrs') <= MaxRules /\ Unique(pdrs') /\ Table' = Table
    BY <2>1, SortStep
  <2>3. s \in Seq(Pdr)
    BY <2>1, <2>2
  <2>4. s[1] \in Pdr
    BY <2>1, <2>3, ElementOfSeq, EmptySeq, LenProperties
  <2>5. s[1].pdi.flow \in Flows
    BY <2>4 DEF Pdr, Pdi
  <2> DEFINE far == fars[First(fars, s[1].far)]
  <2>6. far \in Far
    BY <2>1, Vectors, GetIs DEF Deployable
  <2> HIDE DEF far
  <2>7. far.forw \in BOOLEAN /\ far.fwd \in Parameters
    BY <2>6 DEF Far
  <2>8. deployed' \in Optional(DeployedType)
    <3>1. deployed' = [flow |-> s[1].pdi.flow, forw |-> far.forw, fwd |-> far.fwd]
      BY <2>1 DEF far
    <3> QED
      BY <2>5, <2>7, <3>1 DEF DeployedType, Optional
  <2>9. answer' \in Answers
    BY <2>1 DEF Answers, Optional
  <2>10. UniqueInv'
    BY <2>1, <2>2, <2>8, <2>9 DEF UniqueInv, PfcpTypeOK, Answers
  <2>11. Rules!Refuse \/ Rules!Deploy
    BY <2>1, <2>2 DEF Rules!Refuse, Rules!Deploy, Rules!Answer
  <2> QED
    BY <2>10, <2>11 DEF Rules!Next
<1>2. CASE DeployRefused
  <2>1. PICK s \in Sorted(pdrs) : pdrs' = s /\ UNCHANGED <<fars, deployed>>
          /\ answer' = [op |-> "deploy", rule |-> None, ok |-> FALSE]
    BY <1>2 DEF DeployRefused, Answer
  <2>2. /\ pdrs' \in Seq(Pdr) /\ Len(pdrs') <= MaxRules /\ Unique(pdrs') /\ Table' = Table
    BY <2>1, SortStep
  <2>3. answer' \in Answers
    BY <2>1 DEF Answers, Optional
  <2>4. UniqueInv'
    BY <2>1, <2>2, <2>3 DEF UniqueInv, PfcpTypeOK, Answers
  <2>5. Rules!Refuse
    BY <2>1, <2>2 DEF Rules!Refuse, Rules!Answer
  <2> QED
    BY <2>4, <2>5 DEF Rules!Next
<1> QED
  BY <1>1, <1>2

(* Two empty vectors are an empty table. *)
LEMMA EmptyTable ==
  /\ <<>> \in Seq(Pdr) /\ <<>> \in Seq(Far) /\ Len(<<>>) <= MaxRules /\ Unique(<<>>)
  /\ TableFor(<<>>, <<>>) = [i \in Ids |-> None]
<1>1. \A id : Get(<<>>, id) = None
  BY DEF Get, Has
<1> DEFINE T == [i \in Ids |-> None]
<1>2. T = [i \in Ids |-> T[i]]
  OBVIOUS
<1>3. /\ \A id \in PdrIds : T[<<"pdr", id>>] = Get(<<>>, id)
      /\ \A id \in FarIds : T[<<"far", id>>] = Get(<<>>, id)
  BY <1>1 DEF Ids
<1> HIDE DEF T
<1>4. TableFor(<<>>, <<>>) = T
  BY <1>2, <1>3, TableEqual
<1>5. <<>> \in Seq(Pdr) /\ <<>> \in Seq(Far) /\ Len(<<>>) <= MaxRules
  BY PfcpAssumption
<1>6. Unique(<<>>)
  BY DEF Unique
<1> QED
  BY <1>4, <1>5, <1>6 DEF T

(* A session starts without rules. *)
LEMMA InitUniqueInv == Init => UniqueInv /\ Rules!Init
<1> SUFFICES ASSUME Init PROVE UniqueInv /\ Rules!Init
  OBVIOUS
<1>1. answer \in Answers /\ deployed \in Optional(DeployedType)
  BY DEF Init, Answers, Optional
<1>2. UniqueInv
  BY <1>1, EmptyTable DEF Init, UniqueInv, PfcpTypeOK, Answers
<1>3. Table = [i \in Ids |-> None]
  BY <1>2, EmptyTable, Vectors DEF Init
<1> QED
  BY <1>2, <1>3 DEF Init, Rules!Init

(* Every request keeps ids unique and is a step of the table. *)
LEMMA NextUniqueInv ==
  ASSUME UniqueIds, UniqueInv, Next
  PROVE  UniqueInv' /\ Rules!Next
<1>1. CASE UpdateRefused \/ RemoveRefused
  BY <1>1, Refused DEF UpdateRefused, RemoveRefused
<1>2. ASSUME NEW c \in CreateFars, CreateFar(c) \/ CreateFarRefused(c)
      PROVE  UniqueInv' /\ Rules!Next
  BY <1>2, FarSteps
<1>3. CASE Cleanup
  <2>1. pdrs' = <<>> /\ fars' = <<>> /\ deployed' = deployed
        /\ answer' = [op |-> "cleanup", rule |-> None, ok |-> TRUE]
    BY <1>3 DEF Cleanup, Answer
  <2>2. answer' \in Answers
    BY <2>1 DEF Answers, Optional
  <2>3. UniqueInv'
    BY <2>1, <2>2, EmptyTable DEF UniqueInv, PfcpTypeOK, Answers
  <2>4. Table' = [i \in Ids |-> None]
    BY <2>1, EmptyTable, Vectors
  <2>5. Rules!Clear
    BY <2>1, <2>4 DEF Rules!Clear, Rules!Answer
  <2> QED
    BY <2>3, <2>5 DEF Rules!Next
<1> QED
  BY <1>1, <1>2, <1>3, PdrSteps, FarSteps, DeploySteps DEF Next

(* Ids stay unique throughout. *)
LEMMA UniqueInvariance ==
  ASSUME UniqueIds
  PROVE  Spec => []UniqueInv
<1>1. UniqueInv /\ [Next]_vars => UniqueInv'
  <2> SUFFICES ASSUME UniqueInv, UNCHANGED vars PROVE UniqueInv'
    BY NextUniqueInv
  <2> QED
    BY DEF vars, UniqueInv, PfcpTypeOK, Unique
<1> QED
  BY <1>1, InitUniqueInv, PTL DEF Spec

-----------------------------------------------------------------------------
(* The vectors and what is deployed keep their types. *)
THEOREM PfcpTypeCorrect ==
  ASSUME UniqueIds
  PROVE  Spec => []PfcpTypeOK
<1>1. UniqueInv => PfcpTypeOK
  BY DEF UniqueInv
<1> QED
  BY <1>1, UniqueInvariance, PTL

(* However many rules a session has, and in whatever order deployments leave them,
   pfcp_session is a table of rules: an accepted request changes what get returns for
   its own id and nothing else, a refused one nothing. *)
THEOREM RulesAreATable ==
  ASSUME UniqueIds
  PROVE  Spec => ImplementsRuleTable
<1>1. Init => Rules!Init
  BY InitUniqueInv
<1>2. UniqueInv /\ [Next]_vars => [Rules!Next]_<<Table, answer>>
  <2> SUFFICES ASSUME UniqueInv, UNCHANGED vars PROVE UNCHANGED <<Table, answer>>
    BY NextUniqueInv
  <2> QED
    BY DEF vars, Table
<1> QED
  BY <1>1, <1>2, UniqueInvariance, PTL DEF Spec, ImplementsRuleTable, Rules!Spec

(* createBPFSession deploys the flow of a PDR that none precedes, with the FAR that
   PDR refers to, for any number of rules. *)
THEOREM HighestIsDeployed ==
  ASSUME UniqueIds
  PROVE  Spec => DeployedIsHighest
<1> DEFINE Highest ==
      deployed' # deployed =>
        \E id \in PdrIds :
          LET pdr == Table[<<"pdr", id>>]  far == Table[<<"far", pdr.far>>] IN
            /\ pdr # None
            /\ \A other \in PdrIds : Table[<<"pdr", other>>] # None =>
                 pdr.precedence <= Table[<<"pdr", other>>].precedence
            /\ far # None
            /\ deployed' = [flow |-> pdr.pdi.flow, forw |-> far.forw, fwd |-> far.fwd]
<1>1. UniqueInv /\ [Next]_vars => [Highest]_vars
  <2> SUFFICES ASSUME UniqueInv, Next, deployed' # deployed PROVE Highest
    BY DEF vars
  <2>1. Deploy
    BY DEF Next, CreatePdr, CreatePdrRefused, CreateFar, CreateFarRefused, UpdatePdr, UpdateFar,
       RemovePdr, RemoveFar, UpdateRefused, RemoveRefused, Refuse, DeployRefused, Cleanup
  <2>2. PICK s \in Sorted(pdrs) :
          /\ s # <<>> /\ Deployable(s[1])
          /\ deployed' = [flow |-> s[1].pdi.flow,
                          forw |-> fars[First(fars, s[1].far)].forw,
                          fwd |-> fars[First(fars, s[1].far)].fwd]
    BY <2>1 DEF Deploy
  <2>3. /\ pdrs \in Seq(Pdr) /\ Unique(pdrs) /\ fars \in Seq(Far) /\ Unique(fars)
        /\ Table = TableFor(pdrs, fars) /\ None \notin Pdr /\ None \notin Far
    BY Vectors, PfcpAssumption
  <2>4. /\ s \in Seq(Pdr) /\ Unique(s) /\ DOMAIN s = DOMAIN pdrs
        /\ \A id : Get(s, id) = Get(pdrs, id)
        /\ \A m \in DOMAIN pdrs : \E n \in DOMAIN s : s[n] = pdrs[m]
        /\ \A m, n \in DOMAIN s : m < n => ~(s[n].precedence < s[m].precedence)
    BY <2>3, Reordered
  <2>5. DOMAIN s = 1 .. Len(s) /\ Len(s) \in Nat \ {0} /\ 1 \in DOMAIN s
    BY <2>2, <2>4, LenProperties, EmptySeq
  <2>6. \A n \in DOMAIN s : s[n] \in Pdr
    BY <2>4, <2>5, ElementOfSeq
  <2> DEFINE id == s[1].id
  <2>7. id \in PdrIds /\ s[1].far \in FarIds
    BY <2>2, <2>5, <2>6 DEF Pdr, Deployable, Optional
  <2>8. Table[<<"pdr", id>>] = s[1]
    <3>1. Get(s, id) = s[1]
      BY <2>4, <2>5, FirstIs
    <3> QED
      BY <2>3, <2>4, <2>7, <3>1, TableIs
  <2>9. Table[<<"far", s[1].far>>] = fars[First(fars, s[1].far)]
        /\ Table[<<"far", s[1].far>>] # None
    <3>1. Get(fars, s[1].far) = fars[First(fars, s[1].far)] /\ Get(fars, s[1].far) \in Far
      BY <2>2, <2>3, GetIs DEF Deployable
    <3> QED
      BY <2>3, <2>7, <3>1, TableIs
  <2>10. ASSUME NEW other \in PdrIds, Table[<<"pdr", other>>] # None
         PROVE  s[1].precedence <= Table[<<"pdr", other>>].precedence
    <3>1. Table[<<"pdr", other>>] = Get(pdrs, other)
      BY <2>3, TableIs
    <3>2. Has(pdrs, other)
      BY <2>10, <3>1 DEF Get
    <3>3. PICK m \in DOMAIN pdrs : Get(pdrs, other) = pdrs[m]
      BY <2>3, <3>2, GetIs
    <3>4. PICK n \in DOMAIN s : s[n] = pdrs[m]
      BY <2>4
    <3>5. s[1].precedence \in Nat /\ s[n].precedence \in Nat
      BY <2>5, <2>6, PfcpAssumption DEF Pdr
    <3>6. CASE n = 1
      BY <3>1, <3>3, <3>4, <3>5, <3>6
    <3>7. CASE n # 1
      <4>1. 1 < n
        BY <2>5, <3>7
      <4>2. ~(s[n].precedence < s[1].precedence)
        BY <2>4, <2>5, <4>1
      <4> QED
        BY <3>1, <3>3, <3>4, <3>5, <4>2
    <3> QED
      BY <3>6, <3>7
  <2> DEFINE pdr == Table[<<"pdr", id>>]
             far == Table[<<"far", pdr.far>>]
  <2>11. pdr = s[1] /\ far = fars[First(fars, s[1].far)] /\ far # None
    BY <2>8, <2>9
  <2>12. pdr # None
    BY <2>3, <2>5, <2>6, <2>11
  <2>13. \A other \in PdrIds : Table[<<"pdr", other>>] # None =>
           pdr.precedence <= Table[<<"pdr", other>>].precedence
    BY <2>10, <2>11
  <2>14. deployed' = [flow |-> pdr.pdi.flow, forw |-> far.forw, fwd |-> far.fwd]
    <3> HIDE DEF pdr, far
    <3> QED
      BY <2>2, <2>11
  <2> HIDE DEF id
  <2> QED
    BY <2>7, <2>11, <2>12, <2>13, <2>14, Zenon
<1>2. DeployedIsHighest <=> [][Highest]_vars
  BY DEF DeployedIsHighest
<1> QED
  BY <1>1, <1>2, UniqueInvariance, PTL DEF Spec
=============================================================================
