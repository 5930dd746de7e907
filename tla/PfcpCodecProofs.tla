-------------------------- MODULE PfcpCodecProofs ---------------------------
(***************************************************************************)
(* Theorems about PfcpCodec, for messages of any size: its type invariant, *)
(* the agreement of lengths and octets, and what becomes of a message on   *)
(* its way.  The lemmas about single elements are in PfcpElementProofs.    *)
(***************************************************************************)
EXTENDS PfcpElementProofs, FiniteSetTheorems

(* The stacks enc and dec are sequences; their entries hold contents of any
   depth of nesting. *)
IsSeq(s) == \E S : s \in Seq(S)

(* Pushing on a stack. *)
LEMMA StackAppend ==
  ASSUME NEW s, IsSeq(s), NEW x
  PROVE  /\ IsSeq(Append(s, x)) /\ Len(s) \in Nat /\ Len(Append(s, x)) = Len(s) + 1
         /\ DOMAIN Append(s, x) = 1 .. Len(s) + 1 /\ DOMAIN s = 1 .. Len(s)
         /\ \A i \in 1 .. Len(s) : Append(s, x)[i] = s[i]
         /\ Append(s, x)[Len(s) + 1] = x
<1>1. PICK S : s \in Seq(S)
  BY DEF IsSeq
<1>2. s \in Seq(S \cup {x}) /\ x \in S \cup {x}
  BY <1>1, SeqMonotonic
<1>3. /\ Append(s, x) \in Seq(S \cup {x}) /\ Len(Append(s, x)) = Len(s) + 1
      /\ \A i \in 1 .. Len(s) : Append(s, x)[i] = s[i]
      /\ Append(s, x)[Len(s) + 1] = x
  BY <1>2, AppendProperties
<1>4. /\ Len(s) \in Nat /\ DOMAIN s = 1 .. Len(s)
      /\ DOMAIN Append(s, x) = 1 .. Len(Append(s, x))
  BY <1>2, <1>3, LenProperties
<1> QED
  BY <1>3, <1>4 DEF IsSeq

(* Replacing an entry. *)
LEMMA StackPut ==
  ASSUME NEW s, IsSeq(s), NEW j \in 1 .. Len(s), NEW x
  PROVE  /\ IsSeq([s EXCEPT ![j] = x]) /\ Len(s) \in Nat
         /\ Len([s EXCEPT ![j] = x]) = Len(s)
         /\ DOMAIN [s EXCEPT ![j] = x] = 1 .. Len(s) /\ DOMAIN s = 1 .. Len(s)
         /\ [s EXCEPT ![j] = x][j] = x
         /\ \A i \in 1 .. Len(s) : i # j => [s EXCEPT ![j] = x][i] = s[i]
<1>1. PICK S : s \in Seq(S)
  BY DEF IsSeq
<1>2. s \in Seq(S \cup {x}) /\ x \in S \cup {x}
  BY <1>1, SeqMonotonic
<1>3. /\ [s EXCEPT ![j] = x] \in Seq(S \cup {x})
      /\ Len([s EXCEPT ![j] = x]) = Len(s)
      /\ \A i \in 1 .. Len(s) : [s EXCEPT ![j] = x][i] = IF i = j THEN x ELSE s[i]
  BY <1>2, ExceptSeq
<1>4. /\ Len(s) \in Nat /\ DOMAIN s = 1 .. Len(s)
      /\ DOMAIN [s EXCEPT ![j] = x] = 1 .. Len([s EXCEPT ![j] = x])
  BY <1>2, <1>3, LenProperties
<1> QED
  BY <1>3, <1>4 DEF IsSeq

(* Popping. *)
LEMMA StackCut ==
  ASSUME NEW s, IsSeq(s), NEW n \in 0 .. Len(s)
  PROVE  /\ IsSeq(SubSeq(s, 1, n)) /\ Len(SubSeq(s, 1, n)) = n
         /\ \A i \in 1 .. n : SubSeq(s, 1, n)[i] = s[i]
<1>1. PICK S : s \in Seq(S)
  BY DEF IsSeq
<1>2. Len(s) \in Nat /\ \A i \in 1 .. n : s[i] \in S
  BY <1>1, LenProperties, ElementOfSeq
<1>3. /\ SubSeq(s, 1, n) \in Seq(S)
      /\ Len(SubSeq(s, 1, n)) = IF 1 <= n THEN n - 1 + 1 ELSE 0
      /\ \A i \in 1 .. n - 1 + 1 : SubSeq(s, 1, n)[i] = s[1 + i - 1]
  BY <1>2, SubSeqProperties
<1>4. Len(SubSeq(s, 1, n)) = n /\ \A i \in 1 .. n : SubSeq(s, 1, n)[i] = s[i]
  BY SMTT(60), <1>2, <1>3
<1> QED
  BY <1>3, <1>4 DEF IsSeq

(* Replacing the last two entries by one. *)
LEMMA StackMerge ==
  ASSUME NEW s, IsSeq(s), Len(s) > 1, NEW x
  PROVE  LET r == Append(SubSeq(s, 1, Len(s) - 2), x)
         IN  /\ IsSeq(r) /\ Len(r) = Len(s) - 1 /\ Len(s) \in Nat
             /\ DOMAIN r = 1 .. Len(s) - 1 /\ DOMAIN s = 1 .. Len(s)
             /\ \A i \in 1 .. Len(s) - 2 : r[i] = s[i]
             /\ r[Len(s) - 1] = x
<1> DEFINE t == SubSeq(s, 1, Len(s) - 2)
           r == Append(t, x)
<1>1. Len(s) \in Nat /\ DOMAIN s = 1 .. Len(s)
  BY LenProperties DEF IsSeq
<1>2. Len(s) - 2 \in 0 .. Len(s)
  BY <1>1
<1>3. /\ IsSeq(t) /\ Len(t) = Len(s) - 2
      /\ \A i \in 1 .. Len(s) - 2 : t[i] = s[i]
  BY <1>2, StackCut
<1> HIDE DEF t
<1>4. /\ IsSeq(r) /\ Len(r) = Len(t) + 1
      /\ DOMAIN r = 1 .. Len(t) + 1
      /\ \A i \in 1 .. Len(t) : r[i] = t[i]
      /\ r[Len(t) + 1] = x
  BY <1>3, StackAppend
<1> HIDE DEF r
<1>5. Len(t) + 1 = Len(s) - 1
  BY <1>1, <1>3
<1>6. /\ IsSeq(r) /\ Len(r) = Len(s) - 1 /\ DOMAIN r = 1 .. Len(s) - 1
      /\ r[Len(s) - 1] = x
  BY <1>4, <1>5
<1>7. \A i \in 1 .. Len(s) - 2 : r[i] = s[i]
  BY <1>3, <1>4
<1> QED
  BY <1>1, <1>6, <1>7 DEF r, t

-----------------------------------------------------------------------------
(* Groups under construction. *)

Classes == DOMAIN Message \cup DOMAIN Grouped

(* A frame with its fields. *)
Parted(F, ie, slot, length, items, dumps, content) ==
  F = [ie |-> ie, slot |-> slot, length |-> length, items |-> items,
       dumps |-> dumps, content |-> content]

(* What a frame counts is no more than what it writes. *)
Sized(ie, length, items, dumps) ==
  /\ ie \in Classes /\ length \in Nat /\ length < 65536 /\ items \in Seq(ItemType)
  /\ dumps \in BOOLEAN
  /\ dumps => Positive(items) /\ length <= Octets(items)

IsFrame(F) ==
  \E a, n, l, it, d, c : Parted(F, a, n, l, it, d, c) /\ Sized(a, l, it, d)

(* Frames that differ in the slot only. *)
Like(F, E) ==
  /\ F.ie = E.ie /\ F.length = E.length /\ F.items = E.items
  /\ F.dumps = E.dumps /\ F.content = E.content

(* F1 is F0 with one more element: ie, which counts by length, its TLV and the
   fields behind it. *)
Grown(F0, F1, ie, length, tlv, body, dumps, v) ==
  /\ F1.ie = F0.ie
  /\ F1.length = Uint16(F0.length + 4 + length)
  /\ F1.items = F0.items \o (<<Tlv(ie, tlv)>> \o body)
  /\ F1.dumps <=> F0.dumps /\ dumps
  /\ F1.content = With(F0.content, ie, v, TRUE)

(* The fields of a frame. *)
LEMMA PartedFields ==
  ASSUME NEW F, NEW a, NEW n, NEW l, NEW it, NEW d, NEW c, Parted(F, a, n, l, it, d, c)
  PROVE  /\ F.ie = a /\ F.slot = n /\ F.length = l /\ F.items = it
         /\ F.dumps = d /\ F.content = c
BY DEF Parted

(* A frame with some of its fields replaced. *)
LEMMA PartedExcept ==
  ASSUME NEW F, NEW a, NEW n, NEW l, NEW it, NEW d, NEW c, Parted(F, a, n, l, it, d, c),
         NEW l2, NEW it2, NEW d2, NEW c2, NEW n2
  PROVE  /\ Parted([F EXCEPT !.length = l2, !.items = it2, !.dumps = d2, !.content = c2],
                   a, n, l2, it2, d2, c2)
         /\ Parted([F EXCEPT !.slot = n2], a, n2, l, it, d, c)
<1> DEFINE R(l1, it1, d1, c1) == [ie |-> a, slot |-> n, length |-> l1, items |-> it1,
                                  dumps |-> d1, content |-> c1]
<1>1. [R(l, it, d, c) EXCEPT !.length = l2] = R(l2, it, d, c)
  BY SMT
<1>2. [R(l2, it, d, c) EXCEPT !.items = it2] = R(l2, it2, d, c)
  BY SMT
<1>3. [R(l2, it2, d, c) EXCEPT !.dumps = d2] = R(l2, it2, d2, c)
  BY SMT
<1>4. [R(l2, it2, d2, c) EXCEPT !.content = c2] = R(l2, it2, d2, c2)
  BY SMT
<1>5. [R(l, it, d, c) EXCEPT !.slot = n2] = [ie |-> a, slot |-> n2, length |-> l,
                                             items |-> it, dumps |-> d, content |-> c]
  BY SMT
<1>6. F = R(l, it, d, c)
  BY Zenon DEF Parted
<1>7. Parted([F EXCEPT !.slot = n2], a, n2, l, it, d, c)
  BY <1>5, <1>6, Zenon DEF Parted
<1> HIDE DEF R
<1>8. [F EXCEPT !.length = l2, !.items = it2, !.dumps = d2, !.content = c2]
        = R(l2, it2, d2, c2)
  BY <1>1, <1>2, <1>3, <1>4, <1>6, Zenon
<1> QED
  BY <1>7, <1>8, Zenon DEF Parted, R

(* What is known of the fields of a frame. *)
LEMMA FrameFields ==
  ASSUME NEW F, IsFrame(F)
  PROVE  /\ Sized(F.ie, F.length, F.items, F.dumps)
         /\ Parted(F, F.ie, F.slot, F.length, F.items, F.dumps, F.content)
<1>1. PICK a, n, l, it, d, c : Parted(F, a, n, l, it, d, c) /\ Sized(a, l, it, d)
  BY DEF IsFrame
<1>2. /\ F.ie = a /\ F.slot = n /\ F.length = l /\ F.items = it
      /\ F.dumps = d /\ F.content = c
  BY <1>1, PartedFields
<1> QED
  BY <1>1, <1>2, Zenon

(* Sixteen bits. *)
LEMMA Sixteen ==
  ASSUME NEW n \in Nat
  PROVE  /\ Uint16(n) \in Nat /\ Uint16(n) < 65536 /\ Uint16(n) <= n
         /\ n < 65536 => Uint16(n) = n
         /\ \A k \in Nat : Uint16(Uint16(n) + k) = Uint16(n + k)
         /\ \A k \in Nat : Uint16(Uint16(n + k) - k) = Uint16(n)
BY DEF Uint16

(* A TLV and the items behind it. *)
LEMMA ElementItems ==
  ASSUME NEW ie \in Leaves \cup DOMAIN Grouped, NEW l \in Nat, NEW s \in Seq(ItemType)
  PROVE  /\ Tlv(ie, l) \in ItemType
         /\ <<Tlv(ie, l)>> \in Seq(ItemType)
         /\ <<Tlv(ie, l)>> \o s \in Seq(ItemType)
         /\ Octets(<<Tlv(ie, l)>> \o s) = 4 + Octets(s)
         /\ Positive(s) => Positive(<<Tlv(ie, l)>> \o s)
<1>1. Tlv(ie, l) \in ItemType /\ Tlv(ie, l).n = 4
  BY DEF Tlv, tlv_ie_length, ItemType, TlvType
<1> DEFINE t == <<Tlv(ie, l)>>
<1>2. t \in Seq(ItemType) /\ Octets(t) = 4 /\ Positive(t)
  BY <1>1, OctetsFew DEF Positive
<1> HIDE DEF t
<1>3. t \o s \in Seq(ItemType) /\ Octets(t \o s) = 4 + Octets(s)
  BY <1>2, OctetsConcat
<1>4. Positive(s) => Positive(t \o s)
  BY <1>2, PositiveConcat
<1> QED
  BY <1>1, <1>2, <1>3, <1>4 DEF t

(* The sizes after one more element. *)
LEMMA SizedGrows ==
  ASSUME NEW a, NEW l, NEW it, NEW d, Sized(a, l, it, d),
         NEW ie \in Leaves \cup DOMAIN Grouped, NEW length \in Nat,
         NEW tlv \in Nat, NEW body \in Seq(ItemType), NEW dumps \in BOOLEAN,
         dumps => Positive(body) /\ length <= Octets(body),
         NEW b \in BOOLEAN, b => d /\ dumps
  PROVE  Sized(a, Uint16(l + 4 + length), it \o (<<Tlv(ie, tlv)>> \o body), b)
<1> DEFINE items == <<Tlv(ie, tlv)>> \o body
           l1 == Uint16(l + 4 + length)
           it1 == it \o items
<1>1. /\ items \in Seq(ItemType) /\ Octets(items) = 4 + Octets(body)
      /\ Positive(body) => Positive(items)
  BY ElementItems
<1> HIDE DEF items
<1>2. /\ a \in Classes /\ l \in Nat /\ l < 65536 /\ it \in Seq(ItemType) /\ d \in BOOLEAN
      /\ d => Positive(it) /\ l <= Octets(it)
  BY DEF Sized
<1>3. l + 4 + length \in Nat
  BY <1>2
<1>4. l1 \in Nat /\ l1 < 65536 /\ l1 <= l + 4 + length
  BY SMTT(60), <1>3, Sixteen
<1> HIDE DEF l1
<1>5. it1 \in Seq(ItemType) /\ Octets(it1) = Octets(it) + Octets(items)
  BY <1>1, <1>2, OctetsConcat
<1>6. ASSUME b PROVE Positive(it1) /\ l1 <= Octets(it1)
  <2>1. d /\ dumps
    BY <1>6
  <2>2. Positive(it) /\ Positive(items)
    BY <1>1, <1>2, <2>1
  <2>3. Positive(it1)
    BY <1>1, <1>2, <2>2, PositiveConcat
  <2>4. l <= Octets(it) /\ length <= Octets(body)
    BY <1>2, <2>1
  <2>5. Octets(it) \in Nat /\ Octets(body) \in Nat
    BY <1>2, OctetsNat
  <2>6. l1 <= Octets(it1)
    BY <1>1, <1>2, <1>4, <1>5, <2>4, <2>5
  <2> QED
    BY <2>3, <2>6
<1> HIDE DEF it1
<1>7. b \in BOOLEAN /\ (b => Positive(it1) /\ l1 <= Octets(it1))
  BY <1>6
<1>8. Sized(a, l1, it1, b)
  BY <1>2, <1>4, <1>5, <1>7 DEF Sized
<1> QED
  BY <1>8, Zenon DEF l1, it1, items

(* add_ie makes a frame of a frame. *)
LEMMA AddIe ==
  ASSUME NEW F, IsFrame(F), NEW ie \in Leaves \cup DOMAIN Grouped, NEW length \in Nat,
         NEW tlv \in Nat, NEW body \in Seq(ItemType), NEW dumps \in BOOLEAN, NEW v,
         dumps => Positive(body) /\ length <= Octets(body)
  PROVE  LET E == add_ie(F, ie, length, <<Tlv(ie, tlv)>> \o body, dumps, v)
         IN  IsFrame(E) /\ Grown(F, E, ie, length, tlv, body, dumps, v)
<1> DEFINE E == add_ie(F, ie, length, <<Tlv(ie, tlv)>> \o body, dumps, v)
           l1 == Uint16(F.length + 4 + length)
           it1 == F.items \o (<<Tlv(ie, tlv)>> \o body)
           b == F.dumps /\ dumps
           c1 == With(F.content, ie, v, TRUE)
<1>1. /\ Sized(F.ie, F.length, F.items, F.dumps)
      /\ Parted(F, F.ie, F.slot, F.length, F.items, F.dumps, F.content)
  BY FrameFields
<1>2. E = [F EXCEPT !.length = l1, !.items = it1, !.dumps = b, !.content = c1]
  BY Zenon DEF add_ie, tlv_ie_length
<1>3. b \in BOOLEAN /\ (b => F.dumps /\ dumps) /\ (F.dumps /\ dumps => b)
  BY Zenon
<1> HIDE DEF l1, it1, b, c1, E
<1>4. Parted(E, F.ie, F.slot, l1, it1, b, c1)
  BY <1>1, <1>2, PartedExcept
<1>5. Sized(F.ie, l1, it1, b)
  BY <1>1, <1>3, SizedGrows DEF l1, it1
<1>6. IsFrame(E)
  BY <1>4, <1>5, Zenon DEF IsFrame
<1>7. /\ E.ie = F.ie /\ E.length = l1 /\ E.items = it1 /\ E.dumps = b /\ E.content = c1
  BY <1>4, PartedFields
<1>8. Grown(F, E, ie, length, tlv, body, dumps, v)
  BY <1>3, <1>7, Zenon DEF Grown, l1, it1, c1
<1> QED
  BY <1>6, <1>8, Zenon DEF E

(* The same for an element that is not grouped. *)
LEMMA LeafGrows ==
  ASSUME NEW F, IsFrame(F), NEW ie \in Leaves, NEW o \in Options(ie)
  PROVE  LET c == Codec(ie, o, 0)
         IN  /\ IsFrame(Leaf(F, ie, o))
             /\ Grown(F, Leaf(F, ie, o), ie, c.length, c.tlv, c.dumped, c.dumps, c.value)
<1> DEFINE c == Codec(ie, o, 0)
<1>1. Formed(ie, o)
  BY EveryElement DEF Sorted
<1>2. /\ c.length \in Nat /\ c.tlv \in Nat /\ c.dumps \in BOOLEAN
      /\ c.dumped \in Seq(FieldType)
      /\ c.dumps => Positive(c.dumped) /\ c.length <= Octets(c.dumped)
  BY <1>1 DEF Formed
<1>3. Leaf(F, ie, o) = add_ie(F, ie, c.length, <<Tlv(ie, c.tlv)>> \o c.dumped, c.dumps,
                              c.value)
  BY DEF Leaf
<1> HIDE DEF c
<1>4. c.dumped \in Seq(ItemType)
  BY <1>2, FieldsAreItems
<1> QED
  BY <1>2, <1>3, <1>4, AddIe DEF c

(* A group that has just been opened. *)
LEMMA FreshFrame ==
  ASSUME NEW ie \in Classes
  PROVE  /\ IsFrame(Frame(ie)) /\ Frame(ie).ie = ie /\ Frame(ie).length = 0
         /\ Frame(ie).items = <<>> /\ Frame(ie).dumps /\ Frame(ie).content = <<>>
<1>1. Parted(Frame(ie), ie, 0, 0, <<>>, TRUE, <<>>)
  BY Zenon DEF Frame, Parted
<1>2. Positive(<<>>) /\ Octets(<<>>) = 0 /\ <<>> \in Seq(ItemType)
  BY OctetsFew DEF Positive
<1>3. 0 \in Nat /\ 0 < 65536 /\ 0 <= Octets(<<>>)
  BY <1>2
<1>4. Sized(ie, 0, <<>>, TRUE)
  BY <1>2, <1>3 DEF Sized
<1>5. IsFrame(Frame(ie))
  BY <1>1, <1>4, Zenon DEF IsFrame
<1>6. /\ Frame(ie).ie = ie /\ Frame(ie).length = 0 /\ Frame(ie).items = <<>>
      /\ Frame(ie).dumps = TRUE /\ Frame(ie).content = <<>>
  BY <1>1, PartedFields
<1> QED
  BY <1>5, <1>6, Zenon

(* The slot of a frame. *)
LEMMA SlotMoves ==
  ASSUME NEW F, IsFrame(F), NEW n
  PROVE  IsFrame([F EXCEPT !.slot = n]) /\ Like([F EXCEPT !.slot = n], F)
<1> DEFINE E == [F EXCEPT !.slot = n]
<1>1. /\ Sized(F.ie, F.length, F.items, F.dumps)
      /\ Parted(F, F.ie, F.slot, F.length, F.items, F.dumps, F.content)
  BY FrameFields
<1>2. Parted(E, F.ie, n, F.length, F.items, F.dumps, F.content)
  BY <1>1, PartedExcept
<1> HIDE DEF E
<1>3. IsFrame(E)
  BY <1>1, <1>2, Zenon DEF IsFrame
<1>4. /\ E.ie = F.ie /\ E.length = F.length /\ E.items = F.items
      /\ E.dumps = F.dumps /\ E.content = F.content
  BY <1>2, PartedFields
<1> QED
  BY <1>3, <1>4, Zenon DEF E, Like

-----------------------------------------------------------------------------
(* Types. *)

(* A group being loaded, with its fields. *)
LoadParted(D, ie, length, left, first, content, fault) ==
  D = [ie |-> ie, length |-> length, left |-> left, first |-> first,
       content |-> content, fault |-> fault]

Counting(ie, length, left, fault) ==
  /\ ie \in Classes /\ length \in Nat /\ left \in Int /\ left <= length
  /\ fault \in {"none", "illegal", "recursion"}

IsLoading(D) ==
  \E a, l, n, b, c, f : LoadParted(D, a, l, n, b, c, f) /\ Counting(a, l, n, f)

(* The types of the groups under construction, of the ones being loaded, of the
   history and of what is under way. *)
Frames == /\ IsSeq(enc) /\ Len(enc) \in Nat /\ Len(enc) > 0
          /\ \A i \in 1 .. Len(enc) : IsFrame(enc[i])
          /\ \A i \in 2 .. Len(enc) : enc[i].ie \in DOMAIN Grouped
Noted == IsFiniteSet(made) /\ Cardinality(made) + Len(enc) <= Bound + 2
Stacked == IsSeq(dec) /\ \A i \in 1 .. Len(dec) : IsLoading(dec[i])
UnderWay == /\ sender \in {"own", "peer"}
            /\ verdict \in {"none", "unsent", "thrown", "crashed", "spins", "delivered"}
            /\ wire \in Seq(ItemType)
            /\ header # <<>> => header.length \in Nat /\ header.seid \in BOOLEAN

TypeInv == UnderWay /\ Frames /\ Noted /\ Stacked

(* What is known of the fields of a group being loaded. *)
LEMMA LoadingFields ==
  ASSUME NEW D, IsLoading(D)
  PROVE  /\ Counting(D.ie, D.length, D.left, D.fault)
         /\ LoadParted(D, D.ie, D.length, D.left, D.first, D.content, D.fault)
<1>1. PICK a, l, n, b, c, f : LoadParted(D, a, l, n, b, c, f) /\ Counting(a, l, n, f)
  BY DEF IsLoading
<1>2. /\ D.ie = a /\ D.length = l /\ D.left = n /\ D.first = b
      /\ D.content = c /\ D.fault = f
  BY <1>1 DEF LoadParted
<1> QED
  BY <1>1, <1>2, Zenon

(* A group being loaded with some of its fields replaced. *)
LEMMA LoadPartedExcept ==
  ASSUME NEW D, NEW a, NEW l, NEW n, NEW b, NEW c, NEW f, LoadParted(D, a, l, n, b, c, f),
         NEW n2, NEW b2, NEW c2, NEW f2
  PROVE  LoadParted([D EXCEPT !.left = n2, !.first = b2, !.content = c2, !.fault = f2],
                    a, l, n2, b2, c2, f2)
<1> DEFINE R(n1, b1, c1, f1) == [ie |-> a, length |-> l, left |-> n1, first |-> b1,
                                 content |-> c1, fault |-> f1]
<1>1. [R(n, b, c, f) EXCEPT !.left = n2] = R(n2, b, c, f)
  BY SMT
<1>2. [R(n2, b, c, f) EXCEPT !.first = b2] = R(n2, b2, c, f)
  BY SMT
<1>3. [R(n2, b2, c, f) EXCEPT !.content = c2] = R(n2, b2, c2, f)
  BY SMT
<1>4. [R(n2, b2, c2, f) EXCEPT !.fault = f2] = R(n2, b2, c2, f2)
  BY SMT
<1>5. D = R(n, b, c, f)
  BY Zenon DEF LoadParted
<1> HIDE DEF R
<1>6. [D EXCEPT !.left = n2, !.first = b2, !.content = c2, !.fault = f2]
        = R(n2, b2, c2, f2)
  BY <1>1, <1>2, <1>3, <1>4, <1>5, Zenon
<1> QED
  BY <1>6, Zenon DEF LoadParted, R

(* The fault a frame has after an element. *)
FaultAfter(D, ie, fault) ==
  IF D.fault # "none" THEN D.fault
  ELSE IF fault # "none" THEN fault
  ELSE IF ie \notin Members(ContainerOf(D.ie)) THEN "illegal" ELSE "none"

(* What load_from counts of a frame after an element. *)
CountAfter(D, l) ==
  LET read == D.length - D.left + l + 4
  IN  D.length - IF D.ie \in DOMAIN Message THEN Uint16(read) ELSE read

(* An element loaded into a frame. *)
LoadedAs(E, D, ie, l, v, fault) ==
  /\ E.ie = D.ie /\ E.length = D.length
  /\ E.left = CountAfter(D, l) /\ E.first = FALSE
  /\ E.content = With(D.content, ie, v, ie \in ContainerOf(D.ie).many)
  /\ E.fault = FaultAfter(D, ie, fault)

(* Loaded makes one of it, and these are its fields. *)
LEMMA LoadedFields ==
  ASSUME NEW D, IsLoading(D), NEW ie, NEW l \in Nat, NEW v,
         NEW fault \in {"none", "illegal", "recursion"}
  PROVE  /\ IsLoading(Loaded(D, ie, l, v, fault))
         /\ LoadedAs(Loaded(D, ie, l, v, fault), D, ie, l, v, fault)
<1> DEFINE E == Loaded(D, ie, l, v, fault)
           c == ContainerOf(D.ie)
           n2 == CountAfter(D, l)
           c2 == With(D.content, ie, v, ie \in c.many)
           f1 == CASE fault # "none"                         -> fault
                   [] fault = "none" /\ ie \notin Members(c) -> "illegal"
                   [] OTHER                                  -> "none"
           f2 == IF D.fault = "none" THEN f1 ELSE D.fault
           b2 == FALSE
<1>1. /\ Counting(D.ie, D.length, D.left, D.fault)
      /\ LoadParted(D, D.ie, D.length, D.left, D.first, D.content, D.fault)
  BY LoadingFields
<1>2. /\ D.ie \in Classes /\ D.length \in Nat /\ D.left \in Int /\ D.left <= D.length
      /\ D.fault \in {"none", "illegal", "recursion"}
  BY <1>1 DEF Counting
<1>3. E = [D EXCEPT !.left = n2, !.first = b2, !.content = c2, !.fault = f2]
  BY Zenon DEF Loaded, CountAfter, tlv_ie_length
<1>4. f2 = FaultAfter(D, ie, fault)
  <2>1. CASE fault # "none"
    <3>1. f1 = fault
      BY <2>1
    <3> QED
      BY <2>1, <3>1 DEF FaultAfter
  <2>2. CASE fault = "none" /\ ie \notin Members(c)
    <3>1. f1 = "illegal"
      BY <2>2
    <3> QED
      BY <2>2, <3>1 DEF FaultAfter
  <2>3. CASE fault = "none" /\ ie \in Members(c)
    <3>1. f1 = "none"
      BY <2>3
    <3> QED
      BY <2>3, <3>1 DEF FaultAfter
  <2> QED
    BY <2>1, <2>2, <2>3
<1>5. f2 \in {"none", "illegal", "recursion"}
  BY <1>2, <1>4 DEF FaultAfter
<1>6. n2 \in Int /\ n2 <= D.length
  <2> DEFINE read == D.length - D.left + l + 4
  <2>1. read \in Nat
    BY <1>2
  <2>2. Uint16(read) \in Nat
    BY <2>1, Sixteen
  <2>3. n2 = D.length - read \/ n2 = D.length - Uint16(read)
    BY DEF CountAfter
  <2> HIDE DEF read, n2
  <2> QED
    BY <1>2, <2>1, <2>2, <2>3
<1> HIDE DEF E, n2, c2, f2, b2
<1>7. LoadParted(E, D.ie, D.length, n2, b2, c2, f2)
  BY <1>1, <1>3, LoadPartedExcept
<1>8. Counting(D.ie, D.length, n2, f2)
  BY <1>2, <1>5, <1>6 DEF Counting
<1>9. IsLoading(E)
  BY <1>7, <1>8, Zenon DEF IsLoading
<1>10. /\ E.ie = D.ie /\ E.length = D.length /\ E.left = n2 /\ E.first = b2
       /\ E.content = c2 /\ E.fault = f2
  BY <1>7 DEF LoadParted
<1> QED
  BY <1>4, <1>9, <1>10, Zenon DEF LoadedAs, E, n2, c2, b2, c

(* A group whose TLV has just been read. *)
LEMMA LoadingStarts ==
  ASSUME NEW ie \in Classes, NEW l \in Nat
  PROVE  LET D == Loading(ie, l)
         IN  /\ IsLoading(D) /\ D.ie = ie /\ D.length = l /\ D.left = l
             /\ D.first = TRUE /\ D.content = <<>> /\ D.fault = "none"
<1> DEFINE D == Loading(ie, l)
<1>1. LoadParted(D, ie, l, l, TRUE, <<>>, "none")
  BY Zenon DEF Loading, LoadParted
<1>2. Counting(ie, l, l, "none")
  BY DEF Counting
<1> HIDE DEF D
<1>3. IsLoading(D)
  BY <1>1, <1>2, Zenon DEF IsLoading
<1>4. /\ D.ie = ie /\ D.length = l /\ D.left = l
      /\ D.first = TRUE /\ D.content = <<>> /\ D.fault = "none"
  BY <1>1 DEF LoadParted
<1> QED
  BY <1>3, <1>4, Zenon DEF D

(* What is left of a stream is a stream. *)
LEMMA AfterItems ==
  ASSUME NEW w \in Seq(ItemType), NEW n
  PROVE  After(w, n) \in Seq(ItemType)
<1> DEFINE cut == {k \in 0 .. Len(w) : Octets(SubSeq(w, 1, k)) = n}
           rest == SubSeq(w, (CHOOSE k \in cut : TRUE) + 1, Len(w))
<1>1. Len(w) \in Nat
  BY LenProperties
<1>2. ASSUME NEW k \in 0 .. Len(w), Octets(SubSeq(w, 1, k)) = n
      PROVE  ~(n > Octets(w))
  <2> DEFINE s == SubSeq(w, 1, k)
             t == SubSeq(w, k + 1, Len(w))
  <2>1. s \in Seq(ItemType) /\ t \in Seq(ItemType) /\ s \o t = w
    <3>1. \A i \in 1 .. Len(w) : w[i] \in ItemType
      BY ElementOfSeq
    <3>2. s \in Seq(ItemType) /\ t \in Seq(ItemType)
      BY <1>1, <3>1, SubSeqProperties
    <3>3. s \o t = SubSeq(w, 1, Len(w))
      <4>1. /\ 1 \in 1 .. Len(w) + 1 /\ k \in 1 - 1 .. Len(w) /\ Len(w) \in k .. Len(w)
        BY <1>1
      <4> QED
        BY <4>1, ConcatAdjacentSubSeq
    <3> QED
      BY <3>2, <3>3, SubSeqFull
  <2> HIDE DEF s, t
  <2>2. Octets(w) = Octets(s) + Octets(t) /\ Octets(s) \in Nat /\ Octets(t) \in Nat
    BY <2>1, OctetsConcat, OctetsNat
  <2> QED
    BY <1>2, <2>2 DEF s
<1>3. After(w, n) = CASE cut # {}      -> rest
                      [] n > Octets(w) -> <<>>
                      [] OTHER         -> <<Junk>>
  BY Zenon DEF After
<1>4. <<Junk>> \in Seq(ItemType)
  BY DEF Junk, Field, ItemType, FieldType, DataNames
<1>5. CASE cut # {}
  <2>1. (CHOOSE k \in cut : TRUE) \in cut
    BY <1>5
  <2>2. ~(n > Octets(w))
    BY <1>2, <1>5
  <2>3. rest \in Seq(ItemType)
    <3> DEFINE k == CHOOSE k \in cut : TRUE
    <3>1. k \in 0 .. Len(w)
      BY <2>1
    <3> HIDE DEF k
    <3>2. SubSeq(w, k + 1, Len(w)) \in Seq(ItemType)
      BY <1>1, <3>1
    <3> QED
      BY <3>2 DEF k
  <2> HIDE DEF rest, cut
  <2> QED
    BY <1>3, <1>5, <2>2, <2>3
<1>6. CASE cut = {}
  <2> HIDE DEF rest, cut
  <2> DEFINE b == n > Octets(w)
  <2>1. CASE b
    BY <1>3, <1>6, <2>1
  <2>2. CASE ~b
    BY <1>3, <1>4, <1>6, <2>2
  <2> QED
    BY <2>1, <2>2
<1> QED
  BY <1>5, <1>6

(* A stream that begins with a TLV. *)
LEMMA AtTlvItems ==
  ASSUME wire \in Seq(ItemType), AtTlv
  PROVE  /\ Head(wire).ie \in Leaves \cup DOMAIN Grouped /\ Head(wire).length \in Nat
         /\ Tail(wire) \in Seq(ItemType)
         /\ Head(wire) = Tlv(Head(wire).ie, Head(wire).length)
         /\ wire = <<Head(wire)>> \o Tail(wire)
<1>1. wire # <<>> /\ Head(wire).f = "tlv"
  BY DEF AtTlv
<1>2. Head(wire) \in ItemType /\ Tail(wire) \in Seq(ItemType)
  BY <1>1, HeadTailProperties
<1>3. Head(wire) \in TlvType
  BY <1>1, <1>2 DEF ItemType, FieldType, DataNames
<1>4. wire = <<Head(wire)>> \o Tail(wire)
  BY <1>1, <1>2
<1> QED
  BY <1>2, <1>3, <1>4 DEF TlvType, Tlv, tlv_ie_length

(* The fields of the group that is being built, and the ones it has when the
   constructor goes on. *)
LEMMA TopFrame ==
  ASSUME Frames
  PROVE  /\ IsSeq(enc) /\ Len(enc) \in 1 .. Len(enc) /\ Len(enc) \in Nat
         /\ IsFrame(Top)
         /\ \A ie : IsFrame(Moved(ie)) /\ Like(Moved(ie), Top)
<1>1. /\ IsSeq(enc) /\ Len(enc) \in Nat /\ Len(enc) > 0
      /\ \A i \in 1 .. Len(enc) : IsFrame(enc[i])
  BY DEF Frames
<1>2. Len(enc) \in 1 .. Len(enc)
  BY <1>1
<1>3. IsFrame(Top)
  BY <1>1, <1>2, Zenon DEF Top
<1>4. ASSUME NEW ie PROVE IsFrame(Moved(ie)) /\ Like(Moved(ie), Top)
  <2> DEFINE n == IF sender = "own" THEN CHOOSE i \in Slots(Top, ie) : TRUE
                                    ELSE Top.slot + 1
  <2>1. Moved(ie) = [Top EXCEPT !.slot = n]
    BY Zenon DEF Moved
  <2> HIDE DEF n
  <2> QED
    BY <1>3, <2>1, SlotMoves
<1> QED
  BY <1>1, <1>2, <1>3, <1>4, Zenon

(* One more note. *)
LEMMA OneMoreNote ==
  ASSUME IsFiniteSet(made), NEW F, NEW ie, NEW o, NEW l
  PROVE  /\ IsFiniteSet(Note(F, ie, o, l)) /\ Cardinality(made) \in Nat
         /\ Cardinality(Note(F, ie, o, l)) \in Nat
         /\ Cardinality(Note(F, ie, o, l)) <= Cardinality(made) + 1
<1> DEFINE m == [ie |-> ie, o |-> o, length |-> l, nth |-> Cardinality(made),
                 place |-> Place(F, ie)]
<1>1. Note(F, ie, o, l) = made \cup {m}
  BY Zenon DEF Note
<1> HIDE DEF m
<1>2. /\ IsFiniteSet(made \cup {m})
      /\ Cardinality(made \cup {m}) =
           IF m \in made THEN Cardinality(made) ELSE Cardinality(made) + 1
  BY FS_AddElement
<1>3. Cardinality(made) \in Nat
  BY FS_CardinalityType
<1> QED
  BY <1>1, <1>2, <1>3

(* The bounds are numbers. *)
LEMMA BoundNat ==
  Bound \in Nat
BY CodecAssumption DEF Bound

-----------------------------------------------------------------------------
(* The types are kept. *)

(* A leaf is added. *)
LEMMA AddLeafKeepsTypes ==
  ASSUME TypeInv, NEW ie \in Leaves, NEW o \in Options(ie), AddLeaf(ie, o)
  PROVE  TypeInv'
<1> DEFINE n == Len(enc)
           F == Leaf(Moved(ie), ie, o)
<1>1. /\ IsSeq(enc) /\ n \in 1 .. n /\ n \in Nat /\ IsFrame(Top)
      /\ IsFrame(Moved(ie)) /\ Like(Moved(ie), Top)
  BY TopFrame DEF TypeInv
<1>2. /\ IsFrame(F)
      /\ Grown(Moved(ie), F, ie, Codec(ie, o, 0).length, Codec(ie, o, 0).tlv,
               Codec(ie, o, 0).dumped, Codec(ie, o, 0).dumps, Codec(ie, o, 0).value)
  BY <1>1, LeafGrows
<1>3. F.ie = Top.ie
  BY <1>1, <1>2, Zenon DEF Grown, Like
<1>4. /\ enc' = [enc EXCEPT ![n] = F]
      /\ made' = Note(Top, ie, o, Codec(ie, o, 0).length)
      /\ UNCHANGED <<sender, wire, header, dec, verdict, got>>
      /\ Cardinality(made) + n - 1 < Bound
  BY DEF AddLeaf, MayAdd
<1> HIDE DEF F
<1>5. /\ IsSeq(enc') /\ Len(enc') = n /\ enc'[n] = F
      /\ \A i \in 1 .. n : i # n => enc'[i] = enc[i]
  BY <1>1, <1>4, StackPut
<1>6. Frames'
  <2>1. \A i \in 1 .. n : IsFrame(enc'[i])
    <3> SUFFICES ASSUME NEW i \in 1 .. n PROVE IsFrame(enc'[i])
      OBVIOUS
    <3>1. CASE i = n
      BY <1>2, <1>5, <3>1, Zenon
    <3>2. CASE i # n
      BY <1>5, <3>2, Zenon DEF TypeInv, Frames
    <3> QED
      BY <3>1, <3>2
  <2>2. \A i \in 2 .. n : enc'[i].ie \in DOMAIN Grouped
    <3> SUFFICES ASSUME NEW i \in 2 .. n PROVE enc'[i].ie \in DOMAIN Grouped
      OBVIOUS
    <3>1. i \in 1 .. n /\ enc[i].ie \in DOMAIN Grouped
      BY <1>1 DEF TypeInv, Frames
    <3>2. CASE i = n
      BY <1>3, <1>5, <3>1, <3>2 DEF Top
    <3>3. CASE i # n
      BY <1>5, <3>1, <3>3
    <3> QED
      BY <3>2, <3>3
  <2> QED
    BY <1>1, <1>5, <2>1, <2>2 DEF Frames
<1>7. Noted'
  <2>1. /\ IsFiniteSet(made') /\ Cardinality(made) \in Nat /\ Cardinality(made') \in Nat
        /\ Cardinality(made') <= Cardinality(made) + 1
    BY <1>4, OneMoreNote DEF TypeInv, Noted
  <2>2. Bound' = Bound
    BY <1>4 DEF Bound
  <2> QED
    BY <1>1, <1>4, <1>5, <2>1, <2>2, BoundNat DEF Noted
<1>8. UnderWay' /\ Stacked'
  BY <1>4, Zenon DEF TypeInv, UnderWay, Stacked
<1> QED
  BY <1>6, <1>7, <1>8, Zenon DEF TypeInv

(* A frame pushed over the moved one. *)
LEMMA PushKeepsFrames ==
  ASSUME Frames, NEW ie \in DOMAIN Grouped, NEW F, IsFrame(F), F.ie = ie,
         enc' = Append([enc EXCEPT ![Len(enc)] = Moved(ie)], F)
  PROVE  /\ Frames' /\ Len(enc') = Len(enc) + 1 /\ enc'[Len(enc) + 1] = F
         /\ enc'[Len(enc)] = Moved(ie) /\ Len(enc) \in Nat
         /\ \A i \in 1 .. Len(enc) : i # Len(enc) => enc'[i] = enc[i]
<1> DEFINE n == Len(enc)
           s == [enc EXCEPT ![n] = Moved(ie)]
<1>1. /\ IsSeq(enc) /\ n \in 1 .. n /\ n \in Nat
      /\ IsFrame(Moved(ie)) /\ Like(Moved(ie), Top)
  BY TopFrame
<1>2. /\ IsSeq(s) /\ Len(s) = n /\ s[n] = Moved(ie)
      /\ \A i \in 1 .. n : i # n => s[i] = enc[i]
  BY <1>1, StackPut
<1>10. enc' = Append(s, F)
  OBVIOUS
<1> HIDE DEF s
<1>11. /\ IsSeq(Append(s, F)) /\ Len(Append(s, F)) = Len(s) + 1
       /\ Append(s, F)[Len(s) + 1] = F
       /\ \A i \in 1 .. Len(s) : Append(s, F)[i] = s[i]
  BY <1>2, StackAppend
<1>3. /\ IsSeq(enc') /\ Len(enc') = n + 1 /\ enc'[n + 1] = F
      /\ \A i \in 1 .. n : enc'[i] = s[i]
  BY <1>2, <1>10, <1>11, Zenon
<1>4. enc'[n] = Moved(ie) /\ \A i \in 1 .. n : i # n => enc'[i] = enc[i]
  BY <1>1, <1>2, <1>3
<1>5. Moved(ie).ie = Top.ie
  BY <1>1, Zenon DEF Like
<1>6. ASSUME NEW i \in 1 .. n + 1 PROVE IsFrame(enc'[i])
  <2>1. CASE i = n + 1
    BY <1>3, <2>1, Zenon
  <2>2. CASE i = n
    BY <1>1, <1>4, <2>2, Zenon
  <2>3. CASE i # n /\ i # n + 1
    <3>1. i \in 1 .. n
      BY <1>1, <2>3
    <3> QED
      BY <1>4, <2>3, <3>1, Zenon DEF Frames
  <2> QED
    BY <2>1, <2>2, <2>3
<1>7. ASSUME NEW i \in 2 .. n + 1 PROVE enc'[i].ie \in DOMAIN Grouped
  <2>1. CASE i = n + 1
    BY <1>3, <2>1, Zenon
  <2>2. CASE i # n + 1
    <3>1. i \in 1 .. n /\ i \in 2 .. n
      BY <1>1, <2>2
    <3>2. enc[i].ie \in DOMAIN Grouped
      BY <3>1 DEF Frames
    <3>3. CASE i = n
      BY <1>4, <1>5, <3>2, <3>3 DEF Top
    <3>4. CASE i # n
      BY <1>4, <3>1, <3>2, <3>4
    <3> QED
      BY <3>3, <3>4
  <2> QED
    BY <2>1, <2>2
<1>8. n + 1 \in Nat /\ n + 1 > 0
  BY <1>1
<1>9. Frames'
  BY <1>3, <1>6, <1>7, <1>8 DEF Frames
<1> QED
  BY <1>1, <1>3, <1>4, <1>9

(* The frame of an own update_far. *)
FarFrame(ie) == [Leaf(Frame(ie), "far_id", {}) EXCEPT !.slot = 1]

(* The far_id at its beginning is an element of four octets. *)
LEMMA FarIdFirst ==
  ASSUME NEW ie \in Classes
  PROVE  /\ "far_id" \in Leaves /\ {} \in Options("far_id")
         /\ Codec("far_id", {}, 0).length = 4
         /\ IsFrame(Leaf(Frame(ie), "far_id", {}))
         /\ IsFrame(FarFrame(ie)) /\ Like(FarFrame(ie), Leaf(Frame(ie), "far_id", {}))
         /\ FarFrame(ie).ie = ie
<1> DEFINE F == Leaf(Frame(ie), "far_id", {})
           c == Codec("far_id", {}, 0)
<1>1. "far_id" \in Leaves
  BY Names DEF FixedNames
<1>2. {} \in Options("far_id")
  BY DEF Options, WithText
<1>3. Codec("far_id", {}, 0).length = 4
  <2> DEFINE s == <<Field("far_id", 4)>>
  <2>1. Codec("far_id", {}, 0) = Agreed(s, 0)
    BY DEF Codec, pfcp_far_id_ie
  <2>2. Field("far_id", 4) \in ItemType /\ Field("far_id", 4).n = 4
    BY DEF Field, ItemType, FieldType, DataNames
  <2>3. Octets(s) = 4
    BY <2>2, OctetsFew
  <2> HIDE DEF s
  <2> QED
    BY <2>1, <2>3, AgreedParts
<1>4. IsFrame(Frame(ie)) /\ Frame(ie).ie = ie
  BY FreshFrame
<1>5. IsFrame(F) /\ Grown(Frame(ie), F, "far_id", c.length, c.tlv, c.dumped, c.dumps, c.value)
  BY <1>1, <1>2, <1>4, LeafGrows
<1>6. F.ie = ie
  BY <1>4, <1>5, Zenon DEF Grown
<1> HIDE DEF F
<1>7. IsFrame(FarFrame(ie)) /\ Like(FarFrame(ie), F)
  BY <1>5, SlotMoves DEF FarFrame, F
<1>8. FarFrame(ie).ie = ie
  BY <1>6, <1>7, Zenon DEF Like
<1> QED
  BY <1>1, <1>2, <1>3, <1>5, <1>7, <1>8 DEF F

(* What OpenGroup pushes, and the notes it makes. *)
LEMMA OpenGroupEffect ==
  ASSUME Frames, NEW ie \in DOMAIN Grouped, OpenGroup(ie)
  PROVE  /\ UNCHANGED <<sender, wire, header, dec, verdict, got>>
         /\ Cardinality(made) + Len(enc) - 1 < Bound
         /\ \/ /\ enc' = Append([enc EXCEPT ![Len(enc)] = Moved(ie)], FarFrame(ie))
               /\ made' = Note(Frame(ie), "far_id", {}, 4)
            \/ /\ enc' = Append([enc EXCEPT ![Len(enc)] = Moved(ie)], Frame(ie))
               /\ made' = made
BY Zenon DEF OpenGroup, MayAdd, FarFrame

(* A group is opened. *)
LEMMA OpenGroupKeepsTypes ==
  ASSUME TypeInv, NEW ie \in DOMAIN Grouped, OpenGroup(ie)
  PROVE  TypeInv'
<1> DEFINE n == Len(enc)
<1>1. Frames /\ Noted /\ UnderWay /\ Stacked
  BY DEF TypeInv
<1>2. /\ UNCHANGED <<sender, wire, header, dec, verdict, got>>
      /\ Cardinality(made) + n - 1 < Bound
      /\ \/ /\ enc' = Append([enc EXCEPT ![n] = Moved(ie)], FarFrame(ie))
            /\ made' = Note(Frame(ie), "far_id", {}, 4)
         \/ /\ enc' = Append([enc EXCEPT ![n] = Moved(ie)], Frame(ie))
            /\ made' = made
  BY <1>1, OpenGroupEffect
<1>3. ie \in Classes
  BY DEF Classes
<1>4. /\ IsFrame(FarFrame(ie)) /\ FarFrame(ie).ie = ie
      /\ IsFrame(Frame(ie)) /\ Frame(ie).ie = ie
  BY <1>3, FarIdFirst, FreshFrame
<1>5. Frames' /\ Len(enc') = n + 1 /\ n \in Nat
  <2>1. CASE enc' = Append([enc EXCEPT ![n] = Moved(ie)], FarFrame(ie))
    BY <1>1, <1>4, <2>1, PushKeepsFrames
  <2>2. CASE enc' = Append([enc EXCEPT ![n] = Moved(ie)], Frame(ie))
    BY <1>1, <1>4, <2>2, PushKeepsFrames
  <2> QED
    BY <1>2, <2>1, <2>2, Zenon
<1>6. /\ IsFiniteSet(made') /\ Cardinality(made) \in Nat /\ Cardinality(made') \in Nat
      /\ Cardinality(made') <= Cardinality(made) + 1
  <2>1. IsFiniteSet(made)
    BY <1>1 DEF Noted
  <2>2. Cardinality(made) \in Nat
    BY <2>1, FS_CardinalityType
  <2>3. CASE made' = Note(Frame(ie), "far_id", {}, 4)
    BY <2>1, <2>3, OneMoreNote
  <2>4. CASE made' = made
    BY <2>1, <2>2, <2>4
  <2> QED
    BY <1>2, <2>3, <2>4, Zenon
<1>7. Noted'
  <2>1. Bound' = Bound
    BY <1>2 DEF Bound
  <2> QED
    BY <1>2, <1>5, <1>6, <2>1, BoundNat DEF Noted
<1>8. UnderWay' /\ Stacked'
  BY <1>1, <1>2, Zenon DEF UnderWay, Stacked
<1> QED
  BY <1>5, <1>7, <1>8, Zenon DEF TypeInv

(* The frame that takes the group that is closed. *)
Merged(up, F) == add_ie(up, F.ie, F.length, <<Tlv(F.ie, F.length)>> \o F.items,
                        F.dumps, F.content)

(* It has the group as one more element. *)
LEMMA GroupGrows ==
  ASSUME NEW up, IsFrame(up), NEW F, IsFrame(F), F.ie \in DOMAIN Grouped
  PROVE  /\ IsFrame(Merged(up, F))
         /\ Grown(up, Merged(up, F), F.ie, F.length, F.length, F.items, F.dumps, F.content)
<1>1. Sized(F.ie, F.length, F.items, F.dumps)
  BY FrameFields
<1>2. /\ F.length \in Nat /\ F.items \in Seq(ItemType) /\ F.dumps \in BOOLEAN
      /\ F.dumps => Positive(F.items) /\ F.length <= Octets(F.items)
  BY <1>1 DEF Sized
<1>3. F.ie \in Leaves \cup DOMAIN Grouped
  OBVIOUS
<1> DEFINE l == F.length
           it == F.items
           d == F.dumps
           a == F.ie
           v == F.content
<1>4. /\ a \in Leaves \cup DOMAIN Grouped /\ l \in Nat /\ it \in Seq(ItemType)
      /\ d \in BOOLEAN /\ (d => Positive(it) /\ l <= Octets(it))
  BY <1>2, <1>3
<1>5. Merged(up, F) = add_ie(up, a, l, <<Tlv(a, l)>> \o it, d, v)
  BY Zenon DEF Merged
<1> HIDE DEF l, it, d, a, v
<1>6. /\ IsFrame(add_ie(up, a, l, <<Tlv(a, l)>> \o it, d, v))
      /\ Grown(up, add_ie(up, a, l, <<Tlv(a, l)>> \o it, d, v), a, l, l, it, d, v)
  BY <1>4, AddIe
<1> QED
  BY <1>5, <1>6, Zenon DEF l, it, d, a, v

(* What CloseGroup does to the stack. *)
LEMMA CloseGroupEffect ==
  ASSUME Frames, CloseGroup
  PROVE  /\ UNCHANGED <<sender, wire, header, dec, verdict, got>>
         /\ Len(enc) > 1 /\ Len(enc) \in Nat /\ Len(enc') = Len(enc) - 1
         /\ IsSeq(enc')
         /\ enc'[Len(enc) - 1] = Merged(enc[Len(enc) - 1], Top)
         /\ \A i \in 1 .. Len(enc) - 2 : enc'[i] = enc[i]
         /\ made' = Note(enc[Len(enc) - 1], Top.ie, {}, Top.length)
         /\ IsFrame(enc[Len(enc) - 1]) /\ IsFrame(Top) /\ Top.ie \in DOMAIN Grouped
<1> DEFINE n == Len(enc)
           F == Merged(enc[n - 1], Top)
<1>1. /\ Len(enc) > 1 /\ UNCHANGED <<sender, wire, header, dec, verdict, got>>
      /\ enc' = Append(SubSeq(enc, 1, n - 2), F)
      /\ made' = Note(enc[n - 1], Top.ie, {}, Top.length)
  BY Zenon DEF CloseGroup, Merged
<1>2. IsSeq(enc) /\ n \in Nat
  BY DEF Frames
<1> HIDE DEF F
<1>3. /\ IsSeq(enc') /\ Len(enc') = n - 1
      /\ \A i \in 1 .. n - 2 : enc'[i] = enc[i]
      /\ enc'[n - 1] = F
  BY <1>1, <1>2, StackMerge
<1>4. n - 1 \in 1 .. n /\ n \in 1 .. n /\ n \in 2 .. n
  BY <1>1, <1>2
<1>5. IsFrame(enc[n - 1]) /\ IsFrame(Top) /\ Top.ie \in DOMAIN Grouped
  BY <1>4, Zenon DEF Frames, Top
<1> QED
  BY <1>1, <1>2, <1>3, <1>5 DEF F

(* A group is closed. *)
LEMMA CloseGroupKeepsTypes ==
  ASSUME TypeInv, CloseGroup
  PROVE  TypeInv'
<1> DEFINE n == Len(enc)
           up == enc[n - 1]
           F == Merged(up, Top)
<1>1. Frames /\ Noted /\ UnderWay /\ Stacked
  BY DEF TypeInv
<1>2. /\ UNCHANGED <<sender, wire, header, dec, verdict, got>>
      /\ n > 1 /\ n \in Nat /\ Len(enc') = n - 1 /\ IsSeq(enc') /\ enc'[n - 1] = F
      /\ \A i \in 1 .. n - 2 : enc'[i] = enc[i]
      /\ made' = Note(up, Top.ie, {}, Top.length)
      /\ IsFrame(up) /\ IsFrame(Top) /\ Top.ie \in DOMAIN Grouped
  BY <1>1, CloseGroupEffect
<1>3. /\ IsFrame(F)
      /\ Grown(up, F, Top.ie, Top.length, Top.length, Top.items, Top.dumps, Top.content)
  BY <1>2, GroupGrows
<1>4. F.ie = up.ie
  BY <1>3, Zenon DEF Grown
<1> HIDE DEF F
<1>5. ASSUME NEW i \in 1 .. n - 1 PROVE IsFrame(enc'[i])
  <2>1. CASE i = n - 1
    BY <1>2, <1>3, <2>1, Zenon
  <2>2. CASE i # n - 1
    <3>1. i \in 1 .. n - 2 /\ i \in 1 .. n
      BY <1>2, <2>2
    <3> QED
      BY <1>1, <1>2, <3>1, Zenon DEF Frames
  <2> QED
    BY <2>1, <2>2
<1>6. ASSUME NEW i \in 2 .. n - 1 PROVE enc'[i].ie \in DOMAIN Grouped
  <2>1. i \in 2 .. n
    BY <1>2
  <2>2. enc[i].ie \in DOMAIN Grouped
    BY <1>1, <2>1 DEF Frames
  <2>3. CASE i = n - 1
    BY <1>2, <1>4, <2>2, <2>3
  <2>4. CASE i # n - 1
    BY <1>2, <2>2, <2>4
  <2> QED
    BY <2>3, <2>4
<1>7. n - 1 \in Nat /\ n - 1 > 0
  BY <1>2
<1>8. Frames'
  BY <1>2, <1>5, <1>6, <1>7 DEF Frames
<1>9. Noted'
  <2>1. /\ IsFiniteSet(made') /\ Cardinality(made) \in Nat /\ Cardinality(made') \in Nat
        /\ Cardinality(made') <= Cardinality(made) + 1
    BY <1>1, <1>2, OneMoreNote DEF Noted
  <2>2. Bound' = Bound
    BY <1>2 DEF Bound
  <2> QED
    BY <1>1, <1>2, <2>1, <2>2, BoundNat DEF Noted
<1>10. UnderWay' /\ Stacked'
  BY <1>1, <1>2, Zenon DEF UnderWay, Stacked
<1> QED
  BY <1>8, <1>9, <1>10, Zenon DEF TypeInv

(* The message is sent. *)
LEMMA SendKeepsTypes ==
  ASSUME TypeInv, NEW seid \in BOOLEAN, Send(seid)
  PROVE  TypeInv'
<1>1. Frames /\ Noted /\ UnderWay /\ Stacked
  BY DEF TypeInv
<1> DEFINE k == IF seid THEN 8 ELSE 0
           l == Uint16(4 + k + Top.length)
<1>2. /\ header' = [length |-> l, seid |-> seid]
      /\ \/ wire' = Top.items /\ verdict' = verdict
         \/ verdict' = "unsent" /\ wire' = wire
      /\ UNCHANGED <<sender, enc, dec, got, made>>
  BY Zenon DEF Send
<1>3. IsFrame(Top)
  BY <1>1, TopFrame
<1>4. Sized(Top.ie, Top.length, Top.items, Top.dumps)
  BY <1>3, FrameFields
<1>5. Top.length \in Nat /\ Top.items \in Seq(ItemType)
  BY <1>4 DEF Sized
<1>6. l \in Nat
  <2>1. 4 + k + Top.length \in Nat
    BY <1>5
  <2> HIDE DEF k
  <2> QED
    BY <2>1, Sixteen
<1> HIDE DEF l
<1>7. header'.length = l /\ header'.seid = seid
  BY <1>2
<1>8. UnderWay'
  <2>1. wire' \in Seq(ItemType)
    BY <1>1, <1>2, <1>5 DEF UnderWay
  <2>2. verdict' \in {"none", "unsent", "thrown", "crashed", "spins", "delivered"}
    BY <1>1, <1>2 DEF UnderWay
  <2>3. header'.length \in Nat /\ header'.seid \in BOOLEAN
    BY <1>6, <1>7, Zenon
  <2> QED
    BY <1>1, <1>2, <2>1, <2>2, <2>3, Zenon DEF UnderWay
<1>9. Frames' /\ Noted' /\ Stacked'
  BY <1>1, <1>2, Zenon DEF Frames, Noted, Bound, Stacked
<1> QED
  BY <1>8, <1>9, Zenon DEF TypeInv

(* A group on the stack of the receiver. *)
LEMMA CurLoading ==
  ASSUME Stacked, dec # <<>>
  PROVE  /\ IsSeq(dec) /\ Len(dec) \in Nat /\ Len(dec) \in 1 .. Len(dec) /\ Len(dec) > 0
         /\ IsLoading(Cur)
         /\ Cur.ie \in Classes /\ Cur.length \in Nat /\ Cur.left \in Int
         /\ Cur.left <= Cur.length /\ Cur.fault \in {"none", "illegal", "recursion"}
<1>1. PICK S : dec \in Seq(S)
  BY DEF Stacked, IsSeq
<1>2. Len(dec) \in Nat /\ Len(dec) > 0
  BY <1>1, EmptySeq
<1>3. Len(dec) \in 1 .. Len(dec)
  BY <1>2
<1>4. IsLoading(Cur)
  BY <1>3, Zenon DEF Stacked, Cur
<1>5. Counting(Cur.ie, Cur.length, Cur.left, Cur.fault)
  BY <1>4, LoadingFields
<1> QED
  BY <1>2, <1>3, <1>4, <1>5 DEF Stacked, Counting

(* The header is loaded. *)
LEMMA LoadHeaderKeepsTypes ==
  ASSUME TypeInv, LoadHeader
  PROVE  TypeInv'
<1>1. Frames /\ Noted /\ UnderWay /\ Stacked
  BY DEF TypeInv
<1> DEFINE k == IF header.seid THEN 8 ELSE 0
           l == Uint16(header.length - 4 - k)
           D == Loading(enc[1].ie, l)
<1>2. /\ header # <<>> /\ dec' = <<D>>
      /\ UNCHANGED <<sender, enc, wire, header, verdict, got, made>>
  BY Zenon DEF LoadHeader
<1>3. l \in Nat
  <2>1. header.length \in Nat /\ k \in {0, 8}
    BY <1>1, <1>2 DEF UnderWay
  <2>2. header.length - 4 - k \in Int
    BY <2>1
  <2> HIDE DEF k
  <2> QED
    BY <2>2 DEF Uint16
<1>4. 1 \in 1 .. Len(enc)
  BY <1>1 DEF Frames
<1>5. IsFrame(enc[1])
  BY <1>1, <1>4, Zenon DEF Frames
<1>6. Sized(enc[1].ie, enc[1].length, enc[1].items, enc[1].dumps)
  BY <1>5, FrameFields
<1>7. enc[1].ie \in Classes
  BY <1>6 DEF Sized
<1> HIDE DEF l
<1>8. IsLoading(D)
  BY <1>3, <1>7, LoadingStarts
<1> HIDE DEF D
<1>9. Stacked'
  <2>1. <<D>> \in Seq({D}) /\ Len(<<D>>) = 1 /\ <<D>>[1] = D
    OBVIOUS
  <2>2. IsSeq(dec') /\ Len(dec') = 1 /\ dec'[1] = D
    BY <1>2, <2>1 DEF IsSeq
  <2>3. \A i \in 1 .. 1 : i = 1
    OBVIOUS
  <2> QED
    BY <1>8, <2>2, <2>3, Zenon DEF Stacked
<1>10. Frames' /\ Noted' /\ UnderWay'
  BY <1>1, <1>2, Zenon DEF Frames, Noted, Bound, UnderWay
<1> QED
  BY <1>9, <1>10, Zenon DEF TypeInv

(* The top of the receiver's stack is replaced. *)
LEMMA PutKeepsStack ==
  ASSUME Stacked, dec # <<>>, NEW D, IsLoading(D), dec' = [dec EXCEPT ![Len(dec)] = D]
  PROVE  /\ Stacked' /\ Len(dec') = Len(dec) /\ dec'[Len(dec)] = D
         /\ \A i \in 1 .. Len(dec) : i # Len(dec) => dec'[i] = dec[i]
<1> DEFINE n == Len(dec)
<1>1. IsSeq(dec) /\ n \in Nat /\ n \in 1 .. n
  BY CurLoading
<1>2. /\ IsSeq(dec') /\ Len(dec') = n /\ dec'[n] = D
      /\ \A i \in 1 .. n : i # n => dec'[i] = dec[i]
  BY <1>1, StackPut
<1>3. ASSUME NEW i \in 1 .. n PROVE IsLoading(dec'[i])
  <2>1. CASE i = n
    BY <1>2, <2>1, Zenon
  <2>2. CASE i # n
    BY <1>2, <2>2, Zenon DEF Stacked
  <2> QED
    BY <2>1, <2>2
<1> QED
  BY <1>2, <1>3, Zenon DEF Stacked

(* A group is pushed on it. *)
LEMMA PushKeepsStack ==
  ASSUME Stacked, NEW D, IsLoading(D), dec' = Append(dec, D)
  PROVE  /\ Stacked' /\ Len(dec) \in Nat /\ Len(dec') = Len(dec) + 1
         /\ dec'[Len(dec) + 1] = D
         /\ \A i \in 1 .. Len(dec) : dec'[i] = dec[i]
<1> DEFINE n == Len(dec)
<1>1. IsSeq(dec)
  BY DEF Stacked
<1>2. /\ IsSeq(dec') /\ Len(dec') = n + 1 /\ dec'[n + 1] = D /\ n \in Nat
      /\ \A i \in 1 .. n : dec'[i] = dec[i]
  BY <1>1, StackAppend
<1>3. ASSUME NEW i \in 1 .. n + 1 PROVE IsLoading(dec'[i])
  <2>1. CASE i = n + 1
    BY <1>2, <2>1, Zenon
  <2>2. CASE i # n + 1
    <3>1. i \in 1 .. n
      BY <1>2, <2>2
    <3> QED
      BY <1>2, <3>1, Zenon DEF Stacked
  <2> QED
    BY <2>1, <2>2
<1> QED
  BY <1>2, <1>3, Zenon DEF Stacked

(* Its two topmost groups become one. *)
LEMMA MergeKeepsStack ==
  ASSUME Stacked, Len(dec) > 1, NEW D, IsLoading(D),
         dec' = Append(SubSeq(dec, 1, Len(dec) - 2), D)
  PROVE  /\ Stacked' /\ Len(dec) \in Nat /\ Len(dec') = Len(dec) - 1
         /\ dec'[Len(dec) - 1] = D
         /\ \A i \in 1 .. Len(dec) - 2 : dec'[i] = dec[i]
<1> DEFINE n == Len(dec)
<1>1. IsSeq(dec)
  BY DEF Stacked
<1>2. /\ IsSeq(dec') /\ Len(dec') = n - 1 /\ dec'[n - 1] = D /\ n \in Nat
      /\ \A i \in 1 .. n - 2 : dec'[i] = dec[i]
  BY <1>1, StackMerge
<1>3. ASSUME NEW i \in 1 .. n - 1 PROVE IsLoading(dec'[i])
  <2>1. CASE i = n - 1
    BY <1>2, <2>1, Zenon
  <2>2. CASE i # n - 1
    <3>1. i \in 1 .. n - 2 /\ i \in 1 .. n
      BY <1>2, <2>2
    <3> QED
      BY <1>2, <3>1, Zenon DEF Stacked
  <2> QED
    BY <2>1, <2>2
<1> QED
  BY <1>2, <1>3, Zenon DEF Stacked

(* What the steps of the receiver leave alone. *)
Kept == UNCHANGED <<sender, enc, header, made>>

(* The types of what is left alone are kept. *)
LEMMA KeptTypes ==
  ASSUME TypeInv, Kept
  PROVE  /\ Frames' /\ Noted'
         /\ /\ wire' \in Seq(ItemType)
            /\ verdict' \in {"none", "unsent", "thrown", "crashed", "spins", "delivered"}
            => UnderWay'
BY Zenon DEF Kept, TypeInv, Frames, Noted, Bound, UnderWay

(* What LoadLeaf does. *)
LEMMA LoadLeafEffect ==
  ASSUME LoadLeaf
  PROVE  /\ Reads /\ AtTlv /\ ~Null /\ Head(wire).ie \in Leaves /\ Kept
         /\ \E o \in Announced(Head(wire).ie, Tail(wire)) :
              LET c == Codec(Head(wire).ie, o, Head(wire).length)
              IN  \/ /\ c.accepts
                     /\ wire' = After(Tail(wire), Octets(c.loaded))
                     /\ dec' = [dec EXCEPT ![Len(dec)] =
                                  Loaded(Cur, Head(wire).ie, Head(wire).length,
                                         Found(Tail(wire), c.loaded), "none")]
                     /\ UNCHANGED <<verdict, got>>
                  \/ /\ ~c.accepts
                     /\ verdict' \in {"thrown", "spins"} /\ UNCHANGED <<wire, dec, got>>
BY Zenon DEF LoadLeaf, Judge, Kept

(* A leaf is loaded. *)
LEMMA LoadLeafKeepsTypes ==
  ASSUME TypeInv, LoadLeaf
  PROVE  TypeInv'
<1> DEFINE ie == Head(wire).ie
           l == Head(wire).length
           w == Tail(wire)
<1>1. /\ Reads /\ AtTlv /\ ~Null /\ ie \in Leaves /\ Kept
      /\ \E o \in Announced(ie, w) :
           LET c == Codec(ie, o, l)
           IN  \/ /\ c.accepts
                  /\ wire' = After(w, Octets(c.loaded))
                  /\ dec' = [dec EXCEPT ![Len(dec)] =
                               Loaded(Cur, ie, l, Found(w, c.loaded), "none")]
                  /\ UNCHANGED <<verdict, got>>
               \/ /\ ~c.accepts
                  /\ verdict' \in {"thrown", "spins"} /\ UNCHANGED <<wire, dec, got>>
  BY LoadLeafEffect
<1>2. Frames /\ Noted /\ UnderWay /\ Stacked
  BY DEF TypeInv
<1>3. l \in Nat /\ w \in Seq(ItemType)
  BY <1>1, <1>2, AtTlvItems DEF UnderWay
<1>4. dec # <<>>
  BY <1>1 DEF Reads
<1>5. IsLoading(Cur)
  BY <1>2, <1>4, CurLoading
<1> HIDE DEF ie, l, w
<1>6. PICK o \in Announced(ie, w) :
           LET c == Codec(ie, o, l)
           IN  \/ /\ c.accepts
                  /\ wire' = After(w, Octets(c.loaded))
                  /\ dec' = [dec EXCEPT ![Len(dec)] =
                               Loaded(Cur, ie, l, Found(w, c.loaded), "none")]
                  /\ UNCHANGED <<verdict, got>>
               \/ /\ ~c.accepts
                  /\ verdict' \in {"thrown", "spins"} /\ UNCHANGED <<wire, dec, got>>
  BY <1>1, Zenon
<1> DEFINE n == Octets(Codec(ie, o, l).loaded)
           v == Found(w, Codec(ie, o, l).loaded)
<1>7. \/ /\ wire' = After(w, n)
         /\ dec' = [dec EXCEPT ![Len(dec)] = Loaded(Cur, ie, l, v, "none")]
         /\ UNCHANGED <<verdict, got>>
      \/ verdict' \in {"thrown", "spins"} /\ UNCHANGED <<wire, dec, got>>
  BY <1>6, Zenon
<1> HIDE DEF n, v
<1>8. wire' \in Seq(ItemType)
  BY <1>2, <1>3, <1>7, AfterItems DEF UnderWay
<1>9. verdict' \in {"none", "unsent", "thrown", "crashed", "spins", "delivered"}
  BY <1>2, <1>7 DEF UnderWay
<1>10. Stacked'
  <2>1. CASE dec' = [dec EXCEPT ![Len(dec)] = Loaded(Cur, ie, l, v, "none")]
    <3> DEFINE D == Loaded(Cur, ie, l, v, "none")
    <3>1. IsLoading(D)
      BY <1>3, <1>5, LoadedFields
    <3> HIDE DEF D
    <3> QED
      BY <1>2, <1>4, <2>1, <3>1, PutKeepsStack DEF D
  <2>2. CASE dec' = dec
    BY <1>2, <2>2, Zenon DEF Stacked
  <2> QED
    BY <1>7, <2>1, <2>2, Zenon
<1> QED
  BY <1>1, <1>8, <1>9, <1>10, KeptTypes, Zenon DEF TypeInv

(* A group is begun. *)
LEMMA LoadGroupKeepsTypes ==
  ASSUME TypeInv, LoadGroup
  PROVE  TypeInv'
<1> DEFINE D == Loading(Head(wire).ie, Head(wire).length)
<1>1. /\ Reads /\ AtTlv /\ Head(wire).ie \in DOMAIN Grouped /\ Kept
      /\ dec' = Append(dec, D) /\ wire' = Tail(wire) /\ UNCHANGED <<verdict, got>>
  BY Zenon DEF LoadGroup, Kept
<1>2. Frames /\ Noted /\ UnderWay /\ Stacked
  BY DEF TypeInv
<1>3. Head(wire).length \in Nat /\ Tail(wire) \in Seq(ItemType)
  BY <1>1, <1>2, AtTlvItems DEF UnderWay
<1>4. Head(wire).ie \in Classes
  BY <1>1 DEF Classes
<1>5. IsLoading(D)
  BY <1>3, <1>4, LoadingStarts
<1> HIDE DEF D
<1>6. Stacked'
  BY <1>1, <1>2, <1>5, PushKeepsStack
<1>7. wire' \in Seq(ItemType)
  BY <1>1, <1>3
<1>8. verdict' \in {"none", "unsent", "thrown", "crashed", "spins", "delivered"}
  BY <1>1, <1>2 DEF UnderWay
<1> QED
  BY <1>1, <1>6, <1>7, <1>8, KeptTypes, Zenon DEF TypeInv

(* The fault that a loaded group hands up. *)
GroupFault(D) == IF D.ie = "create_urr" THEN "recursion" ELSE D.fault

(* A group is ended. *)
LEMMA CloseLoadedEffect ==
  ASSUME Stacked, CloseLoaded
  PROVE  /\ verdict = "none" /\ Len(dec) > 1 /\ ~Reads /\ Kept /\ Len(dec) \in Nat
         /\ UNCHANGED <<wire, verdict, got>> /\ dec # <<>>
         /\ IsLoading(Cur) /\ IsLoading(dec[Len(dec) - 1])
         /\ Cur.length \in Nat /\ GroupFault(Cur) \in {"none", "illegal", "recursion"}
         /\ LET D == Loaded(dec[Len(dec) - 1], Cur.ie, Cur.length, Cur.content,
                            GroupFault(Cur))
            IN  IsLoading(D) /\ dec' = Append(SubSeq(dec, 1, Len(dec) - 2), D)
<1> DEFINE n == Len(dec)
           up == dec[n - 1]
           f == GroupFault(Cur)
           D == Loaded(up, Cur.ie, Cur.length, Cur.content, f)
<1>1. /\ verdict = "none" /\ n > 1 /\ ~Reads /\ Kept
      /\ UNCHANGED <<wire, verdict, got>>
      /\ dec' = Append(SubSeq(dec, 1, n - 2), D)
  BY Zenon DEF CloseLoaded, GroupFault, Kept
<1>2. dec # <<>>
  BY <1>1
<1>3. /\ n \in Nat /\ IsLoading(Cur) /\ Cur.length \in Nat
      /\ Cur.fault \in {"none", "illegal", "recursion"}
  BY <1>2, CurLoading
<1>4. n - 1 \in 1 .. n
  BY <1>1, <1>3
<1>5. IsLoading(up)
  BY <1>4, Zenon DEF Stacked
<1>6. f \in {"none", "illegal", "recursion"}
  BY <1>3 DEF GroupFault
<1> HIDE DEF up, f
<1>7. IsLoading(D)
  BY <1>3, <1>5, <1>6, LoadedFields
<1> HIDE DEF D
<1> QED
  BY <1>1, <1>2, <1>3, <1>5, <1>6, <1>7, Zenon DEF D, up, f

(* The types are kept by it. *)
LEMMA CloseLoadedKeepsTypes ==
  ASSUME TypeInv, CloseLoaded
  PROVE  TypeInv'
<1> DEFINE D == Loaded(dec[Len(dec) - 1], Cur.ie, Cur.length, Cur.content,
                       GroupFault(Cur))
<1>1. Frames /\ Noted /\ UnderWay /\ Stacked
  BY DEF TypeInv
<1>2. /\ Len(dec) > 1 /\ Kept /\ UNCHANGED <<wire, verdict, got>>
      /\ IsLoading(D) /\ dec' = Append(SubSeq(dec, 1, Len(dec) - 2), D)
  BY <1>1, CloseLoadedEffect, Zenon
<1> HIDE DEF D
<1>3. Stacked'
  BY <1>1, <1>2, MergeKeepsStack
<1>4. /\ wire' \in Seq(ItemType)
      /\ verdict' \in {"none", "unsent", "thrown", "crashed", "spins", "delivered"}
  BY <1>1, <1>2 DEF UnderWay
<1> QED
  BY <1>2, <1>3, <1>4, KeptTypes, Zenon DEF TypeInv

(* The steps that judge the message. *)
FinalVerdict ==
  IF Cur.left # 0 \/ Cur.fault = "illegal" THEN "thrown"
  ELSE IF Cur.fault = "recursion" THEN "crashed" ELSE "delivered"

(* What Finish does. *)
LEMMA FinishEffect ==
  ASSUME Finish
  PROVE  verdict' = FinalVerdict /\ got' = Cur.content /\ Kept
<1> DEFINE v == CASE Cur.left # 0 \/ Cur.fault = "illegal"   -> "thrown"
                  [] Cur.left = 0 /\ Cur.fault = "recursion" -> "crashed"
                  [] OTHER                                   -> "delivered"
<1>1. verdict' = v /\ got' = Cur.content /\ Kept
  BY Zenon DEF Finish, Judge, Kept
<1>2. v = FinalVerdict
  <2>1. CASE Cur.left # 0 \/ Cur.fault = "illegal"
    BY <2>1 DEF FinalVerdict
  <2>2. CASE Cur.left = 0 /\ Cur.fault = "recursion"
    BY <2>2 DEF FinalVerdict
  <2>3. CASE Cur.left = 0 /\ Cur.fault # "illegal" /\ Cur.fault # "recursion"
    BY <2>3 DEF FinalVerdict
  <2> QED
    BY <2>1, <2>2, <2>3
<1> QED
  BY <1>1, <1>2, Zenon

(* What LoadNull, EndMessage and LoadJunk do. *)
LEMMA JudgeEffect ==
  ASSUME LoadNull \/ EndMessage \/ LoadJunk
  PROVE  /\ Kept /\ UNCHANGED <<wire, dec>>
         /\ verdict' \in {"thrown", "crashed", "spins", "delivered"}
         /\ LoadNull => /\ Reads /\ Null
                        /\ Len(dec) > 1 => verdict' = "thrown"
                        /\ ~(Len(dec) > 1) => verdict' = FinalVerdict /\ got' = Cur.content
         /\ EndMessage => /\ verdict = "none" /\ Len(dec) = 1 /\ ~Reads
                          /\ verdict' = FinalVerdict /\ got' = Cur.content
         /\ LoadJunk => Reads /\ wire # <<>> /\ ~AtTlv
<1>1. FinalVerdict \in {"thrown", "crashed", "spins", "delivered"}
  BY DEF FinalVerdict
<1>2. ASSUME LoadNull
      PROVE  /\ Kept /\ UNCHANGED <<wire, dec>> /\ Reads /\ Null
             /\ Len(dec) > 1 => verdict' = "thrown"
             /\ ~(Len(dec) > 1) => verdict' = FinalVerdict /\ got' = Cur.content
  <2>1. /\ UNCHANGED <<wire, dec>> /\ Reads /\ Null
        /\ Len(dec) > 1 => Judge("thrown", got)
        /\ ~(Len(dec) > 1) => Finish
    BY <1>2, Zenon DEF LoadNull
  <2>2. CASE Len(dec) > 1
    BY <2>1, <2>2, Zenon DEF Judge, Kept
  <2>3. CASE ~(Len(dec) > 1)
    BY <2>1, <2>3, FinishEffect, Zenon
  <2> QED
    BY <2>1, <2>2, <2>3, Zenon
<1>3. ASSUME EndMessage
      PROVE  /\ Kept /\ UNCHANGED <<wire, dec>> /\ verdict = "none" /\ Len(dec) = 1 /\ ~Reads
             /\ verdict' = FinalVerdict /\ got' = Cur.content
  <2>1. /\ Finish /\ UNCHANGED <<wire, dec>> /\ verdict = "none" /\ Len(dec) = 1 /\ ~Reads
    BY <1>3, Zenon DEF EndMessage
  <2> QED
    BY <2>1, FinishEffect, Zenon
<1>4. ASSUME LoadJunk
      PROVE  /\ Kept /\ UNCHANGED <<wire, dec>> /\ Reads /\ wire # <<>> /\ ~AtTlv
             /\ verdict' \in {"thrown", "crashed", "spins", "delivered"}
  BY <1>4, Zenon DEF LoadJunk, Judge, Kept
<1>5. CASE LoadNull
  <2>1. verdict' \in {"thrown", "crashed", "spins", "delivered"}
    BY <1>1, <1>2, <1>5, Zenon
  <2> QED
    BY <1>2, <1>3, <1>4, <1>5, <2>1, Zenon
<1>6. CASE EndMessage
  BY <1>1, <1>2, <1>3, <1>4, <1>6, Zenon
<1>7. CASE LoadJunk
  BY <1>1, <1>2, <1>3, <1>4, <1>7, Zenon
<1> QED
  BY <1>5, <1>6, <1>7, Zenon

(* The types are kept by them. *)
LEMMA JudgeKeepsTypes ==
  ASSUME TypeInv, LoadNull \/ EndMessage \/ LoadJunk
  PROVE  TypeInv'
<1>1. /\ Kept /\ UNCHANGED <<wire, dec>>
      /\ verdict' \in {"thrown", "crashed", "spins", "delivered"}
  BY JudgeEffect, Zenon
<1>2. /\ wire' \in Seq(ItemType)
      /\ verdict' \in {"none", "unsent", "thrown", "crashed", "spins", "delivered"}
  BY <1>1 DEF TypeInv, UnderWay
<1>3. Stacked'
  BY <1>1, Zenon DEF TypeInv, Stacked
<1> QED
  BY <1>1, <1>2, <1>3, KeptTypes, Zenon DEF TypeInv

(* The initial states. *)
LEMMA InitTypes ==
  ASSUME Init
  PROVE  TypeInv
<1>1. /\ sender \in {"own", "peer"}
      /\ \E k \in Kinds : enc = <<Frame(k)>>
      /\ wire = <<>> /\ header = <<>> /\ dec = <<>>
      /\ verdict = "none" /\ got = <<>> /\ made = {}
  BY Zenon DEF Init
<1>2. PICK k \in Kinds : enc = <<Frame(k)>>
  BY <1>1
<1>3. k \in Classes
  BY CodecAssumption DEF Classes
<1>4. IsFrame(Frame(k))
  BY <1>3, FreshFrame
<1> DEFINE F == Frame(k)
<1>5. enc = <<F>>
  BY <1>2
<1> HIDE DEF F
<1>6. enc \in Seq({F}) /\ Len(enc) = 1 /\ enc[1] = F
  BY <1>5
<1>7. (\A i \in 1 .. 1 : i = 1) /\ 2 .. 1 = {}
  OBVIOUS
<1>8. Frames
  <2>1. IsSeq(enc)
    BY <1>6 DEF IsSeq
  <2>2. \A i \in 1 .. Len(enc) : IsFrame(enc[i])
    BY <1>4, <1>6, <1>7, Zenon DEF F
  <2>3. \A i \in 2 .. Len(enc) : enc[i].ie \in DOMAIN Grouped
    BY <1>6, <1>7, Zenon
  <2>4. Len(enc) \in Nat /\ Len(enc) > 0
    BY <1>6
  <2> QED
    BY <2>1, <2>2, <2>3, <2>4, Zenon DEF Frames
<1>9. Noted
  <2>1. IsFiniteSet(made) /\ Cardinality(made) = 0
    BY <1>1, FS_EmptySet
  <2> QED
    BY <1>6, <2>1, BoundNat DEF Noted
<1>10. Stacked
  <2>1. dec \in Seq({}) /\ Len(dec) = 0
    BY <1>1
  <2>2. 1 .. 0 = {}
    OBVIOUS
  <2> QED
    BY <2>1, <2>2 DEF Stacked, IsSeq
<1>11. UnderWay
  <2>1. wire \in Seq(ItemType)
    BY <1>1
  <2> QED
    BY <1>1, <2>1, Zenon DEF UnderWay
<1> QED
  BY <1>8, <1>9, <1>10, <1>11 DEF TypeInv

(* Next, action by action. *)
LEMMA NextCases ==
  ASSUME Next
  PROVE  \/ \E ie \in Leaves : \E o \in Options(ie) : AddLeaf(ie, o)
         \/ \E ie \in DOMAIN Grouped : OpenGroup(ie)
         \/ CloseGroup
         \/ \E seid \in BOOLEAN : Send(seid)
         \/ LoadHeader \/ LoadLeaf \/ LoadGroup \/ CloseLoaded
         \/ LoadNull \/ EndMessage \/ LoadJunk
BY Zenon DEF Next, Build, Load

(* The types are kept by every step. *)
LEMMA NextTypes ==
  ASSUME TypeInv, [Next]_vars
  PROVE  TypeInv'
<1>1. CASE UNCHANGED vars
  BY <1>1, Zenon DEF vars, TypeInv, UnderWay, Frames, Noted, Bound, Stacked
<1>2. ASSUME NEW ie \in Leaves, NEW o \in Options(ie), AddLeaf(ie, o) PROVE TypeInv'
  BY <1>2, AddLeafKeepsTypes
<1>3. ASSUME NEW ie \in DOMAIN Grouped, OpenGroup(ie) PROVE TypeInv'
  BY <1>3, OpenGroupKeepsTypes
<1>4. ASSUME NEW seid \in BOOLEAN, Send(seid) PROVE TypeInv'
  BY <1>4, SendKeepsTypes
<1>5. CASE Next
  BY <1>2, <1>3, <1>4, <1>5, NextCases, CloseGroupKeepsTypes, LoadHeaderKeepsTypes,
     LoadLeafKeepsTypes, LoadGroupKeepsTypes, CloseLoadedKeepsTypes, JudgeKeepsTypes, Zenon
<1> QED
  BY <1>1, <1>5

(* Every reachable state is well typed. *)
THEOREM CodecTypeInvariant == Spec => []TypeInv
<1>1. Init => TypeInv
  BY InitTypes
<1>2. TypeInv /\ [Next]_vars => TypeInv'
  BY NextTypes
<1> QED
  BY <1>1, <1>2, PTL DEF Spec

(* Every length that add_ie keeps fits into sixteen bits, no loop of load_from
   has more left than its TLV says, and the bound on the elements is kept. *)
THEOREM CodecTypes == Spec => []CodecTypeOK
<1>1. ASSUME TypeInv PROVE CodecTypeOK
  <2>1. ASSUME NEW i \in DOMAIN enc PROVE enc[i].length \in Nat /\ enc[i].length < 65536
    <3>1. DOMAIN enc = 1 .. Len(enc)
      BY <1>1, LenProperties DEF TypeInv, Frames, IsSeq
    <3>2. IsFrame(enc[i])
      BY <1>1, <2>1, <3>1, Zenon DEF TypeInv, Frames
    <3>3. Sized(enc[i].ie, enc[i].length, enc[i].items, enc[i].dumps)
      BY <3>2, FrameFields
    <3> QED
      BY <3>3 DEF Sized
  <2>2. ASSUME NEW i \in DOMAIN dec PROVE dec[i].left <= dec[i].length
    <3>1. DOMAIN dec = 1 .. Len(dec)
      BY <1>1, LenProperties DEF TypeInv, Stacked, IsSeq
    <3>2. IsLoading(dec[i])
      BY <1>1, <2>2, <3>1, Zenon DEF TypeInv, Stacked
    <3>3. Counting(dec[i].ie, dec[i].length, dec[i].left, dec[i].fault)
      BY <3>2, LoadingFields
    <3> QED
      BY <3>3 DEF Counting
  <2> QED
    BY <1>1, <2>1, <2>2 DEF TypeInv, UnderWay, Noted, CodecTypeOK
<1> QED
  BY <1>1, CodecTypeInvariant, PTL

-----------------------------------------------------------------------------
(* How a message came about: the frames held at some time, each with the notes
   of the elements in it, however deep. *)

(* What is known of a frame and its notes: the octets it writes are counted
   unless an element understates its own, and it is written unless it has an
   element that no message can carry or that is altered. *)
Exact(F) == F.dumps => F.length = Uint16(Octets(F.items))
Good(M, A) ==
  /\ IsFrame(A.frame) /\ A.notes \subseteq M
  /\ (\A m \in A.notes : ~Understated(m)) => Exact(A.frame)
  /\ (\A m \in A.notes : ~Altered(m) /\ ~Unusable(m)) => A.frame.dumps

(* The note of an element ie that was added to F. *)
NoteOf(m, F, ie, o, length) ==
  m.ie = ie /\ m.o = o /\ m.length = length /\ m.place = Place(F, ie)

(* B is A with the element ie in it, or with the group G. *)
LeafStep(M, A, B, ie, o, m) ==
  LET c == Codec(ie, o, 0)
  IN  /\ ie \in Leaves /\ o \in Options(ie)
      /\ m \in M /\ NoteOf(m, A.frame, ie, o, c.length)
      /\ Grown(A.frame, B.frame, ie, c.length, c.tlv, c.dumped, c.dumps, c.value)
      /\ B.notes = A.notes \cup {m}

GroupStep(M, A, B, G, m) ==
  LET F == G.frame
  IN  /\ F.ie \in DOMAIN Grouped
      /\ m \in M /\ NoteOf(m, A.frame, F.ie, {}, F.length)
      /\ Grown(A.frame, B.frame, F.ie, F.length, F.length, F.items, F.dumps, F.content)
      /\ B.notes = (A.notes \cup G.notes) \cup {m}

Step(Q, M, A, B) ==
  \/ \E ie, o, m : LeafStep(M, A, B, ie, o, m)
  \/ \E G \in Q : \E m : GroupStep(M, A, B, G, m)

(* B came about from A. *)
Links(Q, M, n, T) ==
  /\ \A k \in 0 .. n : T[k] \in Q
  /\ \A k \in 0 .. n - 1 : Step(Q, M, T[k], T[k + 1])
Chain(Q, M, A, B) ==
  \E n \in Nat : \E T : T[0] = A /\ T[n] = B /\ Links(Q, M, n, T)

Fresh(A, ie) == Like(A.frame, Frame(ie)) /\ A.notes = {}

History(Q, M) ==
  \A B \in Q : /\ Good(M, B)
               /\ \E A \in Q : Fresh(A, B.frame.ie) /\ Chain(Q, M, A, B)

(* The frames of the stack and the ones of the history. *)
Holds(Q, M, s, E) ==
  /\ IsSeq(E) /\ Len(E) = Len(s)
  /\ \A j \in 1 .. Len(s) : E[j] \in Q /\ Like(s[j], E[j].frame)
  /\ \A m \in M : \E j \in 1 .. Len(s) : m \in E[j].notes
Told(Q, M, s) == History(Q, M) /\ \E E : Holds(Q, M, s, E)

(* A longer history. *)
LEMMA StepGrows ==
  ASSUME NEW Q, NEW M, NEW R, Q \subseteq R, NEW N, M \subseteq N,
         NEW A, NEW B, Step(Q, M, A, B)
  PROVE  Step(R, N, A, B)
<1>1. CASE \E ie, o, m : LeafStep(M, A, B, ie, o, m)
  <2>1. PICK ie, o, m : LeafStep(M, A, B, ie, o, m)
    BY <1>1
  <2>2. m \in N
    BY <2>1 DEF LeafStep
  <2>3. LeafStep(N, A, B, ie, o, m)
    BY <2>1, <2>2, Zenon DEF LeafStep
  <2> QED
    BY <2>3, Zenon DEF Step
<1>2. CASE \E G \in Q : \E m : GroupStep(M, A, B, G, m)
  <2>4. PICK G \in Q : \E m : GroupStep(M, A, B, G, m)
    BY <1>2
  <2>1. PICK m : GroupStep(M, A, B, G, m)
    BY <2>4
  <2>2. m \in N /\ G \in R
    BY <2>1 DEF GroupStep
  <2>3. GroupStep(N, A, B, G, m)
    BY <2>1, <2>2, Zenon DEF GroupStep
  <2> QED
    BY <2>2, <2>3, Zenon DEF Step
<1> QED
  BY <1>1, <1>2, Zenon DEF Step

(* Links in a larger history. *)
LEMMA LinksGrow ==
  ASSUME NEW Q, NEW M, NEW R, Q \subseteq R, NEW N, M \subseteq N,
         NEW n, NEW T, Links(Q, M, n, T)
  PROVE  Links(R, N, n, T)
<1>1. \A k \in 0 .. n : T[k] \in R
  BY DEF Links
<1>2. ASSUME NEW k \in 0 .. n - 1 PROVE Step(R, N, T[k], T[k + 1])
  <2>1. Step(Q, M, T[k], T[k + 1])
    BY Zenon DEF Links
  <2> QED
    BY <2>1, StepGrows
<1> QED
  BY <1>1, <1>2, Zenon DEF Links

(* A chain in a larger history. *)
LEMMA ChainGrows ==
  ASSUME NEW Q, NEW M, NEW R, Q \subseteq R, NEW N, M \subseteq N,
         NEW A, NEW B, Chain(Q, M, A, B)
  PROVE  Chain(R, N, A, B)
<1>1. PICK n \in Nat : \E T : T[0] = A /\ T[n] = B /\ Links(Q, M, n, T)
  BY DEF Chain
<1>2. PICK T : T[0] = A /\ T[n] = B /\ Links(Q, M, n, T)
  BY <1>1
<1>3. Links(R, N, n, T)
  BY <1>2, LinksGrow
<1> QED
  BY <1>2, <1>3, Zenon DEF Chain

(* A chain of one frame, and a chain with one more frame at its end. *)
LEMMA ChainOne ==
  ASSUME NEW Q, NEW M, NEW A \in Q
  PROVE  Chain(Q, M, A, A)
<1> DEFINE T == [k \in {0} |-> A]
<1>1. T[0] = A /\ \A k \in 0 .. 0 : T[k] = A
  OBVIOUS
<1>2. 0 .. 0 - 1 = {} /\ 0 \in Nat
  OBVIOUS
<1> HIDE DEF T
<1>3. Links(Q, M, 0, T)
  BY <1>1, <1>2, Zenon DEF Links
<1> QED
  BY <1>1, <1>2, <1>3, Zenon DEF Chain

(* A chain with one more step at its end. *)
LEMMA ChainEnd ==
  ASSUME NEW Q, NEW M, NEW A, NEW B, Chain(Q, M, A, B), NEW C \in Q, Step(Q, M, B, C)
  PROVE  Chain(Q, M, A, C)
<1>1. PICK n \in Nat : \E T : T[0] = A /\ T[n] = B /\ Links(Q, M, n, T)
  BY DEF Chain
<1>2. PICK T : T[0] = A /\ T[n] = B /\ Links(Q, M, n, T)
  BY <1>1
<1> DEFINE U == [k \in 0 .. n + 1 |-> IF k = n + 1 THEN C ELSE T[k]]
<1>3. U[n + 1] = C /\ U[0] = T[0] /\ \A k \in 0 .. n : U[k] = T[k]
  OBVIOUS
<1>4. n + 1 \in Nat /\ n \in 0 .. n
  OBVIOUS
<1> HIDE DEF U
<1>5. ASSUME NEW k \in 0 .. n + 1 PROVE U[k] \in Q
  <2>1. k = n + 1 \/ k \in 0 .. n
    OBVIOUS
  <2> QED
    BY <1>2, <1>3, <2>1, Zenon DEF Links
<1>6. ASSUME NEW k \in 0 .. (n + 1) - 1 PROVE Step(Q, M, U[k], U[k + 1])
  <2>1. k \in 0 .. n /\ (k = n \/ (k \in 0 .. n - 1 /\ k + 1 \in 0 .. n))
    OBVIOUS
  <2>2. CASE k = n
    <3>1. U[k] = B /\ U[k + 1] = C
      BY <1>2, <1>3, <1>4, <2>2
    <3> QED
      BY <3>1, Zenon
  <2>3. CASE k \in 0 .. n - 1 /\ k + 1 \in 0 .. n
    <3>1. U[k] = T[k] /\ U[k + 1] = T[k + 1]
      BY <1>3, <2>1, <2>3
    <3> QED
      BY <1>2, <2>3, <3>1, Zenon DEF Links
  <2> QED
    BY <2>1, <2>2, <2>3
<1>7. Links(Q, M, n + 1, U)
  BY <1>5, <1>6, Zenon DEF Links
<1> QED
  BY <1>2, <1>3, <1>4, <1>7, Zenon DEF Chain

(* A chain is a single frame, or it begins with a step. *)
LEMMA ChainBegin ==
  ASSUME NEW Q, NEW M, NEW A, NEW B, Chain(Q, M, A, B)
  PROVE  \/ A = B
         \/ \E C \in Q : Step(Q, M, A, C) /\ Chain(Q, M, C, B)
<1>1. PICK n \in Nat : \E T : T[0] = A /\ T[n] = B /\ Links(Q, M, n, T)
  BY DEF Chain
<1>2. PICK T : T[0] = A /\ T[n] = B /\ Links(Q, M, n, T)
  BY <1>1
<1>3. CASE n = 0
  BY <1>2, <1>3
<1>4. CASE n # 0
  <2> DEFINE U == [k \in 0 .. n - 1 |-> T[k + 1]]
  <2>1. U[0] = T[1] /\ U[n - 1] = T[n] /\ \A k \in 0 .. n - 1 : U[k] = T[k + 1]
    BY <1>4
  <2>2. n - 1 \in Nat /\ 1 \in 0 .. n /\ 0 \in 0 .. n - 1 /\ 0 + 1 = 1
    BY <1>4
  <2> HIDE DEF U
  <2>3. ASSUME NEW k \in 0 .. n - 1 PROVE U[k] \in Q
    <3>1. k + 1 \in 0 .. n
      OBVIOUS
    <3> QED
      BY <1>2, <2>1, <3>1, Zenon DEF Links
  <2>4. ASSUME NEW k \in 0 .. (n - 1) - 1 PROVE Step(Q, M, U[k], U[k + 1])
    <3>1. k \in 0 .. n - 1 /\ k + 1 \in 0 .. n - 1
      OBVIOUS
    <3>2. U[k] = T[k + 1] /\ U[k + 1] = T[(k + 1) + 1]
      BY <2>1, <3>1
    <3> QED
      BY <1>2, <3>1, <3>2, Zenon DEF Links
  <2>5. Links(Q, M, n - 1, U)
    BY <2>3, <2>4, Zenon DEF Links
  <2>6. Chain(Q, M, T[1], B)
    BY <1>2, <2>1, <2>2, <2>5, Zenon DEF Chain
  <2>7. T[1] \in Q /\ Step(Q, M, A, T[1])
    <3>1. Step(Q, M, T[0], T[0 + 1])
      BY <1>2, <2>2, Zenon DEF Links
    <3>2. T[1] \in Q
      BY <1>2, <2>2, Zenon DEF Links
    <3> QED
      BY <1>2, <2>2, <3>1, <3>2, Zenon
  <2> QED
    BY <2>6, <2>7, Zenon
<1> QED
  BY <1>3, <1>4

(* Lengths that count octets go on counting them. *)
LEMMA ExactGrows ==
  ASSUME NEW F, IsFrame(F), Exact(F), NEW E, NEW ie \in Leaves \cup DOMAIN Grouped,
         NEW length \in Nat, NEW tlv \in Nat, NEW body \in Seq(ItemType),
         NEW dumps, NEW v, Grown(F, E, ie, length, tlv, body, dumps, v),
         dumps => Uint16(length) = Uint16(Octets(body))
  PROVE  Exact(E)
<1> SUFFICES ASSUME E.dumps PROVE E.length = Uint16(Octets(E.items))
  BY Zenon DEF Exact
<1> DEFINE x == Octets(F.items)
           y == Octets(body)
           items == <<Tlv(ie, tlv)>> \o body
<1>1. F.dumps /\ dumps
  BY Zenon DEF Grown
<1>2. E.length = Uint16(F.length + 4 + length) /\ E.items = F.items \o items
  BY Zenon DEF Grown
<1>3. Sized(F.ie, F.length, F.items, F.dumps)
  BY FrameFields
<1>4. F.length \in Nat /\ F.items \in Seq(ItemType)
  BY <1>3 DEF Sized
<1>5. items \in Seq(ItemType) /\ Octets(items) = 4 + y
  BY ElementItems
<1>6. x \in Nat /\ y \in Nat
  BY <1>4, OctetsNat
<1> HIDE DEF items
<1>7. Octets(E.items) = x + (4 + y)
  BY <1>2, <1>4, <1>5, OctetsConcat
<1>8. F.length = Uint16(x) /\ Uint16(length) = Uint16(y)
  BY <1>1, Zenon DEF Exact
<1> HIDE DEF x, y
<1>9. Uint16(Uint16(x) + (4 + length)) = Uint16(x + (4 + length))
  BY <1>6, Sixteen
<1>10. Uint16(Uint16(length) + (x + 4)) = Uint16(length + (x + 4))
  BY <1>6, Sixteen
<1>11. Uint16(Uint16(y) + (x + 4)) = Uint16(y + (x + 4))
  BY <1>6, Sixteen
<1>12. /\ F.length + 4 + length = Uint16(x) + (4 + length)
       /\ x + (4 + length) = length + (x + 4) /\ y + (x + 4) = x + (4 + y)
  BY <1>4, <1>6, <1>8
<1> QED
  BY <1>2, <1>7, <1>8, <1>9, <1>10, <1>11, <1>12, Zenon

(* A frame with one more leaf. *)
LEMMA GoodLeaf ==
  ASSUME NEW M, NEW N, M \subseteq N, NEW A, Good(M, A), NEW B, NEW ie, NEW o, NEW m,
         LeafStep(N, A, B, ie, o, m), IsFrame(B.frame)
  PROVE  Good(N, B)
<1> DEFINE c == Codec(ie, o, 0)
<1>1. /\ ie \in Leaves /\ o \in Options(ie) /\ m \in N
      /\ NoteOf(m, A.frame, ie, o, c.length)
      /\ Grown(A.frame, B.frame, ie, c.length, c.tlv, c.dumped, c.dumps, c.value)
      /\ B.notes = A.notes \cup {m}
  BY Zenon DEF LeafStep
<1>2. Formed(ie, o) /\ Counted(ie, o) /\ Taken(ie, o)
  BY <1>1, EveryElement DEF Sorted
<1>3. /\ IsFrame(A.frame) /\ A.notes \subseteq M
      /\ (\A k \in A.notes : ~Understated(k)) => Exact(A.frame)
      /\ (\A k \in A.notes : ~Altered(k) /\ ~Unusable(k)) => A.frame.dumps
  BY Zenon DEF Good
<1>4. B.notes \subseteq N
  BY <1>1, <1>3
<1>5. m.ie = ie /\ m.o = o /\ m.length = c.length
  BY <1>1, Zenon DEF NoteOf
<1>6. c.length \in Nat /\ c.tlv \in Nat /\ c.dumped \in Seq(FieldType)
  BY <1>2 DEF Formed
<1>7. c.dumped \in Seq(ItemType)
  BY <1>6, FieldsAreItems
<1>8. ASSUME \A k \in B.notes : ~Understated(k) PROVE Exact(B.frame)
  <2>1. ~Understated(m) /\ \A k \in A.notes : ~Understated(k)
    BY <1>1, <1>8
  <2>2. c.dumps => c.length = Octets(c.dumped)
    BY <1>2, <1>5, <2>1, Zenon DEF Counted
  <2>3. Exact(A.frame)
    BY <1>3, <2>1, Zenon
  <2> DEFINE l == c.length
             t == c.tlv
             s == c.dumped
             d == c.dumps
             v == c.value
  <2>4. /\ l \in Nat /\ t \in Nat /\ s \in Seq(ItemType) /\ ie \in Leaves \cup DOMAIN Grouped
        /\ d => Uint16(l) = Uint16(Octets(s))
        /\ Grown(A.frame, B.frame, ie, l, t, s, d, v)
    BY <1>1, <1>6, <1>7, <2>2, Zenon
  <2> HIDE DEF l, t, s, d, v
  <2> QED
    BY <1>3, <2>3, <2>4, ExactGrows
<1>9. ASSUME \A k \in B.notes : ~Altered(k) /\ ~Unusable(k) PROVE B.frame.dumps
  <2>1. /\ ~Altered(m) /\ ~Unusable(m)
        /\ \A k \in A.notes : ~Altered(k) /\ ~Unusable(k)
    BY <1>1, <1>9
  <2>2. c.dumps
    BY <1>2, <1>5, <2>1, Zenon DEF Taken
  <2>3. A.frame.dumps
    BY <1>3, <2>1, Zenon
  <2> QED
    BY <1>1, <2>2, <2>3, Zenon DEF Grown
<1> QED
  BY <1>4, <1>8, <1>9, Zenon DEF Good

(* A frame with one more group. *)
LEMMA GoodGroup ==
  ASSUME NEW M, NEW N, M \subseteq N, NEW A, Good(M, A), NEW B, NEW G, Good(M, G), NEW m,
         GroupStep(N, A, B, G, m), IsFrame(B.frame)
  PROVE  Good(N, B)
<1> DEFINE F == G.frame
<1>1. /\ F.ie \in DOMAIN Grouped /\ m \in N
      /\ Grown(A.frame, B.frame, F.ie, F.length, F.length, F.items, F.dumps, F.content)
      /\ B.notes = (A.notes \cup G.notes) \cup {m}
  BY Zenon DEF GroupStep
<1>2. /\ IsFrame(A.frame) /\ A.notes \subseteq M
      /\ (\A k \in A.notes : ~Understated(k)) => Exact(A.frame)
      /\ (\A k \in A.notes : ~Altered(k) /\ ~Unusable(k)) => A.frame.dumps
  BY Zenon DEF Good
<1>3. /\ IsFrame(F) /\ G.notes \subseteq M
      /\ (\A k \in G.notes : ~Understated(k)) => Exact(F)
      /\ (\A k \in G.notes : ~Altered(k) /\ ~Unusable(k)) => F.dumps
  BY Zenon DEF Good
<1>4. B.notes \subseteq N
  BY <1>1, <1>2, <1>3
<1>5. Sized(F.ie, F.length, F.items, F.dumps)
  BY <1>3, FrameFields
<1>6. F.length \in Nat /\ F.items \in Seq(ItemType)
  BY <1>5 DEF Sized
<1>7. ASSUME \A k \in B.notes : ~Understated(k) PROVE Exact(B.frame)
  <2>1. (\A k \in A.notes : ~Understated(k)) /\ \A k \in G.notes : ~Understated(k)
    BY <1>1, <1>7
  <2>2. Exact(A.frame) /\ Exact(F)
    BY <1>2, <1>3, <2>1, Zenon
  <2> DEFINE l == F.length
             s == F.items
             d == F.dumps
             v == F.content
             a == F.ie
  <2>3. d => l = Uint16(Octets(s))
    BY <2>2, Zenon DEF Exact
  <2>4. /\ l \in Nat /\ s \in Seq(ItemType) /\ a \in Leaves \cup DOMAIN Grouped
        /\ Grown(A.frame, B.frame, a, l, l, s, d, v)
    BY <1>1, <1>6, Zenon
  <2> HIDE DEF l, s, d, v, a
  <2>5. Octets(s) \in Nat
    BY <2>4, OctetsNat
  <2>6. /\ Uint16(Octets(s)) \in Nat
        /\ Uint16(Uint16(Octets(s)) + 0) = Uint16(Octets(s) + 0)
    BY <2>5, Sixteen
  <2>7. d => Uint16(l) = Uint16(Octets(s))
    BY <2>3, <2>5, <2>6
  <2> QED
    BY <1>2, <2>2, <2>4, <2>7, ExactGrows
<1>8. ASSUME \A k \in B.notes : ~Altered(k) /\ ~Unusable(k) PROVE B.frame.dumps
  <2>1. /\ \A k \in A.notes : ~Altered(k) /\ ~Unusable(k)
        /\ \A k \in G.notes : ~Altered(k) /\ ~Unusable(k)
    BY <1>1, <1>8
  <2>2. A.frame.dumps /\ F.dumps
    BY <1>2, <1>3, <2>1, Zenon
  <2> QED
    BY <1>1, <2>2, Zenon DEF Grown
<1> QED
  BY <1>4, <1>7, <1>8, Zenon DEF Good

(* One more frame in the history. *)
LEMMA HistoryGrows ==
  ASSUME NEW Q, NEW M, NEW N, History(Q, M), M \subseteq N, NEW A \in Q,
         NEW B, Good(N, B), B.frame.ie = A.frame.ie, Step(Q, N, A, B)
  PROVE  History(Q \cup {B}, N)
<1> DEFINE R == Q \cup {B}
<1>1. Q \subseteq R /\ B \in R
  OBVIOUS
<1> HIDE DEF R
<1>2. ASSUME NEW C \in Q
      PROVE  Good(N, C) /\ \E D \in R : Fresh(D, C.frame.ie) /\ Chain(R, N, D, C)
  <2>1. Good(M, C)
    BY Zenon DEF History
  <2>2. Good(N, C)
    <3>1. C.notes \subseteq N
      BY <2>1 DEF Good
    <3> QED
      BY <2>1, <3>1, Zenon DEF Good
  <2>3. PICK D \in Q : Fresh(D, C.frame.ie) /\ Chain(Q, M, D, C)
    BY Zenon DEF History
  <2>4. Chain(R, N, D, C) /\ D \in R
    BY <1>1, <2>3, ChainGrows
  <2> QED
    BY <2>2, <2>3, <2>4, Zenon
<1>3. \E D \in R : Fresh(D, B.frame.ie) /\ Chain(R, N, D, B)
  <2>1. PICK D \in R : Fresh(D, A.frame.ie) /\ Chain(R, N, D, A)
    BY <1>2
  <2>2. N \subseteq N
    OBVIOUS
  <2>3. Step(R, N, A, B)
    BY <1>1, <2>2, StepGrows
  <2>4. Chain(R, N, D, B)
    BY <1>1, <2>1, <2>3, ChainEnd
  <2> QED
    BY <2>1, <2>4, Zenon
<1>4. ASSUME NEW C \in R
      PROVE  Good(N, C) /\ \E D \in R : Fresh(D, C.frame.ie) /\ Chain(R, N, D, C)
  <2>1. C \in Q \/ C = B
    BY DEF R
  <2> QED
    BY <1>2, <1>3, <2>1, Zenon
<1>5. History(R, N)
  BY <1>4, Zenon DEF History
<1> QED
  BY <1>5 DEF R

(* A fresh frame in the history. *)
LEMMA HistoryFresh ==
  ASSUME NEW Q, NEW M, History(Q, M), NEW ie \in Classes
  PROVE  LET A == [frame |-> Frame(ie), notes |-> {}]
         IN  /\ A.frame = Frame(ie) /\ A.notes = {}
             /\ Good(M, A) /\ Fresh(A, ie) /\ History(Q \cup {A}, M)
<1> DEFINE A == [frame |-> Frame(ie), notes |-> {}]
           R == Q \cup {A}
<1>1. A.frame = Frame(ie) /\ A.notes = {}
  BY Zenon
<1> HIDE DEF A
<1>2. Q \subseteq R /\ A \in R /\ M \subseteq M
  OBVIOUS
<1>3. /\ IsFrame(Frame(ie)) /\ Frame(ie).ie = ie /\ Frame(ie).dumps
      /\ Frame(ie).length = 0 /\ Frame(ie).items = <<>>
  BY FreshFrame
<1>4. Exact(Frame(ie))
  <2>1. Octets(<<>>) = 0 /\ Uint16(0) = 0
    BY OctetsFew DEF Uint16
  <2> QED
    BY <1>3, <2>1, Zenon DEF Exact
<1>5. Good(M, A)
  <2>1. A.notes \subseteq M
    BY <1>1
  <2> QED
    BY <1>1, <1>3, <1>4, <2>1, Zenon DEF Good
<1>6. Fresh(A, ie) /\ Fresh(A, A.frame.ie)
  BY <1>1, <1>3, Zenon DEF Fresh, Like
<1> HIDE DEF R
<1>7. ASSUME NEW C \in Q
      PROVE  Good(M, C) /\ \E D \in R : Fresh(D, C.frame.ie) /\ Chain(R, M, D, C)
  <2>1. PICK D \in Q : Fresh(D, C.frame.ie) /\ Chain(Q, M, D, C)
    BY Zenon DEF History
  <2>2. Chain(R, M, D, C) /\ D \in R
    BY <1>2, <2>1, ChainGrows
  <2> QED
    BY <2>1, <2>2, Zenon DEF History
<1>8. Chain(R, M, A, A)
  BY <1>2, ChainOne
<1>9. ASSUME NEW C \in R
      PROVE  Good(M, C) /\ \E D \in R : Fresh(D, C.frame.ie) /\ Chain(R, M, D, C)
  <2>1. C \in Q \/ C = A
    BY DEF R
  <2> QED
    BY <1>2, <1>5, <1>6, <1>7, <1>8, <2>1, Zenon
<1>10. History(R, M)
  BY <1>9, Zenon DEF History
<1> QED
  BY <1>1, <1>5, <1>6, <1>10, Zenon DEF A, R

(* The place of an element does not depend on the slot. *)
LEMMA PlaceLike ==
  ASSUME NEW F, NEW E, Like(F, E), NEW ie
  PROVE  Place(F, ie) = Place(E, ie)
<1>1. F.ie = E.ie /\ F.content = E.content
  BY Zenon DEF Like
<1> DEFINE P(a, c) == CASE ie \notin Members(ContainerOf(a)) -> "stray"
                        [] ie \in DOMAIN c /\ ie \in ContainerOf(a).one -> "again"
                        [] OTHER -> "only"
<1>2. Place(F, ie) = P(F.ie, F.content) /\ Place(E, ie) = P(E.ie, E.content)
  BY Zenon DEF Place
<1> HIDE DEF P
<1> QED
  BY <1>1, <1>2, Zenon

(* The note that is made. *)
LEMMA NoteMade ==
  ASSUME NEW F, NEW E, Like(F, E), NEW ie, NEW o, NEW l
  PROVE  \E m : Note(F, ie, o, l) = made \cup {m} /\ NoteOf(m, E, ie, o, l)
<1> DEFINE p == Place(F, ie)
           n == Cardinality(made)
           m == [ie |-> ie, o |-> o, length |-> l, nth |-> n, place |-> p]
<1>1. Note(F, ie, o, l) = made \cup {m}
  BY Zenon DEF Note
<1>2. p = Place(E, ie)
  BY PlaceLike
<1> HIDE DEF p, n
<1>3. m.ie = ie /\ m.o = o /\ m.length = l /\ m.place = p
  BY Zenon
<1> HIDE DEF m
<1> QED
  BY <1>1, <1>2, <1>3, Zenon DEF NoteOf

(* Frames that differ in the slot of the first only grow alike. *)
LEMMA GrownLike ==
  ASSUME NEW F, NEW E, Like(F, E), NEW D, NEW ie, NEW l, NEW t, NEW s, NEW d, NEW v,
         Grown(F, D, ie, l, t, s, d, v)
  PROVE  Grown(E, D, ie, l, t, s, d, v)
BY Zenon DEF Like, Grown

(* Like is an equivalence. *)
LEMMA LikeItself ==
  ASSUME NEW F
  PROVE  /\ Like(F, F)
         /\ \A E : Like(F, E) => Like(E, F)
         /\ \A D, E : Like(F, D) /\ Like(D, E) => Like(F, E)
BY Zenon DEF Like

(* The frame A with a leaf in it, and the history with it. *)
LEMMA HistoryLeaf ==
  ASSUME NEW Q, NEW M, History(Q, M), NEW A \in Q, NEW F, IsFrame(F), Like(F, A.frame),
         NEW ie \in Leaves, NEW o \in Options(ie), NEW m,
         NoteOf(m, A.frame, ie, o, Codec(ie, o, 0).length)
  PROVE  LET B == [frame |-> Leaf(F, ie, o), notes |-> A.notes \cup {m}]
         IN  /\ B.frame = Leaf(F, ie, o) /\ B.notes = A.notes \cup {m}
             /\ History(Q \cup {B}, M \cup {m})
<1> DEFINE B == [frame |-> Leaf(F, ie, o), notes |-> A.notes \cup {m}]
           c == Codec(ie, o, 0)
           N == M \cup {m}
<1>1. B.frame = Leaf(F, ie, o) /\ B.notes = A.notes \cup {m}
  BY Zenon
<1> HIDE DEF B
<1>2. /\ IsFrame(Leaf(F, ie, o))
      /\ Grown(F, Leaf(F, ie, o), ie, c.length, c.tlv, c.dumped, c.dumps, c.value)
  BY LeafGrows
<1>3. Grown(A.frame, Leaf(F, ie, o), ie, c.length, c.tlv, c.dumped, c.dumps, c.value)
  BY <1>2, GrownLike
<1>4. M \subseteq N /\ m \in N
  OBVIOUS
<1> HIDE DEF N
<1>5. LeafStep(N, A, B, ie, o, m)
  BY <1>1, <1>3, <1>4, Zenon DEF LeafStep
<1>6. Good(M, A)
  BY Zenon DEF History
<1>7. Good(N, B)
  BY <1>1, <1>2, <1>4, <1>5, <1>6, GoodLeaf
<1>8. B.frame.ie = A.frame.ie
  BY <1>1, <1>3, Zenon DEF Grown
<1>9. Step(Q, N, A, B)
  BY <1>5, Zenon DEF Step
<1>10. History(Q \cup {B}, N)
  BY <1>4, <1>7, <1>8, <1>9, HistoryGrows
<1> QED
  BY <1>1, <1>10, Zenon DEF B, N

(* The frame A with the group G in it, and the history with it. *)
LEMMA HistoryGroup ==
  ASSUME NEW Q, NEW M, History(Q, M), NEW A \in Q, NEW F, IsFrame(F), Like(F, A.frame),
         NEW G \in Q, NEW E, IsFrame(E), Like(E, G.frame), E.ie \in DOMAIN Grouped, NEW m,
         NoteOf(m, A.frame, E.ie, {}, E.length)
  PROVE  LET B == [frame |-> Merged(F, E), notes |-> (A.notes \cup G.notes) \cup {m}]
         IN  /\ B.frame = Merged(F, E) /\ B.notes = (A.notes \cup G.notes) \cup {m}
             /\ History(Q \cup {B}, M \cup {m})
<1> DEFINE B == [frame |-> Merged(F, E), notes |-> (A.notes \cup G.notes) \cup {m}]
           N == M \cup {m}
           H == G.frame
<1>1. B.frame = Merged(F, E) /\ B.notes = (A.notes \cup G.notes) \cup {m}
  BY Zenon
<1> HIDE DEF B
<1>2. /\ IsFrame(Merged(F, E))
      /\ Grown(F, Merged(F, E), E.ie, E.length, E.length, E.items, E.dumps, E.content)
  BY GroupGrows
<1>3. Grown(A.frame, Merged(F, E), E.ie, E.length, E.length, E.items, E.dumps, E.content)
  BY <1>2, GrownLike
<1>4. M \subseteq N /\ m \in N
  OBVIOUS
<1> HIDE DEF N
<1>5. /\ E.ie = H.ie /\ E.length = H.length /\ E.items = H.items
      /\ E.dumps = H.dumps /\ E.content = H.content
  BY Zenon DEF Like
<1>6. Grown(A.frame, Merged(F, E), H.ie, H.length, H.length, H.items, H.dumps, H.content)
  BY <1>3, <1>5, Zenon
<1>7. GroupStep(N, A, B, G, m)
  BY <1>1, <1>4, <1>5, <1>6, Zenon DEF GroupStep
<1>8. Good(M, A) /\ Good(M, G)
  BY Zenon DEF History
<1>9. Good(N, B)
  BY <1>1, <1>2, <1>4, <1>7, <1>8, GoodGroup
<1>10. B.frame.ie = A.frame.ie
  BY <1>1, <1>3, Zenon DEF Grown
<1>11. Step(Q, N, A, B)
  BY <1>7, Zenon DEF Step
<1>12. History(Q \cup {B}, N)
  BY <1>4, <1>9, <1>10, <1>11, HistoryGrows
<1> QED
  BY <1>1, <1>12, Zenon DEF B, N

(* The top of the stack s becomes the top of s1, whose history is B. *)
PutOn(Q, M, s, E, n, s1, R, B, N) ==
  /\ Holds(Q, M, s, E) /\ n \in Nat /\ n = Len(s) /\ n > 0
  /\ Len(s1) = n /\ \A i \in 1 .. n : i # n => s1[i] = s[i]
  /\ Q \subseteq R /\ B \in R /\ Like(s1[n], B.frame) /\ E[n].notes \subseteq B.notes
  /\ \A m \in N : m \in M \/ m \in B.notes

(* The frame on top of the stack is replaced by B. *)
LEMMA HoldsPut ==
  ASSUME NEW Q, NEW M, NEW s, NEW E, NEW n, NEW s1, NEW R, NEW B, NEW N,
         PutOn(Q, M, s, E, n, s1, R, B, N)
  PROVE  \E D : Holds(R, N, s1, D)
<1> USE DEF PutOn
<1> DEFINE D == [E EXCEPT ![n] = B]
<1>1. /\ IsSeq(E) /\ Len(E) = n
      /\ \A j \in 1 .. n : E[j] \in Q /\ Like(s[j], E[j].frame)
      /\ \A m \in M : \E j \in 1 .. n : m \in E[j].notes
  BY Zenon DEF Holds
<1>2. n \in 1 .. n
  OBVIOUS
<1>3. /\ IsSeq(D) /\ Len(D) = n /\ D[n] = B
      /\ \A j \in 1 .. n : j # n => D[j] = E[j]
  BY <1>1, <1>2, StackPut
<1> HIDE DEF D
<1>4. ASSUME NEW j \in 1 .. n PROVE D[j] \in R /\ Like(s1[j], D[j].frame)
  <2>1. CASE j = n
    BY <1>3, <2>1, Zenon
  <2>2. CASE j # n
    <3>1. D[j] = E[j] /\ s1[j] = s[j] /\ E[j] \in Q /\ Like(s[j], E[j].frame)
      BY <1>1, <1>3, <2>2, Zenon
    <3>2. D[j] \in R
      BY <3>1
    <3> QED
      BY <3>1, <3>2, Zenon
  <2> QED
    BY <2>1, <2>2
<1>5. ASSUME NEW m \in N PROVE \E j \in 1 .. n : m \in D[j].notes
  <2>1. CASE m \in B.notes
    BY <1>2, <1>3, <2>1, Zenon
  <2>2. CASE m \in M
    <3>1. PICK j \in 1 .. n : m \in E[j].notes
      BY <1>1, <2>2, Zenon
    <3>2. CASE j = n
      <4>1. m \in B.notes
        BY <3>1, <3>2
      <4> QED
        BY <1>2, <1>3, <4>1, Zenon
    <3>3. CASE j # n
      BY <1>3, <3>1, <3>3, Zenon
    <3> QED
      BY <3>2, <3>3
  <2> QED
    BY <2>1, <2>2
<1>6. Holds(R, N, s1, D)
  BY <1>3, <1>4, <1>5, Zenon DEF Holds
<1> QED
  BY <1>6, Zenon

(* The frame A is pushed. *)
LEMMA HoldsPush ==
  ASSUME NEW Q, NEW M, NEW s, NEW E, Holds(Q, M, s, E), NEW n \in Nat, n = Len(s),
         NEW s1, Len(s1) = n + 1, \A i \in 1 .. n : Like(s1[i], s[i]),
         NEW R, Q \subseteq R, NEW A \in R, Like(s1[n + 1], A.frame),
         NEW N, \A m \in N : m \in M \/ m \in A.notes
  PROVE  \E D : Holds(R, N, s1, D)
<1> DEFINE D == Append(E, A)
<1>1. /\ IsSeq(E) /\ Len(E) = n
      /\ \A j \in 1 .. n : E[j] \in Q /\ Like(s[j], E[j].frame)
      /\ \A m \in M : \E j \in 1 .. n : m \in E[j].notes
  BY Zenon DEF Holds
<1>2. n + 1 \in 1 .. n + 1 /\ \A j \in 1 .. n : j \in 1 .. n + 1
  OBVIOUS
<1>3. /\ IsSeq(D) /\ Len(D) = n + 1 /\ D[n + 1] = A
      /\ \A j \in 1 .. n : D[j] = E[j]
  BY <1>1, StackAppend
<1> HIDE DEF D
<1>4. ASSUME NEW j \in 1 .. n + 1 PROVE D[j] \in R /\ Like(s1[j], D[j].frame)
  <2>1. CASE j = n + 1
    BY <1>3, <2>1, Zenon
  <2>2. CASE j # n + 1
    <3>1. j \in 1 .. n
      BY <2>2
    <3>2. D[j] = E[j] /\ E[j] \in Q /\ Like(s[j], E[j].frame) /\ Like(s1[j], s[j])
      BY <1>1, <1>3, <3>1, Zenon
    <3>3. D[j] \in R
      BY <3>2
    <3>4. Like(s1[j], E[j].frame)
      BY <3>2, LikeItself
    <3> QED
      BY <3>2, <3>3, <3>4, Zenon
  <2> QED
    BY <2>1, <2>2
<1>5. ASSUME NEW m \in N PROVE \E j \in 1 .. n + 1 : m \in D[j].notes
  <2>1. CASE m \in A.notes
    BY <1>2, <1>3, <2>1, Zenon
  <2>2. CASE m \in M
    <3>1. PICK j \in 1 .. n : m \in E[j].notes
      BY <1>1, <2>2, Zenon
    <3> QED
      BY <1>2, <1>3, <3>1, Zenon
  <2> QED
    BY <2>1, <2>2
<1>6. Holds(R, N, s1, D)
  BY <1>3, <1>4, <1>5, Zenon DEF Holds
<1> QED
  BY <1>6, Zenon

(* The two topmost frames become B. *)
LEMMA HoldsMerge ==
  ASSUME NEW Q, NEW M, NEW s, NEW E, Holds(Q, M, s, E), NEW n \in Nat, n = Len(s), n > 1,
         NEW s1, Len(s1) = n - 1, \A i \in 1 .. n - 2 : s1[i] = s[i],
         NEW R, Q \subseteq R, NEW B \in R, Like(s1[n - 1], B.frame),
         E[n - 1].notes \subseteq B.notes, E[n].notes \subseteq B.notes,
         NEW N, \A m \in N : m \in M \/ m \in B.notes
  PROVE  \E D : Holds(R, N, s1, D)
<1> DEFINE D == Append(SubSeq(E, 1, n - 2), B)
<1>1. /\ IsSeq(E) /\ Len(E) = n
      /\ \A j \in 1 .. n : E[j] \in Q /\ Like(s[j], E[j].frame)
      /\ \A m \in M : \E j \in 1 .. n : m \in E[j].notes
  BY Zenon DEF Holds
<1>2. n - 1 \in 1 .. n - 1 /\ \A j \in 1 .. n - 2 : j \in 1 .. n - 1
  OBVIOUS
<1>3. /\ IsSeq(D) /\ Len(D) = n - 1 /\ D[n - 1] = B
      /\ \A j \in 1 .. n - 2 : D[j] = E[j]
  BY <1>1, StackMerge
<1> HIDE DEF D
<1>4. ASSUME NEW j \in 1 .. n - 1 PROVE D[j] \in R /\ Like(s1[j], D[j].frame)
  <2>1. CASE j = n - 1
    BY <1>3, <2>1, Zenon
  <2>2. CASE j # n - 1
    <3>1. j \in 1 .. n - 2 /\ j \in 1 .. n
      BY <2>2
    <3>2. D[j] = E[j] /\ E[j] \in Q /\ Like(s[j], E[j].frame) /\ s1[j] = s[j]
      BY <1>1, <1>3, <3>1, Zenon
    <3>3. D[j] \in R
      BY <3>2
    <3> QED
      BY <3>2, <3>3, Zenon
  <2> QED
    BY <2>1, <2>2
<1>5. ASSUME NEW m \in N PROVE \E j \in 1 .. n - 1 : m \in D[j].notes
  <2>1. CASE m \in B.notes
    BY <1>2, <1>3, <2>1, Zenon
  <2>2. CASE m \in M
    <3>1. PICK j \in 1 .. n : m \in E[j].notes
      BY <1>1, <2>2, Zenon
    <3>2. CASE j = n \/ j = n - 1
      <4>1. m \in B.notes
        BY <3>1, <3>2
      <4> QED
        BY <1>2, <1>3, <4>1, Zenon
    <3>3. CASE j # n /\ j # n - 1
      <4>1. j \in 1 .. n - 2
        BY <3>3
      <4> QED
        BY <1>2, <1>3, <3>1, <4>1, Zenon
    <3> QED
      BY <3>2, <3>3
  <2> QED
    BY <2>1, <2>2
<1>6. Holds(R, N, s1, D)
  BY <1>3, <1>4, <1>5, Zenon DEF Holds
<1> QED
  BY <1>6, Zenon

(* The invariant: there is a history of the message. *)
Tells == \E Q : Told(Q, made, enc)

(* The stack of the sender and its history. *)
LEMMA TopHeld ==
  ASSUME Frames, NEW Q, NEW E, Holds(Q, made, enc, E)
  PROVE  /\ Len(enc) \in Nat /\ Len(enc) > 0 /\ IsSeq(E) /\ Len(E) = Len(enc)
         /\ E[Len(enc)] \in Q /\ Like(Top, E[Len(enc)].frame)
         /\ \A i \in 1 .. Len(enc) : E[i] \in Q /\ Like(enc[i], E[i].frame)
<1>1. Len(enc) \in Nat /\ Len(enc) > 0 /\ Len(enc) \in 1 .. Len(enc)
  BY TopFrame DEF Frames
<1> QED
  BY <1>1, Zenon DEF Holds, Top

(* The history goes on when a leaf is added. *)
LEMMA AddLeafTells ==
  ASSUME TypeInv, Tells, NEW ie \in Leaves, NEW o \in Options(ie), AddLeaf(ie, o)
  PROVE  Tells'
<1>1. PICK Q : Told(Q, made, enc)
  BY DEF Tells
<1>2. History(Q, made)
  BY <1>1, Zenon DEF Told
<1>3. PICK E : Holds(Q, made, enc, E)
  BY <1>1, Zenon DEF Told
<1> DEFINE n == Len(enc)
           F == Moved(ie)
           A == E[n]
<1>4. Frames
  BY DEF TypeInv
<1>5. n \in Nat /\ n > 0 /\ A \in Q /\ Like(Top, A.frame)
  BY <1>3, <1>4, TopHeld
<1>6. IsFrame(F) /\ Like(F, Top) /\ IsSeq(enc) /\ n \in 1 .. n
  BY <1>4, TopFrame
<1>7. Like(F, A.frame)
  BY <1>5, <1>6, LikeItself
<1>8. /\ enc' = [enc EXCEPT ![n] = Leaf(F, ie, o)]
      /\ made' = Note(Top, ie, o, Codec(ie, o, 0).length)
  BY Zenon DEF AddLeaf
<1>9. PICK m : made' = made \cup {m} /\ NoteOf(m, A.frame, ie, o, Codec(ie, o, 0).length)
  BY <1>5, <1>8, NoteMade
<1> HIDE DEF F, A
<1> DEFINE B == [frame |-> Leaf(F, ie, o), notes |-> A.notes \cup {m}]
           R == Q \cup {B}
<1>10. /\ B.frame = Leaf(F, ie, o) /\ B.notes = A.notes \cup {m}
       /\ History(R, made \cup {m})
  BY <1>2, <1>5, <1>6, <1>7, <1>9, HistoryLeaf
<1> HIDE DEF B
<1>11. Q \subseteq R /\ B \in R /\ A.notes \subseteq B.notes
  BY <1>10
<1> HIDE DEF R
<1>12. /\ Len(enc') = n /\ enc'[n] = Leaf(F, ie, o)
       /\ \A i \in 1 .. n : i # n => enc'[i] = enc[i]
  BY <1>6, <1>8, StackPut
<1>13. Like(enc'[n], B.frame)
  BY <1>10, <1>12, LikeItself, Zenon
<1>14. \A k \in made' : k \in made \/ k \in B.notes
  BY <1>9, <1>10
<1>15. E[n].notes \subseteq B.notes
  BY <1>11, Zenon DEF A
<1>16. n \in Nat /\ n > 0 /\ n = Len(enc) /\ Len(enc') = n
  BY <1>5, <1>12
<1>17. PutOn(Q, made, enc, E, n, enc', R, B, made')
  BY <1>3, <1>11, <1>12, <1>13, <1>14, <1>15, <1>16, Zenon DEF PutOn
<1>18. \E D : Holds(R, made', enc', D)
  BY <1>17, HoldsPut, Zenon
<1> QED
  BY <1>9, <1>10, <1>18, Zenon DEF Tells, Told

(* It goes on when a group is opened. *)
LEMMA OpenGroupTells ==
  ASSUME TypeInv, Tells, NEW ie \in DOMAIN Grouped, OpenGroup(ie)
  PROVE  Tells'
<1>1. PICK Q : Told(Q, made, enc)
  BY DEF Tells
<1>2. History(Q, made)
  BY <1>1, Zenon DEF Told
<1>3. PICK E : Holds(Q, made, enc, E)
  BY <1>1, Zenon DEF Told
<1> DEFINE n == Len(enc)
           A == [frame |-> Frame(ie), notes |-> {}]
           R == Q \cup {A}
<1>4. Frames /\ ie \in Classes
  BY DEF TypeInv, Classes
<1>5. /\ A.frame = Frame(ie) /\ A.notes = {} /\ History(R, made)
  BY <1>2, <1>4, HistoryFresh
<1> HIDE DEF A
<1>6. Q \subseteq R /\ A \in R
  OBVIOUS
<1> HIDE DEF R
<1>7. /\ IsFrame(Frame(ie)) /\ Frame(ie).ie = ie
      /\ IsFrame(FarFrame(ie)) /\ FarFrame(ie).ie = ie
      /\ Like(FarFrame(ie), Leaf(Frame(ie), "far_id", {}))
      /\ "far_id" \in Leaves /\ {} \in Options("far_id") /\ Codec("far_id", {}, 0).length = 4
  BY <1>4, FreshFrame, FarIdFirst
<1>8. ASSUME NEW F, IsFrame(F), F.ie = ie,
             enc' = Append([enc EXCEPT ![n] = Moved(ie)], F)
      PROVE  /\ n \in Nat /\ Len(enc') = n + 1 /\ enc'[n + 1] = F
             /\ \A i \in 1 .. n : Like(enc'[i], enc[i])
  <2>1. /\ n \in Nat /\ Len(enc') = n + 1 /\ enc'[n + 1] = F /\ enc'[n] = Moved(ie)
        /\ \A i \in 1 .. n : i # n => enc'[i] = enc[i]
    BY <1>4, <1>8, PushKeepsFrames
  <2>2. Like(Moved(ie), Top)
    BY <1>4, TopFrame
  <2>3. ASSUME NEW i \in 1 .. n PROVE Like(enc'[i], enc[i])
    <3>1. CASE i = n
      BY <2>1, <2>2, <3>1, Zenon DEF Top
    <3>2. CASE i # n
      BY <2>1, <3>2, LikeItself, Zenon
    <3> QED
      BY <3>1, <3>2
  <2> QED
    BY <2>1, <2>3
<1>9. CASE /\ enc' = Append([enc EXCEPT ![n] = Moved(ie)], Frame(ie))
           /\ made' = made
  <2>1. /\ n \in Nat /\ Len(enc') = n + 1 /\ enc'[n + 1] = Frame(ie)
        /\ \A i \in 1 .. n : Like(enc'[i], enc[i])
    BY <1>7, <1>8, <1>9
  <2>2. Like(enc'[n + 1], A.frame)
    BY <1>5, <2>1, LikeItself, Zenon
  <2>3. \A m \in made' : m \in made \/ m \in A.notes
    BY <1>9
  <2>4. \E D : Holds(R, made', enc', D)
    BY <1>3, <1>6, <2>1, <2>2, <2>3, HoldsPush
  <2> QED
    BY <1>5, <1>9, <2>4, Zenon DEF Tells, Told
<1>10. CASE /\ enc' = Append([enc EXCEPT ![n] = Moved(ie)], FarFrame(ie))
            /\ made' = Note(Frame(ie), "far_id", {}, 4)
  <2> DEFINE F == Frame(ie)
             x == "far_id"
             e == {}
  <2>1. IsFrame(F) /\ Like(F, A.frame)
    BY <1>5, <1>7, LikeItself, Zenon
  <2>2. x \in Leaves /\ e \in Options(x) /\ Codec(x, e, 0).length = 4
    BY <1>7
  <2>3. made' = Note(F, x, e, 4)
    BY <1>10
  <2>4. Like(FarFrame(ie), Leaf(F, x, e))
    BY <1>7
  <2> HIDE DEF F, x, e
  <2>5. PICK m : made' = made \cup {m} /\ NoteOf(m, A.frame, x, e, 4)
    BY <2>1, <2>3, NoteMade
  <2> DEFINE B == [frame |-> Leaf(F, x, e), notes |-> A.notes \cup {m}]
             S == R \cup {B}
  <2>6. /\ B.frame = Leaf(F, x, e) /\ B.notes = A.notes \cup {m}
        /\ History(S, made \cup {m})
    BY <1>5, <1>6, <2>1, <2>2, <2>5, HistoryLeaf
  <2> HIDE DEF B
  <2>7. Q \subseteq S /\ B \in S
    BY <1>6
  <2> HIDE DEF S
  <2>8. /\ n \in Nat /\ Len(enc') = n + 1 /\ enc'[n + 1] = FarFrame(ie)
        /\ \A i \in 1 .. n : Like(enc'[i], enc[i])
    BY <1>7, <1>8, <1>10
  <2>9. Like(enc'[n + 1], B.frame)
    BY <2>4, <2>6, <2>8, Zenon
  <2>10. \A k \in made' : k \in made \/ k \in B.notes
    BY <2>5, <2>6
  <2>11. \E D : Holds(S, made', enc', D)
    BY <1>3, <2>7, <2>8, <2>9, <2>10, HoldsPush
  <2> QED
    BY <2>5, <2>6, <2>11, Zenon DEF Tells, Told
<1> QED
  BY <1>4, <1>9, <1>10, OpenGroupEffect

(* It goes on when a group is closed. *)
LEMMA CloseGroupTells ==
  ASSUME TypeInv, Tells, CloseGroup
  PROVE  Tells'
<1>1. PICK Q : Told(Q, made, enc)
  BY DEF Tells
<1>2. History(Q, made)
  BY <1>1, Zenon DEF Told
<1>3. PICK E : Holds(Q, made, enc, E)
  BY <1>1, Zenon DEF Told
<1> DEFINE n == Len(enc)
           up == enc[n - 1]
           A == E[n - 1]
           G == E[n]
<1>4. Frames
  BY DEF TypeInv
<1>5. /\ n > 1 /\ n \in Nat /\ Len(enc') = n - 1 /\ enc'[n - 1] = Merged(up, Top)
      /\ \A i \in 1 .. n - 2 : enc'[i] = enc[i]
      /\ made' = Note(up, Top.ie, {}, Top.length)
      /\ IsFrame(up) /\ IsFrame(Top) /\ Top.ie \in DOMAIN Grouped
  BY <1>4, CloseGroupEffect
<1>6. n - 1 \in 1 .. n
  BY <1>5
<1>7. /\ A \in Q /\ Like(up, A.frame) /\ G \in Q /\ Like(Top, G.frame)
  BY <1>3, <1>4, <1>6, TopHeld
<1>8. PICK m : made' = made \cup {m} /\ NoteOf(m, A.frame, Top.ie, {}, Top.length)
  BY <1>5, <1>7, NoteMade
<1> HIDE DEF up, A, G
<1> DEFINE B == [frame |-> Merged(up, Top), notes |-> (A.notes \cup G.notes) \cup {m}]
           R == Q \cup {B}
<1>9. /\ B.frame = Merged(up, Top) /\ B.notes = (A.notes \cup G.notes) \cup {m}
      /\ History(R, made \cup {m})
  BY <1>2, <1>5, <1>7, <1>8, HistoryGroup
<1> HIDE DEF B
<1>10. /\ Q \subseteq R /\ B \in R /\ A.notes \subseteq B.notes /\ G.notes \subseteq B.notes
  BY <1>9
<1> HIDE DEF R
<1>11. Like(enc'[n - 1], B.frame)
  BY <1>5, <1>9, LikeItself, Zenon
<1>12. \A k \in made' : k \in made \/ k \in B.notes
  BY <1>8, <1>9
<1>14. E[n - 1].notes \subseteq B.notes /\ E[n].notes \subseteq B.notes
  BY <1>10 DEF A, G
<1>15. /\ n > 1 /\ n \in Nat /\ Len(enc') = n - 1
       /\ \A i \in 1 .. n - 2 : enc'[i] = enc[i]
  BY <1>5
<1>13. \E D : Holds(R, made', enc', D)
  BY ZenonT(60), <1>3, <1>10, <1>11, <1>12, <1>14, <1>15, HoldsMerge
<1> QED
  BY <1>8, <1>9, <1>13, Zenon DEF Tells, Told

(* It begins with the message alone. *)
LEMMA InitTells ==
  ASSUME Init
  PROVE  Tells
<1>1. PICK k \in Kinds : enc = <<Frame(k)>>
  BY Zenon DEF Init
<1>2. made = {}
  BY Zenon DEF Init
<1>3. k \in Classes
  BY CodecAssumption DEF Classes
<1>4. History({}, made)
  BY Zenon DEF History
<1> DEFINE A == [frame |-> Frame(k), notes |-> {}]
           Q == {} \cup {A}
<1>5. A.frame = Frame(k) /\ History(Q, made)
  BY <1>3, <1>4, HistoryFresh
<1> HIDE DEF A
<1>6. A \in Q
  OBVIOUS
<1> HIDE DEF Q
<1> DEFINE F == Frame(k)
<1>7. enc = <<F>> /\ A.frame = F
  BY <1>1, <1>5
<1> HIDE DEF F
<1>8. Len(enc) = 1 /\ enc[1] = F /\ \A j \in 1 .. 1 : j = 1
  BY <1>7
<1>9. <<A>> \in Seq({A}) /\ Len(<<A>>) = 1 /\ <<A>>[1] = A
  OBVIOUS
<1>10. IsSeq(<<A>>)
  BY <1>9 DEF IsSeq
<1>11. Like(F, A.frame)
  BY <1>7, LikeItself, Zenon
<1>12. \A m \in made : FALSE
  BY <1>2
<1>13. Holds(Q, made, enc, <<A>>)
  BY <1>6, <1>8, <1>9, <1>10, <1>11, <1>12, Zenon DEF Holds
<1> QED
  BY <1>5, <1>13, Zenon DEF Tells, Told

(* It goes on with every step. *)
LEMMA NextTells ==
  ASSUME TypeInv, Tells, [Next]_vars
  PROVE  Tells'
<1>1. CASE UNCHANGED <<enc, made>>
  BY <1>1, Zenon DEF Tells
<1>2. ASSUME NEW ie \in Leaves, NEW o \in Options(ie), AddLeaf(ie, o) PROVE Tells'
  BY <1>2, AddLeafTells
<1>3. ASSUME NEW ie \in DOMAIN Grouped, OpenGroup(ie) PROVE Tells'
  BY <1>3, OpenGroupTells
<1>4. ASSUME NEW seid \in BOOLEAN, Send(seid) PROVE UNCHANGED <<enc, made>>
  BY <1>4, Zenon DEF Send
<1>5. LoadHeader \/ LoadGroup \/ CloseLoaded => UNCHANGED <<enc, made>>
  BY Zenon DEF LoadHeader, LoadGroup, CloseLoaded
<1>6. LoadLeaf \/ LoadNull \/ EndMessage \/ LoadJunk => UNCHANGED <<enc, made>>
  BY LoadLeafEffect, JudgeEffect, Zenon DEF Kept
<1>7. CASE Next
  BY <1>1, <1>2, <1>3, <1>4, <1>5, <1>6, <1>7, NextCases, CloseGroupTells, Zenon
<1>8. UNCHANGED vars => UNCHANGED <<enc, made>>
  BY Zenon DEF vars
<1> QED
  BY <1>1, <1>7, <1>8, Zenon

(* Every message that is being built has a history. *)
THEOREM CodecHistory == Spec => [](TypeInv /\ Tells)
<1>1. Init => TypeInv /\ Tells
  BY InitTypes, InitTells
<1>2. (TypeInv /\ Tells) /\ [Next]_vars => (TypeInv /\ Tells)'
  BY NextTypes, NextTells
<1> QED
  BY <1>1, <1>2, PTL DEF Spec

(* The length of every group and of the message is the number of octets that
   dump_to writes for it, modulo 2^16, unless an element understates its own. *)
THEOREM LengthsAgree == Spec => []LengthsAreOctets
<1>1. ASSUME TypeInv, Tells PROVE LengthsAreOctets
  <2> SUFFICES ASSUME \A m \in made : ~Understated(m), NEW i \in DOMAIN enc, enc[i].dumps
               PROVE  enc[i].length = Uint16(Octets(enc[i].items))
    BY Zenon DEF LengthsAreOctets
  <2>1. PICK Q : Told(Q, made, enc)
    BY <1>1 DEF Tells
  <2>2. History(Q, made)
    BY <2>1, Zenon DEF Told
  <2>3. PICK E : Holds(Q, made, enc, E)
    BY <2>1, Zenon DEF Told
  <2>4. Frames /\ DOMAIN enc = 1 .. Len(enc)
    BY <1>1, LenProperties DEF TypeInv, Frames, IsSeq
  <2>5. E[i] \in Q /\ Like(enc[i], E[i].frame)
    BY <2>3, <2>4, TopHeld
  <2>6. Good(made, E[i])
    BY <2>2, <2>5, Zenon DEF History
  <2>7. \A m \in E[i].notes : ~Understated(m)
    BY <2>6 DEF Good
  <2>8. Exact(E[i].frame)
    BY <2>6, <2>7, Zenon DEF Good
  <2> QED
    BY <2>5, <2>8, Zenon DEF Like, Exact
<1> QED
  BY <1>1, CodecHistory, PTL

-----------------------------------------------------------------------------
(* Along a chain. *)

(* What fits into sixteen bits. *)
Small(n) == n < 65536

(* Such a number is kept as it is. *)
LEMMA SmallStays ==
  ASSUME NEW n \in Nat, Small(n)
  PROVE  Uint16(n) = n
BY DEF Small, Uint16

(* An element that is written and fits counts in full. *)
LEMMA GrownCounts ==
  ASSUME NEW F, IsFrame(F), NEW E, NEW ie \in Leaves \cup DOMAIN Grouped,
         NEW length \in Nat, NEW tlv \in Nat, NEW body \in Seq(ItemType), NEW dumps \in BOOLEAN, NEW v,
         Grown(F, E, ie, length, tlv, body, dumps, v),
         dumps => length <= Octets(body),
         E.dumps, Small(Octets(E.items))
  PROVE  /\ F.dumps /\ dumps /\ E.ie = F.ie /\ F.items \in Seq(ItemType)
         /\ F.length \in Nat /\ E.length = F.length + 4 + length
         /\ Octets(F.items) \in Nat /\ Octets(body) \in Nat
         /\ Octets(E.items) = Octets(F.items) + 4 + Octets(body)
<1> DEFINE items == <<Tlv(ie, tlv)>> \o body
<1>1. /\ F.dumps /\ dumps /\ E.ie = F.ie
      /\ E.length = Uint16(F.length + 4 + length) /\ E.items = F.items \o items
  BY Zenon DEF Grown
<1>2. Sized(F.ie, F.length, F.items, F.dumps)
  BY FrameFields
<1>3. /\ F.length \in Nat /\ F.items \in Seq(ItemType)
      /\ F.dumps => F.length <= Octets(F.items)
  BY <1>2 DEF Sized
<1>4. items \in Seq(ItemType) /\ Octets(items) = 4 + Octets(body)
  BY ElementItems
<1>5. Octets(F.items) \in Nat /\ Octets(body) \in Nat
  BY <1>3, OctetsNat
<1> HIDE DEF items
<1>6. Octets(E.items) = Octets(F.items) + (4 + Octets(body))
  BY <1>1, <1>3, <1>4, OctetsConcat
<1>7. F.length <= Octets(F.items) /\ length <= Octets(body)
  BY <1>1, <1>3, Zenon
<1>8. F.length + 4 + length \in Nat /\ Small(F.length + 4 + length)
  BY SMTT(60), <1>3, <1>5, <1>6, <1>7 DEF Small
<1>9. E.length = F.length + 4 + length
  BY <1>1, <1>8, SmallStays
<1>10. Octets(E.items) = Octets(F.items) + 4 + Octets(body)
  BY <1>5, <1>6
<1> QED
  BY <1>1, <1>3, <1>5, <1>9, <1>10, Zenon

(* What comes before B: less of it. *)
Ahead(A, B) ==
  /\ A.frame.dumps /\ A.frame.ie = B.frame.ie
  /\ A.frame.items \in Seq(ItemType)
  /\ \E R \in Seq(ItemType) : B.frame.items = A.frame.items \o R
  /\ Octets(A.frame.items) <= Octets(B.frame.items)
  /\ A.frame.length \in Nat /\ B.frame.length \in Nat
  /\ A.frame.length <= B.frame.length

(* The items of an element, by the step that adds it. *)
Body(A, C, ie, length, tlv, body, v) ==
  /\ ie \in Leaves \cup DOMAIN Grouped /\ length \in Nat /\ tlv \in Nat
  /\ body \in Seq(ItemType)
  /\ C.frame.items = A.frame.items \o (<<Tlv(ie, tlv)>> \o body)
  /\ C.frame.length = A.frame.length + 4 + length
  /\ C.frame.content = With(A.frame.content, ie, v, TRUE)
  /\ C.frame.ie = A.frame.ie /\ A.frame.dumps
  /\ A.frame.length \in Nat /\ A.frame.items \in Seq(ItemType)
  /\ Octets(A.frame.items) \in Nat /\ Octets(body) \in Nat
  /\ Octets(C.frame.items) = Octets(A.frame.items) + 4 + Octets(body)

(* The body of a leaf. *)
LEMMA LeafBody ==
  ASSUME NEW M, NEW A, Good(M, A), NEW C, NEW ie, NEW o, NEW m,
         LeafStep(M, A, C, ie, o, m), C.frame.dumps, Small(Octets(C.frame.items))
  PROVE  LET c == Codec(ie, o, 0)
         IN  Body(A, C, ie, c.length, c.tlv, c.dumped, c.value) /\ c.dumps
<1> DEFINE c == Codec(ie, o, 0)
           F == A.frame
           E == C.frame
           l == c.length
           t == c.tlv
           s == c.dumped
           d == c.dumps
           v == c.value
<1>1. /\ ie \in Leaves /\ o \in Options(ie) /\ Grown(F, E, ie, l, t, s, d, v)
  BY Zenon DEF LeafStep
<1>2. Formed(ie, o)
  BY <1>1, EveryElement DEF Sorted
<1>3. /\ l \in Nat /\ t \in Nat /\ s \in Seq(FieldType) /\ d \in BOOLEAN
      /\ (d => l <= Octets(s))
  BY <1>2 DEF Formed
<1>4. s \in Seq(ItemType)
  BY <1>3, FieldsAreItems
<1>5. IsFrame(F) /\ E.dumps /\ Small(Octets(E.items)) /\ ie \in Leaves \cup DOMAIN Grouped
  BY <1>1 DEF Good
<1> HIDE DEF l, t, s, d, v, F, E
<1>6. /\ F.dumps /\ d /\ E.ie = F.ie /\ F.items \in Seq(ItemType)
      /\ F.length \in Nat /\ E.length = F.length + 4 + l
      /\ Octets(F.items) \in Nat /\ Octets(s) \in Nat
      /\ Octets(E.items) = Octets(F.items) + 4 + Octets(s)
  BY <1>1, <1>3, <1>4, <1>5, GrownCounts
<1>7. E.items = F.items \o (<<Tlv(ie, t)>> \o s) /\ E.content = With(F.content, ie, v, TRUE)
  BY <1>1, Zenon DEF Grown
<1> QED
  BY <1>3, <1>4, <1>5, <1>6, <1>7, Zenon DEF Body, l, t, s, d, v, F, E

(* The body of a group. *)
LEMMA GroupBody ==
  ASSUME NEW M, NEW A, Good(M, A), NEW C, NEW G, Good(M, G), NEW m,
         GroupStep(M, A, C, G, m), C.frame.dumps, Small(Octets(C.frame.items))
  PROVE  LET H == G.frame
         IN  Body(A, C, H.ie, H.length, H.length, H.items, H.content) /\ H.dumps
<1> DEFINE H == G.frame
<1>1. H.ie \in DOMAIN Grouped
      /\ Grown(A.frame, C.frame, H.ie, H.length, H.length, H.items, H.dumps, H.content)
  BY Zenon DEF GroupStep
<1>2. IsFrame(H)
  BY DEF Good
<1>3. Sized(H.ie, H.length, H.items, H.dumps)
  BY <1>2, FrameFields
<1>4. H.length \in Nat /\ H.items \in Seq(ItemType) /\ H.dumps \in BOOLEAN
      /\ (H.dumps => H.length <= Octets(H.items))
  BY <1>3 DEF Sized
<1>5. IsFrame(A.frame) /\ H.ie \in Leaves \cup DOMAIN Grouped
  BY <1>1 DEF Good
<1> HIDE DEF H
<1>6. PICK ie, l, s, d, v, F, E :
         /\ ie = H.ie /\ l = H.length /\ s = H.items /\ d = H.dumps /\ v = H.content
         /\ F = A.frame /\ E = C.frame
  OBVIOUS
<1>7. /\ Grown(F, E, ie, l, l, s, d, v) /\ l \in Nat /\ s \in Seq(ItemType)
      /\ d \in BOOLEAN /\ (d => l <= Octets(s)) /\ ie \in Leaves \cup DOMAIN Grouped
      /\ IsFrame(F) /\ E.dumps /\ Small(Octets(E.items))
  BY <1>1, <1>4, <1>5, <1>6, Zenon
<1>8. /\ F.dumps /\ d /\ E.ie = F.ie /\ F.items \in Seq(ItemType)
      /\ F.length \in Nat /\ E.length = F.length + 4 + l
      /\ Octets(F.items) \in Nat /\ Octets(s) \in Nat
      /\ Octets(E.items) = Octets(F.items) + 4 + Octets(s)
  <2>1. \A f, e, i, n, t, b, p, u :
           /\ IsFrame(f) /\ i \in Leaves \cup DOMAIN Grouped /\ n \in Nat /\ t \in Nat
           /\ b \in Seq(ItemType) /\ p \in BOOLEAN /\ Grown(f, e, i, n, t, b, p, u)
           /\ (p => n <= Octets(b)) /\ e.dumps /\ Small(Octets(e.items))
           => /\ f.dumps /\ p /\ e.ie = f.ie /\ f.items \in Seq(ItemType)
              /\ f.length \in Nat /\ e.length = f.length + 4 + n
              /\ Octets(f.items) \in Nat /\ Octets(b) \in Nat
              /\ Octets(e.items) = Octets(f.items) + 4 + Octets(b)
    BY GrownCounts
  <2>2. /\ IsFrame(F) /\ ie \in Leaves \cup DOMAIN Grouped /\ l \in Nat
        /\ s \in Seq(ItemType) /\ d \in BOOLEAN /\ Grown(F, E, ie, l, l, s, d, v)
        /\ (d => l <= Octets(s)) /\ E.dumps /\ Small(Octets(E.items))
    BY <1>7
  <2> HIDE <1>7
  <2> QED
    BY <2>1, <2>2
<1>9. E.items = F.items \o (<<Tlv(ie, l)>> \o s) /\ E.content = With(F.content, ie, v, TRUE)
  BY <1>7, Zenon DEF Grown
<1>10. Body(A, C, ie, l, l, s, v)
  BY <1>6, <1>7, <1>8, <1>9, Zenon DEF Body
<1> QED
  BY <1>6, <1>8, <1>10, Zenon DEF H

(* Every step has a body. *)
LEMMA StepBody ==
  ASSUME NEW Q, NEW M, History(Q, M), NEW A \in Q, NEW C, Step(Q, M, A, C),
         C.frame.dumps, Small(Octets(C.frame.items))
  PROVE  \E ie, l, t, s, v : Body(A, C, ie, l, t, s, v)
<1>1. Good(M, A)
  BY Zenon DEF History
<1>2. CASE \E ie, o, m : LeafStep(M, A, C, ie, o, m)
  <2>1. PICK ie, o, m : LeafStep(M, A, C, ie, o, m)
    BY <1>2
  <2> DEFINE c == Codec(ie, o, 0)
  <2>2. Body(A, C, ie, c.length, c.tlv, c.dumped, c.value)
    BY <1>1, <2>1, LeafBody
  <2> QED
    BY <2>2, Zenon
<1>3. CASE \E G \in Q : \E m : GroupStep(M, A, C, G, m)
  <2>1. PICK G \in Q : \E m : GroupStep(M, A, C, G, m)
    BY <1>3
  <2>2. PICK m : GroupStep(M, A, C, G, m)
    BY <2>1
  <2> DEFINE H == G.frame
  <2>3. Good(M, G)
    BY Zenon DEF History
  <2>4. Body(A, C, H.ie, H.length, H.length, H.items, H.content)
    BY <1>1, <2>2, <2>3, GroupBody
  <2> QED
    BY <2>4, Zenon
<1> QED
  BY <1>2, <1>3, Zenon DEF Step

(* Concatenation of items is associative. *)
LEMMA ItemsAssociate ==
  ASSUME NEW s \in Seq(ItemType), NEW t \in Seq(ItemType), NEW u \in Seq(ItemType)
  PROVE  (s \o t) \o u = s \o (t \o u)
BY ConcatAssociative

(* Concatenations of items. *)
LEMMA ItemsConcat ==
  ASSUME NEW s \in Seq(ItemType), NEW t \in Seq(ItemType)
  PROVE  /\ s \o t \in Seq(ItemType) /\ s \o <<>> = s /\ <<>> \o s = s
         /\ \A u \in Seq(ItemType) : (s \o t) \o u = s \o (t \o u)
         /\ \A u \in Seq(ItemType) : s \o t = s \o u => t = u
<1>1. s \o t \in Seq(ItemType)
  BY ConcatProperties
<1>2. s \o <<>> = s /\ <<>> \o s = s
  BY ConcatEmptySeq
<1>3. \A u \in Seq(ItemType) : (s \o t) \o u = s \o (t \o u)
  BY ConcatAssociative
<1>4. \A u \in Seq(ItemType) : s \o t = s \o u => t = u
  BY ConcatSimplifications, Zenon
<1> QED
  BY <1>1, <1>2, <1>3, <1>4, Zenon

(* A step adds at least four to the length, and some items. *)
LEMMA StepAhead ==
  ASSUME NEW Q, NEW M, History(Q, M), NEW A \in Q, NEW C, Step(Q, M, A, C),
         C.frame.dumps, Small(Octets(C.frame.items))
  PROVE  /\ A.frame.dumps /\ C.frame.ie = A.frame.ie
         /\ A.frame.items \in Seq(ItemType)
         /\ \E R \in Seq(ItemType) : C.frame.items = A.frame.items \o R
         /\ Octets(A.frame.items) \in Nat /\ Octets(C.frame.items) \in Nat
         /\ Octets(A.frame.items) <= Octets(C.frame.items)
         /\ A.frame.length \in Nat /\ C.frame.length \in Nat
         /\ A.frame.length < C.frame.length
<1>1. PICK ie, l, t, s, v : Body(A, C, ie, l, t, s, v)
  BY StepBody
<1>2. /\ ie \in Leaves \cup DOMAIN Grouped /\ l \in Nat /\ t \in Nat /\ s \in Seq(ItemType)
      /\ C.frame.items = A.frame.items \o (<<Tlv(ie, t)>> \o s)
      /\ C.frame.length = A.frame.length + 4 + l
      /\ C.frame.ie = A.frame.ie /\ A.frame.dumps
      /\ A.frame.length \in Nat /\ A.frame.items \in Seq(ItemType)
      /\ Octets(A.frame.items) \in Nat /\ Octets(s) \in Nat
      /\ Octets(C.frame.items) = Octets(A.frame.items) + 4 + Octets(s)
  BY <1>1, Zenon DEF Body
<1>3. <<Tlv(ie, t)>> \o s \in Seq(ItemType)
  BY <1>2, ElementItems
<1>4. \E R \in Seq(ItemType) : C.frame.items = A.frame.items \o R
  BY <1>2, <1>3, Zenon
<1>5. PICK a, c, n, p, q : /\ a = Octets(A.frame.items) /\ c = Octets(C.frame.items)
                           /\ n = A.frame.length /\ p = C.frame.length /\ q = Octets(s)
  OBVIOUS
<1>6. a \in Nat /\ q \in Nat /\ c = a + 4 + q /\ n \in Nat /\ l \in Nat /\ p = n + 4 + l
  BY <1>2, <1>5, Zenon
<1>7. c \in Nat /\ a <= c /\ p \in Nat /\ n < p
  BY <1>6
<1> QED
  BY <1>2, <1>4, <1>5, <1>6, <1>7, Zenon

(* What is ahead of what is ahead of B is ahead of B. *)
LEMMA AheadStep ==
  ASSUME NEW Q, NEW M, History(Q, M), NEW A \in Q, NEW C, Step(Q, M, A, C),
         NEW B, Ahead(C, B), Octets(C.frame.items) \in Nat, Octets(B.frame.items) \in Nat,
         Small(Octets(B.frame.items))
  PROVE  Ahead(A, B) /\ Octets(A.frame.items) \in Nat
<1>1. /\ C.frame.dumps /\ C.frame.ie = B.frame.ie
      /\ C.frame.items \in Seq(ItemType)
      /\ Octets(C.frame.items) <= Octets(B.frame.items)
      /\ C.frame.length \in Nat /\ B.frame.length \in Nat
      /\ C.frame.length <= B.frame.length
  BY Zenon DEF Ahead
<1>2. PICK R \in Seq(ItemType) : B.frame.items = C.frame.items \o R
  BY Zenon DEF Ahead
<1>3. Small(Octets(C.frame.items))
  BY <1>1 DEF Small
<1>4. /\ A.frame.dumps /\ C.frame.ie = A.frame.ie
      /\ A.frame.items \in Seq(ItemType)
      /\ \E S \in Seq(ItemType) : C.frame.items = A.frame.items \o S
      /\ Octets(A.frame.items) \in Nat /\ Octets(C.frame.items) \in Nat
      /\ Octets(A.frame.items) <= Octets(C.frame.items)
      /\ A.frame.length \in Nat /\ C.frame.length \in Nat
      /\ A.frame.length < C.frame.length
  BY <1>1, <1>3, StepAhead
<1>5. PICK S \in Seq(ItemType) : C.frame.items = A.frame.items \o S
  BY <1>4
<1>6. B.frame.items = A.frame.items \o (S \o R)
  <2>2. (A.frame.items \o S) \o R = A.frame.items \o (S \o R)
    BY ZenonT(60), <1>4, ItemsAssociate
  <2> QED
    BY <1>2, <1>5, <2>2, Zenon
<1>7. S \o R \in Seq(ItemType)
  BY ItemsConcat
<1>8. PICK a, b, c, p, q, r : /\ a = Octets(A.frame.items) /\ b = Octets(B.frame.items)
                              /\ c = Octets(C.frame.items) /\ p = A.frame.length
                              /\ q = B.frame.length /\ r = C.frame.length
  OBVIOUS
<1>9. /\ a \in Nat /\ b \in Nat /\ c \in Nat /\ a <= c /\ c <= b
      /\ p \in Nat /\ q \in Nat /\ r \in Nat /\ p < r /\ r <= q
  BY <1>1, <1>4, <1>8, Zenon
<1>10. a <= b /\ p <= q
  BY <1>9
<1>11. A.frame.ie = B.frame.ie
  BY <1>1, <1>4
<1> QED
  BY <1>1, <1>4, <1>6, <1>7, <1>8, <1>10, <1>11, Zenon DEF Ahead

(* Every frame of a chain that ends in a frame that is written and fits is
   ahead of its end. *)
LEMMA ChainAhead ==
  ASSUME NEW Q, NEW M, History(Q, M), NEW A, NEW B, Chain(Q, M, A, B),
         B.frame.dumps, Small(Octets(B.frame.items))
  PROVE  Ahead(A, B) /\ Octets(A.frame.items) \in Nat /\ A \in Q /\ B \in Q
<1>1. PICK n \in Nat : \E T : T[0] = A /\ T[n] = B /\ Links(Q, M, n, T)
  BY Zenon DEF Chain
<1>2. PICK T : T[0] = A /\ T[n] = B /\ Links(Q, M, n, T)
  BY <1>1
<1>3. /\ \A k \in 0 .. n : T[k] \in Q
      /\ \A k \in 0 .. n - 1 : Step(Q, M, T[k], T[k + 1])
  BY <1>2, Zenon DEF Links
<1>4. A \in Q /\ B \in Q
  BY <1>2, <1>3
<1>5. IsFrame(B.frame)
  BY <1>4, Zenon DEF History, Good
<1>6. Sized(B.frame.ie, B.frame.length, B.frame.items, B.frame.dumps)
  BY <1>5, FrameFields
<1>7. B.frame.items \in Seq(ItemType) /\ B.frame.length \in Nat
  BY <1>6 DEF Sized
<1>8. Octets(B.frame.items) \in Nat
  BY <1>7, OctetsNat
<1>9. Ahead(B, B)
  <2>1. <<>> \in Seq(ItemType)
    OBVIOUS
  <2>2. B.frame.items = B.frame.items \o <<>>
    BY <1>7, <2>1, ItemsConcat, Zenon
  <2>3. B.frame.length <= B.frame.length /\ Octets(B.frame.items) <= Octets(B.frame.items)
    BY <1>7, <1>8
  <2> QED
    BY <1>7, <2>1, <2>2, <2>3, Zenon DEF Ahead
<1> DEFINE P(k) == Ahead(T[n - k], B) /\ Octets(T[n - k].frame.items) \in Nat
           S == {k \in Nat : k <= n => P(k)}
<1>10. 0 \in S
  <2>1. n - 0 = n
    OBVIOUS
  <2>2. T[n - 0] = B
    BY <1>2, <2>1, Zenon
  <2>3. P(0)
    BY <1>8, <1>9, <2>2, Zenon
  <2> QED
    BY <2>3
<1>11. \A k \in Nat : k \in S => k + 1 \in S
  <2> SUFFICES ASSUME NEW k \in Nat, k \in S PROVE k + 1 <= n => P(k + 1)
    OBVIOUS
  <2>1. HAVE k + 1 <= n
  <2>2. P(k)
    BY <2>1
  <2>3. n - (k + 1) \in 0 .. n - 1 /\ n - (k + 1) \in 0 .. n /\ (n - (k + 1)) + 1 = n - k
    BY <2>1
  <2> DEFINE X == T[n - (k + 1)]
             Y == T[n - k]
  <2>4. X \in Q /\ Step(Q, M, X, Y)
    BY <1>3, <2>3
  <2> HIDE DEF X, Y
  <2>5. Ahead(Y, B) /\ Octets(Y.frame.items) \in Nat
    BY <2>2 DEF Y
  <2>6. Ahead(X, B) /\ Octets(X.frame.items) \in Nat
    BY <1>8, <2>4, <2>5, AheadStep
  <2> QED
    BY <2>6 DEF X
<1> HIDE DEF S
<1>12. n \in S
  BY <1>10, <1>11, SetInduction
<1>13. P(n) /\ n - n = 0
  BY <1>12 DEF S
<1> QED
  BY <1>2, <1>4, <1>13, Zenon
-----------------------------------------------------------------------------
(* The receiver.  What it is reading is one of the frames of the history, its
   goal; of that it has read what the frame at holds, and it is through with
   next when the group it is in now ends.  Behind next there comes wire, and
   behind the goal there comes below. *)
Level(Q, M, e) ==
  /\ e.at \in Q /\ e.next \in Q /\ e.goal \in Q
  /\ e.goal.frame.dumps /\ Small(Octets(e.goal.frame.items))
  /\ Chain(Q, M, e.next, e.goal)
  /\ e.wire \in Seq(ItemType) /\ Positive(e.wire) /\ e.below \in Seq(ItemType)
  /\ \E R \in Seq(ItemType) :
        e.goal.frame.items = e.next.frame.items \o R /\ e.wire = R \o e.below

(* What is read next is the step to C. *)
Coming(Q, M, e, C) ==
  /\ C \in Q /\ Step(Q, M, e.next, C) /\ Chain(Q, M, C, e.goal)
  /\ C.frame.dumps /\ Small(Octets(C.frame.items))
  /\ C.frame.length \in Nat /\ e.goal.frame.length \in Nat
  /\ C.frame.length <= e.goal.frame.length
  /\ e.next.frame.length \in Nat /\ e.next.frame.length < C.frame.length
  /\ e.next.frame.ie = e.goal.frame.ie /\ C.frame.ie = e.goal.frame.ie

(* When the elements that C has and next does not are X, they come first. *)
Splits(e, C, X) ==
  \E rest \in Seq(ItemType) :
     /\ e.wire = X \o rest /\ Positive(X) /\ Positive(rest)
     /\ \E R \in Seq(ItemType) :
           e.goal.frame.items = C.frame.items \o R /\ rest = R \o e.below

(* The wire is split where the next element ends. *)
LEMMA WireSplits ==
  ASSUME NEW Q, NEW M, History(Q, M), NEW e, Level(Q, M, e), NEW C, Coming(Q, M, e, C),
         NEW X \in Seq(ItemType), C.frame.items = e.next.frame.items \o X
  PROVE  Splits(e, C, X)
<1> DEFINE a == e.next.frame.items
           b == e.goal.frame.items
           c == C.frame.items
           w == e.wire
           d == e.below
<1>1. w \in Seq(ItemType) /\ Positive(w) /\ d \in Seq(ItemType)
  BY Zenon DEF Level
<1>2. PICK S \in Seq(ItemType) : b = a \o S /\ w = S \o d
  BY Zenon DEF Level
<1>3. Chain(Q, M, C, e.goal) /\ e.goal.frame.dumps /\ Small(Octets(e.goal.frame.items))
      /\ e.next \in Q
  BY Zenon DEF Level, Coming
<1>4. Ahead(C, e.goal)
  BY <1>3, ChainAhead
<1>5. PICK R \in Seq(ItemType) : b = c \o R
  BY <1>4, Zenon DEF Ahead
<1>6. IsFrame(e.next.frame)
  BY <1>3, Zenon DEF History, Good
<1>7. Sized(e.next.frame.ie, e.next.frame.length, a, e.next.frame.dumps)
  BY <1>6, FrameFields
<1>8. a \in Seq(ItemType)
  BY <1>7 DEF Sized
<1> HIDE DEF a, b, c, w, d
<1>9. c = a \o X
  BY DEF a, c
<1>10. (a \o X) \o R = a \o (X \o R) /\ (X \o R) \o d = X \o (R \o d)
  BY ZenonT(60), <1>1, <1>8, ItemsAssociate
<1>11. X \o R \in Seq(ItemType) /\ R \o d \in Seq(ItemType)
  BY <1>1, ItemsConcat
<1>12. a \o S = a \o (X \o R)
  BY <1>2, <1>5, <1>9, <1>10, Zenon
<1>13. S = X \o R
  <2>1. \A u \in Seq(ItemType) : a \o S = a \o u => S = u
    BY <1>8, ItemsConcat
  <2> QED
    BY <1>11, <1>12, <2>1, Zenon
<1>14. w = X \o (R \o d)
  BY <1>2, <1>10, <1>13, Zenon
<1>15. Positive(X) /\ Positive(R \o d)
  BY <1>1, <1>11, <1>14, PositiveConcat
<1> QED
  BY <1>5, <1>11, <1>14, <1>15, Zenon DEF Splits, b, c, w, d

(* The receiver is at the end of its goal, or there is a step ahead. *)
LEMMA EndOrComing ==
  ASSUME NEW Q, NEW M, History(Q, M), NEW e, Level(Q, M, e)
  PROVE  \/ e.next = e.goal /\ e.wire = e.below
         \/ \E C : Coming(Q, M, e, C)
<1>1. /\ e.next \in Q /\ e.goal \in Q
      /\ e.goal.frame.dumps /\ Small(Octets(e.goal.frame.items))
      /\ Chain(Q, M, e.next, e.goal) /\ e.below \in Seq(ItemType)
  BY Zenon DEF Level
<1>2. CASE e.next = e.goal
  <2>1. PICK R \in Seq(ItemType) :
           e.goal.frame.items = e.next.frame.items \o R /\ e.wire = R \o e.below
    BY Zenon DEF Level
  <2> DEFINE a == e.goal.frame.items
  <2>2. IsFrame(e.goal.frame)
    BY <1>1, Zenon DEF History, Good
  <2>3. Sized(e.goal.frame.ie, e.goal.frame.length, a, e.goal.frame.dumps)
    BY <2>2, FrameFields
  <2>4. a \in Seq(ItemType)
    BY <2>3 DEF Sized
  <2>5. a = a \o R
    BY <1>2, <2>1, Zenon
  <2> HIDE DEF a
  <2>6. R = <<>>
    BY <2>4, <2>5, ConcatEqualIffEmpty
  <2>7. <<>> \o e.below = e.below
    BY <1>1, ItemsConcat
  <2> QED
    BY <1>2, <2>1, <2>6, <2>7, Zenon
<1>3. CASE e.next # e.goal
  <2>1. PICK C \in Q : Step(Q, M, e.next, C) /\ Chain(Q, M, C, e.goal)
    BY <1>1, <1>3, ChainBegin
  <2>2. Ahead(C, e.goal) /\ Octets(C.frame.items) \in Nat
    BY <1>1, <2>1, ChainAhead
  <2>3. /\ C.frame.dumps /\ C.frame.ie = e.goal.frame.ie
        /\ Octets(C.frame.items) <= Octets(e.goal.frame.items)
        /\ C.frame.length \in Nat /\ e.goal.frame.length \in Nat
        /\ C.frame.length <= e.goal.frame.length
    BY <2>2, Zenon DEF Ahead
  <2>4. Octets(e.goal.frame.items) \in Nat
    <3>1. Chain(Q, M, e.goal, e.goal)
      BY <1>1, ChainOne
    <3> QED
      BY <1>1, <3>1, ChainAhead
  <2>5. Small(Octets(C.frame.items))
    BY <1>1, <2>2, <2>3, <2>4 DEF Small
  <2>6. /\ C.frame.ie = e.next.frame.ie
        /\ e.next.frame.length \in Nat /\ e.next.frame.length < C.frame.length
    BY <1>1, <2>1, <2>3, <2>5, StepAhead
  <2>7. Coming(Q, M, e, C)
    BY <2>1, <2>3, <2>5, <2>6, Zenon DEF Coming
  <2> QED
    BY <2>7, Zenon
<1> QED
  BY <1>2, <1>3, Zenon

(* The level e with what comes behind C. *)
Onward(e, a, C, rest) ==
  [at |-> a, next |-> C, goal |-> e.goal, wire |-> rest, below |-> e.below]

(* It is a level as well. *)
LEMMA OnwardLevel ==
  ASSUME NEW Q, NEW M, NEW e, Level(Q, M, e), NEW a \in Q, NEW C \in Q,
         Chain(Q, M, C, e.goal), NEW rest \in Seq(ItemType), Positive(rest),
         \E R \in Seq(ItemType) :
            e.goal.frame.items = C.frame.items \o R /\ rest = R \o e.below
  PROVE  Level(Q, M, Onward(e, a, C, rest))
<1>1. PICK f : f = Onward(e, a, C, rest)
  OBVIOUS
<1>2. /\ f.at = a /\ f.next = C /\ f.goal = e.goal /\ f.wire = rest
      /\ f.below = e.below
  BY <1>1 DEF Onward
<1>3. /\ e.goal \in Q /\ e.goal.frame.dumps /\ Small(Octets(e.goal.frame.items))
      /\ e.below \in Seq(ItemType)
  BY Zenon DEF Level
<1>4. Level(Q, M, f)
  BY <1>2, <1>3, Zenon DEF Level
<1> QED
  BY <1>1, <1>4, Zenon

(* The head of an element. *)
Begun(ie, t, s) == <<Tlv(ie, t)>> \o s

(* It begins with its TLV. *)
LEMMA TlvFirst ==
  ASSUME NEW ie \in Leaves \cup DOMAIN Grouped, NEW t \in Nat, NEW s \in Seq(ItemType)
  PROVE  LET w == Begun(ie, t, s)
         IN  /\ w # <<>> /\ Tail(w) = s
             /\ Head(w).f = "tlv" /\ Head(w).ie = ie /\ Head(w).length = t
<1>1. PICK x, w : x = Tlv(ie, t) /\ w = Begun(ie, t, s)
  OBVIOUS
<1>2. x.f = "tlv" /\ x.ie = ie /\ x.length = t
  BY <1>1 DEF Tlv
<1>3. x \in ItemType
  BY <1>1, ElementItems
<1>4. w = <<x>> \o s
  BY <1>1 DEF Begun
<1>5. w # <<>> /\ Head(w) = x /\ Tail(w) = s
  BY <1>3, <1>4
<1>6. w # <<>> /\ Tail(w) = s /\ Head(w).f = "tlv" /\ Head(w).ie = ie /\ Head(w).length = t
  BY <1>2, <1>5, Zenon
<1> QED
  BY <1>1, <1>6, Zenon

(* An element, its fields and the rest. *)
Element(w, ie, t, s, rest) ==
  /\ ie \in Leaves \cup DOMAIN Grouped /\ t \in Nat
  /\ s \in Seq(ItemType) /\ rest \in Seq(ItemType) /\ Positive(s) /\ Positive(rest)
  /\ Positive(s \o rest)
  /\ w # <<>> /\ Head(w).f = "tlv" /\ Head(w).ie = ie /\ Head(w).length = t
  /\ Tail(w) = s \o rest

(* Wherever there is a body there is an element on the wire. *)
LEMMA BodyComes ==
  ASSUME NEW Q, NEW M, History(Q, M), NEW e, Level(Q, M, e), NEW C, Coming(Q, M, e, C),
         NEW ie, NEW l, NEW t, NEW s, NEW v, Body(e.next, C, ie, l, t, s, v)
  PROVE  \E rest : /\ Element(e.wire, ie, t, s, rest)
                   /\ \A a \in Q : Level(Q, M, Onward(e, a, C, rest))
<1>1. /\ ie \in Leaves \cup DOMAIN Grouped /\ t \in Nat /\ s \in Seq(ItemType)
      /\ C.frame.items = e.next.frame.items \o (<<Tlv(ie, t)>> \o s)
  BY Zenon DEF Body
<1> DEFINE X == <<Tlv(ie, t)>> \o s
<1>2. X \in Seq(ItemType) /\ <<Tlv(ie, t)>> \in Seq(ItemType)
  BY <1>1, ElementItems
<1>3. PICK rest \in Seq(ItemType) :
            /\ e.wire = X \o rest /\ Positive(X) /\ Positive(rest)
            /\ \E R \in Seq(ItemType) :
                  e.goal.frame.items = C.frame.items \o R /\ rest = R \o e.below
  <2>1. C.frame.items = e.next.frame.items \o X
    BY <1>1
  <2> HIDE DEF X
  <2>2. \A Y \in Seq(ItemType) :
           C.frame.items = e.next.frame.items \o Y => Splits(e, C, Y)
    BY WireSplits
  <2>3. Splits(e, C, X)
    BY <1>2, <2>1, <2>2, Zenon
  <2> QED
    BY <2>3, Zenon DEF Splits
<1>4. \A a \in Q : Level(Q, M, Onward(e, a, C, rest))
  <2>1. C \in Q /\ Chain(Q, M, C, e.goal)
    BY Zenon DEF Coming
  <2> QED
    BY <1>3, <2>1, OnwardLevel
<1>5. X \o rest = <<Tlv(ie, t)>> \o (s \o rest)
  BY <1>1, <1>2, ItemsAssociate
<1>6. s \o rest \in Seq(ItemType)
  BY <1>1, ItemsConcat
<1>7. e.wire = <<Tlv(ie, t)>> \o (s \o rest)
  BY <1>3, <1>5, Zenon
<1>8. /\ e.wire # <<>> /\ Head(e.wire).f = "tlv" /\ Head(e.wire).ie = ie
      /\ Head(e.wire).length = t /\ Tail(e.wire) = s \o rest
  <2>1. PICK w, b : w = e.wire /\ b = s \o rest
    OBVIOUS
  <2>2. w = Begun(ie, t, b) /\ b \in Seq(ItemType)
    BY <1>6, <1>7, <2>1, Zenon DEF Begun
  <2>3. LET x == Begun(ie, t, b)
        IN  /\ x # <<>> /\ Tail(x) = b
            /\ Head(x).f = "tlv" /\ Head(x).ie = ie /\ Head(x).length = t
    BY ZenonT(60), <1>1, <2>2, TlvFirst
  <2> QED
    BY <2>1, <2>2, <2>3, Zenon
<1>9. Positive(s)
  BY <1>1, <1>2, <1>3, PositiveConcat
<1>10. Positive(s \o rest)
  BY <1>1, <1>3, <1>9, PositiveConcat
<1>11. Element(e.wire, ie, t, s, rest)
  BY <1>1, <1>3, <1>8, <1>9, <1>10, Zenon DEF Element
<1> QED
  BY <1>4, <1>11, Zenon

(* What the receiver's container makes of an element. *)
LEMMA PlaceTells ==
  ASSUME NEW F, NEW ie, NEW m, m.place = Place(F, ie), ~Altered(m)
  PROVE  /\ m.place = "stray" <=> ie \notin Members(ContainerOf(F.ie))
         /\ ie \in Members(ContainerOf(F.ie))
               => ie \in ContainerOf(F.ie).many \/ ie \notin DOMAIN F.content
<1> DEFINE c == ContainerOf(F.ie)
<1>1. Members(c) = c.one \cup c.many
  BY DEF Members
<1> HIDE DEF c
<1>2. m.place # "again"
  BY DEF Altered, OutOfStep
<1>3. m.place = CASE ie \notin Members(c) -> "stray"
                  [] ie \in DOMAIN F.content /\ ie \in c.one -> "again"
                  [] OTHER -> "only"
  BY Zenon DEF Place, c
<1>4. CASE ie \notin Members(c)
  BY <1>1, <1>3, <1>4 DEF c
<1>5. CASE ie \in Members(c)
  BY <1>1, <1>2, <1>3, <1>5 DEF c
<1> QED
  BY <1>4, <1>5

(* An element that is written and that load_from takes. *)
LEMMA LeafRead ==
  ASSUME NEW ie \in Leaves, NEW o \in Options(ie), NEW m,
         m.ie = ie, m.o = o, m.length = Codec(ie, o, 0).length, ~Altered(m),
         Codec(ie, o, 0).dumps, Codec(ie, o, 0).tlv # 0, ie \in Decodable,
         NEW rest \in Seq(ItemType), Positive(Codec(ie, o, 0).dumped \o rest),
         NEW o2 \in Announced(ie, Codec(ie, o, 0).dumped \o rest)
  PROVE  LET c == Codec(ie, o, 0)
             r == Codec(ie, o2, c.tlv)
         IN  /\ ~r.accepts => Unusable(m)
             /\ r.accepts => /\ After(c.dumped \o rest, Octets(r.loaded)) = rest
                             /\ Found(c.dumped \o rest, r.loaded) = c.value
                             /\ c.tlv = c.length
                             /\ m.place # "stray" => ~Unusable(m)
<1> DEFINE c == Codec(ie, o, 0)
           r == Codec(ie, o2, c.tlv)
           s == c.dumped
<1>1. Formed(ie, o) /\ ReadBack(ie, o) /\ Taken(ie, o)
  BY EveryElement DEF Sorted
<1>2. s \in Seq(FieldType)
  BY <1>1 DEF Formed
<1>3. s \in Seq(ItemType)
  BY <1>2, FieldsAreItems
<1>4. /\ s # <<>>
      /\ \A x \in Announced(ie, s) :
            Codec(ie, x, c.tlv).accepts
               => /\ Codec(ie, x, c.tlv).loaded = s /\ c.value = s /\ c.tlv = c.length
                  /\ m.length = c.length /\ m.place # "stray" => ~Unusable(m)
  BY <1>1, Zenon DEF ReadBack
<1>5. ~Unusable(m) => \A x \in Announced(ie, s) : Codec(ie, x, c.tlv).accepts
  BY <1>1, Zenon DEF Taken
<1>6. Announced(ie, s \o rest) = Announced(ie, s)
  BY <1>3, <1>4, FirstOfConcat
<1>7. o2 \in Announced(ie, s)
  BY <1>6, Zenon
<1>8. ~r.accepts => Unusable(m)
  BY <1>5, <1>7, Zenon
<1>9. ASSUME r.accepts
      PROVE  /\ After(s \o rest, Octets(r.loaded)) = rest
             /\ Found(s \o rest, r.loaded) = c.value
             /\ c.tlv = c.length
             /\ m.place # "stray" => ~Unusable(m)
  <2>1. /\ r.loaded = s /\ c.value = s /\ c.tlv = c.length
        /\ m.length = c.length /\ m.place # "stray" => ~Unusable(m)
    BY <1>4, <1>7, <1>9, Zenon
  <2> HIDE DEF s, c, r
  <2>2. Positive(s \o rest)
    BY DEF s, c
  <2>3. After(s \o rest, Octets(s)) = rest
    BY <1>3, <2>2, AfterConcat
  <2>4. Found(s \o rest, s) = s
    BY <1>3, FoundConcat
  <2>5. m.length = c.length
    BY DEF c
  <2> QED
    BY <2>1, <2>3, <2>4, <2>5, Zenon
<1> QED
  BY <1>8, <1>9, Zenon

(* An element that load_from does not even begin with. *)
LEMMA LeafLost ==
  ASSUME NEW ie \in Leaves, NEW o \in Options(ie), NEW m,
         m.ie = ie, m.o = o, m.length = Codec(ie, o, 0).length, ~Altered(m),
         Codec(ie, o, 0).tlv = 0 \/ ie \notin Decodable
  PROVE  Unusable(m)
<1>1. Taken(ie, o)
  BY EveryElement DEF Sorted
<1> QED
  BY <1>1, Zenon DEF Taken

(* A loop of load_from that has read what A holds, of the frame goal. *)
Matches(M, D, A, goal) ==
  /\ D.ie = goal.frame.ie /\ D.length = goal.frame.length
  /\ D.left = D.length - A.frame.length
  /\ D.fault = "none" => /\ D.content = A.frame.content
                         /\ \A m \in A.notes : ~Unusable(m)
  /\ (\A m \in M : ~Unusable(m)) => D.fault = "none"

(* What is to be known of the element that is read. *)
Suits(M, A, C, m, ie, l, v, fault) ==
  /\ m \in M /\ m.place = Place(A.frame, ie) /\ ~Altered(m)
  /\ l \in Nat /\ C.frame.length = A.frame.length + 4 + l
  /\ fault = "none" =>
        /\ C.frame.content = With(A.frame.content, ie, v, TRUE)
        /\ m.place # "stray" => \A x \in C.notes : x \in A.notes \/ ~Unusable(x)
  /\ (\A x \in M : ~Unusable(x)) => fault = "none"

(* A loop that has read one element more. *)
LEMMA LoadedMatches ==
  ASSUME NEW M, NEW D, IsLoading(D), NEW A, IsFrame(A.frame), NEW C, IsFrame(C.frame),
         NEW goal, A.frame.ie = goal.frame.ie, Matches(M, D, A, goal),
         NEW m, NEW ie, NEW l, NEW v, NEW fault \in {"none", "illegal", "recursion"},
         Suits(M, A, C, m, ie, l, v, fault)
  PROVE  /\ Matches(M, Loaded(D, ie, l, v, fault), C, goal)
         /\ IsLoading(Loaded(D, ie, l, v, fault))
<1> DEFINE c == ContainerOf(D.ie)
<1>1. PICK E : E = Loaded(D, ie, l, v, fault)
  OBVIOUS
<1>2. /\ m \in M /\ m.place = Place(A.frame, ie) /\ ~Altered(m)
      /\ l \in Nat /\ C.frame.length = A.frame.length + 4 + l
      /\ fault = "none" =>
            /\ C.frame.content = With(A.frame.content, ie, v, TRUE)
            /\ m.place # "stray" => \A x \in C.notes : x \in A.notes \/ ~Unusable(x)
      /\ (\A x \in M : ~Unusable(x)) => fault = "none"
  BY Zenon DEF Suits
<1>3. /\ D.ie = goal.frame.ie /\ D.length = goal.frame.length
      /\ D.left = D.length - A.frame.length
      /\ D.fault = "none" => /\ D.content = A.frame.content
                             /\ \A x \in A.notes : ~Unusable(x)
      /\ (\A x \in M : ~Unusable(x)) => D.fault = "none"
  BY Zenon DEF Matches
<1>4. /\ IsLoading(E) /\ E.ie = D.ie /\ E.length = D.length
      /\ E.left = CountAfter(D, l)
      /\ E.content = With(D.content, ie, v, ie \in c.many)
      /\ E.fault = FaultAfter(D, ie, fault)
  <2>1. IsLoading(E) /\ LoadedAs(E, D, ie, l, v, fault)
    BY <1>1, <1>2, LoadedFields
  <2> QED
    BY <2>1, Zenon DEF LoadedAs
<1>5. /\ m.place = "stray" <=> ie \notin Members(c)
      /\ ie \in Members(c) => ie \in c.many \/ ie \notin DOMAIN A.frame.content
  <2>1. D.ie = A.frame.ie
    BY <1>3
  <2>2. /\ m.place = "stray" <=> ie \notin Members(ContainerOf(A.frame.ie))
        /\ ie \in Members(ContainerOf(A.frame.ie))
              => ie \in ContainerOf(A.frame.ie).many \/ ie \notin DOMAIN A.frame.content
    BY <1>2, PlaceTells
  <2> QED
    BY <2>1, <2>2, Zenon
<1>6. E.left = E.length - C.frame.length
  <2>1. Sized(A.frame.ie, A.frame.length, A.frame.items, A.frame.dumps)
    BY FrameFields
  <2>2. Sized(C.frame.ie, C.frame.length, C.frame.items, C.frame.dumps)
    BY FrameFields
  <2>3. A.frame.length \in Nat /\ C.frame.length \in Nat /\ Small(C.frame.length)
    BY <2>1, <2>2 DEF Sized, Small
  <2>4. Uint16(C.frame.length) = C.frame.length
    BY <2>3, SmallStays
  <2>5. Counting(D.ie, D.length, D.left, D.fault)
    BY LoadingFields
  <2>6. D.length \in Nat /\ D.left \in Int
    BY <2>5 DEF Counting
  <2>7. D.length - D.left + l + 4 = C.frame.length
    BY <1>2, <1>3, <2>3, <2>6
  <2>8. CountAfter(D, l) = D.length - C.frame.length
    BY <2>4, <2>7, Zenon DEF CountAfter
  <2> QED
    BY <1>4, <2>8, Zenon
<1>7. ASSUME E.fault = "none"
      PROVE  E.content = C.frame.content /\ \A x \in C.notes : ~Unusable(x)
  <2>1. D.fault = "none" /\ fault = "none" /\ ie \in Members(c)
    BY <1>4, <1>7 DEF FaultAfter
  <2>2. \A x \in C.notes : ~Unusable(x)
    BY <1>2, <1>3, <1>5, <2>1, Zenon
  <2>3. ie \in c.many \/ ie \notin DOMAIN D.content
    BY <1>3, <1>5, <2>1, Zenon
  <2>4. With(D.content, ie, v, ie \in c.many) = With(D.content, ie, v, TRUE)
    BY <2>3 DEF With
  <2> QED
    BY <1>2, <1>3, <1>4, <2>1, <2>2, <2>4, Zenon
<1>8. ASSUME \A x \in M : ~Unusable(x)
      PROVE  E.fault = "none"
  <2>1. D.fault = "none" /\ fault = "none"
    BY <1>2, <1>3, <1>8, Zenon
  <2>2. ~Unusable(m)
    BY <1>2, <1>8
  <2>3. m.place # "stray"
    BY <2>2 DEF Unusable, Endless
  <2> QED
    BY <1>4, <1>5, <2>1, <2>3 DEF FaultAfter
<1>9. Matches(M, E, C, goal)
  BY <1>3, <1>4, <1>6, <1>7, <1>8, Zenon DEF Matches
<1> QED
  BY <1>1, <1>4, <1>9, Zenon

(* The level f is inside of the group that the level e is about to end. *)
Nested(M, e, f) ==
  /\ f.goal.frame.ie \in Decodable /\ f.goal.frame.length # 0 /\ f.below = e.wire
  /\ \E m : GroupStep(M, e.at, e.next, f.goal, m)

(* The loops d and the rest of the wire w, with a level for each of them. *)
Bottom(M, e, F) ==
  e.below = <<>> /\ Like(F, e.goal.frame) /\ M \subseteq e.goal.notes
Leveled(Q, M, S, d) ==
  /\ IsSeq(S) /\ Len(S) = Len(d) /\ Len(S) > 0
  /\ \A j \in 1 .. Len(S) : Level(Q, M, S[j]) /\ Matches(M, d[j], S[j].at, S[j].goal)
  /\ \A j \in 1 .. Len(S) - 1 : Nested(M, S[j], S[j + 1])
Reading(Q, M, S, d, w, F) ==
  /\ Leveled(Q, M, S, d) /\ Bottom(M, S[1], F)
  /\ S[Len(S)].at = S[Len(S)].next /\ S[Len(S)].wire = w

(* The innermost loop has read on. *)
LEMMA ReadingPut ==
  ASSUME NEW Q, NEW M, NEW S, NEW d, NEW F, Leveled(Q, M, S, d), Bottom(M, S[1], F),
         NEW n \in Nat, n = Len(d), NEW f, Level(Q, M, f), f.goal = S[n].goal,
         f.below = S[n].below, f.at = f.next,
         NEW d1, Len(d1) = n, \A i \in 1 .. n : i # n => d1[i] = d[i],
         Matches(M, d1[n], f.at, f.goal)
  PROVE  \E S1 : Reading(Q, M, S1, d1, f.wire, F)
<1>1. /\ IsSeq(S) /\ Len(S) = n /\ n > 0
      /\ \A j \in 1 .. n : Level(Q, M, S[j]) /\ Matches(M, d[j], S[j].at, S[j].goal)
      /\ \A j \in 1 .. n - 1 : Nested(M, S[j], S[j + 1])
  BY Zenon DEF Leveled
<1>2. n \in 1 .. n
  BY <1>1
<1>3. PICK S1 : S1 = [S EXCEPT ![n] = f]
  OBVIOUS
<1>4. /\ IsSeq(S1) /\ Len(S1) = n /\ S1[n] = f
      /\ \A i \in 1 .. n : i # n => S1[i] = S[i]
  <2>1. n \in 1 .. Len(S)
    BY <1>1, <1>2
  <2>2. /\ IsSeq([S EXCEPT ![n] = f]) /\ Len([S EXCEPT ![n] = f]) = Len(S)
        /\ [S EXCEPT ![n] = f][n] = f
        /\ \A i \in 1 .. Len(S) : i # n => [S EXCEPT ![n] = f][i] = S[i]
    BY <1>1, <2>1, StackPut
  <2> QED
    BY <1>1, <1>3, <2>2, Zenon
<1>5. ASSUME NEW j \in 1 .. n
      PROVE  Level(Q, M, S1[j]) /\ Matches(M, d1[j], S1[j].at, S1[j].goal)
  <2>1. CASE j = n
    BY <1>4, <2>1, Zenon
  <2>2. CASE j # n
    BY <1>1, <1>4, <2>2, Zenon
  <2> QED
    BY <2>1, <2>2
<1>6. ASSUME NEW j \in 1 .. n - 1
      PROVE  Nested(M, S1[j], S1[j + 1])
  <2>1. j \in 1 .. n /\ j # n /\ j + 1 \in 1 .. n
    BY <1>1
  <2>2. S1[j] = S[j] /\ Nested(M, S[j], S[j + 1])
    BY <1>1, <1>4, <2>1, Zenon
  <2>3. CASE j + 1 = n
    <3>1. S1[j + 1] = f /\ f.goal = S[j + 1].goal /\ f.below = S[j + 1].below
      BY <1>4, <2>3, Zenon
    <3> QED
      BY <2>2, <3>1, Zenon DEF Nested
  <2>4. CASE j + 1 # n
    BY <1>4, <2>1, <2>2, <2>4, Zenon
  <2> QED
    BY <2>3, <2>4
<1>7. Leveled(Q, M, S1, d1)
  BY <1>1, <1>4, <1>5, <1>6, Zenon DEF Leveled
<1>8. Bottom(M, S1[1], F)
  <2>1. CASE n = 1
    <3>1. S1[1].goal = S[1].goal /\ S1[1].below = S[1].below
      BY <1>4, <2>1, Zenon
    <3> QED
      BY <3>1, Zenon DEF Bottom
  <2>2. CASE n # 1
    <3>1. 1 \in 1 .. n
      BY <1>1
    <3> QED
      BY <1>4, <2>2, <3>1, Zenon
  <2> QED
    BY <2>1, <2>2
<1>9. Reading(Q, M, S1, d1, f.wire, F)
  BY <1>4, <1>7, <1>8, Zenon DEF Reading
<1> QED
  BY <1>9, Zenon

(* A group begins. *)
LEMMA ReadingPush ==
  ASSUME NEW Q, NEW M, NEW S, NEW d, NEW F, Leveled(Q, M, S, d), Bottom(M, S[1], F),
         NEW n \in Nat, n = Len(d), NEW e, Level(Q, M, e), e.goal = S[n].goal,
         e.below = S[n].below, e.at = S[n].at,
         NEW f, Level(Q, M, f), Nested(M, e, f), f.at = f.next,
         NEW d1, Len(d1) = n + 1, \A i \in 1 .. n : d1[i] = d[i],
         Matches(M, d1[n + 1], f.at, f.goal)
  PROVE  \E S1 : Reading(Q, M, S1, d1, f.wire, F)
<1>1. /\ IsSeq(S) /\ Len(S) = n /\ n > 0
      /\ \A j \in 1 .. n : Level(Q, M, S[j]) /\ Matches(M, d[j], S[j].at, S[j].goal)
      /\ \A j \in 1 .. n - 1 : Nested(M, S[j], S[j + 1])
  BY Zenon DEF Leveled
<1>2. n \in 1 .. n /\ n + 1 # n /\ n + 1 > 0
  BY <1>1
<1>3. PICK S0 : S0 = [S EXCEPT ![n] = e]
  OBVIOUS
<1>4. /\ IsSeq(S0) /\ Len(S0) = n /\ S0[n] = e
      /\ \A i \in 1 .. n : i # n => S0[i] = S[i]
  <2>1. n \in 1 .. Len(S)
    BY <1>1, <1>2
  <2>2. /\ IsSeq([S EXCEPT ![n] = e]) /\ Len([S EXCEPT ![n] = e]) = Len(S)
        /\ [S EXCEPT ![n] = e][n] = e
        /\ \A i \in 1 .. Len(S) : i # n => [S EXCEPT ![n] = e][i] = S[i]
    BY ZenonT(60), <1>1, <2>1, StackPut
  <2> QED
    BY <1>1, <1>3, <2>2, Zenon
<1>5. PICK S1 : S1 = Append(S0, f)
  OBVIOUS
<1>6. /\ IsSeq(S1) /\ Len(S1) = n + 1 /\ S1[n + 1] = f
      /\ \A i \in 1 .. n : S1[i] = S0[i]
  BY <1>4, <1>5, StackAppend
<1>7. S1[n] = e /\ \A i \in 1 .. n : i # n => S1[i] = S[i]
  BY <1>2, <1>4, <1>6, Zenon
<1>8. ASSUME NEW j \in 1 .. n + 1
      PROVE  Level(Q, M, S1[j]) /\ Matches(M, d1[j], S1[j].at, S1[j].goal)
  <2>1. CASE j = n + 1
    BY <1>6, <2>1, Zenon
  <2>2. CASE j = n
    <3>1. d1[n] = d[n] /\ Matches(M, d[n], S[n].at, S[n].goal)
      BY <1>1, <1>2, Zenon
    <3> QED
      BY <1>7, <2>2, <3>1, Zenon
  <2>3. CASE j # n /\ j # n + 1
    <3>1. j \in 1 .. n
      BY <2>3
    <3> QED
      BY <1>1, <1>7, <2>3, <3>1, Zenon
  <2> QED
    BY <2>1, <2>2, <2>3
<1>9. ASSUME NEW j \in 1 .. (n + 1) - 1
      PROVE  Nested(M, S1[j], S1[j + 1])
  <2>1. CASE j = n
    BY <1>6, <1>7, <2>1, Zenon
  <2>2. CASE j # n
    <3>1. j \in 1 .. n - 1 /\ j \in 1 .. n /\ j + 1 \in 1 .. n
      BY <2>2
    <3>2. S1[j] = S[j] /\ Nested(M, S[j], S[j + 1])
      BY <1>1, <1>7, <2>2, <3>1, Zenon
    <3>3. CASE j + 1 = n
      <4>1. S1[j + 1] = e /\ e.goal = S[j + 1].goal /\ e.below = S[j + 1].below
        BY <1>7, <3>3, Zenon
      <4> QED
        BY <3>2, <4>1, Zenon DEF Nested
    <3>4. CASE j + 1 # n
      BY <1>7, <3>1, <3>2, <3>4, Zenon
    <3> QED
      BY <3>3, <3>4
  <2> QED
    BY <2>1, <2>2
<1>10. Leveled(Q, M, S1, d1)
  BY <1>2, <1>6, <1>8, <1>9, Zenon DEF Leveled
<1>11. Bottom(M, S1[1], F)
  <2>1. CASE n = 1
    <3>1. S1[1].goal = S[1].goal /\ S1[1].below = S[1].below
      BY <1>7, <2>1, Zenon
    <3> QED
      BY <3>1, Zenon DEF Bottom
  <2>2. CASE n # 1
    <3>1. 1 \in 1 .. n
      BY <1>1
    <3> QED
      BY <1>7, <2>2, <3>1, Zenon
  <2> QED
    BY <2>1, <2>2
<1>12. Reading(Q, M, S1, d1, f.wire, F)
  BY <1>6, <1>10, <1>11, Zenon DEF Reading
<1> QED
  BY <1>12, Zenon

(* A group ends. *)
LEMMA ReadingMerge ==
  ASSUME NEW Q, NEW M, NEW S, NEW d, NEW F, Leveled(Q, M, S, d), Bottom(M, S[1], F),
         NEW n \in Nat, n = Len(d), n > 1, NEW e, Level(Q, M, e), e.goal = S[n - 1].goal,
         e.below = S[n - 1].below, e.at = e.next,
         NEW d1, Len(d1) = n - 1, \A i \in 1 .. n - 2 : d1[i] = d[i],
         Matches(M, d1[n - 1], e.at, e.goal)
  PROVE  \E S1 : Reading(Q, M, S1, d1, e.wire, F)
<1>1. /\ IsSeq(S) /\ Len(S) = n /\ n > 0
      /\ \A j \in 1 .. n : Level(Q, M, S[j]) /\ Matches(M, d[j], S[j].at, S[j].goal)
      /\ \A j \in 1 .. n - 1 : Nested(M, S[j], S[j + 1])
  BY Zenon DEF Leveled
<1>2. PICK S1 : S1 = Append(SubSeq(S, 1, Len(S) - 2), e)
  OBVIOUS
<1>3. /\ IsSeq(S1) /\ Len(S1) = n - 1 /\ S1[n - 1] = e
      /\ \A i \in 1 .. n - 2 : S1[i] = S[i]
  BY <1>1, <1>2, StackMerge
<1>4. ASSUME NEW j \in 1 .. n - 1
      PROVE  Level(Q, M, S1[j]) /\ Matches(M, d1[j], S1[j].at, S1[j].goal)
  <2>1. CASE j = n - 1
    BY <1>3, <2>1, Zenon
  <2>2. CASE j # n - 1
    <3>1. j \in 1 .. n /\ j \in 1 .. n - 2
      BY <2>2
    <3> QED
      BY <1>1, <1>3, <3>1, Zenon
  <2> QED
    BY <2>1, <2>2
<1>5. ASSUME NEW j \in 1 .. (n - 1) - 1
      PROVE  Nested(M, S1[j], S1[j + 1])
  <2>1. j \in 1 .. n - 2 /\ j \in 1 .. n - 1
    OBVIOUS
  <2>2. S1[j] = S[j] /\ Nested(M, S[j], S[j + 1])
    BY <1>1, <1>3, <2>1, Zenon
  <2>3. CASE j + 1 = n - 1
    <3>1. S1[j + 1] = e /\ e.goal = S[j + 1].goal /\ e.below = S[j + 1].below
      BY <1>3, <2>3, Zenon
    <3> QED
      BY <2>2, <3>1, Zenon DEF Nested
  <2>4. CASE j + 1 # n - 1
    <3>1. j + 1 \in 1 .. n - 2
      BY <2>4
    <3> QED
      BY <1>3, <2>2, <3>1, Zenon
  <2> QED
    BY <2>3, <2>4
<1>6. n - 1 > 0
  OBVIOUS
<1>7. Leveled(Q, M, S1, d1)
  BY <1>3, <1>4, <1>5, <1>6, Zenon DEF Leveled
<1>8. Bottom(M, S1[1], F)
  <2>1. CASE n = 2
    <3>1. n - 1 = 1
      BY <2>1
    <3>2. S1[1].goal = S[1].goal /\ S1[1].below = S[1].below
      BY <1>3, <3>1, Zenon
    <3> QED
      BY <3>2, Zenon DEF Bottom
  <2>2. CASE n # 2
    <3>1. 1 \in 1 .. n - 2
      BY <1>6, <2>2
    <3> QED
      BY <1>3, <3>1, Zenon
  <2> QED
    BY <2>1, <2>2
<1>9. Reading(Q, M, S1, d1, e.wire, F)
  BY <1>3, <1>7, <1>8, Zenon DEF Reading
<1> QED
  BY <1>9, Zenon
-----------------------------------------------------------------------------
(* Elements and groups have different names. *)
LEMMA LeafOrGroup ==
  \A ie \in Leaves : ie \notin DOMAIN Grouped
BY Names, Zenon DEF FixedNames, OptionalNames, GroupNames

(* Which groups a message can carry. *)
LEMMA GroupUsable ==
  ASSUME NEW m, m.ie \in DOMAIN Grouped
  PROVE  /\ m.ie \notin Decodable => Unusable(m)
         /\ /\ m.ie \in Decodable /\ m.ie # "create_urr" /\ m.length # 0
            /\ m.place # "stray"
            => ~Unusable(m)
<1>1. m.ie \in GroupNames
  BY Names, Zenon
<1>2. m.ie \notin Decodable => m.ie = "create_traffic_endpoint"
  BY <1>1, Names
<1>3. m.ie \notin {"node_report_type", "qer_correlation_id", "outer_header_creation",
                   "user_id", "failed_rule_id", "sdf_filter",
                   "forwarding_policy", "node_id"}
  BY <1>1 DEF GroupNames
<1>4. m.ie \in Decodable => m.ie # "create_traffic_endpoint"
  BY Names DEF FixedNames, OptionalNames
<1> QED
  BY <1>2, <1>3, <1>4 DEF Unusable, Endless

(* The elements that come next, by what they are. *)
LeafComes(Q, M, e, C, ie, o, m, rest) ==
  LET c == Codec(ie, o, 0)
  IN  /\ LeafStep(M, e.next, C, ie, o, m) /\ Element(e.wire, ie, c.tlv, c.dumped, rest)
      /\ Body(e.next, C, ie, c.length, c.tlv, c.dumped, c.value) /\ c.dumps
      /\ \A a \in Q : Level(Q, M, Onward(e, a, C, rest))
GroupComes(Q, M, e, C, G, m, rest) ==
  LET H == G.frame
  IN  /\ GroupStep(M, e.next, C, G, m) /\ Element(e.wire, H.ie, H.length, H.items, rest)
      /\ Body(e.next, C, H.ie, H.length, H.length, H.items, H.content) /\ H.dumps
      /\ \A a \in Q : Level(Q, M, Onward(e, a, C, rest))

(* What comes is one or the other. *)
LEMMA ComingCases ==
  ASSUME NEW Q, NEW M, History(Q, M), NEW e, Level(Q, M, e), NEW C, Coming(Q, M, e, C)
  PROVE  \/ \E ie, o, m, rest : LeafComes(Q, M, e, C, ie, o, m, rest)
         \/ \E G \in Q : \E m, rest : GroupComes(Q, M, e, C, G, m, rest)
<1>1. /\ Step(Q, M, e.next, C) /\ C.frame.dumps /\ Small(Octets(C.frame.items))
      /\ e.next \in Q
  BY Zenon DEF Coming, Level
<1>2. PICK A : A = e.next
  OBVIOUS
<1>3. Good(M, A)
  BY <1>1, <1>2, Zenon DEF History
<1>4. CASE \E ie, o, m : LeafStep(M, e.next, C, ie, o, m)
  <2>1. PICK ie, o, m : LeafStep(M, e.next, C, ie, o, m)
    BY <1>4
  <2> DEFINE c == Codec(ie, o, 0)
  <2>2. LeafStep(M, A, C, ie, o, m)
    BY <1>2, <2>1, Zenon
  <2>3. Body(A, C, ie, c.length, c.tlv, c.dumped, c.value) /\ c.dumps
    BY <1>1, <1>3, <2>2, LeafBody
  <2>4. Body(e.next, C, ie, c.length, c.tlv, c.dumped, c.value)
    BY <1>2, <2>3, Zenon
  <2>5. PICK rest : /\ Element(e.wire, ie, c.tlv, c.dumped, rest)
                    /\ \A a \in Q : Level(Q, M, Onward(e, a, C, rest))
    BY <2>4, BodyComes
  <2>6. LeafComes(Q, M, e, C, ie, o, m, rest)
    BY <2>1, <2>3, <2>4, <2>5, Zenon DEF LeafComes
  <2> QED
    BY <2>6, Zenon
<1>5. CASE \E G \in Q : \E m : GroupStep(M, e.next, C, G, m)
  <2>1. PICK G \in Q : \E m : GroupStep(M, e.next, C, G, m)
    BY <1>5
  <2>2. PICK m : GroupStep(M, e.next, C, G, m)
    BY <2>1
  <2> DEFINE H == G.frame
  <2>3. GroupStep(M, A, C, G, m)
    BY <1>2, <2>2, Zenon
  <2>4. Good(M, G)
    BY Zenon DEF History
  <2>5. Body(A, C, H.ie, H.length, H.length, H.items, H.content) /\ H.dumps
    BY <1>1, <1>3, <2>3, <2>4, GroupBody
  <2>6. Body(e.next, C, H.ie, H.length, H.length, H.items, H.content)
    BY <1>2, <2>5, Zenon
  <2>7. PICK rest : /\ Element(e.wire, H.ie, H.length, H.items, rest)
                    /\ \A a \in Q : Level(Q, M, Onward(e, a, C, rest))
    BY <2>6, BodyComes
  <2>8. GroupComes(Q, M, e, C, G, m, rest)
    BY <2>2, <2>5, <2>6, <2>7, Zenon DEF GroupComes
  <2> QED
    BY <2>8, Zenon
<1> QED
  BY <1>1, <1>4, <1>5, Zenon DEF Step

(* The element that comes next has been noted. *)
LEMMA LeafComingNote ==
  ASSUME NEW Q, NEW M, NEW e, NEW C, NEW ie, NEW o, NEW m, NEW rest,
         LeafComes(Q, M, e, C, ie, o, m, rest)
  PROVE  /\ ie \in Leaves /\ o \in Options(ie) /\ m \in M
         /\ m.ie = ie /\ m.o = o /\ m.length = Codec(ie, o, 0).length
         /\ m.place = Place(e.next.frame, ie)
         /\ C.notes = e.next.notes \cup {m}
<1>1. LeafStep(M, e.next, C, ie, o, m)
  BY Zenon DEF LeafComes
<1>2. /\ ie \in Leaves /\ o \in Options(ie) /\ m \in M
      /\ NoteOf(m, e.next.frame, ie, o, Codec(ie, o, 0).length)
      /\ C.notes = e.next.notes \cup {m}
  BY <1>1, Zenon DEF LeafStep
<1> QED
  BY <1>2, Zenon DEF NoteOf

(* The note of a group that comes. *)
LEMMA GroupComingNote ==
  ASSUME NEW Q, NEW M, NEW e, NEW C, NEW G, NEW m, NEW rest,
         GroupComes(Q, M, e, C, G, m, rest)
  PROVE  /\ G.frame.ie \in DOMAIN Grouped /\ m \in M
         /\ m.ie = G.frame.ie /\ m.length = G.frame.length
         /\ m.place = Place(e.next.frame, G.frame.ie)
         /\ C.notes = (e.next.notes \cup G.notes) \cup {m}
<1>1. GroupStep(M, e.next, C, G, m)
  BY Zenon DEF GroupComes
<1>2. /\ G.frame.ie \in DOMAIN Grouped /\ m \in M
      /\ NoteOf(m, e.next.frame, G.frame.ie, {}, G.frame.length)
      /\ C.notes = (e.next.notes \cup G.notes) \cup {m}
  BY <1>1, Zenon DEF GroupStep
<1> QED
  BY <1>2, Zenon DEF NoteOf

(* The innermost level. *)
Innermost(Q, M, S, F, e) ==
  /\ Leveled(Q, M, S, dec) /\ Bottom(M, S[1], F) /\ e = S[Len(dec)]
  /\ Len(dec) = 1 => Bottom(M, e, F)
  /\ Len(dec) \in Nat /\ Len(dec) > 0 /\ dec # <<>> /\ IsLoading(Cur)
  /\ Level(Q, M, e) /\ Matches(M, Cur, e.at, e.goal)
  /\ e.at = e.next /\ e.wire = wire /\ e.at \in Q /\ e.goal \in Q
  /\ Cur.length = e.goal.frame.length
  /\ Cur.left = e.goal.frame.length - e.at.frame.length
  /\ IsFrame(e.at.frame) /\ IsFrame(e.goal.frame)
  /\ e.at.frame.length \in Nat /\ e.goal.frame.length \in Nat

(* The innermost level is the one of Cur. *)
LEMMA CurLevel ==
  ASSUME Stacked, NEW Q, NEW M, History(Q, M), NEW S, NEW F, Reading(Q, M, S, dec, wire, F)
  PROVE  Innermost(Q, M, S, F, S[Len(dec)])
<1> DEFINE n == Len(dec)
           e == S[n]
<1>1. /\ Leveled(Q, M, S, dec) /\ Bottom(M, S[1], F)
      /\ S[Len(S)].at = S[Len(S)].next /\ S[Len(S)].wire = wire
  BY Zenon DEF Reading
<1>2. /\ IsSeq(S) /\ Len(S) = n /\ n > 0
      /\ \A j \in 1 .. n : Level(Q, M, S[j]) /\ Matches(M, dec[j], S[j].at, S[j].goal)
  BY <1>1, Zenon DEF Leveled
<1>3. dec # <<>>
  BY <1>2
<1>4. n \in Nat /\ n \in 1 .. n /\ IsLoading(Cur)
  BY <1>3, CurLoading
<1>5. Level(Q, M, e) /\ Matches(M, Cur, e.at, e.goal)
  BY <1>2, <1>4, Zenon DEF Cur
<1> HIDE DEF n, e
<1>6. e.at \in Q /\ e.goal \in Q
  BY <1>5, Zenon DEF Level
<1>7. Cur.length = e.goal.frame.length /\ Cur.left = Cur.length - e.at.frame.length
  BY <1>5, Zenon DEF Matches
<1>8. IsFrame(e.at.frame) /\ IsFrame(e.goal.frame)
  BY <1>6, Zenon DEF History, Good
<1>9. PICK F1, F2 : F1 = e.at.frame /\ F2 = e.goal.frame
  OBVIOUS
<1>10. IsFrame(F1) /\ IsFrame(F2)
  BY <1>8, <1>9, Zenon
<1>11. /\ Sized(F1.ie, F1.length, F1.items, F1.dumps)
       /\ Sized(F2.ie, F2.length, F2.items, F2.dumps)
  BY <1>10, FrameFields
<1>12. F1.length \in Nat /\ F2.length \in Nat
  BY <1>11 DEF Sized
<1>13. e.at.frame.length \in Nat /\ e.goal.frame.length \in Nat
  BY <1>9, <1>12, Zenon
<1>14. Cur.left = e.goal.frame.length - e.at.frame.length
  BY <1>7, Zenon
<1>15. e.at = e.next /\ e.wire = wire
  BY <1>1, <1>2, Zenon DEF e
<1>16. n = 1 => Bottom(M, e, F)
  BY <1>1, Zenon DEF e
<1>17. e = S[Len(dec)]
  BY DEF e, n
<1>18. Innermost(Q, M, S, F, e)
  BY <1>1, <1>2, <1>3, <1>4, <1>5, <1>6, <1>7, <1>8, <1>13, <1>14, <1>15, <1>16, <1>17,
     Zenon DEF Innermost, n
<1> QED
  BY <1>17, <1>18, Zenon

(* Nothing is left to read: the group, or the message, is at its end. *)
LEMMA EndReached ==
  ASSUME NEW Q, NEW M, History(Q, M), NEW S, NEW F, NEW e, Innermost(Q, M, S, F, e),
         ~(Cur.left > 0)
  PROVE  e.at = e.goal /\ wire = e.below
<1>1. /\ Level(Q, M, e) /\ e.at = e.next /\ e.wire = wire
      /\ Cur.left = e.goal.frame.length - e.at.frame.length
  BY Zenon DEF Innermost
<1>2. CASE e.next = e.goal /\ e.wire = e.below
  BY <1>1, <1>2, Zenon
<1>3. CASE \E C : Coming(Q, M, e, C)
  <2>1. PICK C : Coming(Q, M, e, C)
    BY <1>3
  <2>2. PICK x, y, z : x = e.next.frame.length /\ y = C.frame.length /\ z = e.goal.frame.length
    OBVIOUS
  <2>3. x \in Nat /\ y \in Nat /\ z \in Nat /\ x < y /\ y <= z
    BY <2>1, <2>2, Zenon DEF Coming
  <2>4. Cur.left = z - x
    BY <1>1, <2>2, Zenon
  <2> QED
    BY <2>3, <2>4
<1> QED
  BY <1>1, <1>2, <1>3, EndOrComing

(* Something is left to read: an element comes, or the message is empty. *)
LEMMA ReadsComing ==
  ASSUME NEW Q, NEW M, History(Q, M), NEW S, NEW F, NEW e, Innermost(Q, M, S, F, e), Reads
  PROVE  \/ \E C : Coming(Q, M, e, C)
         \/ Len(dec) = 1 /\ e.at = e.goal /\ wire = <<>>
<1>1. /\ Level(Q, M, e) /\ e.at = e.next /\ e.wire = wire
      /\ Cur.left = e.goal.frame.length - e.at.frame.length
      /\ e.goal.frame.length \in Nat
      /\ Len(dec) = 1 => Bottom(M, e, F)
  BY Zenon DEF Innermost
<1>2. CASE e.next = e.goal /\ e.wire = e.below
  <2>1. Cur.left = e.goal.frame.length - e.goal.frame.length
    BY <1>1, <1>2, Zenon
  <2>2. ~(Cur.left > 0)
    BY <1>1, <2>1
  <2>3. Len(dec) = 1
    BY <2>2 DEF Reads
  <2>4. e.below = <<>>
    BY <1>1, <2>3, Zenon DEF Bottom
  <2> QED
    BY <1>1, <1>2, <2>3, <2>4, Zenon
<1>3. CASE \E C : Coming(Q, M, e, C)
  BY <1>3
<1> QED
  BY <1>1, <1>2, <1>3, EndOrComing
-----------------------------------------------------------------------------
(* No element is altered on its way. *)
Sane == \A m \in made : ~Altered(m)
Lost == \E m \in made : Unusable(m)

(* The receiver is where the history says. *)
Faithful ==
  \E Q : Told(Q, made, enc) /\ \E S : Reading(Q, made, S, dec, wire, enc[1])

(* The receiver stays where the history says. *)
LEMMA FaithfulNext ==
  ASSUME Kept, NEW Q, Told(Q, made, enc), NEW S, Reading(Q, made, S, dec', wire', enc[1])
  PROVE  Faithful'
<1>1. made' = made /\ enc' = enc
  BY DEF Kept
<1>2. \E S1 : Reading(Q, made', S1, dec', wire', enc'[1])
  BY <1>1, Zenon
<1>3. Told(Q, made', enc')
  BY <1>1, Zenon
<1> QED
  BY <1>2, <1>3, Zenon DEF Faithful

(* The element at the head of the wire is the one that comes. *)
LEMMA ComesFirst ==
  ASSUME NEW Q, NEW M, History(Q, M), NEW S, NEW F, NEW e, Innermost(Q, M, S, F, e), Reads,
         wire # <<>>
  PROVE  \E C : /\ Coming(Q, M, e, C) /\ AtTlv
                /\ \/ /\ Head(wire).ie \in Leaves
                      /\ \E ie, o, m, rest : LeafComes(Q, M, e, C, ie, o, m, rest)
                   \/ /\ Head(wire).ie \in DOMAIN Grouped
                      /\ \E G \in Q : \E m, rest : GroupComes(Q, M, e, C, G, m, rest)
<1>1. PICK C : Coming(Q, M, e, C)
  BY ReadsComing
<1>2. Level(Q, M, e) /\ e.wire = wire
  BY Zenon DEF Innermost
<1>3. CASE \E ie, o, m, rest : LeafComes(Q, M, e, C, ie, o, m, rest)
  <2>1. PICK ie, o, m, rest : LeafComes(Q, M, e, C, ie, o, m, rest)
    BY <1>3
  <2>2. Element(wire, ie, Codec(ie, o, 0).tlv, Codec(ie, o, 0).dumped, rest)
    BY <1>2, <2>1, Zenon DEF LeafComes
  <2>3. wire # <<>> /\ Head(wire).f = "tlv" /\ Head(wire).ie = ie
    BY <2>2, Zenon DEF Element
  <2>4. ie \in Leaves
    BY <2>1, LeafComingNote
  <2> QED
    BY <1>1, <1>3, <2>3, <2>4, Zenon DEF AtTlv
<1>4. CASE \E G \in Q : \E m, rest : GroupComes(Q, M, e, C, G, m, rest)
  <2>1. PICK G \in Q : \E m, rest : GroupComes(Q, M, e, C, G, m, rest)
    BY <1>4
  <2>2. PICK m, rest : GroupComes(Q, M, e, C, G, m, rest)
    BY <2>1
  <2>3. Element(wire, G.frame.ie, G.frame.length, G.frame.items, rest)
    BY <1>2, <2>2, Zenon DEF GroupComes
  <2>4. wire # <<>> /\ Head(wire).f = "tlv" /\ Head(wire).ie = G.frame.ie
    BY <2>3, Zenon DEF Element
  <2>5. G.frame.ie \in DOMAIN Grouped
    BY <2>2, GroupComingNote
  <2> QED
    BY <1>1, <1>4, <2>4, <2>5, Zenon DEF AtTlv
<1> QED
  BY <1>1, <1>2, <1>3, <1>4, ComingCases

(* A leaf is read as it was written, or throws and then is one that no
   message can carry. *)
LEMMA LoadLeafReads ==
  ASSUME TypeInv, Sane, Faithful, LoadLeaf
  PROVE  \/ verdict' = "none" /\ Faithful'
         \/ verdict' \in {"thrown", "spins"} /\ Lost
<1>1. /\ Reads /\ AtTlv /\ ~Null /\ Head(wire).ie \in Leaves /\ Kept
      /\ \E x \in Announced(Head(wire).ie, Tail(wire)) :
           LET r == Codec(Head(wire).ie, x, Head(wire).length)
           IN  \/ /\ r.accepts
                  /\ wire' = After(Tail(wire), Octets(r.loaded))
                  /\ dec' = [dec EXCEPT ![Len(dec)] =
                               Loaded(Cur, Head(wire).ie, Head(wire).length,
                                      Found(Tail(wire), r.loaded), "none")]
                  /\ UNCHANGED <<verdict, got>>
               \/ /\ ~r.accepts
                  /\ verdict' \in {"thrown", "spins"} /\ UNCHANGED <<wire, dec, got>>
  BY LoadLeafEffect
<1>2. PICK Q : Told(Q, made, enc) /\ \E S : Reading(Q, made, S, dec, wire, enc[1])
  BY Zenon DEF Faithful
<1>3. PICK S : Reading(Q, made, S, dec, wire, enc[1])
  BY <1>2
<1>4. History(Q, made)
  BY <1>2, Zenon DEF Told
<1>5. Stacked
  BY DEF TypeInv
<1>6. Innermost(Q, made, S, enc[1], S[Len(dec)])
  BY <1>3, <1>4, <1>5, CurLevel
<1>7. PICK e : e = S[Len(dec)]
  OBVIOUS
<1>8. Innermost(Q, made, S, enc[1], e)
  BY <1>6, <1>7, Zenon
<1>9. wire # <<>>
  BY <1>1, Zenon DEF AtTlv
<1>10. PICK C : /\ Coming(Q, made, e, C)
                /\ \/ \E ie, o, m, rest : LeafComes(Q, made, e, C, ie, o, m, rest)
                   \/ Head(wire).ie \in DOMAIN Grouped
  BY <1>1, <1>4, <1>8, <1>9, ComesFirst
<1>11. PICK ie, o, m, rest : LeafComes(Q, made, e, C, ie, o, m, rest)
  BY <1>1, <1>10, LeafOrGroup, Zenon
<1> DEFINE c == Codec(ie, o, 0)
           s == c.dumped
<1>12. /\ ie \in Leaves /\ o \in Options(ie) /\ m \in made
       /\ m.ie = ie /\ m.o = o /\ m.length = c.length
       /\ m.place = Place(e.next.frame, ie)
       /\ C.notes = e.next.notes \cup {m}
  BY <1>11, LeafComingNote
<1>13. /\ Leveled(Q, made, S, dec) /\ Bottom(made, S[1], enc[1]) /\ Len(dec) \in Nat
       /\ IsLoading(Cur) /\ dec # <<>>
       /\ Matches(made, Cur, e.at, e.goal) /\ e.at = e.next /\ e.wire = wire
       /\ IsFrame(e.at.frame)
  BY <1>8, Zenon DEF Innermost
<1>14. /\ Element(wire, ie, c.tlv, s, rest) /\ c.dumps
       /\ Body(e.at, C, ie, c.length, c.tlv, s, c.value)
       /\ \A a \in Q : Level(Q, made, Onward(e, a, C, rest))
  BY <1>11, <1>13, Zenon DEF LeafComes
<1>15. /\ Head(wire).ie = ie /\ Head(wire).length = c.tlv /\ Tail(wire) = s \o rest
       /\ rest \in Seq(ItemType) /\ Positive(s \o rest) /\ c.tlv \in Nat
  BY <1>14, Zenon DEF Element
<1>16. c.tlv # 0 /\ ie \in Decodable
  BY <1>1, <1>15, Zenon DEF Null
<1>17. ~Altered(m)
  BY <1>12, Zenon DEF Sane
<1>18. PICK x \in Announced(ie, s \o rest) :
          LET r == Codec(ie, x, c.tlv)
          IN  \/ /\ r.accepts
                 /\ wire' = After(s \o rest, Octets(r.loaded))
                 /\ dec' = [dec EXCEPT ![Len(dec)] =
                              Loaded(Cur, ie, c.tlv, Found(s \o rest, r.loaded), "none")]
                 /\ UNCHANGED <<verdict, got>>
              \/ /\ ~r.accepts
                 /\ verdict' \in {"thrown", "spins"} /\ UNCHANGED <<wire, dec, got>>
  BY <1>1, <1>15, Zenon
<1> DEFINE r == Codec(ie, x, c.tlv)
<1>19. /\ ~r.accepts => Unusable(m)
       /\ r.accepts => /\ After(s \o rest, Octets(r.loaded)) = rest
                       /\ Found(s \o rest, r.loaded) = c.value
                       /\ c.tlv = c.length
                       /\ m.place # "stray" => ~Unusable(m)
  <2>1. x \in Announced(ie, s \o rest)
    BY <1>18
  <2>2. /\ ie \in Leaves /\ o \in Options(ie) /\ m.ie = ie /\ m.o = o
        /\ m.length = c.length /\ ~Altered(m) /\ c.dumps /\ c.tlv # 0 /\ ie \in Decodable
        /\ rest \in Seq(ItemType) /\ Positive(s \o rest)
    BY <1>12, <1>14, <1>15, <1>16, <1>17, Zenon
  <2> QED
    BY <2>1, <2>2, LeafRead
<1> HIDE DEF c, s, r
<1>20. CASE ~r.accepts
  BY <1>12, <1>18, <1>19, <1>20, Zenon DEF Lost, r
<1>21. CASE r.accepts
  <2> DEFINE D == Loaded(Cur, ie, c.tlv, c.value, "none")
             f == Onward(e, C, C, rest)
  <2>1. wire' = rest /\ dec' = [dec EXCEPT ![Len(dec)] = D] /\ verdict' = verdict
    BY <1>18, <1>19, <1>21, Zenon DEF r
  <2>2. /\ c.tlv \in Nat /\ C.frame.length = e.at.frame.length + 4 + c.tlv
        /\ C.frame.content = With(e.at.frame.content, ie, c.value, TRUE)
    BY <1>14, <1>15, <1>19, <1>21, Zenon DEF Body
  <2>3. m.place # "stray" => \A y \in C.notes : y \in e.at.notes \/ ~Unusable(y)
    BY <1>12, <1>13, <1>19, <1>21, Zenon
  <2>4. m.place = Place(e.at.frame, ie)
    BY <1>12, <1>13, Zenon
  <2>5. Suits(made, e.at, C, m, ie, c.tlv, c.value, "none")
    BY <1>12, <1>17, <2>2, <2>3, <2>4, Zenon DEF Suits
  <2>6. C \in Q /\ e.at.frame.ie = e.goal.frame.ie
    BY <1>10, <1>13, Zenon DEF Coming
  <2>7. IsFrame(C.frame)
    BY <1>4, <2>6, Zenon DEF History, Good
  <2>8. Matches(made, D, C, e.goal) /\ IsLoading(D)
    <3>1. PICK A, goal, v : A = e.at /\ goal = e.goal /\ v = c.value
      OBVIOUS
    <3>2. /\ IsFrame(A.frame) /\ A.frame.ie = goal.frame.ie /\ Matches(made, Cur, A, goal)
          /\ Suits(made, A, C, m, ie, c.tlv, v, "none")
      BY <1>13, <2>5, <2>6, <3>1, Zenon
    <3>3. /\ Matches(made, Loaded(Cur, ie, c.tlv, v, "none"), C, goal)
          /\ IsLoading(Loaded(Cur, ie, c.tlv, v, "none"))
      BY <1>13, <2>7, <3>2, LoadedMatches
    <3> QED
      BY <3>1, <3>3, Zenon
  <2>9. Level(Q, made, f)
    BY <1>14, <2>6, Zenon
  <2>10. /\ f.at = C /\ f.next = C /\ f.goal = e.goal /\ f.wire = rest
         /\ f.below = e.below
    BY DEF Onward
  <2> HIDE DEF D, f
  <2>11. /\ Len(dec') = Len(dec) /\ dec'[Len(dec)] = D
         /\ \A i \in 1 .. Len(dec) : i # Len(dec) => dec'[i] = dec[i]
    BY <1>5, <1>13, <2>1, <2>8, PutKeepsStack
  <2>12. Matches(made, dec'[Len(dec)], f.at, f.goal)
    BY <2>8, <2>10, <2>11, Zenon
  <2>13. f.goal = S[Len(dec)].goal /\ f.below = S[Len(dec)].below /\ f.at = f.next
    BY <1>7, <2>10, Zenon
  <2>14. \E S1 : Reading(Q, made, S1, dec', f.wire, enc[1])
    <3>1. PICK n, d, d1, g, F : n = Len(dec) /\ d = dec /\ d1 = dec' /\ g = f /\ F = enc[1]
      OBVIOUS
    <3>2. /\ Leveled(Q, made, S, d) /\ Bottom(made, S[1], F) /\ n \in Nat /\ n = Len(d)
          /\ Level(Q, made, g) /\ g.goal = S[n].goal /\ g.below = S[n].below
          /\ g.at = g.next /\ Len(d1) = n /\ Matches(made, d1[n], g.at, g.goal)
          /\ \A i \in 1 .. n : i # n => d1[i] = d[i]
      BY <1>13, <2>9, <2>11, <2>12, <2>13, <3>1, Zenon
    <3>3. \E S1 : Reading(Q, made, S1, d1, g.wire, F)
      BY <3>2, ReadingPut
    <3> QED
      BY <3>1, <3>3, Zenon
  <2>15. \E S1 : Reading(Q, made, S1, dec', wire', enc[1])
    BY <2>1, <2>10, <2>14, Zenon
  <2>16. Faithful'
    BY <1>1, <1>2, <2>15, FaithfulNext
  <2>17. verdict = "none"
    BY <1>1, Zenon DEF Reads
  <2> QED
    BY <2>1, <2>16, <2>17, Zenon
<1> QED
  BY <1>20, <1>21

(* Nothing of a frame has been read. *)
Unread(Q, M, f, G, rest, w) ==
  /\ Level(Q, M, f) /\ f.at = f.next /\ f.goal = G /\ f.below = rest
  /\ f.wire = w /\ Fresh(f.at, G.frame.ie)

(* There is such a level for every group. *)
LEMMA FreshLevel ==
  ASSUME NEW Q, NEW M, History(Q, M), NEW G \in Q, G.frame.dumps,
         Small(Octets(G.frame.items)), NEW rest \in Seq(ItemType),
         NEW w, w = G.frame.items \o rest, Positive(w)
  PROVE  \E f : Unread(Q, M, f, G, rest, w)
<1>1. PICK A \in Q : Fresh(A, G.frame.ie) /\ Chain(Q, M, A, G)
  BY Zenon DEF History
<1>2. IsFrame(G.frame)
  BY Zenon DEF History, Good
<1>3. Sized(G.frame.ie, G.frame.length, G.frame.items, G.frame.dumps)
  BY <1>2, FrameFields
<1>4. G.frame.items \in Seq(ItemType) /\ G.frame.ie \in Classes
  BY <1>3 DEF Sized
<1>5. A.frame.items = <<>>
  <2>1. A.frame.items = Frame(G.frame.ie).items
    BY <1>1, Zenon DEF Fresh, Like
  <2> QED
    BY <1>4, <2>1, FreshFrame
<1>6. G.frame.items = A.frame.items \o G.frame.items
  BY <1>4, <1>5, ItemsConcat
<1>7. w \in Seq(ItemType)
  BY <1>4, ItemsConcat
<1>8. PICK f : f = [at |-> A, next |-> A, goal |-> G, wire |-> w, below |-> rest]
  OBVIOUS
<1>9. f.at = A /\ f.next = A /\ f.goal = G /\ f.wire = w /\ f.below = rest
  BY <1>8
<1>10. Level(Q, M, f)
  BY <1>1, <1>4, <1>6, <1>7, <1>9, Zenon DEF Level
<1> QED
  BY <1>1, <1>9, <1>10, Zenon DEF Unread

(* The loop of a frame begins. *)
LEMMA LoadingMatches ==
  ASSUME NEW M, NEW A, NEW goal, goal.frame.ie \in Classes, goal.frame.length \in Nat,
         Fresh(A, goal.frame.ie)
  PROVE  /\ Matches(M, Loading(goal.frame.ie, goal.frame.length), A, goal)
         /\ IsLoading(Loading(goal.frame.ie, goal.frame.length))
<1>1. PICK ie, l : ie = goal.frame.ie /\ l = goal.frame.length
  OBVIOUS
<1>2. ie \in Classes /\ l \in Nat
  BY <1>1
<1>3. PICK D : D = Loading(ie, l)
  OBVIOUS
<1>4. /\ IsLoading(D) /\ D.ie = ie /\ D.length = l /\ D.left = l
      /\ D.content = <<>> /\ D.fault = "none"
  BY ZenonT(60), <1>2, <1>3, LoadingStarts
<1>5. A.notes = {} /\ A.frame.length = 0 /\ A.frame.content = <<>>
  <2>1. A.notes = {} /\ A.frame.length = Frame(ie).length
        /\ A.frame.content = Frame(ie).content
    BY <1>1, Zenon DEF Fresh, Like
  <2> QED
    BY <1>2, <2>1, FreshFrame
<1>6. D.left = D.length - A.frame.length
  BY <1>2, <1>4, <1>5
<1>7. \A m \in A.notes : ~Unusable(m)
  BY <1>5
<1>8. Matches(M, D, A, goal)
  BY <1>1, <1>4, <1>5, <1>6, <1>7, Zenon DEF Matches
<1> QED
  BY <1>1, <1>3, <1>4, <1>8, Zenon

(* The head of a group opens a level of its own. *)
LEMMA LoadGroupReads ==
  ASSUME TypeInv, Faithful, LoadGroup
  PROVE  verdict' = "none" /\ Faithful'
<1>1. /\ Reads /\ AtTlv /\ ~Null /\ Head(wire).ie \in DOMAIN Grouped
      /\ dec' = Append(dec, Loading(Head(wire).ie, Head(wire).length))
      /\ wire' = Tail(wire) /\ verdict' = verdict /\ Kept
  BY DEF LoadGroup, Kept
<1>2. PICK Q : Told(Q, made, enc) /\ \E S : Reading(Q, made, S, dec, wire, enc[1])
  BY Zenon DEF Faithful
<1>3. PICK S : Reading(Q, made, S, dec, wire, enc[1])
  BY <1>2
<1>4. History(Q, made)
  BY <1>2, Zenon DEF Told
<1>5. Stacked
  BY DEF TypeInv
<1>6. Innermost(Q, made, S, enc[1], S[Len(dec)])
  BY <1>3, <1>4, <1>5, CurLevel
<1>7. PICK e : e = S[Len(dec)]
  OBVIOUS
<1>8. Innermost(Q, made, S, enc[1], e)
  BY <1>6, <1>7, Zenon
<1>9. wire # <<>>
  BY <1>1, Zenon DEF AtTlv
<1>10. PICK C : /\ Coming(Q, made, e, C)
                /\ \/ Head(wire).ie \in Leaves
                   \/ \E G \in Q : \E m, rest : GroupComes(Q, made, e, C, G, m, rest)
  BY <1>4, <1>8, <1>1, <1>9, ComesFirst
<1>11. PICK G \in Q : \E m, rest : GroupComes(Q, made, e, C, G, m, rest)
  BY <1>1, <1>10, LeafOrGroup, Zenon
<1>12. PICK m, rest : GroupComes(Q, made, e, C, G, m, rest)
  BY <1>11
<1> DEFINE H == G.frame
           s == H.items
<1>13. /\ Leveled(Q, made, S, dec) /\ Bottom(made, S[1], enc[1]) /\ Len(dec) \in Nat
       /\ e.at = e.next /\ e.wire = wire /\ e.at \in Q
  BY <1>8, Zenon DEF Innermost
<1>14. /\ GroupStep(made, e.at, C, G, m) /\ Element(wire, H.ie, H.length, s, rest) /\ H.dumps
       /\ Body(e.at, C, H.ie, H.length, H.length, s, H.content)
       /\ \A a \in Q : Level(Q, made, Onward(e, a, C, rest))
  BY <1>12, <1>13, Zenon DEF GroupComes
<1>15. /\ Head(wire).ie = H.ie /\ Head(wire).length = H.length /\ Tail(wire) = s \o rest
       /\ rest \in Seq(ItemType) /\ Positive(s \o rest) /\ H.length \in Nat
       /\ s \in Seq(ItemType)
  BY <1>14, Zenon DEF Element
<1>16. H.length # 0 /\ H.ie \in Decodable
  BY <1>1, <1>15, Zenon DEF Null
<1>17. Small(Octets(s))
  <2>1. Octets(C.frame.items) = Octets(e.at.frame.items) + 4 + Octets(s)
        /\ Octets(s) \in Nat /\ Octets(e.at.frame.items) \in Nat
    BY <1>14, Zenon DEF Body
  <2>2. Small(Octets(C.frame.items))
    BY <1>10, Zenon DEF Coming
  <2>3. PICK a, b, d : a = Octets(s) /\ b = Octets(e.at.frame.items) /\ d = Octets(C.frame.items)
    OBVIOUS
  <2>4. a \in Nat /\ b \in Nat /\ d = b + 4 + a /\ Small(d)
    BY <2>1, <2>2, <2>3
  <2>5. Small(a)
    BY <2>4 DEF Small
  <2> QED
    BY <2>3, <2>5
<1>18. PICK f : /\ Level(Q, made, f) /\ f.at = f.next /\ f.goal = G /\ f.below = rest
                /\ f.wire = s \o rest /\ Fresh(f.at, H.ie)
  <2>1. PICK w : w = s \o rest
    OBVIOUS
  <2>2. /\ w = G.frame.items \o rest /\ Positive(w) /\ G.frame.dumps
        /\ Small(Octets(G.frame.items)) /\ rest \in Seq(ItemType)
    BY <1>14, <1>15, <1>17, <2>1, Zenon
  <2>3. \E f : Unread(Q, made, f, G, rest, w)
    BY <1>4, <2>2, FreshLevel
  <2> QED
    BY <2>1, <2>3, Zenon DEF Unread
<1> DEFINE e1 == Onward(e, e.at, C, rest)
           D == Loading(H.ie, H.length)
<1>19. Level(Q, made, e1)
  BY <1>13, <1>14, Zenon
<1>20. /\ e1.at = e.at /\ e1.next = C /\ e1.goal = e.goal /\ e1.wire = rest
       /\ e1.below = e.below
  BY DEF Onward
<1>21. H.ie \in Classes
  BY <1>14, Zenon DEF GroupStep, Classes
<1>22. Matches(made, D, f.at, G) /\ IsLoading(D)
  BY <1>15, <1>18, <1>21, LoadingMatches
<1> HIDE DEF D, e1
<1>23. dec' = Append(dec, D)
  BY <1>1, <1>15, Zenon DEF D
<1>24. /\ Len(dec') = Len(dec) + 1 /\ dec'[Len(dec) + 1] = D
       /\ \A i \in 1 .. Len(dec) : dec'[i] = dec[i]
  BY <1>5, <1>22, <1>23, PushKeepsStack
<1>25. Nested(made, e1, f)
  BY <1>14, <1>16, <1>18, <1>20, Zenon DEF Nested
<1>26. \E S1 : Reading(Q, made, S1, dec', s \o rest, enc[1])
  <2>1. PICK n, d, d1, e2, F : n = Len(dec) /\ d = dec /\ d1 = dec' /\ e2 = e1 /\ F = enc[1]
    OBVIOUS
  <2>2. /\ Leveled(Q, made, S, d) /\ Bottom(made, S[1], F) /\ n \in Nat /\ n = Len(d)
        /\ Level(Q, made, e2) /\ e2.goal = S[n].goal /\ e2.below = S[n].below
        /\ e2.at = S[n].at /\ Nested(made, e2, f)
    BY <1>7, <1>13, <1>19, <1>20, <1>25, <2>1, Zenon
  <2>3. /\ Len(d1) = n + 1 /\ Matches(made, d1[n + 1], f.at, f.goal)
        /\ \A i \in 1 .. n : d1[i] = d[i]
    BY <1>18, <1>22, <1>24, <2>1, Zenon
  <2>4. \E S1 : Reading(Q, made, S1, d1, f.wire, F)
    BY ZenonT(60), <1>18, <2>2, <2>3, ReadingPush
  <2> QED
    BY <1>18, <2>1, <2>4, Zenon
<1>27. \E S1 : Reading(Q, made, S1, dec', wire', enc[1])
  BY <1>1, <1>15, <1>26, Zenon
<1>28. Faithful'
  BY <1>1, <1>2, <1>27, FaithfulNext
<1> QED
  BY <1>1, <1>28, Zenon DEF Reads

(* The group that ends suits the frame it belongs to. *)
LEMMA GroupSuits ==
  ASSUME NEW Q, NEW M, History(Q, M), \A x \in M : ~Altered(x), NEW e, Level(Q, M, e),
         NEW f, f.goal \in Q, Nested(M, e, f), NEW D, Matches(M, D, f.goal, f.goal)
  PROVE  \E m : /\ Suits(M, e.at, e.next, m, D.ie, D.length, D.content, GroupFault(D))
                /\ e.at.frame.ie = e.goal.frame.ie
<1>1. PICK A, C, G, goal : A = e.at /\ C = e.next /\ G = f.goal /\ goal = e.goal
  OBVIOUS
<1>2. /\ G.frame.ie \in Decodable /\ G.frame.length # 0
      /\ \E m : GroupStep(M, A, C, G, m)
  BY <1>1, Zenon DEF Nested
<1>3. PICK m : GroupStep(M, A, C, G, m)
  BY <1>2
<1>4. /\ A \in Q /\ C \in Q /\ goal \in Q /\ G \in Q /\ Chain(Q, M, C, goal)
      /\ goal.frame.dumps /\ Small(Octets(goal.frame.items))
  BY <1>1, Zenon DEF Level
<1>5. Ahead(C, goal) /\ Octets(C.frame.items) \in Nat
  BY <1>4, ChainAhead
<1>6. C.frame.dumps /\ C.frame.ie = goal.frame.ie
      /\ Octets(C.frame.items) <= Octets(goal.frame.items)
  BY <1>5, Zenon DEF Ahead
<1>7. Octets(goal.frame.items) \in Nat
  <2>1. Chain(Q, M, goal, goal)
    BY <1>4, ChainOne
  <2> QED
    BY <1>4, <2>1, ChainAhead
<1>8. Small(Octets(C.frame.items))
  BY <1>4, <1>5, <1>6, <1>7 DEF Small
<1>9. Good(M, A) /\ Good(M, G)
  BY <1>4, Zenon DEF History
<1> DEFINE H == G.frame
<1>10. Body(A, C, H.ie, H.length, H.length, H.items, H.content)
  BY <1>3, <1>6, <1>8, <1>9, GroupBody
<1>11. /\ H.length \in Nat /\ C.frame.length = A.frame.length + 4 + H.length
       /\ C.frame.content = With(A.frame.content, H.ie, H.content, TRUE)
       /\ C.frame.ie = A.frame.ie
  BY <1>10, Zenon DEF Body
<1>12. /\ H.ie \in DOMAIN Grouped /\ m \in M /\ m.ie = H.ie /\ m.length = H.length
       /\ m.place = Place(A.frame, H.ie)
       /\ C.notes = (A.notes \cup G.notes) \cup {m}
  BY <1>3, Zenon DEF GroupStep, NoteOf
<1>13. /\ D.ie = H.ie /\ D.length = H.length
       /\ D.fault = "none" => D.content = H.content /\ \A x \in G.notes : ~Unusable(x)
       /\ (\A x \in M : ~Unusable(x)) => D.fault = "none"
  BY <1>1, Zenon DEF Matches
<1>14. ~Altered(m)
  BY <1>12
<1>15. ASSUME GroupFault(D) = "none"
       PROVE  /\ C.frame.content = With(A.frame.content, H.ie, D.content, TRUE)
              /\ m.place # "stray" => \A x \in C.notes : x \in A.notes \/ ~Unusable(x)
  <2>1. D.fault = "none" /\ D.ie # "create_urr"
    BY <1>15 DEF GroupFault
  <2>2. m.place # "stray" => ~Unusable(m)
    <3>1. /\ m.ie \in DOMAIN Grouped /\ m.ie \in Decodable /\ m.ie # "create_urr"
          /\ m.length # 0
      BY <1>2, <1>12, <1>13, <2>1, Zenon
    <3> QED
      BY <3>1, GroupUsable
  <2> QED
    BY <1>11, <1>12, <1>13, <2>1, <2>2, Zenon
<1>16. ASSUME \A x \in M : ~Unusable(x)
       PROVE  GroupFault(D) = "none"
  <2>1. ~Unusable(m)
    BY <1>12, <1>16
  <2>2. m.ie # "create_urr"
    BY <2>1 DEF Unusable, Endless
  <2> QED
    BY <1>12, <1>13, <1>16, <2>2, Zenon DEF GroupFault
<1> HIDE DEF H
<1>17. Suits(M, A, C, m, H.ie, H.length, D.content, GroupFault(D))
  BY <1>11, <1>12, <1>14, <1>15, <1>16, Zenon DEF Suits
<1>18. Suits(M, A, C, m, D.ie, D.length, D.content, GroupFault(D))
  BY <1>13, <1>17, Zenon
<1>19. A.frame.ie = goal.frame.ie
  BY <1>6, <1>11, Zenon
<1> QED
  BY <1>1, <1>18, <1>19, Zenon

(* A loop of a group ends where the group ends. *)
LEMMA CloseLoadedReads ==
  ASSUME TypeInv, Sane, Faithful, CloseLoaded
  PROVE  verdict' = "none" /\ Faithful'
<1>1. Stacked
  BY DEF TypeInv
<1>2. /\ verdict = "none" /\ Len(dec) > 1 /\ ~Reads /\ Kept /\ Len(dec) \in Nat
      /\ UNCHANGED <<wire, verdict, got>> /\ dec # <<>>
      /\ IsLoading(Cur) /\ IsLoading(dec[Len(dec) - 1])
      /\ Cur.length \in Nat /\ GroupFault(Cur) \in {"none", "illegal", "recursion"}
      /\ dec' = Append(SubSeq(dec, 1, Len(dec) - 2),
                       Loaded(dec[Len(dec) - 1], Cur.ie, Cur.length, Cur.content,
                              GroupFault(Cur)))
  BY <1>1, CloseLoadedEffect, Zenon
<1>3. PICK Q : Told(Q, made, enc) /\ \E S : Reading(Q, made, S, dec, wire, enc[1])
  BY Zenon DEF Faithful
<1>4. PICK S : Reading(Q, made, S, dec, wire, enc[1])
  BY <1>3
<1>5. History(Q, made)
  BY <1>3, Zenon DEF Told
<1>6. Innermost(Q, made, S, enc[1], S[Len(dec)])
  BY <1>1, <1>4, <1>5, CurLevel
<1>7. PICK n, f, e, up : /\ n = Len(dec) /\ f = S[Len(dec)] /\ e = S[Len(dec) - 1]
                         /\ up = dec[Len(dec) - 1]
  OBVIOUS
<1>8. Innermost(Q, made, S, enc[1], f)
  BY <1>6, <1>7, Zenon
<1>9. ~(Cur.left > 0)
  BY <1>2 DEF Reads
<1>10. f.at = f.goal /\ wire = f.below
  BY <1>5, <1>8, <1>9, EndReached
<1>11. /\ Leveled(Q, made, S, dec) /\ Bottom(made, S[1], enc[1])
       /\ Matches(made, Cur, f.at, f.goal) /\ f.goal \in Q
  BY <1>8, Zenon DEF Innermost
<1>12. n \in Nat /\ n > 1 /\ n - 1 \in 1 .. n - 1 /\ n - 1 \in 1 .. n /\ (n - 1) + 1 = n
  BY <1>2, <1>7
<1>13. Level(Q, made, e) /\ Matches(made, up, e.at, e.goal) /\ Nested(made, e, f)
  <2>1. /\ Len(S) = n
        /\ \A j \in 1 .. Len(S) : Level(Q, made, S[j]) /\ Matches(made, dec[j], S[j].at, S[j].goal)
        /\ \A j \in 1 .. Len(S) - 1 : Nested(made, S[j], S[j + 1])
    BY <1>7, <1>11, Zenon DEF Leveled
  <2>2. e = S[n - 1] /\ f = S[n] /\ up = dec[n - 1]
    BY <1>7
  <2>3. Level(Q, made, S[n - 1]) /\ Matches(made, dec[n - 1], S[n - 1].at, S[n - 1].goal)
    BY <1>12, <2>1, Zenon
  <2>4. Nested(made, S[n - 1], S[(n - 1) + 1])
    BY <1>12, <2>1, Zenon
  <2> QED
    BY <1>12, <2>2, <2>3, <2>4, Zenon
<1>14. PICK c : c = Cur
  OBVIOUS
<1>15. PICK m : /\ Suits(made, e.at, e.next, m, c.ie, c.length, c.content, GroupFault(c))
                /\ e.at.frame.ie = e.goal.frame.ie
  <2>1. Matches(made, c, f.goal, f.goal)
    BY <1>10, <1>11, <1>14, Zenon
  <2>2. \A x \in made : ~Altered(x)
    BY DEF Sane
  <2> QED
    BY <1>5, <1>11, <1>13, <2>1, <2>2, GroupSuits
<1> DEFINE D == Loaded(up, c.ie, c.length, c.content, GroupFault(c))
           e1 == Onward(e, e.next, e.next, e.wire)
<1>16. /\ e.at \in Q /\ e.next \in Q /\ Chain(Q, made, e.next, e.goal)
       /\ e.wire \in Seq(ItemType) /\ Positive(e.wire)
       /\ \E R \in Seq(ItemType) :
             e.goal.frame.items = e.next.frame.items \o R /\ e.wire = R \o e.below
  BY <1>13, Zenon DEF Level
<1>17. IsFrame(e.at.frame) /\ IsFrame(e.next.frame)
  BY <1>5, <1>16, Zenon DEF History, Good
<1>18. Matches(made, D, e.next, e.goal) /\ IsLoading(D)
  <2>1. PICK A, C, goal, ie, l, v, fault :
           /\ A = e.at /\ C = e.next /\ goal = e.goal /\ ie = c.ie /\ l = c.length
           /\ v = c.content /\ fault = GroupFault(c)
    OBVIOUS
  <2>2. /\ IsLoading(up) /\ IsFrame(A.frame) /\ IsFrame(C.frame)
        /\ A.frame.ie = goal.frame.ie /\ Matches(made, up, A, goal)
        /\ Suits(made, A, C, m, ie, l, v, fault)
    BY <1>2, <1>7, <1>13, <1>15, <1>17, <2>1, Zenon
  <2>3. fault \in {"none", "illegal", "recursion"}
    BY <1>2, <1>14, <2>1, Zenon
  <2>4. Matches(made, Loaded(up, ie, l, v, fault), C, goal) /\ IsLoading(Loaded(up, ie, l, v, fault))
    BY <2>2, <2>3, LoadedMatches
  <2> QED
    BY <2>1, <2>4, Zenon
<1>19. Level(Q, made, e1)
  <2>1. PICK C, w : C = e.next /\ w = e.wire
    OBVIOUS
  <2>2. /\ C \in Q /\ Chain(Q, made, C, e.goal) /\ w \in Seq(ItemType) /\ Positive(w)
        /\ \E R \in Seq(ItemType) : e.goal.frame.items = C.frame.items \o R /\ w = R \o e.below
    BY <1>16, <2>1, Zenon
  <2>3. Level(Q, made, Onward(e, C, C, w))
    BY <1>13, <2>2, OnwardLevel
  <2> QED
    BY <2>1, <2>3, Zenon
<1>20. /\ e1.at = e.next /\ e1.next = e.next /\ e1.goal = e.goal /\ e1.wire = e.wire
       /\ e1.below = e.below
  BY DEF Onward
<1> HIDE DEF D, e1
<1>21. dec' = Append(SubSeq(dec, 1, Len(dec) - 2), D)
  BY <1>2, <1>7, <1>14, Zenon DEF D
<1>22. /\ Len(dec') = Len(dec) - 1 /\ dec'[Len(dec) - 1] = D
       /\ \A i \in 1 .. Len(dec) - 2 : dec'[i] = dec[i]
  BY <1>1, <1>2, <1>18, <1>21, MergeKeepsStack
<1>23. \E S1 : Reading(Q, made, S1, dec', e.wire, enc[1])
  <2>1. PICK d, d1, e2, F : d = dec /\ d1 = dec' /\ e2 = e1 /\ F = enc[1]
    OBVIOUS
  <2>2. /\ Leveled(Q, made, S, d) /\ Bottom(made, S[1], F) /\ n = Len(d)
        /\ Level(Q, made, e2) /\ e2.goal = S[n - 1].goal /\ e2.below = S[n - 1].below
        /\ e2.at = e2.next
    BY <1>7, <1>11, <1>19, <1>20, <2>1, Zenon
  <2>3. /\ Len(d1) = n - 1 /\ Matches(made, d1[n - 1], e2.at, e2.goal)
        /\ \A i \in 1 .. n - 2 : d1[i] = d[i]
    BY <1>7, <1>18, <1>20, <1>22, <2>1, Zenon
  <2>4. \E S1 : Reading(Q, made, S1, d1, e2.wire, F)
    BY ZenonT(60), <1>12, <2>2, <2>3, ReadingMerge
  <2> QED
    BY <1>20, <2>1, <2>4, Zenon
<1>24. wire' = e.wire
  BY <1>2, <1>10, <1>13, Zenon DEF Nested
<1>25. \E S1 : Reading(Q, made, S1, dec', wire', enc[1])
  BY <1>23, <1>24, Zenon
<1>26. Faithful'
  BY <1>2, <1>3, <1>25, FaithfulNext
<1> QED
  BY <1>2, <1>26, Zenon

(* A null pointer where an element should be: it is one that no message can
   carry. *)
LEMMA NullLost ==
  ASSUME Sane, NEW Q, History(Q, made), NEW S, NEW F, NEW e, Innermost(Q, made, S, F, e),
         Reads, Null, wire # <<>>
  PROVE  Lost /\ Cur.left # 0
<1>1. PICK C : /\ Coming(Q, made, e, C)
               /\ \/ \E ie, o, m, rest : LeafComes(Q, made, e, C, ie, o, m, rest)
                  \/ \E G \in Q : \E m, rest : GroupComes(Q, made, e, C, G, m, rest)
  BY ComesFirst
<1>2. /\ e.at = e.next /\ e.wire = wire
      /\ Cur.left = e.goal.frame.length - e.at.frame.length
  BY Zenon DEF Innermost
<1>3. Cur.left # 0
  <2>1. PICK x, y, z : x = e.next.frame.length /\ y = C.frame.length /\ z = e.goal.frame.length
    OBVIOUS
  <2>2. x \in Nat /\ y \in Nat /\ z \in Nat /\ x < y /\ y <= z
    BY <1>1, <2>1, Zenon DEF Coming
  <2>3. Cur.left = z - x
    BY <1>2, <2>1, Zenon
  <2> QED
    BY <2>2, <2>3
<1>4. Head(wire).length = 0 \/ Head(wire).ie \notin Decodable
  BY Zenon DEF Null
<1>5. CASE \E ie, o, m, rest : LeafComes(Q, made, e, C, ie, o, m, rest)
  <2>1. PICK ie, o, m, rest : LeafComes(Q, made, e, C, ie, o, m, rest)
    BY <1>5
  <2>2. /\ ie \in Leaves /\ o \in Options(ie) /\ m \in made
        /\ m.ie = ie /\ m.o = o /\ m.length = Codec(ie, o, 0).length
    BY <2>1, LeafComingNote
  <2>3. Element(wire, ie, Codec(ie, o, 0).tlv, Codec(ie, o, 0).dumped, rest)
    BY <1>2, <2>1, Zenon DEF LeafComes
  <2>4. Head(wire).ie = ie /\ Head(wire).length = Codec(ie, o, 0).tlv
    BY <2>3, Zenon DEF Element
  <2>5. Codec(ie, o, 0).tlv = 0 \/ ie \notin Decodable
    BY <1>4, <2>4, Zenon
  <2>6. ~Altered(m)
    BY <2>2, Zenon DEF Sane
  <2>7. Unusable(m)
    BY <2>2, <2>5, <2>6, LeafLost
  <2> QED
    BY <1>3, <2>2, <2>7, Zenon DEF Lost
<1>6. CASE \E G \in Q : \E m, rest : GroupComes(Q, made, e, C, G, m, rest)
  <2>1. PICK G \in Q : \E m, rest : GroupComes(Q, made, e, C, G, m, rest)
    BY <1>6
  <2>2. PICK m, rest : GroupComes(Q, made, e, C, G, m, rest)
    BY <2>1
  <2>3. /\ G.frame.ie \in DOMAIN Grouped /\ m \in made
        /\ m.ie = G.frame.ie /\ m.length = G.frame.length
    BY <2>2, GroupComingNote
  <2>4. Element(wire, G.frame.ie, G.frame.length, G.frame.items, rest)
    BY <1>2, <2>2, Zenon DEF GroupComes
  <2>5. Head(wire).ie = G.frame.ie /\ Head(wire).length = G.frame.length
    BY <2>4, Zenon DEF Element
  <2>6. CASE m.length = 0
    BY <1>3, <2>3, <2>6, Zenon DEF Lost, Unusable, Endless
  <2>7. CASE m.ie \notin Decodable
    <3>1. m.ie \in DOMAIN Grouped
      BY <2>3
    <3>2. Unusable(m)
      BY <2>7, <3>1, GroupUsable
    <3> QED
      BY <1>3, <2>3, <3>2, Zenon DEF Lost
  <2> QED
    BY <1>4, <2>3, <2>5, <2>6, <2>7, Zenon
<1> QED
  BY <1>1, <1>5, <1>6

(* What becomes of a message. *)
Arrived(v, g) ==
  /\ v = "delivered" => g = enc[1].content /\ ~Lost
  /\ v \in {"unsent", "thrown", "crashed", "spins"} => Lost

(* The loop of the message is at its end. *)
LEMMA FinishReads ==
  ASSUME NEW Q, NEW S, NEW e, Innermost(Q, made, S, enc[1], e), Len(dec) = 1, e.at = e.goal
  PROVE  Arrived(FinalVerdict, Cur.content)
<1>1. /\ Matches(made, Cur, e.goal, e.goal) /\ Bottom(made, e, enc[1])
      /\ Cur.left = e.goal.frame.length - e.goal.frame.length
      /\ e.goal.frame.length \in Nat
  BY Zenon DEF Innermost
<1>2. Cur.left = 0
  BY <1>1
<1>3. Like(enc[1], e.goal.frame) /\ made \subseteq e.goal.notes
  BY <1>1, Zenon DEF Bottom
<1>4. enc[1].content = e.goal.frame.content
  BY <1>3, Zenon DEF Like
<1>5. CASE Cur.fault = "none"
  <2>1. Cur.content = e.goal.frame.content /\ \A m \in e.goal.notes : ~Unusable(m)
    BY <1>1, <1>5, Zenon DEF Matches
  <2>2. ~Lost
    BY <1>3, <2>1 DEF Lost
  <2>3. FinalVerdict = "delivered"
    BY <1>2, <1>5 DEF FinalVerdict
  <2> QED
    BY <1>4, <2>1, <2>2, <2>3 DEF Arrived
<1>6. CASE Cur.fault # "none"
  <2>1. Lost
    BY <1>1, <1>6, Zenon DEF Matches, Lost
  <2>2. FinalVerdict # "delivered"
    <3>1. IsLoading(Cur)
      BY Zenon DEF Innermost
    <3>2. Counting(Cur.ie, Cur.length, Cur.left, Cur.fault)
      BY <3>1, LoadingFields
    <3>3. Cur.fault \in {"none", "illegal", "recursion"}
      BY <3>2 DEF Counting
    <3> QED
      BY <1>6, <3>3 DEF FinalVerdict
  <2> QED
    BY <2>1, <2>2 DEF Arrived
<1> QED
  BY <1>5, <1>6

(* The verdict is the one that the elements of the message deserve. *)
LEMMA JudgeReads ==
  ASSUME TypeInv, Sane, Faithful, LoadNull \/ EndMessage \/ LoadJunk
  PROVE  Arrived(verdict', got')
<1>1. /\ Kept /\ UNCHANGED <<wire, dec>>
      /\ verdict' \in {"thrown", "crashed", "spins", "delivered"}
      /\ LoadNull => /\ Reads /\ Null
                     /\ Len(dec) > 1 => verdict' = "thrown"
                     /\ ~(Len(dec) > 1) => verdict' = FinalVerdict /\ got' = Cur.content
      /\ EndMessage => /\ verdict = "none" /\ Len(dec) = 1 /\ ~Reads
                       /\ verdict' = FinalVerdict /\ got' = Cur.content
      /\ LoadJunk => Reads /\ wire # <<>> /\ ~AtTlv
  BY JudgeEffect
<1>2. PICK Q : Told(Q, made, enc) /\ \E S : Reading(Q, made, S, dec, wire, enc[1])
  BY Zenon DEF Faithful
<1>3. PICK S : Reading(Q, made, S, dec, wire, enc[1])
  BY <1>2
<1>4. History(Q, made)
  BY <1>2, Zenon DEF Told
<1>5. Stacked
  BY DEF TypeInv
<1>6. Innermost(Q, made, S, enc[1], S[Len(dec)])
  BY <1>3, <1>4, <1>5, CurLevel
<1>7. PICK e : e = S[Len(dec)]
  OBVIOUS
<1>8. Innermost(Q, made, S, enc[1], e)
  BY <1>6, <1>7, Zenon
<1>9. Len(dec) \in Nat /\ Len(dec) > 0 /\ dec # <<>>
  BY <1>8, Zenon DEF Innermost
<1>10. CASE LoadJunk
  <2>1. Reads /\ wire # <<>> /\ ~AtTlv
    BY <1>1, <1>10
  <2>2. \E C : AtTlv
    BY <1>4, <1>8, <2>1, ComesFirst
  <2> QED
    BY <2>1, <2>2
<1>11. CASE EndMessage
  <2>1. Len(dec) = 1 /\ ~Reads /\ verdict = "none" /\ verdict' = FinalVerdict /\ got' = Cur.content
    BY <1>1, <1>11
  <2>2. ~(Cur.left > 0)
    BY <1>9, <2>1 DEF Reads
  <2>3. e.at = e.goal
    BY <1>4, <1>8, <2>2, EndReached
  <2>4. Arrived(FinalVerdict, Cur.content)
    BY <1>8, <2>1, <2>3, FinishReads
  <2> QED
    BY <2>1, <2>4, Zenon
<1>12. CASE LoadNull
  <2>1. /\ Reads /\ Null
        /\ Len(dec) > 1 => verdict' = "thrown"
        /\ ~(Len(dec) > 1) => verdict' = FinalVerdict /\ got' = Cur.content
    BY <1>1, <1>12
  <2>2. CASE wire # <<>>
    <3>1. Lost /\ Cur.left # 0
      BY <1>4, <1>8, <2>1, <2>2, NullLost
    <3>2. FinalVerdict = "thrown"
      BY <3>1 DEF FinalVerdict
    <3>3. verdict' = "thrown"
      BY <2>1, <3>2
    <3> QED
      BY <3>1, <3>3 DEF Arrived
  <2>3. CASE wire = <<>>
    <3>1. ~\E C : Coming(Q, made, e, C)
      <4>1. SUFFICES ASSUME NEW C, Coming(Q, made, e, C) PROVE FALSE
        OBVIOUS
      <4>2. Level(Q, made, e) /\ e.wire = wire
        BY <1>8, Zenon DEF Innermost
      <4>3. CASE \E ie, o, m, rest : LeafComes(Q, made, e, C, ie, o, m, rest)
        BY <2>3, <4>2, <4>3, Zenon DEF LeafComes, Element
      <4>4. CASE \E G \in Q : \E m, rest : GroupComes(Q, made, e, C, G, m, rest)
        BY <2>3, <4>2, <4>4, Zenon DEF GroupComes, Element
      <4> QED
        BY <1>4, <4>1, <4>2, <4>3, <4>4, ComingCases
    <3>2. Len(dec) = 1 /\ e.at = e.goal
      BY <1>4, <1>8, <2>1, <3>1, ReadsComing
    <3>3. Arrived(FinalVerdict, Cur.content)
      BY <1>8, <3>2, FinishReads
    <3>4. ~(Len(dec) > 1)
      BY <3>2
    <3> QED
      BY <2>1, <3>3, <3>4, Zenon
  <2> QED
    BY <2>2, <2>3
<1> QED
  BY <1>10, <1>11, <1>12
-----------------------------------------------------------------------------
(* The message is written and nothing of it is read. *)
SeidOctets(seid) == IF seid THEN 8 ELSE 0
Sent ==
  /\ enc[1].dumps /\ wire = enc[1].items
  /\ header.length = Uint16(4 + SeidOctets(header.seid) + enc[1].length)

(* The frame of the message, and the marked frame that stands for it. *)
LEMMA MessageHeld ==
  ASSUME TypeInv, Len(enc) = 1, NEW Q, Told(Q, made, enc)
  PROVE  /\ Top = enc[1] /\ IsFrame(enc[1])
         /\ Sized(enc[1].ie, enc[1].length, enc[1].items, enc[1].dumps)
         /\ \E G \in Q : /\ Like(enc[1], G.frame) /\ made \subseteq G.notes
                         /\ Good(made, G)
<1>1. Frames
  BY DEF TypeInv
<1>2. 1 \in 1 .. Len(enc)
  OBVIOUS
<1>3. Top = enc[1]
  BY Zenon DEF Top
<1>4. IsFrame(enc[1])
  BY <1>1, <1>2, Zenon DEF Frames
<1>5. Sized(enc[1].ie, enc[1].length, enc[1].items, enc[1].dumps)
  BY <1>4, FrameFields
<1>6. PICK E : Holds(Q, made, enc, E)
  BY Zenon DEF Told
<1>7. E[1] \in Q /\ Like(enc[1], E[1].frame)
  BY <1>2, <1>6, Zenon DEF Holds
<1>8. made \subseteq E[1].notes
  <2>1. \A m \in made : \E j \in 1 .. Len(enc) : m \in E[j].notes
    BY <1>6, Zenon DEF Holds
  <2>2. \A j \in 1 .. Len(enc) : j = 1
    OBVIOUS
  <2> QED
    BY <2>1, <2>2, Zenon
<1>9. Good(made, E[1])
  BY <1>7, Zenon DEF Told, History
<1> QED
  BY <1>3, <1>4, <1>5, <1>7, <1>8, <1>9, Zenon

(* What is sent is what has been built; what cannot be sent has an element
   no message can carry. *)
LEMMA SendSends ==
  ASSUME TypeInv, Tells, NEW seid \in BOOLEAN, Send(seid)
  PROVE  /\ Len(enc') = 1 /\ enc' = enc /\ made' = made
         /\ \/ verdict' = "none" /\ dec' = <<>> /\ Sent'
            \/ verdict' = "unsent" /\ (Sane => Lost)
<1> DEFINE l == Uint16(4 + SeidOctets(seid) + Top.length)
<1>1. /\ Building /\ Len(enc) = 1 /\ header' = [length |-> l, seid |-> seid]
      /\ \/ Top.dumps /\ wire' = Top.items /\ verdict' = verdict
         \/ ~Top.dumps /\ verdict' = "unsent" /\ wire' = wire
      /\ UNCHANGED <<sender, enc, dec, got, made>>
  BY Zenon DEF Send, SeidOctets
<1>2. PICK Q : Told(Q, made, enc)
  BY Zenon DEF Tells
<1>3. Top = enc[1]
  BY <1>1, <1>2, MessageHeld
<1>4. PICK G \in Q : Like(enc[1], G.frame) /\ made \subseteq G.notes /\ Good(made, G)
  BY <1>1, <1>2, MessageHeld
<1>5. CASE Top.dumps /\ wire' = Top.items /\ verdict' = verdict
  <2>1. verdict' = "none" /\ dec' = <<>>
    BY <1>1, <1>5, Zenon DEF Building
  <2> HIDE DEF l
  <2>2. header'.length = l /\ header'.seid = seid
    BY <1>1
  <2>3. Sent'
    BY <1>1, <1>3, <1>5, <2>2, Zenon DEF Sent, l
  <2> QED
    BY <1>1, <2>1, <2>3
<1>6. CASE ~Top.dumps /\ verdict' = "unsent"
  <2>1. ~G.frame.dumps
    BY <1>3, <1>4, <1>6, Zenon DEF Like
  <2>2. \E m \in G.notes : Altered(m) \/ Unusable(m)
    BY <1>4, <2>1, Zenon DEF Good
  <2>3. Sane => Lost
    BY <1>4, <2>2, Zenon DEF Good, Sane, Lost
  <2> QED
    BY <1>1, <1>6, <2>3
<1> QED
  BY <1>1, <1>5, <1>6

(* The length that the receiver takes from the header. *)
LEMMA HeaderLength ==
  ASSUME NEW h, NEW k \in Nat, NEW n \in Nat, n < 65536, h = Uint16(4 + k + n)
  PROVE  Uint16(h - 4 - k) = n
<1>1. 4 + k \in Nat /\ n + (4 + k) = 4 + k + n
  OBVIOUS
<1>2. \A j \in Nat : Uint16(Uint16(n + j) - j) = Uint16(n)
  BY Sixteen
<1>3. Uint16(Uint16(n + (4 + k)) - (4 + k)) = Uint16(n)
  BY <1>1, <1>2
<1>4. 4 + k + n \in Nat
  OBVIOUS
<1>5. h \in Nat
  BY <1>4, Sixteen
<1>6. h - 4 - k = h - (4 + k)
  BY <1>5
<1>7. h = Uint16(n + (4 + k))
  BY <1>1
<1>8. Uint16(h - (4 + k)) = Uint16(n)
  BY <1>3, <1>7
<1>9. Uint16(n) = n
  BY Sixteen
<1> QED
  BY <1>6, <1>8, <1>9

(* The header gives the receiver the length of what was built. *)
LEMMA LoadHeaderReads ==
  ASSUME TypeInv, Tells, Fits, Sent, Len(enc) = 1, LoadHeader
  PROVE  verdict' = "none" /\ Faithful'
<1>1. Frames /\ UnderWay
  BY DEF TypeInv
<1>2. PICK Q : Told(Q, made, enc)
  BY Zenon DEF Tells
<1>3. History(Q, made)
  BY <1>2, Zenon DEF Told
<1>4. Sized(enc[1].ie, enc[1].length, enc[1].items, enc[1].dumps)
  BY <1>2, MessageHeld
<1>5. PICK G \in Q : Like(enc[1], G.frame) /\ made \subseteq G.notes
  BY <1>2, MessageHeld
<1> DEFINE k == SeidOctets(header.seid)
           D == Loading(G.frame.ie, G.frame.length)
<1>6. /\ enc[1].ie \in Classes /\ enc[1].length \in Nat
      /\ enc[1].items \in Seq(ItemType) /\ Positive(enc[1].items) /\ enc[1].dumps
      /\ Small(Octets(enc[1].items))
  BY <1>4 DEF Sized, Sent, Fits, Small
<1>7. /\ verdict = "none" /\ dec' = <<Loading(enc[1].ie, Uint16(header.length - 4 - k))>>
      /\ UNCHANGED <<sender, enc, wire, header, verdict, got, made>>
  BY Zenon DEF LoadHeader, SeidOctets
<1>8. Kept
  BY <1>7 DEF Kept
<1>9. Uint16(header.length - 4 - k) = enc[1].length
  <2>1. k \in Nat
    BY DEF SeidOctets
  <2> HIDE DEF k
  <2>2. header.length = Uint16(4 + k + enc[1].length)
    BY Zenon DEF Sent, k
  <2>3. enc[1].length < 65536
    BY <1>4 DEF Sized
  <2> QED
    BY <1>6, <2>1, <2>2, <2>3, HeaderLength
<1>10. /\ enc[1].ie = G.frame.ie /\ enc[1].length = G.frame.length
       /\ enc[1].items = G.frame.items /\ enc[1].dumps = G.frame.dumps
  BY <1>5, Zenon DEF Like
<1>11. dec' = <<D>>
  BY <1>7, <1>9, <1>10, Zenon
<1>12. PICK f : Unread(Q, made, f, G, <<>>, wire)
  <2>1. PICK w, rest : w = wire /\ rest = <<>>
    OBVIOUS
  <2>2. rest \in Seq(ItemType)
    BY <2>1
  <2>3. w = G.frame.items
    BY <1>10, <2>1, Zenon DEF Sent
  <2>4. G.frame.items \in Seq(ItemType) /\ Positive(w) /\ G.frame.dumps
        /\ Small(Octets(G.frame.items))
    BY <1>6, <1>10, <2>3, Zenon
  <2>5. w = G.frame.items \o rest
    BY <2>1, <2>3, <2>4, ItemsConcat
  <2>6. \E f : Unread(Q, made, f, G, rest, w)
    BY <1>3, <2>2, <2>4, <2>5, FreshLevel
  <2> QED
    BY <2>1, <2>6, Zenon
<1>13. /\ Level(Q, made, f) /\ f.at = f.next /\ f.goal = G /\ f.below = <<>>
       /\ f.wire = wire /\ Fresh(f.at, G.frame.ie)
  BY <1>12, Zenon DEF Unread
<1>14. Matches(made, D, f.at, G)
  <2>1. G.frame.ie \in Classes /\ G.frame.length \in Nat
    BY <1>6, <1>10, Zenon
  <2> QED
    BY <1>13, <2>1, LoadingMatches
<1> HIDE DEF D
<1>15. PICK S, d : S = <<f>> /\ d = <<D>>
  OBVIOUS
<1>16. /\ Len(S) = 1 /\ S[1] = f /\ Len(d) = 1 /\ d[1] = D /\ S \in Seq({f})
  BY <1>15
<1>17. IsSeq(S)
  BY <1>16 DEF IsSeq
<1>18. /\ \A j \in 1 .. 1 : j = 1
       /\ \A j \in 1 .. 1 - 1 : FALSE
       /\ 1 > 0
  OBVIOUS
<1>19. ASSUME NEW j \in 1 .. Len(S)
       PROVE  Level(Q, made, S[j]) /\ Matches(made, d[j], S[j].at, S[j].goal)
  <2>1. j = 1
    BY <1>16, <1>18
  <2> QED
    BY <1>13, <1>14, <1>16, <2>1, Zenon
<1>20. \A j \in 1 .. Len(S) - 1 : Nested(made, S[j], S[j + 1])
  BY <1>16, <1>18
<1>21. Len(S) = Len(d) /\ Len(S) > 0
  BY <1>16, <1>18
<1>22. Leveled(Q, made, S, d)
  BY <1>17, <1>19, <1>20, <1>21, Zenon DEF Leveled
<1>23. Bottom(made, S[1], enc[1])
  BY <1>5, <1>13, <1>16, Zenon DEF Bottom
<1>24. Reading(Q, made, S, d, wire, enc[1])
  BY <1>13, <1>16, <1>22, <1>23, Zenon DEF Reading
<1>25. Reading(Q, made, S, dec', wire', enc[1])
  BY <1>7, <1>11, <1>15, <1>24, Zenon
<1>26. Faithful'
  BY <1>2, <1>8, <1>25, FaithfulNext
<1> QED
  BY <1>7, <1>26, Zenon

(* The inductive invariant of a message on its way. *)
OnItsWay ==
  /\ header # <<>> => Len(enc) = 1
  /\ Fits /\ Sane =>
        /\ verdict = "none" /\ dec = <<>> /\ header # <<>> => Sent
        /\ verdict = "none" /\ dec # <<>> => Faithful
        /\ Arrived(verdict, got)

(* It holds at the beginning. *)
LEMMA InitOnItsWay ==
  ASSUME Init
  PROVE  OnItsWay
<1>1. header = <<>> /\ dec = <<>> /\ verdict = "none"
  BY Zenon DEF Init
<1> QED
  BY <1>1 DEF OnItsWay, Arrived

(* Nothing is under way while the message is built. *)
LEMMA BuildingOnItsWay ==
  ASSUME header' = <<>>, dec' = <<>>, verdict' = "none"
  PROVE  OnItsWay'
BY DEF OnItsWay, Arrived

(* A receiver that reads has a loop under way. *)
LEMMA ReadingSome ==
  ASSUME NEW Q, NEW M, NEW S, NEW d, NEW w, NEW F, Reading(Q, M, S, d, w, F)
  PROVE  d # <<>>
<1>1. Len(S) = Len(d) /\ Len(S) > 0
  BY Zenon DEF Reading, Leveled
<1> QED
  BY <1>1

(* Reading on, or the end of it. *)
LEMMA KeptOnItsWay ==
  ASSUME OnItsWay, Kept,
         Fits /\ Sane => \/ verdict' = "none" /\ Faithful'
                         \/ verdict' \in {"thrown", "crashed", "spins", "delivered"}
                            /\ Arrived(verdict', got')
  PROVE  OnItsWay'
<1>1. made' = made /\ enc' = enc /\ header' = header
  BY DEF Kept
<1>2. header' # <<>> => Len(enc') = 1
  BY <1>1, Zenon DEF OnItsWay
<1>3. (Fits /\ Sane)' <=> Fits /\ Sane
  BY <1>1 DEF Fits, Sane
<1>4. ASSUME Fits, Sane
      PROVE  /\ (verdict = "none" /\ dec = <<>> /\ header # <<>> => Sent)'
             /\ (verdict = "none" /\ dec # <<>> => Faithful)'
             /\ Arrived(verdict, got)'
  <2>1. CASE verdict' = "none" /\ Faithful'
    <3>1. dec' # <<>>
      <4>1. PICK Q, S : Reading(Q, made', S, dec', wire', enc'[1])
        BY <2>1, Zenon DEF Faithful
      <4> QED
        BY <4>1, ReadingSome
    <3> QED
      BY <2>1, <3>1 DEF Arrived
  <2>2. CASE verdict' \in {"thrown", "crashed", "spins", "delivered"} /\ Arrived(verdict', got')
    <3>1. enc'[1].content = enc[1].content /\ (Lost' <=> Lost)
      BY <1>1 DEF Lost
    <3>2. Arrived(verdict, got)'
      BY <2>2, <3>1, Zenon DEF Arrived
    <3> QED
      BY <2>2, <3>2
  <2> QED
    BY <1>4, <2>1, <2>2
<1> QED
  BY <1>2, <1>3, <1>4, Zenon DEF OnItsWay

(* It is kept by every step. *)
LEMMA NextOnItsWay ==
  ASSUME TypeInv, Tells, OnItsWay, [Next]_vars
  PROVE  OnItsWay'
<1>1. CASE UNCHANGED vars
  <2>1. /\ sender' = sender /\ enc' = enc /\ wire' = wire /\ header' = header
        /\ dec' = dec /\ verdict' = verdict /\ got' = got /\ made' = made
    BY <1>1 DEF vars
  <2>2. Fits' <=> Fits
    BY <2>1 DEF Fits
  <2>3. (Sane' <=> Sane) /\ (Lost' <=> Lost)
    BY <2>1, Zenon DEF Sane, Lost
  <2>4. Sent' <=> Sent
    BY <2>1 DEF Sent
  <2>5. Faithful' <=> Faithful
    BY <2>1, Zenon DEF Faithful
  <2>6. Arrived(verdict, got)' <=> Arrived(verdict, got)
    BY <2>1, <2>3, Zenon DEF Arrived
  <2>7. /\ header' # <<>> => Len(enc') = 1
        /\ Fits /\ Sane =>
              /\ verdict' = "none" /\ dec' = <<>> /\ header' # <<>> => Sent
              /\ verdict' = "none" /\ dec' # <<>> => Faithful
              /\ Arrived(verdict, got)
    BY <2>1, Zenon DEF OnItsWay
  <2> QED
    BY <2>2, <2>3, <2>4, <2>5, <2>6, <2>7, Zenon DEF OnItsWay
<1>2. ASSUME NEW ie \in Leaves, NEW o \in Options(ie), AddLeaf(ie, o) PROVE OnItsWay'
  <2>1. header' = <<>> /\ dec' = <<>> /\ verdict' = "none"
    BY <1>2 DEF AddLeaf, MayAdd, Building
  <2> QED
    BY <2>1, BuildingOnItsWay
<1>3. ASSUME NEW ie \in DOMAIN Grouped, OpenGroup(ie) PROVE OnItsWay'
  <2>1. header' = <<>> /\ dec' = <<>> /\ verdict' = "none"
    BY <1>3 DEF OpenGroup, MayAdd, Building
  <2> QED
    BY <2>1, BuildingOnItsWay
<1>4. CASE CloseGroup
  <2>1. header' = <<>> /\ dec' = <<>> /\ verdict' = "none"
    BY <1>4 DEF CloseGroup, Building
  <2> QED
    BY <2>1, BuildingOnItsWay
<1>5. ASSUME NEW seid \in BOOLEAN, Send(seid) PROVE OnItsWay'
  <2>1. /\ Len(enc') = 1 /\ enc' = enc /\ made' = made
        /\ \/ verdict' = "none" /\ dec' = <<>> /\ Sent'
           \/ verdict' = "unsent" /\ (Sane => Lost)
    BY <1>5, SendSends
  <2>2. (Sane' <=> Sane) /\ (Lost' <=> Lost)
    BY <2>1 DEF Sane, Lost
  <2>3. CASE verdict' = "none" /\ dec' = <<>> /\ Sent'
    BY <2>1, <2>3 DEF OnItsWay, Arrived
  <2>4. CASE verdict' = "unsent" /\ (Sane => Lost)
    BY <2>1, <2>2, <2>4 DEF OnItsWay, Arrived
  <2> QED
    BY <2>1, <2>3, <2>4
<1>6. CASE LoadHeader
  <2>1. header # <<>> /\ dec = <<>> /\ verdict = "none" /\ Kept
    BY <1>6, Zenon DEF LoadHeader, Kept
  <2>2. Len(enc) = 1
    BY <2>1, Zenon DEF OnItsWay
  <2>3. Fits /\ Sane => verdict' = "none" /\ Faithful'
    BY <1>6, <2>1, <2>2, LoadHeaderReads DEF OnItsWay
  <2> QED
    BY <2>1, <2>3, KeptOnItsWay
<1>7. ASSUME Reads PROVE Fits /\ Sane => Faithful
  <2>1. verdict = "none" /\ dec # <<>>
    BY <1>7, Zenon DEF Reads
  <2> QED
    BY <2>1, Zenon DEF OnItsWay
<1>8. CASE LoadLeaf
  <2>1. Reads /\ Kept
    BY <1>8, LoadLeafEffect
  <2>2. Fits /\ Sane => \/ verdict' = "none" /\ Faithful'
                        \/ verdict' \in {"thrown", "spins"} /\ Lost
    BY <1>7, <1>8, <2>1, LoadLeafReads
  <2>3. ASSUME verdict' \in {"thrown", "spins"}, Lost PROVE Arrived(verdict', got')
    BY <2>3 DEF Arrived
  <2> QED
    BY <2>1, <2>2, <2>3, KeptOnItsWay
<1>9. CASE LoadGroup
  <2>1. Reads /\ Kept
    BY <1>9 DEF LoadGroup, Kept
  <2>2. Fits /\ Sane => verdict' = "none" /\ Faithful'
    BY <1>7, <1>9, <2>1, LoadGroupReads
  <2> QED
    BY <2>1, <2>2, KeptOnItsWay
<1>10. CASE CloseLoaded
  <2>1. Stacked
    BY DEF TypeInv
  <2>2. verdict = "none" /\ dec # <<>> /\ Kept
    BY <1>10, <2>1, CloseLoadedEffect
  <2>3. Fits /\ Sane => verdict' = "none" /\ Faithful'
    BY <1>10, <2>2, CloseLoadedReads DEF OnItsWay
  <2> QED
    BY <2>2, <2>3, KeptOnItsWay
<1>11. CASE LoadNull \/ EndMessage \/ LoadJunk
  <2>1. Kept /\ verdict' \in {"thrown", "crashed", "spins", "delivered"}
    BY <1>11, JudgeEffect
  <2>2. verdict = "none" /\ dec # <<>>
    <3>1. LoadNull => Reads
      BY Zenon DEF LoadNull
    <3>2. LoadJunk => Reads
      BY Zenon DEF LoadJunk
    <3>3. Reads => verdict = "none" /\ dec # <<>>
      BY Zenon DEF Reads
    <3>4. EndMessage => verdict = "none" /\ Len(dec) = 1
      BY Zenon DEF EndMessage
    <3>5. Len(dec) = 1 => dec # <<>>
      OBVIOUS
    <3> QED
      BY <1>11, <3>1, <3>2, <3>3, <3>4, <3>5
  <2>3. Fits /\ Sane => Arrived(verdict', got')
    BY <1>11, <2>2, JudgeReads DEF OnItsWay
  <2> QED
    BY <2>1, <2>3, KeptOnItsWay
<1> QED
  BY <1>1, <1>2, <1>3, <1>4, <1>5, <1>6, <1>8, <1>9, <1>10, <1>11, NextCases

(* Whatever is in the messages: one that fits and has no element that is
   altered on its way is delivered as it was sent or, when it has an element
   that no message can carry, not at all. *)
THEOREM CodecOnItsWay == Spec => []OnItsWay
<1>1. Init => OnItsWay
  BY InitOnItsWay
<1>2. TypeInv /\ Tells /\ OnItsWay /\ [Next]_vars => OnItsWay'
  BY NextOnItsWay
<1> QED
  BY <1>1, <1>2, CodecHistory, PTL DEF Spec

(* A sound message arrives as it was sent (pfcp_msg, dump_to, load_from and
   to_core_type agree about every length), whatever its elements and however
   deep they are nested. *)
THEOREM SoundArrives == Spec => []SoundMessageArrives
<1>1. TypeInv /\ OnItsWay => SoundMessageArrives
  <2> SUFFICES ASSUME TypeInv, OnItsWay, verdict # "none", Fits,
                      \A m \in made : ~Altered(m) /\ ~Unusable(m)
               PROVE  verdict = "delivered" /\ got = enc[1].content
    BY DEF SoundMessageArrives
  <2>1. Sane /\ ~Lost
    BY DEF Sane, Lost
  <2>2. Arrived(verdict, got)
    BY <2>1 DEF OnItsWay
  <2>3. verdict \in {"none", "unsent", "thrown", "crashed", "spins", "delivered"}
    BY DEF TypeInv, UnderWay
  <2> QED
    BY <2>1, <2>2, <2>3 DEF Arrived
<1> QED
  BY <1>1, CodecHistory, CodecOnItsWay, PTL

(* An element that no message can carry keeps the whole message from being
   delivered: load_from or to_core_type throws, or dump_to does. *)
THEOREM UnusableRejected == Spec => []UnusableIsRejected
<1>1. OnItsWay => UnusableIsRejected
  BY DEF OnItsWay, UnusableIsRejected, Sane, Arrived, Lost
<1> QED
  BY <1>1, CodecOnItsWay, PTL

(* What is delivered is what was sent, unless an element of the kinds that
   Altered lists is in it. *)
THEOREM NothingAltered == Spec => []NothingSilentlyAltered
<1>1. OnItsWay => NothingSilentlyAltered
  BY DEF OnItsWay, NothingSilentlyAltered, Sane, Arrived
<1> QED
  BY <1>1, CodecOnItsWay, PTL

-----------------------------------------------------------------------------
(* What brings the receiver down.  The argument does not need the message to
   fit: a length that has wrapped may end a loop too early, but every loop stops
   at the head of an element. *)

(* At the head of w there is an element that M tells of, and behind it rest. *)
LeafOn(M, w, ie, o, m, rest) ==
  LET c == Codec(ie, o, 0)
  IN  /\ ie \in Leaves /\ o \in Options(ie) /\ m \in M
      /\ m.ie = ie /\ m.o = o /\ m.length = c.length /\ c.dumps
      /\ w = Begun(ie, c.tlv, c.dumped \o rest)
GroupOn(M, w, ie, l, m, rest) ==
  /\ ie \in DOMAIN Grouped /\ l \in Nat /\ m \in M /\ m.ie = ie
  /\ w = Begun(ie, l, rest)

(* Every stream of W is empty or begins with an element behind which there is a
   stream of W again. *)
Aligned(W, M) ==
  \A w \in W :
    /\ w \in Seq(ItemType) /\ Positive(w)
    /\ \/ w = <<>>
       \/ \E rest \in W : \/ \E ie, o, m : LeafOn(M, w, ie, o, m, rest)
                          \/ \E ie, l, m : GroupOn(M, w, ie, l, m, rest)
InStep(M, w) == \E W : w \in W /\ Aligned(W, M)

(* The end of the stream is in step. *)
LEMMA EndInStep ==
  ASSUME NEW M
  PROVE  InStep(M, <<>>)
<1>1. <<>> \in Seq(ItemType) /\ Positive(<<>>)
  BY DEF Positive
<1>2. Aligned({<<>>}, M)
  BY <1>1, Zenon DEF Aligned
<1> QED
  BY <1>2, Zenon DEF InStep

(* What is in step is so for more notes. *)
LEMMA InStepGrows ==
  ASSUME NEW M, NEW N, M \subseteq N, NEW w, InStep(M, w)
  PROVE  InStep(N, w)
<1>1. PICK W : w \in W /\ Aligned(W, M)
  BY Zenon DEF InStep
<1>2. ASSUME NEW x, NEW ie, NEW o, NEW m, NEW rest, LeafOn(M, x, ie, o, m, rest)
      PROVE  LeafOn(N, x, ie, o, m, rest)
  BY <1>2, Zenon DEF LeafOn
<1>3. ASSUME NEW x, NEW ie, NEW l, NEW m, NEW rest, GroupOn(M, x, ie, l, m, rest)
      PROVE  GroupOn(N, x, ie, l, m, rest)
  BY <1>3, Zenon DEF GroupOn
<1>4. Aligned(W, N)
  BY ZenonT(60), <1>1, <1>2, <1>3 DEF Aligned
<1> QED
  BY <1>1, <1>4, Zenon DEF InStep

(* The items of an element are items, and of positive width. *)
LEMMA LeafOnItems ==
  ASSUME NEW M, NEW w, NEW ie, NEW o, NEW m, NEW rest \in Seq(ItemType), Positive(rest),
         LeafOn(M, w, ie, o, m, rest)
  PROVE  /\ w \in Seq(ItemType) /\ Positive(w)
         /\ Codec(ie, o, 0).dumped \in Seq(ItemType) /\ Codec(ie, o, 0).tlv \in Nat
         /\ Codec(ie, o, 0).dumped \o rest \in Seq(ItemType)
         /\ Positive(Codec(ie, o, 0).dumped \o rest)
<1> DEFINE c == Codec(ie, o, 0)
<1>1. /\ ie \in Leaves /\ o \in Options(ie) /\ c.dumps
      /\ w = Begun(ie, c.tlv, c.dumped \o rest)
  BY Zenon DEF LeafOn
<1>2. Formed(ie, o)
  BY <1>1, EveryElement DEF Sorted
<1>3. /\ c.tlv \in Nat /\ c.dumped \in Seq(FieldType)
      /\ c.dumps => Positive(c.dumped)
  BY <1>2 DEF Formed
<1>4. c.dumped \in Seq(ItemType)
  BY <1>3, FieldsAreItems
<1>5. PICK s, t : s = c.dumped /\ t = c.tlv
  OBVIOUS
<1>6. /\ s \in Seq(ItemType) /\ Positive(s) /\ t \in Nat /\ ie \in Leaves \cup DOMAIN Grouped
      /\ w = Begun(ie, t, s \o rest)
  BY <1>1, <1>3, <1>4, <1>5, Zenon
<1>7. s \o rest \in Seq(ItemType) /\ Positive(s \o rest)
  BY <1>6, ItemsConcat, PositiveConcat
<1>8. w \in Seq(ItemType) /\ Positive(w)
  BY <1>6, <1>7, ElementItems DEF Begun
<1> QED
  BY <1>4, <1>3, <1>5, <1>7, <1>8, Zenon

(* An element in front of a stream in step. *)
LEMMA LeafInStep ==
  ASSUME NEW M, NEW w, NEW ie, NEW o, NEW m, NEW rest, InStep(M, rest),
         LeafOn(M, w, ie, o, m, rest)
  PROVE  InStep(M, w)
<1>1. PICK W : rest \in W /\ Aligned(W, M)
  BY Zenon DEF InStep
<1>2. rest \in Seq(ItemType) /\ Positive(rest)
  BY <1>1, Zenon DEF Aligned
<1>3. w \in Seq(ItemType) /\ Positive(w)
  BY <1>2, LeafOnItems
<1> DEFINE V == W \cup {w}
<1>4. Aligned(V, M)
  <2> SUFFICES ASSUME NEW x \in V
               PROVE  /\ x \in Seq(ItemType) /\ Positive(x)
                      /\ \/ x = <<>>
                         \/ \E r \in V : \/ \E a, p, k : LeafOn(M, x, a, p, k, r)
                                         \/ \E a, l, k : GroupOn(M, x, a, l, k, r)
    BY Zenon DEF Aligned
  <2>1. CASE x \in W
    BY <1>1, <2>1, Zenon DEF Aligned
  <2>2. CASE x = w
    BY <1>1, <1>3, <2>2, Zenon
  <2> QED
    BY <2>1, <2>2
<1> QED
  BY <1>4, Zenon DEF InStep

(* The head of a group in front of a stream in step. *)
LEMMA GroupInStep ==
  ASSUME NEW M, NEW w, NEW ie, NEW l, NEW m, NEW rest, InStep(M, rest),
         GroupOn(M, w, ie, l, m, rest)
  PROVE  InStep(M, w)
<1>1. PICK W : rest \in W /\ Aligned(W, M)
  BY Zenon DEF InStep
<1>2. rest \in Seq(ItemType) /\ Positive(rest)
  BY <1>1, Zenon DEF Aligned
<1>3. w \in Seq(ItemType) /\ Positive(w)
  <2>1. ie \in Leaves \cup DOMAIN Grouped /\ l \in Nat /\ w = Begun(ie, l, rest)
    BY Zenon DEF GroupOn
  <2> QED
    BY <1>2, <2>1, ElementItems DEF Begun
<1> DEFINE V == W \cup {w}
<1>4. Aligned(V, M)
  <2> SUFFICES ASSUME NEW x \in V
               PROVE  /\ x \in Seq(ItemType) /\ Positive(x)
                      /\ \/ x = <<>>
                         \/ \E r \in V : \/ \E a, p, k : LeafOn(M, x, a, p, k, r)
                                         \/ \E a, t, k : GroupOn(M, x, a, t, k, r)
    BY Zenon DEF Aligned
  <2>1. CASE x \in W
    BY <1>1, <2>1, Zenon DEF Aligned
  <2>2. CASE x = w
    BY <1>1, <1>3, <2>2, Zenon
  <2> QED
    BY <2>1, <2>2
<1> QED
  BY <1>4, Zenon DEF InStep

(* One stream in step behind another. *)
LEMMA ConcatInStep ==
  ASSUME NEW M, NEW u, InStep(M, u), NEW v, InStep(M, v)
  PROVE  InStep(M, u \o v)
<1>1. PICK U : u \in U /\ Aligned(U, M)
  BY Zenon DEF InStep
<1>2. PICK V : v \in V /\ Aligned(V, M)
  BY Zenon DEF InStep
<1>3. v \in Seq(ItemType) /\ Positive(v)
  BY <1>2, Zenon DEF Aligned
<1> DEFINE W == {a \o v : a \in U} \cup V
<1>4. ASSUME NEW a \in U
      PROVE  /\ a \o v \in Seq(ItemType) /\ Positive(a \o v)
             /\ \/ a \o v = v
                \/ \E r \in U : \/ \E ie, o, m : LeafOn(M, a \o v, ie, o, m, r \o v)
                                \/ \E ie, l, m : GroupOn(M, a \o v, ie, l, m, r \o v)
  <2>1. a \in Seq(ItemType) /\ Positive(a)
    BY <1>1, <1>4, Zenon DEF Aligned
  <2>2. a \o v \in Seq(ItemType) /\ Positive(a \o v)
    BY <1>3, <2>1, ItemsConcat, PositiveConcat
  <2>3. CASE a = <<>>
    BY <1>3, <2>2, <2>3
  <2>4. ASSUME NEW r \in U, NEW ie, NEW o, NEW m, LeafOn(M, a, ie, o, m, r)
        PROVE  LeafOn(M, a \o v, ie, o, m, r \o v)
    <3>1. r \in Seq(ItemType) /\ Positive(r)
      BY <1>1, <2>4, Zenon DEF Aligned
    <3>2. PICK s, t : s = Codec(ie, o, 0).dumped /\ t = Codec(ie, o, 0).tlv
      OBVIOUS
    <3>3. /\ s \in Seq(ItemType) /\ t \in Nat /\ s \o r \in Seq(ItemType)
      BY <2>4, <3>1, <3>2, LeafOnItems
    <3>4. a = Begun(ie, t, s \o r) /\ ie \in Leaves \cup DOMAIN Grouped
      BY <2>4, <3>2, Zenon DEF LeafOn
    <3>5. PICK h : h = <<Tlv(ie, t)>>
      OBVIOUS
    <3>6. h \in Seq(ItemType)
      BY <3>3, <3>4, <3>5, ElementItems
    <3>7. (h \o (s \o r)) \o v = h \o (s \o (r \o v))
      <4>1. PICK b : b = s \o r
        OBVIOUS
      <4>2. (h \o b) \o v = h \o (b \o v)
        BY <1>3, <3>3, <3>6, <4>1, ItemsAssociate
      <4>3. (s \o r) \o v = s \o (r \o v)
        BY <1>3, <3>1, <3>3, ItemsAssociate
      <4> QED
        BY <4>1, <4>2, <4>3, Zenon
    <3>8. a \o v = Begun(ie, t, s \o (r \o v))
      BY <3>4, <3>5, <3>7, Zenon DEF Begun
    <3> QED
      BY <2>4, <3>2, <3>8, Zenon DEF LeafOn
  <2>5. ASSUME NEW r \in U, NEW ie, NEW l, NEW m, GroupOn(M, a, ie, l, m, r)
        PROVE  GroupOn(M, a \o v, ie, l, m, r \o v)
    <3>1. r \in Seq(ItemType) /\ Positive(r)
      BY <1>1, <2>5, Zenon DEF Aligned
    <3>2. a = Begun(ie, l, r) /\ ie \in Leaves \cup DOMAIN Grouped /\ l \in Nat
      BY <2>5, Zenon DEF GroupOn
    <3>3. PICK h : h = <<Tlv(ie, l)>>
      OBVIOUS
    <3>4. h \in Seq(ItemType)
      BY <3>1, <3>2, <3>3, ElementItems
    <3>5. (h \o r) \o v = h \o (r \o v)
      BY <1>3, <3>1, <3>4, ItemsAssociate
    <3>6. a \o v = Begun(ie, l, r \o v)
      BY <3>2, <3>3, <3>5, Zenon DEF Begun
    <3> QED
      BY <2>5, <3>6, Zenon DEF GroupOn
  <2>6. \/ a = <<>>
        \/ \E r \in U : \/ \E ie, o, m : LeafOn(M, a, ie, o, m, r)
                        \/ \E ie, l, m : GroupOn(M, a, ie, l, m, r)
    BY <1>1, <1>4, Zenon DEF Aligned
  <2> QED
    BY <2>2, <2>3, <2>4, <2>5, <2>6, Zenon
<1>5. \A r \in U : r \o v \in W
  OBVIOUS
<1>6. \A x \in W : x \in V \/ \E a \in U : x = a \o v
  OBVIOUS
<1>7. V \subseteq W
  OBVIOUS
<1> HIDE DEF W
<1>8. Aligned(W, M)
  <2> SUFFICES ASSUME NEW x \in W
               PROVE  /\ x \in Seq(ItemType) /\ Positive(x)
                      /\ \/ x = <<>>
                         \/ \E r \in W : \/ \E ie, o, m : LeafOn(M, x, ie, o, m, r)
                                         \/ \E ie, l, m : GroupOn(M, x, ie, l, m, r)
    BY Zenon DEF Aligned
  <2>1. CASE x \in V
    BY <1>2, <1>7, <2>1, Zenon DEF Aligned
  <2>2. ASSUME NEW a \in U, x = a \o v
        PROVE  /\ x \in Seq(ItemType) /\ Positive(x)
               /\ \/ x = <<>>
                  \/ \E r \in W : \/ \E ie, o, m : LeafOn(M, x, ie, o, m, r)
                                  \/ \E ie, l, m : GroupOn(M, x, ie, l, m, r)
    <3>1. CASE x = v
      BY <1>2, <2>1, <3>1
    <3>2. CASE x # v
      BY <1>4, <1>5, <2>2, <3>2, Zenon
    <3> QED
      BY <3>1, <3>2
  <2> QED
    BY <1>6, <2>1, <2>2, Zenon
<1> QED
  BY <1>1, <1>5, <1>8, Zenon DEF InStep

(* What every group under construction writes is in step. *)
Spaced == \A i \in 1 .. Len(enc) : enc[i].dumps => InStep(made, enc[i].items)

(* No create_urr has been added; none is being loaded, and no loop has one. *)
Urrless == \A m \in made : m.ie # "create_urr"
Harmless(d) ==
  \A j \in 1 .. Len(d) : /\ j > 1 => d[j].ie # "create_urr"
                         /\ d[j].fault # "recursion"

(* Unless an element arrives as something else or is a create_urr, the receiver
   stays in step and has nothing to fail on. *)
Guarded ==
  Sane /\ Urrless => /\ verdict # "crashed" /\ Harmless(dec)
                     /\ verdict = "none" => InStep(made, wire)

(* The frame that has one more element, when it writes. *)
LEMMA GrownInStep ==
  ASSUME NEW M, NEW F, NEW E, NEW ie, NEW l, NEW t, NEW s, NEW d, NEW v,
         Grown(F, E, ie, l, t, s, d, v), F.dumps => InStep(M, F.items),
         d => InStep(M, Begun(ie, t, s))
  PROVE  E.dumps => InStep(M, E.items)
<1> SUFFICES ASSUME E.dumps PROVE InStep(M, E.items)
  OBVIOUS
<1>1. F.dumps /\ d /\ E.items = F.items \o Begun(ie, t, s)
  BY Zenon DEF Grown, Begun
<1>2. InStep(M, F.items) /\ InStep(M, Begun(ie, t, s))
  BY <1>1, Zenon
<1> QED
  BY <1>1, <1>2, ConcatInStep, Zenon

(* What a single element writes is in step. *)
LEMMA BlockInStep ==
  ASSUME NEW M, NEW ie \in Leaves, NEW o \in Options(ie), NEW m \in M,
         m.ie = ie, m.o = o, m.length = Codec(ie, o, 0).length, Codec(ie, o, 0).dumps
  PROVE  InStep(M, Begun(ie, Codec(ie, o, 0).tlv, Codec(ie, o, 0).dumped))
<1>1. PICK s : s = Codec(ie, o, 0).dumped
  OBVIOUS
<1>2. Formed(ie, o)
  BY EveryElement DEF Sorted
<1>3. s \in Seq(FieldType)
  BY <1>1, <1>2 DEF Formed
<1>4. s \o <<>> = s
  BY <1>3
<1>5. PICK w : w = Begun(ie, Codec(ie, o, 0).tlv, Codec(ie, o, 0).dumped \o <<>>)
  OBVIOUS
<1>6. LeafOn(M, w, ie, o, m, <<>>)
  BY <1>5, Zenon DEF LeafOn
<1>7. InStep(M, w)
  BY <1>6, EndInStep, LeafInStep
<1> QED
  BY <1>1, <1>4, <1>5, <1>7, Zenon

(* A frame that holds one element only. *)
LEMMA LeafKeepsStep ==
  ASSUME NEW F, IsFrame(F), NEW ie \in Leaves, NEW o \in Options(ie), NEW M,
         NEW m \in M, m.ie = ie, m.o = o, m.length = Codec(ie, o, 0).length,
         F.dumps => InStep(M, F.items)
  PROVE  Leaf(F, ie, o).dumps => InStep(M, Leaf(F, ie, o).items)
<1> DEFINE c == Codec(ie, o, 0)
<1>1. Grown(F, Leaf(F, ie, o), ie, c.length, c.tlv, c.dumped, c.dumps, c.value)
  BY LeafGrows
<1>2. c.dumps => InStep(M, Begun(ie, c.tlv, c.dumped))
  BY BlockInStep
<1> HIDE DEF c
<1>3. PICK E, l, t, s, d, v : /\ E = Leaf(F, ie, o) /\ l = c.length /\ t = c.tlv
                             /\ s = c.dumped /\ d = c.dumps /\ v = c.value
  BY Zenon
<1>4. /\ Grown(F, E, ie, l, t, s, d, v) /\ (F.dumps => InStep(M, F.items))
      /\ d => InStep(M, Begun(ie, t, s))
  BY <1>1, <1>2, <1>3, Zenon
<1>5. E.dumps => InStep(M, E.items)
  BY <1>4, GrownInStep
<1> QED
  BY <1>3, <1>5, Zenon

(* Frames that differ in the slot only write the same. *)
LEMMA LikeInStep ==
  ASSUME NEW F, NEW E, Like(F, E), NEW M, E.dumps => InStep(M, E.items)
  PROVE  F.dumps => InStep(M, F.items)
BY Zenon DEF Like

(* While the message is built there is nothing to fail on. *)
LEMMA BuildingGuarded ==
  ASSUME wire' = <<>>, dec' = <<>>, verdict' = "none"
  PROVE  Guarded'
<1>1. InStep(made', wire')
  BY EndInStep, Zenon
<1>2. Harmless(dec')
  BY DEF Harmless
<1>3. verdict' # "crashed"
  OBVIOUS
<1> QED
  BY <1>1, <1>2, <1>3, Zenon DEF Guarded

(* A leaf is added. *)
LEMMA AddLeafSpaced ==
  ASSUME TypeInv, Spaced, NEW ie \in Leaves, NEW o \in Options(ie), AddLeaf(ie, o)
  PROVE  Spaced' /\ Guarded'
<1> DEFINE n == Len(enc)
           F == Moved(ie)
           B == Leaf(F, ie, o)
<1>1. Frames
  BY DEF TypeInv
<1>2. IsFrame(F) /\ Like(F, Top) /\ IsSeq(enc) /\ n \in 1 .. n
  BY <1>1, TopFrame
<1>3. /\ enc' = [enc EXCEPT ![n] = B]
      /\ made' = Note(Top, ie, o, Codec(ie, o, 0).length)
      /\ wire' = <<>> /\ dec' = <<>> /\ verdict' = "none"
  BY Zenon DEF AddLeaf, MayAdd, Building
<1>4. Like(Top, Top)
  BY LikeItself
<1>5. PICK m : made' = made \cup {m} /\ NoteOf(m, Top, ie, o, Codec(ie, o, 0).length)
  BY <1>3, <1>4, NoteMade
<1>6. /\ made \subseteq made' /\ m \in made'
      /\ m.ie = ie /\ m.o = o /\ m.length = Codec(ie, o, 0).length
  BY <1>5, Zenon DEF NoteOf
<1>7. Top.dumps => InStep(made', Top.items)
  BY ZenonT(60), <1>2, <1>6, InStepGrows DEF Spaced, Top
<1> HIDE DEF F
<1>8. F.dumps => InStep(made', F.items)
  BY <1>2, <1>7, LikeInStep
<1>9. B.dumps => InStep(made', B.items)
  BY <1>2, <1>6, <1>8, LeafKeepsStep
<1> HIDE DEF B
<1>10. /\ Len(enc') = n /\ enc'[n] = B
       /\ \A i \in 1 .. n : i # n => enc'[i] = enc[i]
  BY <1>2, <1>3, StackPut
<1>11. ASSUME NEW i \in 1 .. n, enc'[i].dumps PROVE InStep(made', enc'[i].items)
  <2>1. CASE i = n
    BY <1>9, <1>10, <1>11, <2>1, Zenon
  <2>2. CASE i # n
    BY <1>6, <1>10, <1>11, <2>2, InStepGrows, Zenon DEF Spaced
  <2> QED
    BY <2>1, <2>2
<1>12. Spaced'
  BY <1>10, <1>11, Zenon DEF Spaced
<1> QED
  BY <1>3, <1>12, BuildingGuarded

(* A group is opened. *)
LEMMA OpenGroupSpaced ==
  ASSUME TypeInv, Spaced, NEW ie \in DOMAIN Grouped, OpenGroup(ie)
  PROVE  Spaced' /\ Guarded'
<1> DEFINE n == Len(enc)
<1>1. Frames
  BY DEF TypeInv
<1>2. wire' = <<>> /\ dec' = <<>> /\ verdict' = "none"
  BY Zenon DEF OpenGroup, MayAdd, Building
<1>3. \/ /\ enc' = Append([enc EXCEPT ![n] = Moved(ie)], FarFrame(ie))
         /\ made' = Note(Frame(ie), "far_id", {}, 4)
      \/ /\ enc' = Append([enc EXCEPT ![n] = Moved(ie)], Frame(ie))
         /\ made' = made
  BY <1>1, OpenGroupEffect
<1>4. ie \in Classes
  BY DEF Classes
<1>5. /\ "far_id" \in Leaves /\ {} \in Options("far_id") /\ Codec("far_id", {}, 0).length = 4
      /\ IsFrame(FarFrame(ie)) /\ Like(FarFrame(ie), Leaf(Frame(ie), "far_id", {}))
      /\ FarFrame(ie).ie = ie
  BY <1>4, FarIdFirst
<1>6. IsFrame(Frame(ie)) /\ Frame(ie).ie = ie /\ Frame(ie).items = <<>>
  BY <1>4, FreshFrame
<1>7. \A M : Frame(ie).dumps => InStep(M, Frame(ie).items)
  BY <1>6, EndInStep, Zenon
<1>8. PICK F : /\ IsFrame(F) /\ F.ie = ie /\ made \subseteq made'
               /\ enc' = Append([enc EXCEPT ![n] = Moved(ie)], F)
               /\ F.dumps => InStep(made', F.items)
  <2>1. ASSUME enc' = Append([enc EXCEPT ![n] = Moved(ie)], FarFrame(ie)),
               made' = Note(Frame(ie), "far_id", {}, 4)
        PROVE  /\ made \subseteq made'
               /\ FarFrame(ie).dumps => InStep(made', FarFrame(ie).items)
    <3>1. Like(Frame(ie), Frame(ie))
      BY LikeItself
    <3>2. PICK m : made' = made \cup {m} /\ NoteOf(m, Frame(ie), "far_id", {}, 4)
      BY <2>1, <3>1, NoteMade
    <3>3. /\ made \subseteq made' /\ m \in made'
          /\ m.ie = "far_id" /\ m.o = {} /\ m.length = Codec("far_id", {}, 0).length
      BY <1>5, <3>2, Zenon DEF NoteOf
    <3>4. PICK E : E = Frame(ie)
      OBVIOUS
    <3>5. IsFrame(E) /\ (E.dumps => InStep(made', E.items))
      BY <1>6, <1>7, <3>4, Zenon
    <3>6. Leaf(E, "far_id", {}).dumps => InStep(made', Leaf(E, "far_id", {}).items)
      BY <1>5, <3>3, <3>5, LeafKeepsStep
    <3>7. FarFrame(ie).dumps => InStep(made', FarFrame(ie).items)
      BY <1>5, <3>4, <3>6, LikeInStep
    <3> QED
      BY <3>3, <3>7
  <2>2. CASE enc' = Append([enc EXCEPT ![n] = Moved(ie)], FarFrame(ie))
             /\ made' = Note(Frame(ie), "far_id", {}, 4)
    BY <1>5, <2>1, <2>2, Zenon
  <2>3. CASE enc' = Append([enc EXCEPT ![n] = Moved(ie)], Frame(ie)) /\ made' = made
    BY <1>6, <1>7, <2>3, Zenon
  <2> QED
    BY <1>3, <2>2, <2>3, Zenon
<1>9. /\ Len(enc') = n + 1 /\ enc'[n + 1] = F /\ enc'[n] = Moved(ie) /\ n \in Nat
      /\ \A i \in 1 .. n : i # n => enc'[i] = enc[i]
  BY <1>1, <1>8, PushKeepsFrames
<1>10. Like(Moved(ie), Top) /\ n \in 1 .. n
  BY <1>1, TopFrame
<1>11. Top.dumps => InStep(made', Top.items)
  BY ZenonT(60), <1>8, <1>10, InStepGrows DEF Spaced, Top
<1>12. Moved(ie).dumps => InStep(made', Moved(ie).items)
  BY <1>10, <1>11, LikeInStep
<1>13. ASSUME NEW i \in 1 .. n + 1, enc'[i].dumps PROVE InStep(made', enc'[i].items)
  <2>1. CASE i = n + 1
    BY <1>8, <1>9, <1>13, <2>1, Zenon
  <2>2. CASE i = n
    BY <1>9, <1>12, <1>13, <2>2, Zenon
  <2>3. CASE i # n + 1 /\ i # n
    <3>1. i \in 1 .. n
      BY <1>9, <2>3
    <3> QED
      BY <1>8, <1>9, <1>13, <2>3, <3>1, InStepGrows, Zenon DEF Spaced
  <2> QED
    BY <2>1, <2>2, <2>3
<1>14. Spaced'
  BY <1>9, <1>13, Zenon DEF Spaced
<1> QED
  BY <1>2, <1>14, BuildingGuarded

(* A group is closed. *)
LEMMA CloseGroupSpaced ==
  ASSUME TypeInv, Spaced, CloseGroup
  PROVE  Spaced' /\ Guarded'
<1> DEFINE n == Len(enc)
<1>1. Frames
  BY DEF TypeInv
<1>2. PICK up : up = enc[n - 1]
  OBVIOUS
<1>3. wire' = <<>> /\ dec' = <<>> /\ verdict' = "none"
  BY Zenon DEF CloseGroup, Building
<1>4. /\ n > 1 /\ n \in Nat /\ Len(enc') = n - 1
      /\ enc'[n - 1] = Merged(up, Top)
      /\ \A i \in 1 .. n - 2 : enc'[i] = enc[i]
      /\ made' = Note(up, Top.ie, {}, Top.length)
      /\ IsFrame(up) /\ IsFrame(Top) /\ Top.ie \in DOMAIN Grouped
  BY <1>1, <1>2, CloseGroupEffect
<1>5. Like(up, up)
  BY LikeItself
<1>6. PICK m : made' = made \cup {m} /\ NoteOf(m, up, Top.ie, {}, Top.length)
  BY <1>4, <1>5, NoteMade
<1>7. made \subseteq made' /\ m \in made' /\ m.ie = Top.ie
  BY <1>6, Zenon DEF NoteOf
<1>8. n \in 1 .. n /\ n - 1 \in 1 .. n
  BY <1>4
<1>9. /\ Top.dumps => InStep(made', Top.items)
      /\ up.dumps => InStep(made', up.items)
  <2>1. enc[n].dumps => InStep(made, enc[n].items)
    BY <1>8 DEF Spaced
  <2>2. up.dumps => InStep(made, up.items)
    BY <1>2, <1>8, Zenon DEF Spaced
  <2> QED
    BY <1>7, <2>1, <2>2, InStepGrows, Zenon DEF Top
<1>10. Top.length \in Nat
  BY <1>4, FrameFields DEF Sized
<1>11. Top.dumps => InStep(made', Begun(Top.ie, Top.length, Top.items))
  <2> SUFFICES ASSUME Top.dumps PROVE InStep(made', Begun(Top.ie, Top.length, Top.items))
    OBVIOUS
  <2>1. PICK w, r, ie, l : /\ w = Begun(Top.ie, Top.length, Top.items) /\ r = Top.items
                           /\ ie = Top.ie /\ l = Top.length
    BY Zenon
  <2>2. GroupOn(made', w, ie, l, m, r)
    BY <1>4, <1>7, <1>10, <2>1, Zenon DEF GroupOn
  <2>3. InStep(made', r)
    BY <1>9, <2>1, Zenon
  <2>4. InStep(made', w)
    BY <2>2, <2>3, GroupInStep
  <2> QED
    BY <2>1, <2>4, Zenon
<1>12. PICK B : B = Merged(up, Top)
  OBVIOUS
<1>13. Grown(up, B, Top.ie, Top.length, Top.length, Top.items, Top.dumps, Top.content)
  BY <1>4, <1>12, GroupGrows, Zenon
<1>14. B.dumps => InStep(made', B.items)
  <2>1. PICK ie, l, s, d, v : /\ ie = Top.ie /\ l = Top.length /\ s = Top.items
                              /\ d = Top.dumps /\ v = Top.content
    BY Zenon
  <2>2. /\ Grown(up, B, ie, l, l, s, d, v) /\ (up.dumps => InStep(made', up.items))
        /\ d => InStep(made', Begun(ie, l, s))
    BY <1>9, <1>11, <1>13, <2>1, Zenon
  <2> QED
    BY <2>2, GrownInStep
<1>15. ASSUME NEW i \in 1 .. n - 1, enc'[i].dumps PROVE InStep(made', enc'[i].items)
  <2>1. CASE i = n - 1
    BY <1>4, <1>12, <1>14, <1>15, <2>1, Zenon
  <2>2. CASE i # n - 1
    <3>1. i \in 1 .. n - 2 /\ i \in 1 .. n
      BY <1>4, <2>2
    <3> QED
      BY ZenonT(60), <1>4, <1>7, <1>15, <3>1, InStepGrows DEF Spaced
  <2> QED
    BY <2>1, <2>2
<1>16. Spaced'
  BY <1>4, <1>15, Zenon DEF Spaced
<1> QED
  BY <1>3, <1>16, BuildingGuarded

(* What load_from finds at the head of a stream in step. *)
LeafAhead(M, w, ie, o, m, rest) ==
  /\ LeafOn(M, w, ie, o, m, rest)
  /\ Head(w).ie = ie /\ Head(w).length = Codec(ie, o, 0).tlv
  /\ Tail(w) = Codec(ie, o, 0).dumped \o rest
GroupAhead(M, w, ie, m, rest) ==
  /\ ie \in DOMAIN Grouped /\ m \in M /\ m.ie = ie
  /\ Head(w).ie = ie /\ Tail(w) = rest

(* There is always an element. *)
LEMMA HeadInStep ==
  ASSUME NEW M, NEW w, InStep(M, w), w # <<>>
  PROVE  /\ Head(w).f = "tlv"
         /\ \E rest : /\ InStep(M, rest) /\ rest \in Seq(ItemType) /\ Positive(rest)
                      /\ \/ \E ie, o, m : LeafAhead(M, w, ie, o, m, rest)
                         \/ \E ie, m : GroupAhead(M, w, ie, m, rest)
<1>1. PICK W : w \in W /\ Aligned(W, M)
  BY Zenon DEF InStep
<1>2. PICK rest \in W : \/ \E ie, o, m : LeafOn(M, w, ie, o, m, rest)
                        \/ \E ie, l, m : GroupOn(M, w, ie, l, m, rest)
  BY <1>1, Zenon DEF Aligned
<1>3. InStep(M, rest) /\ rest \in Seq(ItemType) /\ Positive(rest)
  BY <1>1, <1>2, Zenon DEF Aligned, InStep
<1>4. ASSUME NEW ie, NEW o, NEW m, LeafOn(M, w, ie, o, m, rest)
      PROVE  Head(w).f = "tlv" /\ LeafAhead(M, w, ie, o, m, rest)
  <2>1. PICK t, s : t = Codec(ie, o, 0).tlv /\ s = Codec(ie, o, 0).dumped \o rest
    OBVIOUS
  <2>2. t \in Nat /\ s \in Seq(ItemType)
    BY <1>3, <1>4, <2>1, LeafOnItems
  <2>3. w = Begun(ie, t, s) /\ ie \in Leaves \cup DOMAIN Grouped
    BY <1>4, <2>1, Zenon DEF LeafOn
  <2>4. LET x == Begun(ie, t, s)
        IN  /\ x # <<>> /\ Tail(x) = s
            /\ Head(x).f = "tlv" /\ Head(x).ie = ie /\ Head(x).length = t
    BY <2>2, <2>3, TlvFirst
  <2>5. Tail(w) = s /\ Head(w).f = "tlv" /\ Head(w).ie = ie /\ Head(w).length = t
    BY <2>3, <2>4, Zenon
  <2> QED
    BY <1>4, <2>1, <2>5, Zenon DEF LeafAhead
<1>5. ASSUME NEW ie, NEW l, NEW m, GroupOn(M, w, ie, l, m, rest)
      PROVE  Head(w).f = "tlv" /\ GroupAhead(M, w, ie, m, rest)
  <2>1. /\ w = Begun(ie, l, rest) /\ ie \in Leaves \cup DOMAIN Grouped /\ l \in Nat
        /\ ie \in DOMAIN Grouped /\ m \in M /\ m.ie = ie
    BY <1>5, Zenon DEF GroupOn
  <2>2. LET x == Begun(ie, l, rest)
        IN  /\ x # <<>> /\ Tail(x) = rest
            /\ Head(x).f = "tlv" /\ Head(x).ie = ie /\ Head(x).length = l
    BY <1>3, <2>1, TlvFirst
  <2>3. Tail(w) = rest /\ Head(w).f = "tlv" /\ Head(w).ie = ie
    BY <2>1, <2>2, Zenon
  <2> QED
    BY <2>1, <2>3, Zenon DEF GroupAhead
<1> QED
  BY <1>2, <1>3, <1>4, <1>5, Zenon

(* The steps of the receiver keep what Guarded goes by. *)
LEMMA KeptGuarded ==
  ASSUME Kept,
         Sane /\ Urrless => /\ verdict' # "crashed" /\ Harmless(dec')
                            /\ verdict' = "none" => InStep(made, wire')
  PROVE  Guarded'
<1>1. made' = made
  BY DEF Kept
<1>2. (Sane' <=> Sane) /\ (Urrless' <=> Urrless)
  BY <1>1, Zenon DEF Sane, Urrless
<1>3. ASSUME Sane', Urrless'
      PROVE  /\ verdict' # "crashed" /\ Harmless(dec)'
             /\ verdict' = "none" => InStep(made', wire')
  <2>1. /\ verdict' # "crashed" /\ Harmless(dec')
        /\ verdict' = "none" => InStep(made, wire')
    BY <1>2, <1>3, Zenon
  <2>2. Harmless(dec)' <=> Harmless(dec')
    BY Zenon DEF Harmless
  <2> QED
    BY <1>1, <2>1, <2>2, Zenon
<1> QED
  BY <1>3, Zenon DEF Guarded

(* The fault that is added is the one that was there. *)
LEMMA HarmlessAfter ==
  ASSUME NEW E, NEW D, NEW ie, NEW l, NEW v, NEW fault, LoadedAs(E, D, ie, l, v, fault),
         D.fault # "recursion", fault # "recursion"
  PROVE  E.ie = D.ie /\ E.fault # "recursion"
BY DEF LoadedAs, FaultAfter

(* The message is sent. *)
LEMMA SendGuarded ==
  ASSUME TypeInv, Spaced, NEW seid \in BOOLEAN, Send(seid)
  PROVE  Guarded'
<1>1. /\ Building /\ Len(enc) = 1
      /\ \/ Top.dumps /\ wire' = Top.items /\ verdict' = verdict
         \/ ~Top.dumps /\ verdict' = "unsent"
      /\ dec' = dec /\ made' = made
  BY Zenon DEF Send
<1>2. Len(enc) \in 1 .. Len(enc)
  BY <1>1
<1>3. Top.dumps => InStep(made, Top.items)
  BY <1>2, Zenon DEF Spaced, Top
<1>4. verdict' = "none" => InStep(made', wire')
  BY <1>1, <1>3
<1>5. verdict = "none" /\ dec' = <<>>
  BY <1>1, Zenon DEF Building
<1>6. verdict' # "crashed"
  BY <1>1, <1>5
<1>7. Harmless(dec)'
  BY <1>5 DEF Harmless
<1> QED
  BY <1>4, <1>6, <1>7, Zenon DEF Guarded

(* The header is loaded. *)
LEMMA LoadHeaderGuarded ==
  ASSUME TypeInv, Guarded, LoadHeader
  PROVE  Guarded'
<1>1. Frames /\ UnderWay
  BY DEF TypeInv
<1> DEFINE k == IF header.seid THEN 8 ELSE 0
           l == Uint16(header.length - 4 - k)
           D == Loading(enc[1].ie, l)
<1>2. /\ header # <<>> /\ dec' = <<D>> /\ Kept /\ verdict = "none"
      /\ wire' = wire /\ verdict' = verdict
  BY Zenon DEF LoadHeader, Kept
<1>3. D.fault = "none"
  BY DEF Loading
<1> HIDE DEF D
<1>4. Harmless(dec')
  <2>1. Len(dec') = 1 /\ dec'[1] = D
    BY <1>2
  <2> QED
    BY <1>3, <2>1 DEF Harmless
<1>5. Sane /\ Urrless => InStep(made, wire')
  BY <1>2, Zenon DEF Guarded
<1>6. verdict' # "crashed"
  BY <1>2
<1> QED
  BY <1>2, <1>4, <1>5, <1>6, KeptGuarded

(* A leaf is loaded: what is left on the wire is in step again. *)
LEMMA LoadLeafGuarded ==
  ASSUME TypeInv, Guarded, LoadLeaf
  PROVE  Guarded'
<1>1. /\ Reads /\ AtTlv /\ ~Null /\ Head(wire).ie \in Leaves /\ Kept
      /\ \E x \in Announced(Head(wire).ie, Tail(wire)) :
           LET r == Codec(Head(wire).ie, x, Head(wire).length)
           IN  \/ /\ r.accepts
                  /\ wire' = After(Tail(wire), Octets(r.loaded))
                  /\ dec' = [dec EXCEPT ![Len(dec)] =
                               Loaded(Cur, Head(wire).ie, Head(wire).length,
                                      Found(Tail(wire), r.loaded), "none")]
                  /\ UNCHANGED <<verdict, got>>
               \/ /\ ~r.accepts
                  /\ verdict' \in {"thrown", "spins"} /\ UNCHANGED <<wire, dec, got>>
  BY LoadLeafEffect
<1>2. verdict = "none" /\ dec # <<>> /\ wire # <<>>
  BY <1>1, Zenon DEF Reads, AtTlv
<1> SUFFICES ASSUME Sane, Urrless
             PROVE  /\ verdict' # "crashed" /\ Harmless(dec')
                    /\ verdict' = "none" => InStep(made, wire')
  BY <1>1, KeptGuarded
<1>3. Harmless(dec) /\ InStep(made, wire)
  BY <1>2, Zenon DEF Guarded
<1>4. PICK rest : /\ InStep(made, rest) /\ rest \in Seq(ItemType) /\ Positive(rest)
                  /\ \/ \E ie, o, m : LeafAhead(made, wire, ie, o, m, rest)
                     \/ \E ie, m : GroupAhead(made, wire, ie, m, rest)
  BY <1>2, <1>3, HeadInStep
<1>5. PICK ie, o, m : /\ LeafOn(made, wire, ie, o, m, rest)
                      /\ Head(wire).ie = ie
                      /\ Head(wire).length = Codec(ie, o, 0).tlv
                      /\ Tail(wire) = Codec(ie, o, 0).dumped \o rest
  <2>1. \A ie, m : ~GroupAhead(made, wire, ie, m, rest)
    BY <1>1, LeafOrGroup, Zenon DEF GroupAhead
  <2>2. PICK ie, o, m : LeafAhead(made, wire, ie, o, m, rest)
    BY <1>4, <2>1, Zenon
  <2> QED
    BY <2>2, Zenon DEF LeafAhead
<1> DEFINE c == Codec(ie, o, 0)
           s == c.dumped
<1>6. /\ ie \in Leaves /\ o \in Options(ie) /\ m \in made
      /\ m.ie = ie /\ m.o = o /\ m.length = c.length /\ c.dumps
  BY <1>5, Zenon DEF LeafOn
<1>7. Positive(s \o rest) /\ c.tlv \in Nat
  BY <1>4, <1>5, LeafOnItems
<1>8. c.tlv # 0 /\ ie \in Decodable /\ ~Altered(m)
  BY <1>1, <1>5, <1>6, Zenon DEF Null, Sane
<1>9. PICK x \in Announced(ie, s \o rest) :
          LET r == Codec(ie, x, c.tlv)
          IN  \/ /\ r.accepts
                 /\ wire' = After(s \o rest, Octets(r.loaded))
                 /\ dec' = [dec EXCEPT ![Len(dec)] =
                              Loaded(Cur, ie, c.tlv, Found(s \o rest, r.loaded), "none")]
                 /\ UNCHANGED <<verdict, got>>
              \/ /\ ~r.accepts
                 /\ verdict' \in {"thrown", "spins"} /\ UNCHANGED <<wire, dec, got>>
  BY <1>1, <1>5, Zenon
<1> DEFINE r == Codec(ie, x, c.tlv)
<1>10. r.accepts => After(s \o rest, Octets(r.loaded)) = rest
  <2>1. x \in Announced(ie, s \o rest)
    BY <1>9
  <2>2. /\ ie \in Leaves /\ o \in Options(ie) /\ m.ie = ie /\ m.o = o
        /\ m.length = c.length /\ ~Altered(m) /\ c.dumps /\ c.tlv # 0 /\ ie \in Decodable
        /\ rest \in Seq(ItemType) /\ Positive(s \o rest)
    BY <1>4, <1>6, <1>7, <1>8, Zenon
  <2> QED
    BY <2>1, <2>2, LeafRead
<1> HIDE DEF c, s, r
<1>11. CASE ~r.accepts
  <2>1. verdict' \in {"thrown", "spins"} /\ dec' = dec
    BY <1>9, <1>11, Zenon DEF r
  <2> QED
    BY <1>3, <2>1
<1>12. CASE r.accepts
  <2> DEFINE v == Found(s \o rest, r.loaded)
             D == Loaded(Cur, ie, c.tlv, v, "none")
  <2>1. wire' = rest /\ dec' = [dec EXCEPT ![Len(dec)] = D] /\ verdict' = verdict
    BY <1>9, <1>10, <1>12, Zenon DEF r
  <2> HIDE DEF v
  <2>2. Stacked
    BY DEF TypeInv
  <2>3. IsLoading(Cur) /\ Len(dec) \in 1 .. Len(dec)
    BY <1>2, <2>2, CurLoading
  <2>4. IsLoading(D) /\ LoadedAs(D, Cur, ie, c.tlv, v, "none")
    BY <1>7, <2>3, LoadedFields
  <2>5. Cur.fault # "recursion" /\ (Len(dec) > 1 => Cur.ie # "create_urr")
    BY <1>3, <2>3, Zenon DEF Harmless, Cur
  <2>6. D.ie = Cur.ie /\ D.fault # "recursion"
    BY <2>4, <2>5, HarmlessAfter
  <2> HIDE DEF D
  <2>7. /\ Len(dec') = Len(dec) /\ dec'[Len(dec)] = D
        /\ \A i \in 1 .. Len(dec) : i # Len(dec) => dec'[i] = dec[i]
    BY <1>2, <2>1, <2>2, <2>4, PutKeepsStack
  <2>8. ASSUME NEW j \in 1 .. Len(dec)
        PROVE  (j > 1 => dec'[j].ie # "create_urr") /\ dec'[j].fault # "recursion"
    <3>1. CASE j = Len(dec)
      BY <2>5, <2>6, <2>7, <3>1
    <3>2. CASE j # Len(dec)
      BY <1>3, <2>7, <3>2 DEF Harmless
    <3> QED
      BY <3>1, <3>2
  <2>9. Harmless(dec')
    BY <2>7, <2>8 DEF Harmless
  <2> QED
    BY <1>2, <1>4, <2>1, <2>9
<1> QED
  BY <1>11, <1>12

(* A group is begun: none that is noted is a create_urr. *)
LEMMA LoadGroupGuarded ==
  ASSUME TypeInv, Guarded, LoadGroup
  PROVE  Guarded'
<1> DEFINE D == Loading(Head(wire).ie, Head(wire).length)
<1>1. /\ Reads /\ AtTlv /\ Head(wire).ie \in DOMAIN Grouped /\ Kept
      /\ dec' = Append(dec, D) /\ wire' = Tail(wire) /\ verdict' = verdict
  BY Zenon DEF LoadGroup, Kept
<1>2. verdict = "none" /\ wire # <<>>
  BY <1>1, Zenon DEF Reads, AtTlv
<1> SUFFICES ASSUME Sane, Urrless
             PROVE  /\ verdict' # "crashed" /\ Harmless(dec')
                    /\ verdict' = "none" => InStep(made, wire')
  BY <1>1, KeptGuarded
<1>3. Harmless(dec) /\ InStep(made, wire)
  BY <1>2, Zenon DEF Guarded
<1>4. PICK rest : /\ InStep(made, rest)
                  /\ \/ \E ie, o, m : LeafAhead(made, wire, ie, o, m, rest)
                     \/ \E ie, m : GroupAhead(made, wire, ie, m, rest)
  BY <1>2, <1>3, HeadInStep
<1>5. InStep(made, Tail(wire)) /\ Head(wire).ie # "create_urr"
  <2>1. ASSUME NEW ie, NEW o, NEW m, LeafAhead(made, wire, ie, o, m, rest) PROVE FALSE
    <3>1. Head(wire).ie \in Leaves
      BY <2>1, Zenon DEF LeafAhead, LeafOn
    <3> QED
      BY <1>1, <3>1, LeafOrGroup, Zenon
  <2>2. PICK ie, m : GroupAhead(made, wire, ie, m, rest)
    BY <1>4, <2>1, Zenon
  <2> QED
    BY <1>4, <2>2, Zenon DEF GroupAhead, Urrless
<1>6. Stacked /\ UnderWay
  BY DEF TypeInv
<1>7. Head(wire).length \in Nat /\ Head(wire).ie \in Classes
  BY <1>1, <1>6, AtTlvItems DEF UnderWay, Classes
<1>8. IsLoading(D) /\ D.ie = Head(wire).ie /\ D.fault = "none"
  BY ZenonT(60), <1>7, LoadingStarts
<1> HIDE DEF D
<1>9. /\ Len(dec) \in Nat /\ Len(dec') = Len(dec) + 1
      /\ dec'[Len(dec) + 1] = D
      /\ \A i \in 1 .. Len(dec) : dec'[i] = dec[i]
  BY <1>1, <1>6, <1>8, PushKeepsStack
<1>10. ASSUME NEW j \in 1 .. Len(dec) + 1
       PROVE  (j > 1 => dec'[j].ie # "create_urr") /\ dec'[j].fault # "recursion"
  <2>1. CASE j = Len(dec) + 1
    BY <1>5, <1>8, <1>9, <2>1
  <2>2. CASE j # Len(dec) + 1
    BY <1>3, <1>9, <2>2 DEF Harmless
  <2> QED
    BY <2>1, <2>2
<1>11. Harmless(dec')
  BY <1>9, <1>10 DEF Harmless
<1> QED
  BY <1>1, <1>2, <1>5, <1>11

(* A group is ended: it hands up no recursion. *)
LEMMA CloseLoadedGuarded ==
  ASSUME TypeInv, Guarded, CloseLoaded
  PROVE  Guarded'
<1>1. Stacked
  BY DEF TypeInv
<1> DEFINE n == Len(dec)
           f == GroupFault(Cur)
<1>2. PICK up : up = dec[n - 1]
  OBVIOUS
<1> DEFINE D == Loaded(up, Cur.ie, Cur.length, Cur.content, f)
<1>3. /\ verdict = "none" /\ n > 1 /\ n \in Nat /\ Kept
      /\ wire' = wire /\ verdict' = verdict
      /\ IsLoading(up) /\ Cur.length \in Nat /\ f \in {"none", "illegal", "recursion"}
      /\ IsLoading(D) /\ dec' = Append(SubSeq(dec, 1, n - 2), D)
  BY <1>1, <1>2, CloseLoadedEffect, Zenon
<1> SUFFICES ASSUME Sane, Urrless
             PROVE  /\ verdict' # "crashed" /\ Harmless(dec')
                    /\ verdict' = "none" => InStep(made, wire')
  BY <1>3, KeptGuarded
<1>4. Harmless(dec) /\ InStep(made, wire)
  BY <1>3, Zenon DEF Guarded
<1>5. n \in 1 .. n /\ n - 1 \in 1 .. n
  BY <1>3
<1>6. /\ Cur.ie # "create_urr" /\ Cur.fault # "recursion" /\ up.fault # "recursion"
      /\ n - 1 > 1 => up.ie # "create_urr"
  BY <1>2, <1>3, <1>4, <1>5, Zenon DEF Harmless, Cur
<1>7. f # "recursion"
  BY <1>6 DEF GroupFault
<1> HIDE DEF f
<1>8. LoadedAs(D, up, Cur.ie, Cur.length, Cur.content, f)
  BY <1>3, LoadedFields
<1>9. D.ie = up.ie /\ D.fault # "recursion"
  BY <1>6, <1>7, <1>8, HarmlessAfter
<1> HIDE DEF D
<1>10. /\ Len(dec') = n - 1 /\ dec'[n - 1] = D
       /\ \A i \in 1 .. n - 2 : dec'[i] = dec[i]
  BY <1>1, <1>3, MergeKeepsStack
<1>11. ASSUME NEW j \in 1 .. n - 1
       PROVE  (j > 1 => dec'[j].ie # "create_urr") /\ dec'[j].fault # "recursion"
  <2>1. CASE j = n - 1
    BY <1>6, <1>9, <1>10, <2>1
  <2>2. CASE j # n - 1
    <3>1. j \in 1 .. n - 2 /\ j \in 1 .. n
      BY <1>3, <2>2
    <3> QED
      BY <1>4, <1>10, <3>1 DEF Harmless
  <2> QED
    BY <2>1, <2>2
<1>12. Harmless(dec')
  BY <1>10, <1>11 DEF Harmless
<1> QED
  BY <1>3, <1>4, <1>12

(* The message is judged: without a recursion no verdict is a crash, and the
   stream is never out of step. *)
LEMMA JudgeGuarded ==
  ASSUME TypeInv, Guarded, LoadNull \/ EndMessage \/ LoadJunk
  PROVE  Guarded'
<1>1. /\ Kept /\ UNCHANGED <<wire, dec>>
      /\ verdict' \in {"thrown", "crashed", "spins", "delivered"}
      /\ LoadNull => /\ Reads
                     /\ Len(dec) > 1 => verdict' = "thrown"
                     /\ ~(Len(dec) > 1) => verdict' = FinalVerdict
      /\ EndMessage => verdict = "none" /\ Len(dec) = 1 /\ verdict' = FinalVerdict
      /\ LoadJunk => Reads /\ wire # <<>> /\ ~AtTlv
  BY JudgeEffect, Zenon
<1> SUFFICES ASSUME Sane, Urrless
             PROVE  /\ verdict' # "crashed" /\ Harmless(dec')
                    /\ verdict' = "none" => InStep(made, wire')
  BY <1>1, KeptGuarded
<1>2. verdict = "none" /\ dec # <<>>
  BY <1>1 DEF Reads
<1>3. Harmless(dec) /\ InStep(made, wire)
  BY <1>2, Zenon DEF Guarded
<1>4. Stacked
  BY DEF TypeInv
<1>5. Len(dec) \in 1 .. Len(dec)
  BY <1>2, <1>4, CurLoading
<1>6. Cur.fault # "recursion"
  BY <1>3, <1>5, Zenon DEF Harmless, Cur
<1>7. FinalVerdict # "crashed"
  BY <1>6 DEF FinalVerdict
<1>8. ~LoadJunk
  <2> SUFFICES ASSUME LoadJunk PROVE FALSE
    OBVIOUS
  <2>1. wire # <<>> /\ ~AtTlv
    BY <1>1
  <2>2. Head(wire).f = "tlv"
    BY <1>3, <2>1, HeadInStep
  <2> QED
    BY <2>1, <2>2 DEF AtTlv
<1>9. verdict' # "crashed"
  BY <1>1, <1>7, <1>8
<1> QED
  BY <1>1, <1>3, <1>9

(* Next keeps the elements apart. *)
LEMMA NextGuarded ==
  ASSUME TypeInv, Spaced, Guarded, [Next]_vars
  PROVE  Spaced' /\ Guarded'
<1>1. ASSUME UNCHANGED vars PROVE Spaced' /\ Guarded'
  <2>1. enc' = enc /\ wire' = wire /\ dec' = dec /\ verdict' = verdict /\ made' = made /\ Kept
    BY <1>1 DEF vars, Kept
  <2>2. Spaced'
    BY <2>1, Zenon DEF Spaced
  <2>3. Guarded'
    BY <2>1, KeptGuarded, Zenon DEF Guarded
  <2> QED
    BY <2>2, <2>3
<1>2. ASSUME Kept PROVE Spaced'
  <2>1. enc' = enc /\ made' = made
    BY <1>2 DEF Kept
  <2> QED
    BY <2>1, Zenon DEF Spaced
<1>3. ASSUME NEW ie \in Leaves, NEW o \in Options(ie), AddLeaf(ie, o)
      PROVE  Spaced' /\ Guarded'
  BY <1>3, AddLeafSpaced
<1>4. ASSUME NEW ie \in DOMAIN Grouped, OpenGroup(ie) PROVE Spaced' /\ Guarded'
  BY <1>4, OpenGroupSpaced
<1>5. CASE CloseGroup
  BY <1>5, CloseGroupSpaced
<1>6. ASSUME NEW seid \in BOOLEAN, Send(seid) PROVE Spaced' /\ Guarded'
  <2>1. enc' = enc /\ made' = made
    BY <1>6, Zenon DEF Send
  <2>2. Spaced'
    BY <2>1, Zenon DEF Spaced
  <2> QED
    BY <1>6, <2>2, SendGuarded
<1>7. CASE LoadHeader
  <2>1. Kept
    BY <1>7, Zenon DEF LoadHeader, Kept
  <2> QED
    BY <1>2, <1>7, <2>1, LoadHeaderGuarded
<1>8. CASE LoadLeaf
  BY <1>2, <1>8, LoadLeafEffect, LoadLeafGuarded, Zenon
<1>9. CASE LoadGroup
  <2>1. Kept
    BY <1>9, Zenon DEF LoadGroup, Kept
  <2> QED
    BY <1>2, <1>9, <2>1, LoadGroupGuarded
<1>10. CASE CloseLoaded
  <2>1. Kept
    BY <1>10, Zenon DEF CloseLoaded, Kept
  <2> QED
    BY <1>2, <1>10, <2>1, CloseLoadedGuarded
<1>11. CASE LoadNull \/ EndMessage \/ LoadJunk
  BY <1>2, <1>11, JudgeEffect, JudgeGuarded, Zenon
<1>12. CASE Next
  BY <1>3, <1>4, <1>5, <1>6, <1>7, <1>8, <1>9, <1>10, <1>11, <1>12, NextCases, Zenon
<1> QED
  BY <1>1, <1>12

(* The receiver is brought down by a create_urr, whose to_core_type calls
   itself, or by an element that is altered on the way, and by nothing else:
   load_from never loses its place in the stream, whatever the lengths. *)
THEOREM CrashFromUrr == Spec => []CrashNeedsUrr
<1>1. Init => Spaced /\ Guarded
  <2> SUFFICES ASSUME Init PROVE Spaced /\ Guarded
    OBVIOUS
  <2>1. /\ \E k \in Kinds : enc = <<Frame(k)>>
        /\ wire = <<>> /\ dec = <<>> /\ verdict = "none"
    BY Zenon DEF Init
  <2>2. PICK k \in Kinds : enc = <<Frame(k)>>
    BY <2>1
  <2>3. k \in Classes
    BY CodecAssumption DEF Classes
  <2>4. PICK F : F = Frame(k)
    OBVIOUS
  <2>5. F.items = <<>>
    BY <2>3, <2>4, FreshFrame
  <2>6. InStep(made, F.items) /\ InStep(made, wire)
    BY <2>1, <2>5, EndInStep, Zenon
  <2>7. Len(enc) = 1 /\ enc[1] = F
    BY <2>2, <2>4
  <2>8. \A i \in 1 .. 1 : i = 1
    OBVIOUS
  <2>9. Spaced
    BY <2>6, <2>7, <2>8, Zenon DEF Spaced
  <2>10. Harmless(dec) /\ verdict # "crashed"
    BY <2>1 DEF Harmless
  <2> QED
    BY <2>6, <2>9, <2>10, Zenon DEF Guarded
<1>2. TypeInv /\ Spaced /\ Guarded /\ [Next]_vars => Spaced' /\ Guarded'
  BY NextGuarded
<1>3. Guarded => CrashNeedsUrr
  BY Zenon DEF Guarded, CrashNeedsUrr, Sane, Urrless
<1> QED
  BY <1>1, <1>2, <1>3, CodecTypeInvariant, PTL DEF Spec
=============================================================================
