-------------------------- MODULE ReceptionProofs --------------------------
(***************************************************************************)
(* Proofs about the way of a packet from the socket of the controller to a *)
(* message: the reassembly of fragments (Fragments) and the ring of the    *)
(* connection (PacketQueue).                                               *)
(*                                                                         *)
(* Reassembly is right when the peer numbers its sets and the numbers do   *)
(* not come round again: for all message and packet sizes, numbers of      *)
(* slots and orders of arrival, what fragman_add returns is one message,   *)
(* whole, and a set that has arrived is returned.  The code adds up        *)
(* lengths.  That the sum says what is in the buffer rests on fragments of *)
(* a set being disjoint (Disjoint), covering their message (Covered), and  *)
(* arriving once (DataInv); the sum then is the number of units of the     *)
(* buffer that hold the set (CopiedUnits).                                 *)
(*                                                                         *)
(* The ring is a faithful queue if no more packets than it has slots       *)
(* arrive before the producer sees the consumer's first get, for every     *)
(* size of the ring and every interleaving.  The invariant relates the     *)
(* indices to the numbers of packets put, taken and seen taken.  The       *)
(* producer's view rview lags behind qrpos, so it is the lag nput - nview  *)
(* that conn_q_add_packet bounds; the bound on the packets really waiting  *)
(* follows from nview <= nget.                                             *)
(***************************************************************************)
EXTENDS Fragments, PacketQueue, FiniteSetTheorems, TLAPS

------------------------------------------------------------------------------
(* Reassembly. *)

Covers(p) == p.from .. p.from + p.len - 1

Length(k) == LengthOf[sets[k].message]

Sent(k) == Packets(k, sets[k].message, k - 1)

Holding(d, k) == {u \in Unit : d[u] = k}

NumberedInv ==
    /\ \A k \in DOMAIN sets : sets[k].id = k - 1
    /\ Len(sets) < IdMod => fragid = Len(sets)

NetInv == \A p \in net : p.set \in DOMAIN sets /\ p \in Sent(p.set)

\* What a buffer holds has been sent, and is not in flight any more.
DataInv ==
    \A i \in Index : \A u \in Unit :
        slots[i].data[u] # Garbage =>
            /\ slots[i].data[u] \in DOMAIN sets
            /\ u < Length(slots[i].data[u])
            /\ \A p \in net : p.set = slots[i].data[u] => u \notin Covers(p)

SlotInv ==
    \A i \in Index :
        slots[i].used =>
            /\ slots[i].id + 1 \in DOMAIN sets
            /\ slots[i].needed \in {0, Length(slots[i].id + 1)}
            /\ slots[i].received
                 <= Cardinality(Holding(slots[i].data, slots[i].id + 1))
            /\ ~ Finished(slots[i])

Untouched(k) ==
    /\ Sent(k) \subseteq net
    /\ \A i \in Index : ~ (slots[i].used /\ slots[i].id = k - 1)

\* Slot s holds what is not in n of set k, whose message has length l.
Gathers(s, n, k, l) ==
    /\ s.received = Cardinality(Holding(s.data, k))
    /\ s.needed = 0 => \E p \in n : p.set = k /\ p.last
    /\ \A u \in 0 .. l - 1 :
          \/ u \in Holding(s.data, k)
          \/ \E p \in n : p.set = k /\ u \in Covers(p)

InSlot(k) ==
    \E i \in Index :
        /\ slots[i].used /\ slots[i].id = k - 1
        /\ Gathers(slots[i], net, k, Length(k))

ProgressInv ==
    \A k \in DOMAIN sets :
        k \in delivered \/ k \in dropped \/ Untouched(k) \/ InSlot(k)

Inv == /\ TypeOK
       /\ NumberedInv
       /\ NetInv
       /\ DataInv
       /\ SlotInv
       /\ DistinctIds
       /\ Intact
       /\ ProgressInv

------------------------------------------------------------------------------
(* How cw_send_msg cuts *)

\* Two offsets that are multiples of Rest from First are Rest apart.
LEMMA Spacing ==
    ASSUME NEW a \in Nat, NEW b \in Nat, a * Rest < b * Rest
    PROVE  a * Rest + Rest <= b * Rest
<1>1. Rest \in Nat /\ Rest > 0
  BY FragmentsAssumption
<1>2. a < b
  <2>1. SUFFICES ASSUME b <= a PROVE b * Rest <= a * Rest
    BY <1>1
  <2>2. PICK d \in Nat : a = b + d
    <3>1. a - b \in Nat /\ a = b + (a - b)
      BY <2>1
    <3> QED
      BY <3>1
  <2>3. a * Rest = b * Rest + d * Rest /\ d * Rest \in Nat
    BY <1>1, <2>2
  <2> QED
    BY <1>1, <2>3
<1>3. PICK d \in Nat : b = (a + 1) + d
  <2>1. b - (a + 1) \in Nat /\ b = (a + 1) + (b - (a + 1))
    BY <1>2
  <2> QED
    BY <2>1
<1>4. b * Rest = a * Rest + Rest + d * Rest /\ d * Rest \in Nat
  BY <1>1, <1>3
<1> QED
  BY <1>1, <1>4

\* The fragments of a set lie within the message and have some length, the
\* one marked last ends where the message ends, and the offset says which
\* fragment it is.
LEMMA PacketFacts ==
    ASSUME NEW k \in SetNo, NEW m \in Messages, NEW id \in 0 .. IdMod - 1,
           NEW p \in Packets(k, m, id)
    PROVE  /\ p \in Packet
           /\ p.set = k /\ p.id = id /\ p.fragment = (LengthOf[m] > First)
           /\ p.from \in Cuts(LengthOf[m])
           /\ p.from + p.len <= LengthOf[m]
           /\ p.len <= Payload(p.from)
           /\ p.last <=> p.from + p.len = LengthOf[m]
<1>1. PICK c \in Cuts(LengthOf[m]) :
        p = [set |-> k, id |-> id, from |-> c,
             len |-> Shorter(Payload(c), LengthOf[m] - c),
             last |-> LengthOf[m] - c <= Payload(c),
             fragment |-> LengthOf[m] > First]
  BY DEF Packets
<1>2. /\ LengthOf[m] \in Nat \ {0} /\ c \in Nat /\ c < LengthOf[m]
      /\ Payload(c) \in Nat \ {0}
  BY FragmentsAssumption DEF Messages, Cuts, Payload
<1>3. /\ Shorter(Payload(c), LengthOf[m] - c) \in Nat \ {0}
      /\ Shorter(Payload(c), LengthOf[m] - c) <= Payload(c)
      /\ c + Shorter(Payload(c), LengthOf[m] - c) <= LengthOf[m]
      /\ LengthOf[m] - c <= Payload(c)
           <=> c + Shorter(Payload(c), LengthOf[m] - c) = LengthOf[m]
  BY <1>2 DEF Shorter
<1>4. (LengthOf[m] > First) \in BOOLEAN /\ (LengthOf[m] - c <= Payload(c)) \in BOOLEAN
  OBVIOUS
<1>5. p \in Packet
  BY <1>1, <1>2, <1>3, <1>4 DEF Packet
<1> QED
  BY <1>1, <1>3, <1>5

\* No two fragments of a set cover the same unit of the message.
LEMMA Disjoint ==
    ASSUME NEW k \in SetNo, NEW m \in Messages, NEW id \in 0 .. IdMod - 1,
           NEW p \in Packets(k, m, id), NEW r \in Packets(k, m, id), p # r
    PROVE  Covers(p) \cap Covers(r) = {}
<1>1. /\ First \in Nat /\ First > 0 /\ Rest \in Nat /\ Rest > 0
      /\ LengthOf[m] \in Nat
  BY FragmentsAssumption DEF Messages
<1>2. ASSUME NEW a \in Packets(k, m, id), NEW b \in Packets(k, m, id),
             a.from < b.from
      PROVE  a.from + a.len <= b.from
  <2>1. /\ a.from \in Cuts(LengthOf[m]) /\ b.from \in Cuts(LengthOf[m])
        /\ a.len <= Payload(a.from) /\ a.len \in Nat
    BY PacketFacts DEF Packet
  <2>2. PICK y \in 0 .. LengthOf[m] : b.from = First + y * Rest
    BY <1>1, <1>2, <2>1 DEF Cuts
  <2>3. y * Rest \in Nat
    BY <1>1
  <2>4. CASE a.from = 0
    BY <1>1, <2>1, <2>2, <2>3, <2>4 DEF Payload
  <2>5. CASE a.from # 0
    <3>1. PICK x \in 0 .. LengthOf[m] : a.from = First + x * Rest
      BY <2>1, <2>5 DEF Cuts
    <3>2. x * Rest \in Nat /\ x * Rest < y * Rest
      BY <1>1, <1>2, <2>2, <2>3, <3>1
    <3>3. x * Rest + Rest <= y * Rest
      BY <1>1, <3>2, Spacing
    <3>4. a.len <= Rest
      BY <2>1, <2>5 DEF Payload
    <3> QED
      BY <1>1, <2>1, <2>2, <2>3, <3>1, <3>2, <3>3, <3>4
  <2> QED
    BY <2>4, <2>5
<1>3. /\ p.from \in Nat /\ r.from \in Nat /\ p.len \in Nat /\ r.len \in Nat
  BY PacketFacts DEF Packet
<1>4. p.from # r.from
  BY DEF Packets
<1>5. p.from + p.len <= r.from \/ r.from + r.len <= p.from
  BY <1>2, <1>3, <1>4
<1> QED
  BY <1>3, <1>5 DEF Covers

\* Every unit of a message is covered by a fragment.
LEMMA Covered ==
    ASSUME NEW k \in SetNo, NEW m \in Messages, NEW id \in 0 .. IdMod - 1,
           NEW u \in 0 .. LengthOf[m] - 1
    PROVE  \E p \in Packets(k, m, id) : u \in Covers(p)
<1> DEFINE L == LengthOf[m]
           n == (u - First) \div Rest
           c == IF u < First THEN 0 ELSE First + n * Rest
<1>1. /\ First \in Nat /\ First > 0 /\ Rest \in Nat /\ Rest > 0
      /\ L \in Nat /\ u \in Nat /\ u < L
  BY FragmentsAssumption DEF Messages
<1>2. ASSUME u >= First
      PROVE  /\ n \in 0 .. L /\ n * Rest \in Nat
             /\ First + n * Rest <= u /\ u < First + n * Rest + Rest
  <2>1. u - First \in Nat /\ u - First <= L
    BY <1>1, <1>2
  <2> DEFINE r == (u - First) % Rest
  <2>2. u - First = (Rest * n) + r /\ r \in 0 .. Rest - 1 /\ n \in Int
    BY <1>1, <2>1
  <2> HIDE DEF n, r
  <2>3. /\ Rest * n = n * Rest /\ n * Rest \in Int /\ n * Rest <= u - First
        /\ u - First < (n * Rest) + Rest
    BY <1>1, <2>1, <2>2
  <2>4. n >= 0
    <3>1. SUFFICES ASSUME n <= -1 PROVE FALSE
      BY <2>2
    <3>2. n * Rest <= (-1) * Rest
      BY <1>1, <2>2, <3>1
    <3> QED
      BY <1>1, <2>1, <2>3, <3>2
  <2>5. n <= n * Rest
    BY <1>1, <2>2, <2>4
  <2> QED
    BY <1>1, <2>1, <2>2, <2>3, <2>4, <2>5
<1>3. c \in Cuts(L) /\ c <= u /\ u < c + Payload(c) /\ c \in Nat
  <2>1. CASE u < First
    BY <1>1, <2>1 DEF Cuts, Payload
  <2>2. CASE u >= First
    <3> HIDE DEF n
    <3>1. c = First + n * Rest
      BY <1>1, <2>2
    <3>2. c \in 0 .. L - 1 /\ c # 0
      BY <1>1, <1>2, <2>2, <3>1
    <3>3. c \in Cuts(L)
      BY <1>2, <2>2, <3>1, <3>2 DEF Cuts
    <3> QED
      BY <1>1, <1>2, <2>2, <3>1, <3>2, <3>3 DEF Payload
  <2> QED
    BY <1>1, <2>1, <2>2
<1> HIDE DEF c
<1>4. PICK p \in Packets(k, m, id) :
        p.from = c /\ p.len = Shorter(Payload(c), L - c)
  <2>1. [set |-> k, id |-> id, from |-> c, len |-> Shorter(Payload(c), L - c),
         last |-> L - c <= Payload(c), fragment |-> L > First]
          \in Packets(k, m, id)
    BY <1>3 DEF Packets
  <2> QED
    BY <2>1
<1>5. Payload(c) \in Nat
  BY <1>1 DEF Payload
<1>6. u \in c .. c + Shorter(Payload(c), L - c) - 1
  BY <1>1, <1>3, <1>5 DEF Shorter
<1> QED
  BY <1>4, <1>6 DEF Covers

------------------------------------------------------------------------------
(* How fragman_add counts *)

\* The units a buffer holds of a set can be counted.
LEMMA Countable ==
    ASSUME NEW S \in SUBSET Unit
    PROVE  IsFiniteSet(S) /\ Cardinality(S) \in Nat
<1>1. IsFiniteSet(Unit)
  BY FragmentsAssumption, FS_Interval DEF Unit
<1> QED
  BY <1>1, FS_Subset, FS_CardinalityType

\* Units that a set of units does not have yet add to its size.
LEMMA CountAdded ==
    ASSUME NEW S \in SUBSET Unit, NEW a \in Nat, NEW l \in Nat \ {0},
           a .. a + l - 1 \subseteq Unit, S \cap (a .. a + l - 1) = {}
    PROVE  Cardinality(S \cup (a .. a + l - 1)) = Cardinality(S) + l
<1> DEFINE T == a .. a + l - 1
<1>1. IsFiniteSet(S) /\ Cardinality(S) \in Nat
  BY Countable
<1>2. IsFiniteSet(T) /\ Cardinality(T) = l
  <2>1. a + l - 1 \in Int /\ a \in Int /\ ~ a > a + l - 1 /\ (a + l - 1) - a + 1 = l
    OBVIOUS
  <2> QED
    BY <2>1, FS_Interval
<1>3. Cardinality({}) = 0
  BY FS_EmptySet
<1> HIDE DEF T
<1>4. Cardinality(S \cup T) = Cardinality(S) + Cardinality(T) - Cardinality(S \cap T)
  BY <1>1, <1>2, FS_Union
<1>5. S \cap T = {}
  BY DEF T
<1>6. Cardinality(S \cup T) = Cardinality(S) + l
  BY <1>1, <1>2, <1>3, <1>4, <1>5
<1> QED
  BY <1>6 DEF T

\* As many units of a message as it has are all of it.
LEMMA CountAll ==
    ASSUME NEW S \in SUBSET Unit, NEW l \in Nat \ {0},
           S \subseteq 0 .. l - 1, l <= Cardinality(S)
    PROVE  S = 0 .. l - 1 /\ l <= MaxSize
<1>1. IsFiniteSet(0 .. l - 1) /\ Cardinality(0 .. l - 1) = l
  <2>1. 0 \in Int /\ l - 1 \in Int /\ ~ 0 > l - 1 /\ (l - 1) - 0 + 1 = l
    OBVIOUS
  <2> QED
    BY <2>1, FS_Interval
<1>2. /\ Cardinality(S) \in Nat
      /\ Cardinality(S) <= Cardinality(0 .. l - 1)
      /\ Cardinality(0 .. l - 1) = Cardinality(S) => 0 .. l - 1 = S
  BY <1>1, Countable, FS_Subset
<1>3. S = 0 .. l - 1
  BY <1>1, <1>2
<1>4. l - 1 \in Unit
  BY <1>3
<1> QED
  BY <1>3, <1>4, FragmentsAssumption DEF Unit

------------------------------------------------------------------------------
(* Types *)

\* What fragman_add makes of a slot, field by field.
LEMMA CopiedType ==
    ASSUME NEW s \in Slot, NEW p \in Packet
    PROVE  /\ Copied(s, p) \in Slot
           /\ Copied(s, p).used = s.used /\ Copied(s, p).id = s.id
           /\ Copied(s, p).received =
                IF Fits(p) THEN s.received + p.len ELSE s.received
           /\ Copied(s, p).needed = IF p.last THEN p.from + p.len ELSE s.needed
           /\ Copied(s, p).data =
                IF Fits(p)
                THEN [u \in Unit |-> IF u \in p.from .. p.from + p.len - 1
                                     THEN p.set ELSE s.data[u]]
                ELSE s.data
<1> DEFINE r == IF Fits(p) THEN s.received + p.len ELSE s.received
           n == IF p.last THEN p.from + p.len ELSE s.needed
           d == IF Fits(p)
                THEN [u \in Unit |-> IF u \in p.from .. p.from + p.len - 1
                                     THEN p.set ELSE s.data[u]]
                ELSE s.data
<1>1. /\ p.from \in Nat /\ p.len \in Nat /\ p.set \in SetNo
      /\ s.received \in Nat /\ s.needed \in Nat /\ s.data \in Content
  BY DEF Packet, Slot
<1>2. r \in Nat /\ n \in Nat
  BY <1>1
<1>3. d \in Content
  BY <1>1 DEF Content
<1>4. Copied(s, p) = [s EXCEPT !.received = r, !.needed = n, !.data = d]
  BY DEF Copied
<1> HIDE DEF r, n, d
<1>5. /\ Copied(s, p) \in Slot
      /\ Copied(s, p).used = s.used /\ Copied(s, p).id = s.id
      /\ Copied(s, p).received = r /\ Copied(s, p).needed = n
      /\ Copied(s, p).data = d
  BY <1>1, <1>2, <1>3, <1>4 DEF Slot
<1> QED
  BY <1>5 DEF r, n, d

LEMMA NullType == NULL \in Slot /\ ~ NULL.used
<1>1. [u \in Unit |-> Garbage] \in Content
  BY DEF Content
<1>2. 0 \in 0 .. IdMod - 1 /\ 0 \in 0 .. Ttl + 1
  BY FragmentsAssumption
<1> QED
  BY <1>1, <1>2 DEF NULL, Slot

LEMMA RenewedType ==
    ASSUME NEW s \in Slot, NEW id \in 0 .. IdMod - 1
    PROVE  /\ Renewed(s, id) \in Slot
           /\ Renewed(s, id).used /\ Renewed(s, id).id = id
           /\ Renewed(s, id).received = 0 /\ Renewed(s, id).needed = 0
           /\ Renewed(s, id).data = s.data
<1>1. 0 \in 0 .. Ttl + 1
  BY FragmentsAssumption
<1> QED
  BY <1>1 DEF Renewed, Slot
LEMMA StoreType ==
    ASSUME TypeOK, NEW i \in Index, NEW s \in Slot, NEW p \in net, Store(i, s, p)
    PROVE  /\ slots' \in [Index -> Slot]
           /\ out' \in [len : Nat, whole : BOOLEAN]
           /\ delivered' \subseteq SetNo
<1> DEFINE t == Copied(s, p)
<1>1. p \in Packet /\ p.set \in SetNo /\ t \in Slot /\ NULL \in Slot
  BY CopiedType, NullType DEF TypeOK, Packet
<1>2. t.needed \in Nat /\ IsWhole(t.data, t.needed) \in BOOLEAN
  BY <1>1 DEF Slot, IsWhole
<1>3. /\ slots' = [slots EXCEPT ![i] = IF Finished(t) THEN NULL ELSE t]
      /\ out' = IF Finished(t)
                THEN [len |-> t.needed, whole |-> IsWhole(t.data, t.needed)]
                ELSE out
      /\ delivered' = IF Finished(t) THEN delivered \cup {p.set} ELSE delivered
  BY DEF Store
<1> HIDE DEF t
<1>4. slots' \in [Index -> Slot]
  BY <1>1, <1>3 DEF TypeOK
<1>5. out' \in [len : Nat, whole : BOOLEAN]
  BY <1>2, <1>3 DEF TypeOK
<1> QED
  BY <1>1, <1>3, <1>4, <1>5 DEF TypeOK

LEMMA SendType ==
    ASSUME TypeOK, NEW m \in Messages, SendMsg(m)
    PROVE  TypeOK'
<1>1. /\ Len(sets) \in Nat /\ Len(sets) + 1 \in SetNo
      /\ LengthOf \in Seq(Nat \ {0}) /\ MaxSets \in Nat
  BY FragmentsAssumption DEF TypeOK, SendMsg, SetNo
<1>2. sets' \in Seq([message : Messages, id : 0 .. IdMod - 1])
      /\ Len(sets') <= MaxSets
  <2>1. [message |-> m, id |-> fragid] \in [message : Messages, id : 0 .. IdMod - 1]
    BY DEF TypeOK
  <2> QED
    BY <1>1, <2>1 DEF TypeOK, SendMsg
<1>3. net' \subseteq Packet
  <2>1. Packets(Len(sets) + 1, m, fragid) \subseteq Packet
    BY <1>1, PacketFacts DEF TypeOK
  <2> QED
    BY <2>1 DEF TypeOK, SendMsg
<1>4. fragid' \in 0 .. IdMod - 1
  <2>1. IdMod \in Nat \ {0} /\ fragid + IdStep \in Nat
    BY FragmentsAssumption DEF TypeOK
  <2> QED
    BY <2>1 DEF SendMsg, NextId
<1> QED
  BY <1>2, <1>3, <1>4 DEF TypeOK, SendMsg

LEMMA TypeInvariant == TypeOK /\ [Next]_vars => TypeOK'
<1> SUFFICES ASSUME TypeOK, [Next]_vars PROVE TypeOK'
  OBVIOUS
<1>1. CASE SendNext
  BY <1>1, SendType DEF SendNext
<1>2. ASSUME NEW p \in net, NEW i \in Index, net' = net \ {p},
             Store(i, slots[i], p) \/ Store(i, Renewed(slots[i], p.id), p),
             dropped' \subseteq SetNo, UNCHANGED <<fragid, sets>>
      PROVE  TypeOK'
  <2>1. slots[i] \in Slot /\ p.id \in 0 .. IdMod - 1
    BY DEF TypeOK, Packet
  <2>2. Renewed(slots[i], p.id) \in Slot
    BY <2>1, RenewedType
  <2>3. /\ slots' \in [Index -> Slot]
        /\ out' \in [len : Nat, whole : BOOLEAN]
        /\ delivered' \subseteq SetNo
    BY <1>2, <2>1, <2>2, StoreType
  <2> QED
    BY <1>2, <2>3 DEF TypeOK
<1>3. \A p \in net : p.set \in SetNo
  BY DEF TypeOK, Packet
<1>4. \A s : LostFrom(s) \subseteq SetNo
  BY FragmentsAssumption DEF TypeOK, LostFrom, SetNo
<1>5. CASE AddToPartial
  <2>1. PICK p \in net, i \in Index :
          /\ net' = net \ {p} /\ Store(i, slots[i], p)
          /\ dropped' = IF Fits(p) THEN dropped ELSE dropped \cup {p.set}
          /\ UNCHANGED <<fragid, sets>>
    BY <1>5 DEF AddToPartial
  <2>2. dropped' \subseteq SetNo
    BY <1>3, <2>1 DEF TypeOK
  <2> QED
    BY <1>2, <2>1, <2>2
<1>6. CASE AddToNew
  <2>1. PICK p \in net, i \in Index :
          /\ net' = net \ {p} /\ Store(i, Renewed(slots[i], p.id), p)
          /\ dropped' = dropped \cup (IF Fits(p) THEN {} ELSE {p.set})
                                \cup LostFrom(slots[i])
          /\ UNCHANGED <<fragid, sets>>
    BY <1>6 DEF AddToNew
  <2>2. dropped' \subseteq SetNo
    BY <1>3, <1>4, <2>1 DEF TypeOK
  <2> QED
    BY <1>2, <2>1, <2>2
<1>7. CASE NoSpace
  BY <1>3, <1>7 DEF NoSpace, TypeOK
<1>8. CASE NoMemory
  BY <1>3, <1>4, <1>8, NullType DEF NoMemory, TypeOK
<1>9. CASE NotFragmented
  <2>1. PICK p \in net :
          /\ net' = net \ {p}
          /\ out' = [len |-> p.len, whole |-> TRUE]
          /\ delivered' = delivered \cup {p.set}
          /\ UNCHANGED <<fragid, sets, slots, dropped>>
    BY <1>9 DEF NotFragmented
  <2>2. p.len \in Nat
    BY DEF TypeOK, Packet
  <2>3. out' \in [len : Nat, whole : BOOLEAN]
    BY <2>1, <2>2
  <2> QED
    BY <1>3, <2>1, <2>3 DEF TypeOK
<1>10. CASE Tick
  <2>1. ASSUME NEW i \in Index
        PROVE  [slots[i] EXCEPT !.age = IF slots[i].used /\ @ <= Ttl
                                        THEN @ + 1 ELSE @] \in Slot
    <3>1. slots[i] \in Slot
      BY DEF TypeOK
    <3>2. (IF slots[i].used /\ slots[i].age <= Ttl THEN slots[i].age + 1
                                                  ELSE slots[i].age) \in 0 .. Ttl + 1
      BY <3>1, FragmentsAssumption DEF Slot
    <3> QED
      BY <3>1, <3>2 DEF Slot
  <2>2. slots' \in [Index -> Slot]
    BY <1>10, <2>1 DEF Tick
  <2> QED
    BY <1>10, <2>2 DEF TypeOK, Tick
<1>11. CASE UNCHANGED vars
  BY <1>11 DEF TypeOK, vars
<1> QED
  BY <1>1, <1>5, <1>6, <1>7, <1>8, <1>9, <1>10, <1>11 DEF Next, FragmanAdd

LEMMA TypeInit == Init => TypeOK
<1>1. 0 \in 0 .. IdMod - 1 /\ MaxSets \in Nat
  BY FragmentsAssumption
<1>2. [i \in Index |-> NULL] \in [Index -> Slot]
  BY NullType
<1>3. Nothing \in [len : Nat, whole : BOOLEAN]
  BY DEF Nothing
<1> QED
  BY <1>1, <1>2, <1>3 DEF Init, TypeOK

\* The sender's state, the packets in flight and the slots of the receiver
\* keep their types, for all sizes and however the peer numbers its sets.
THEOREM TypeCorrect == Spec => []TypeOK
  BY TypeInit, TypeInvariant, PTL DEF Spec

------------------------------------------------------------------------------
(* Reassembly *)

\* What the invariant says of a set that has been sent.
LEMMA SentFacts ==
    ASSUME TypeOK, NumberedInv, NEW k \in DOMAIN sets
    PROVE  /\ k \in SetNo /\ sets[k].message \in Messages
           /\ k - 1 \in 0 .. IdMod - 1
           /\ Length(k) \in Nat \ {0}
           /\ \A p \in Sent(k) : p.set = k /\ p.id = k - 1
<1>1. k \in SetNo /\ sets[k].message \in Messages /\ k - 1 \in 0 .. IdMod - 1
  <2> DEFINE X == [message : Messages, id : 0 .. IdMod - 1]
  <2>0. sets \in Seq(X) /\ Len(sets) <= MaxSets
    BY DEF TypeOK
  <2> HIDE DEF X
  <2>1. k \in 1 .. Len(sets) /\ sets[k] \in X
    BY <2>0
  <2> USE DEF X
  <2>2. k \in SetNo
    BY <2>0, <2>1, FragmentsAssumption DEF SetNo
  <2> QED
    BY <2>1, <2>2 DEF NumberedInv
<1>2. Length(k) \in Nat \ {0}
  BY <1>1, FragmentsAssumption DEF Messages, Length
<1> QED
  BY <1>1, <1>2, PacketFacts DEF Sent

\* What it says of a fragment in flight.
LEMMA InFlight ==
    ASSUME TypeOK, NumberedInv, NetInv, NEW p \in net
    PROVE  /\ p.set \in DOMAIN sets /\ p.set \in SetNo /\ p.id = p.set - 1
           /\ p.from \in Nat /\ p.len \in Nat \ {0} /\ p.last \in BOOLEAN
           /\ Length(p.set) \in Nat \ {0}
           /\ p.from + p.len <= Length(p.set)
           /\ p.last <=> p.from + p.len = Length(p.set)
           /\ \A r \in net : r.set = p.set /\ r # p => Covers(p) \cap Covers(r) = {}
<1>1. p.set \in DOMAIN sets /\ p \in Sent(p.set) /\ p \in Packet
  BY DEF NetInv, TypeOK
<1>2. /\ p.set \in SetNo /\ sets[p.set].message \in Messages
      /\ p.set - 1 \in 0 .. IdMod - 1 /\ Length(p.set) \in Nat \ {0}
  BY <1>1, SentFacts
<1>3. /\ p.id = p.set - 1
      /\ p.from + p.len <= Length(p.set)
      /\ p.last <=> p.from + p.len = Length(p.set)
  BY <1>1, <1>2, PacketFacts DEF Sent, Length
<1>4. ASSUME NEW r \in net, r.set = p.set, r # p
      PROVE  Covers(p) \cap Covers(r) = {}
  <2>1. r \in Sent(p.set)
    BY <1>4 DEF NetInv
  <2> QED
    BY <1>1, <1>2, <1>4, <2>1, Disjoint DEF Sent
<1>5. p.from \in Nat /\ p.len \in Nat \ {0} /\ p.last \in BOOLEAN
  BY <1>1 DEF Packet
<1> QED
  BY <1>1, <1>2, <1>3, <1>4, <1>5

\* Copying a fragment that fits adds its units, none of which were there.
LEMMA CopiedUnits ==
    ASSUME TypeOK, NumberedInv, NetInv, DataInv,
           NEW p \in net, NEW i \in Index, NEW s \in Slot,
           s.data = slots[i].data
    PROVE  LET t == Copied(s, p)
               old == Cardinality(Holding(s.data, p.set))
               new == Cardinality(Holding(t.data, p.set))
           IN  /\ old \in Nat /\ new \in Nat
               /\ s.received <= old => t.received <= new
               /\ s.received = old => t.received = new
               /\ Holding(s.data, p.set) \subseteq Holding(t.data, p.set)
               /\ Fits(p) => Covers(p) \subseteq Holding(t.data, p.set)
               /\ Holding(t.data, p.set) \subseteq 0 .. Length(p.set) - 1
<1> DEFINE t == Copied(s, p)
           S == Holding(s.data, p.set)
           T == Holding(t.data, p.set)
<1>1. /\ p \in Packet /\ p.set \in DOMAIN sets /\ p.set \in SetNo
      /\ p.from \in Nat /\ p.len \in Nat \ {0}
      /\ Length(p.set) \in Nat /\ p.from + p.len <= Length(p.set)
  BY InFlight DEF TypeOK
<1>2. /\ t.received = IF Fits(p) THEN s.received + p.len ELSE s.received
      /\ t.data = IF Fits(p)
                  THEN [u \in Unit |-> IF u \in Covers(p) THEN p.set ELSE s.data[u]]
                  ELSE s.data
  BY <1>1, CopiedType DEF Covers
<1>3. S \subseteq Unit /\ S \subseteq 0 .. Length(p.set) - 1
      /\ S \cap Covers(p) = {}
  <2>1. ASSUME NEW u \in S
        PROVE  u \in Unit /\ u < Length(p.set) /\ u \notin Covers(p)
    <3>1. u \in Unit /\ slots[i].data[u] = p.set /\ p.set # Garbage
      BY <1>1 DEF Holding, SetNo, Garbage
    <3> QED
      BY <3>1 DEF DataInv
  <2> QED
    BY <1>1, <2>1 DEF Unit
<1>4. s.received \in Nat
  BY DEF Slot
<1> HIDE DEF t
<1>5. CASE Fits(p)
  <2>1. Covers(p) \subseteq Unit /\ Covers(p) \subseteq 0 .. Length(p.set) - 1
    BY <1>1, <1>5, FragmentsAssumption DEF Covers, Unit, Fits
  <2>2. T = S \cup Covers(p)
    BY <1>2, <1>5, <2>1 DEF Holding
  <2> HIDE DEF S, T
  <2>3. Cardinality(T) = Cardinality(S) + p.len
    BY <1>1, <1>3, <2>1, <2>2, CountAdded DEF Covers
  <2>4. Cardinality(S) \in Nat /\ Cardinality(T) \in Nat
    BY <1>3, <2>1, <2>2, Countable
  <2>5. /\ S \subseteq T /\ Covers(p) \subseteq T
        /\ T \subseteq 0 .. Length(p.set) - 1
    BY <1>3, <2>1, <2>2
  <2>6. /\ s.received <= Cardinality(S) => t.received <= Cardinality(T)
        /\ s.received = Cardinality(S) => t.received = Cardinality(T)
    BY <1>1, <1>2, <1>4, <1>5, <2>3, <2>4
  <2> QED
    BY <2>4, <2>5, <2>6 DEF S, T, t
<1>6. CASE ~ Fits(p)
  <2>1. t.data = s.data /\ t.received = s.received
    BY <1>2, <1>6
  <2>2. Cardinality(S) \in Nat
    BY <1>3, Countable
  <2> QED
    BY <1>3, <1>6, <2>1, <2>2 DEF t
<1> QED
  BY <1>5, <1>6

\* The part of fragman_add that follows frag_get and frag_new, on slot i in
\* state s, which collects the set of p and is the only one that does.
LEMMA Storing ==
    ASSUME Inv, NEW p \in net, NEW i \in Index, NEW s \in Slot, Store(i, s, p),
           s.used, s.id = p.id, s.data = slots[i].data,
           s.needed \in {0, Length(p.set)},
           s.received <= Cardinality(Holding(s.data, p.set)),
           \A j \in Index : slots[j].used /\ slots[j].id = p.id => j = i,
           net' = net \ {p}, UNCHANGED <<fragid, sets>>
    PROVE  NumberedInv' /\ NetInv' /\ DataInv' /\ SlotInv' /\ DistinctIds' /\ Intact'
<1> DEFINE t == Copied(s, p)
           k == p.set
           T == Holding(t.data, k)
<1>1. /\ k \in DOMAIN sets /\ k \in SetNo /\ p.id = k - 1 /\ p \in Packet
      /\ p.from \in Nat /\ p.len \in Nat \ {0}
      /\ Length(k) \in Nat \ {0} /\ p.from + p.len <= Length(k)
      /\ p.last <=> p.from + p.len = Length(k)
  BY InFlight DEF Inv, TypeOK
<1>2. /\ t \in Slot /\ t.used /\ t.id = k - 1
      /\ t.needed = IF p.last THEN p.from + p.len ELSE s.needed
      /\ t.data = IF Fits(p)
                  THEN [u \in Unit |-> IF u \in Covers(p) THEN k ELSE s.data[u]]
                  ELSE s.data
  BY <1>1, CopiedType DEF Covers
<1>3. /\ Cardinality(T) \in Nat /\ t.received <= Cardinality(T)
      /\ T \subseteq 0 .. Length(k) - 1 /\ T \subseteq Unit
  <2>1. TypeOK /\ NumberedInv /\ NetInv /\ DataInv
    BY DEF Inv
  <2>2. T \subseteq Unit
    BY DEF Holding
  <2> HIDE DEF T
  <2>3. Cardinality(Holding(s.data, k)) \in Nat
        /\ Cardinality(Holding(t.data, k)) \in Nat
    BY <2>1, CopiedUnits
  <2> QED
    BY <2>1, <2>2, CopiedUnits DEF T
<1>4. t.needed \in {0, Length(k)} /\ t.received \in Nat
  BY <1>1, <1>2 DEF Slot
<1>5. /\ slots' = [slots EXCEPT ![i] = IF Finished(t) THEN NULL ELSE t]
      /\ out' = IF Finished(t)
                THEN [len |-> t.needed, whole |-> IsWhole(t.data, t.needed)]
                ELSE out
  BY DEF Store
<1>6. \A n : Length(n)' = Length(n) /\ Sent(n)' = Sent(n)
  BY DEF Length, Sent
<1>7. \A j \in Index : slots'[j] = IF j # i THEN slots[j]
                                   ELSE IF Finished(t) THEN NULL ELSE t
  BY <1>5 DEF Inv, TypeOK
<1> HIDE DEF t, k, T
<1>8. NumberedInv' /\ NetInv'
  BY <1>6 DEF Inv, NumberedInv, NetInv
<1>9. DataInv'
  <2> SUFFICES ASSUME NEW j \in Index, NEW u \in Unit,
                      slots'[j].data[u] # Garbage
               PROVE  /\ slots'[j].data[u] \in DOMAIN sets
                      /\ u < Length(slots'[j].data[u])
                      /\ \A r \in net' : r.set = slots'[j].data[u]
                                        => u \notin Covers(r)
    BY <1>6 DEF DataInv, Covers
  <2>1. CASE slots'[j].data[u] = slots[j].data[u]
    BY <2>1 DEF Inv, DataInv
  <2>2. CASE slots'[j].data[u] # slots[j].data[u]
    <3>1. j = i /\ slots'[j] = t
      <4>1. NULL.data[u] = Garbage
        BY DEF NULL
      <4> QED
        BY <1>7, <2>2, <4>1
    <3>2. u \in Covers(p) /\ t.data[u] = k
      BY <1>2, <2>2, <3>1
    <3>3. u < Length(k)
      BY <1>1, <3>2 DEF Covers
    <3>4. \A r \in net' : r.set = k => u \notin Covers(r)
      BY <3>2, InFlight DEF Inv, k
    <3> QED
      BY <1>1, <3>1, <3>2, <3>3, <3>4
  <2> QED
    BY <2>1, <2>2
<1>10. SlotInv'
  <2> SUFFICES ASSUME NEW j \in Index, slots'[j].used
               PROVE  /\ slots'[j].id + 1 \in DOMAIN sets
                      /\ slots'[j].needed \in {0, Length(slots'[j].id + 1)}
                      /\ slots'[j].received
                           <= Cardinality(Holding(slots'[j].data, slots'[j].id + 1))
                      /\ ~ Finished(slots'[j])
    BY <1>6 DEF SlotInv, Holding, Finished
  <2>1. CASE j # i
    BY <1>7, <2>1 DEF Inv, SlotInv
  <2>2. CASE j = i
    <3>1. slots'[j] = t /\ ~ Finished(t)
      BY <1>7, <2>2, NullType
    <3>2. t.id + 1 = k
      BY <1>1, <1>2 DEF SetNo
    <3> QED
      BY <1>1, <1>3, <1>4, <3>1, <3>2 DEF T
  <2> QED
    BY <2>1, <2>2
<1>11. DistinctIds'
  <2>1. \A j \in Index : slots'[j].used /\ j # i =>
          slots[j].used /\ slots'[j].id = slots[j].id /\ slots[j].id # p.id
    BY <1>7
  <2>2. slots'[i].used => slots'[i].id = p.id
    BY <1>1, <1>2, <1>7, NullType
  <2> QED
    BY <2>1, <2>2 DEF Inv, DistinctIds
<1>12. Intact'
  <2>1. CASE Finished(t)
    <3>1. t.needed = Length(k) /\ Length(k) <= Cardinality(T)
      BY <1>1, <1>3, <1>4, <2>1 DEF Finished
    <3>2. T = 0 .. Length(k) - 1 /\ Length(k) <= MaxSize
      BY <1>1, <1>3, <3>1, CountAll
    <3>3. \A u \in 0 .. Length(k) - 1 : t.data[u] = k
      BY <3>2 DEF T, Holding
    <3>4. sets[k].message \in Messages /\ k # Garbage
      BY <1>1, SentFacts DEF Inv, Garbage, SetNo
    <3>5. IsWhole(t.data, t.needed)
      BY <3>1, <3>2, <3>3, <3>4 DEF IsWhole, Length
    <3> QED
      BY <1>5, <2>1, <3>5 DEF Intact
  <2>2. CASE ~ Finished(t)
    BY <1>5, <2>2 DEF Inv, Intact
  <2> QED
    BY <2>1, <2>2
<1> QED
  BY <1>8, <1>9, <1>10, <1>11, <1>12

\* A step that takes a fragment away, and may empty the slot of a set that is
\* counted as dropped, leaves other sets where they were.
LEMMA OthersKept ==
    ASSUME Inv, NEW p \in net, NEW i \in Index,
           net' = net \ {p}, UNCHANGED <<fragid, sets>>,
           delivered \subseteq delivered', dropped \subseteq dropped',
           slots[i].used /\ slots'[i] # slots[i] =>
               slots[i].id = p.id \/ LostFrom(slots[i]) \subseteq dropped',
           slots'[i].used /\ slots'[i] # slots[i] => slots'[i].id = p.id,
           \A j \in Index : j # i => slots'[j] = slots[j],
           NEW k \in DOMAIN sets, k # p.set
    PROVE  k \in delivered' \/ k \in dropped' \/ Untouched(k)' \/ InSlot(k)'
<1>1. /\ Length(k)' = Length(k) /\ Sent(k)' = Sent(k)
      /\ p.id = p.set - 1 /\ p.set \in SetNo /\ k \in SetNo
      /\ sets[k].id = k - 1
  BY InFlight, SentFacts DEF Inv, Length, Sent, NumberedInv
<1>2. p.id # k - 1
  BY <1>1 DEF SetNo
<1>3. CASE Untouched(k)
  <2>1. p \notin Sent(k)
    BY SentFacts DEF Inv
  <2>2. \A j \in Index : ~ (slots'[j].used /\ slots'[j].id = k - 1)
    BY <1>2, <1>3 DEF Untouched
  <2> QED
    BY <1>1, <1>3, <2>1, <2>2 DEF Untouched
<1>4. CASE InSlot(k)
  <2>1. PICK j \in Index :
          /\ slots[j].used /\ slots[j].id = k - 1
          /\ Gathers(slots[j], net, k, Length(k))
    BY <1>4 DEF InSlot
  <2>2. Gathers(slots[j], net', k, Length(k))
    <3>1. \A r \in net : r.set = k => r \in net'
      OBVIOUS
    <3> QED
      BY <2>1, <3>1 DEF Gathers
  <2>3. CASE slots'[j] = slots[j]
    BY <1>1, <2>1, <2>2, <2>3 DEF InSlot
  <2>4. CASE slots'[j] # slots[j]
    <3>1. j = i /\ k \in LostFrom(slots[j])
      BY <1>1, <2>1, <2>4 DEF LostFrom
    <3> QED
      BY <1>2, <2>1, <2>4, <3>1
  <2> QED
    BY <2>3, <2>4
<1> QED
  BY <1>3, <1>4 DEF Inv, ProgressInv

\* Storing a fragment makes progress with its set.
LEMMA StoringProgress ==
    ASSUME Inv, NEW p \in net, NEW i \in Index, NEW s \in Slot, Store(i, s, p),
           s.used, s.id = p.id, s.data = slots[i].data,
           \/ p.set \in delivered \/ p.set \in dropped'
           \/ Fits(p) /\ Gathers(s, net, p.set, Length(p.set)),
           dropped \subseteq dropped',
           slots[i].used => slots[i].id = p.id \/ LostFrom(slots[i]) \subseteq dropped',
           net' = net \ {p}, UNCHANGED <<fragid, sets>>
    PROVE  ProgressInv'
<1> DEFINE t == Copied(s, p)
           l == Length(p.set)
<1>1. /\ p.set \in DOMAIN sets /\ p.id = p.set - 1 /\ p \in Packet
      /\ p.from \in Nat /\ p.len \in Nat \ {0} /\ l \in Nat
  BY InFlight DEF Inv, TypeOK
<1>2. /\ t.used /\ t.id = p.id
      /\ t.needed = IF p.last THEN p.from + p.len ELSE s.needed
  BY <1>1, CopiedType
<1>3. /\ slots' = [slots EXCEPT ![i] = IF Finished(t) THEN NULL ELSE t]
      /\ delivered' = IF Finished(t) THEN delivered \cup {p.set} ELSE delivered
  BY DEF Store
<1>4. /\ s.received = Cardinality(Holding(s.data, p.set))
        => t.received = Cardinality(Holding(t.data, p.set))
      /\ Holding(s.data, p.set) \subseteq Holding(t.data, p.set)
      /\ Fits(p) => Covers(p) \subseteq Holding(t.data, p.set)
  BY CopiedUnits DEF Inv
<1>5. Length(p.set)' = l
  BY DEF Length
<1> HIDE DEF t, l
<1>6. \A j \in Index : slots'[j] = IF j # i THEN slots[j]
                                   ELSE IF Finished(t) THEN NULL ELSE t
  BY <1>3 DEF Inv, TypeOK
<1>7. p.set \in delivered' \/ p.set \in dropped' \/ InSlot(p.set)'
  <2>1. CASE p.set \in delivered \/ p.set \in dropped' \/ Finished(t)
    BY <1>3, <2>1
  <2>2. CASE Fits(p) /\ Gathers(s, net, p.set, l) /\ ~ Finished(t)
    <3>1. t.received = Cardinality(Holding(t.data, p.set))
      BY <1>4, <2>2 DEF Gathers
    <3>2. t.needed = 0 => \E r \in net' : r.set = p.set /\ r.last
      <4>1. SUFFICES ASSUME t.needed = 0 PROVE \E r \in net' : r.set = p.set /\ r.last
        OBVIOUS
      <4>2. ~ p.last /\ s.needed = 0
        BY <1>1, <1>2, <4>1
      <4> QED
        BY <2>2, <4>2 DEF Gathers
    <3>3. \A u \in 0 .. l - 1 :
            \/ u \in Holding(t.data, p.set)
            \/ \E r \in net' : r.set = p.set /\ u \in Covers(r)
      BY <1>4, <2>2 DEF Gathers
    <3>4. Gathers(t, net', p.set, l)
      BY <3>1, <3>2, <3>3 DEF Gathers
    <3> QED
      BY <1>1, <1>2, <1>5, <1>6, <2>2, <3>4 DEF InSlot
  <2> QED
    BY <2>1, <2>2 DEF l
<1>8. \A k \in DOMAIN sets : k # p.set =>
        k \in delivered' \/ k \in dropped' \/ Untouched(k)' \/ InSlot(k)'
  <2>1. delivered \subseteq delivered'
    BY <1>3
  <2>2. slots'[i].used => slots'[i].id = p.id
    BY <1>2, <1>6, NullType
  <2> QED
    BY <1>6, <2>1, <2>2, OthersKept
<1> QED
  BY <1>7, <1>8 DEF ProgressInv

\* A fragment is thrown away, or was a message by itself.
LEMMA Discarding ==
    ASSUME Inv, NEW p \in net, NEW i \in Index,
           net' = net \ {p}, UNCHANGED <<fragid, sets>>,
           \/ slots' = slots
           \/ /\ slots' = [slots EXCEPT ![i] = NULL]
              /\ LostFrom(slots[i]) \subseteq dropped',
           delivered \subseteq delivered', dropped \subseteq dropped',
           p.set \in delivered' \/ p.set \in dropped', out'.whole
    PROVE  /\ NumberedInv' /\ NetInv' /\ DataInv' /\ SlotInv'
           /\ DistinctIds' /\ Intact' /\ ProgressInv'
<1>1. \A n : Length(n)' = Length(n) /\ Sent(n)' = Sent(n)
  BY DEF Length, Sent
<1>2. /\ \A j \in Index : j # i => slots'[j] = slots[j]
      /\ slots'[i] = slots[i] \/ slots'[i] = NULL
  BY DEF Inv, TypeOK
<1>3. NumberedInv' /\ NetInv'
  BY <1>1 DEF Inv, NumberedInv, NetInv
<1>4. DataInv'
  <2>1. \A j \in Index, u \in Unit :
          slots'[j].data[u] # Garbage => slots'[j].data[u] = slots[j].data[u]
    BY <1>2 DEF NULL
  <2> QED
    BY <1>1, <2>1 DEF Inv, DataInv, Covers
<1>5. \A j \in Index : slots'[j].used => slots'[j] = slots[j]
  BY <1>2, NullType
<1>6. SlotInv'
  BY <1>1, <1>5 DEF Inv, SlotInv, Holding, Finished
<1>7. DistinctIds' /\ Intact'
  BY <1>5 DEF Inv, DistinctIds, Intact
<1>8. ProgressInv'
  <2>1. \A k \in DOMAIN sets : k # p.set =>
          k \in delivered' \/ k \in dropped' \/ Untouched(k)' \/ InSlot(k)'
    <3>1. slots'[i].used => slots'[i] = slots[i]
      BY <1>5
    <3>2. slots'[i] # slots[i] => LostFrom(slots[i]) \subseteq dropped'
      OBVIOUS
    <3> QED
      BY <1>2, <3>1, <3>2, OthersKept
  <2> QED
    BY <2>1 DEF ProgressInv
<1> QED
  BY <1>3, <1>4, <1>6, <1>7, <1>8

\* A slot is found or made for a fragment and takes it.
LEMMA PartialStep ==
    ASSUME Inv, NEW p \in net, NEW i \in Index, i \in Partial(p.id),
           net' = net \ {p}, Store(i, slots[i], p),
           dropped' = IF Fits(p) THEN dropped ELSE dropped \cup {p.set},
           UNCHANGED <<fragid, sets>>
    PROVE  /\ NumberedInv' /\ NetInv' /\ DataInv' /\ SlotInv'
           /\ DistinctIds' /\ Intact' /\ ProgressInv'
<1>1. slots[i] \in Slot /\ slots[i].used /\ slots[i].id = p.id
  BY DEF Inv, TypeOK, Partial
<1>2. p.set \in DOMAIN sets /\ p.set \in SetNo /\ p.id = p.set - 1
      /\ p.id + 1 = p.set
  BY InFlight DEF Inv, SetNo
<1>3. /\ slots[i].needed \in {0, Length(p.set)}
      /\ slots[i].received <= Cardinality(Holding(slots[i].data, p.set))
  BY <1>1, <1>2 DEF Inv, SlotInv
<1>4. \A j \in Index : slots[j].used /\ slots[j].id = p.id => j = i
  BY <1>1 DEF Inv, DistinctIds
<1>5. \/ p.set \in delivered \/ p.set \in dropped'
      \/ Fits(p) /\ Gathers(slots[i], net, p.set, Length(p.set))
  <2>1. \/ p.set \in delivered \/ p.set \in dropped
        \/ Untouched(p.set) \/ InSlot(p.set)
    BY <1>2 DEF Inv, ProgressInv
  <2>2. ~ Untouched(p.set)
    BY <1>1, <1>2 DEF Untouched
  <2>3. InSlot(p.set) => Gathers(slots[i], net, p.set, Length(p.set))
    BY <1>2, <1>4 DEF InSlot
  <2> QED
    BY <2>1, <2>2, <2>3
<1>6. /\ NumberedInv' /\ NetInv' /\ DataInv' /\ SlotInv'
      /\ DistinctIds' /\ Intact'
  BY <1>1, <1>3, <1>4, Storing
<1>7. ProgressInv'
  BY <1>1, <1>5, StoringProgress
<1> QED
  BY <1>6, <1>7

LEMMA NewStep ==
    ASSUME Inv, NEW p \in net, NEW i \in Index, Partial(p.id) = {},
           net' = net \ {p}, Store(i, Renewed(slots[i], p.id), p),
           dropped' = dropped \cup (IF Fits(p) THEN {} ELSE {p.set})
                              \cup LostFrom(slots[i]),
           UNCHANGED <<fragid, sets>>
    PROVE  /\ NumberedInv' /\ NetInv' /\ DataInv' /\ SlotInv'
           /\ DistinctIds' /\ Intact' /\ ProgressInv'
<1> DEFINE s == Renewed(slots[i], p.id)
<1>1. /\ p.set \in DOMAIN sets /\ p.set \in SetNo /\ p.id = p.set - 1
      /\ p.id \in 0 .. IdMod - 1 /\ slots[i] \in Slot
      /\ Length(p.set) \in Nat \ {0} /\ sets[p.set].message \in Messages
  BY InFlight, SentFacts DEF Inv, TypeOK, Packet
<1>2. /\ s \in Slot /\ s.used /\ s.id = p.id /\ s.received = 0 /\ s.needed = 0
      /\ s.data = slots[i].data
  BY <1>1, RenewedType
<1> HIDE DEF s
<1>3. 0 <= Cardinality(Holding(s.data, p.set))
  BY CopiedUnits, <1>2 DEF Inv
<1>4. \A j \in Index : ~ (slots[j].used /\ slots[j].id = p.id)
  BY DEF Partial
<1>5. \/ p.set \in delivered \/ p.set \in dropped'
      \/ Fits(p) /\ Gathers(s, net, p.set, Length(p.set))
  <2>1. SUFFICES ASSUME p.set \notin delivered, p.set \notin dropped'
                 PROVE  Fits(p) /\ Gathers(s, net, p.set, Length(p.set))
    OBVIOUS
  <2>2. Fits(p) /\ Sent(p.set) \subseteq net
    <3>1. Fits(p) /\ p.set \notin dropped
      BY <2>1
    <3>2. ~ InSlot(p.set)
      BY <1>1, <1>4 DEF InSlot
    <3> QED
      BY <1>1, <2>1, <3>1, <3>2 DEF Inv, ProgressInv, Untouched
  <2>3. \A u \in 0 .. Length(p.set) - 1 :
          \E r \in net : r.set = p.set /\ u \in Covers(r)
    BY <1>1, <2>2, Covered, SentFacts DEF Inv, Sent, Length
  <2>4. Holding(s.data, p.set) = {}
    <3>1. SUFFICES ASSUME NEW u \in Unit, slots[i].data[u] = p.set PROVE FALSE
      BY <1>2 DEF Holding
    <3>2. /\ u < Length(p.set)
          /\ \A r \in net : r.set = p.set => u \notin Covers(r)
      BY <1>1, <3>1 DEF Inv, DataInv, SetNo, Garbage
    <3>3. u \in 0 .. Length(p.set) - 1
      BY <1>1, <3>2 DEF Unit
    <3> QED
      BY <2>3, <3>2, <3>3
  <2>5. Cardinality(Holding(s.data, p.set)) = 0
    BY <2>4, FS_EmptySet
  <2>6. PICK r \in net : r.set = p.set /\ Length(p.set) - 1 \in Covers(r)
    BY <1>1, <2>3
  <2>7. r.last
    BY <1>1, <2>6, InFlight DEF Inv, Covers
  <2> QED
    BY <1>2, <2>2, <2>3, <2>5, <2>6, <2>7 DEF Gathers
<1>6. /\ NumberedInv' /\ NetInv' /\ DataInv' /\ SlotInv'
      /\ DistinctIds' /\ Intact'
  BY <1>2, <1>3, <1>4, Storing DEF s
<1>7. ProgressInv'
  <2>1. LostFrom(slots[i]) \subseteq dropped' /\ dropped \subseteq dropped'
    OBVIOUS
  <2> QED
    BY <1>2, <1>5, <2>1, StoringProgress DEF s
<1> QED
  BY <1>6, <1>7

\* A new set, which no slot collects yet, is all in flight.
LEMMA SendStep ==
    ASSUME IdStep = 1, MaxSets <= IdMod, Inv, NEW m \in Messages, SendMsg(m)
    PROVE  /\ NumberedInv' /\ NetInv' /\ DataInv' /\ SlotInv'
           /\ DistinctIds' /\ Intact' /\ ProgressInv'
<1>0. PICK n \in Nat : n = Len(sets) + 1
  BY DEF Inv, TypeOK
<1>1. /\ Len(sets) \in Nat /\ n \in SetNo /\ DOMAIN sets = 1 .. Len(sets)
      /\ IdMod \in Nat \ {0} /\ Len(sets) < IdMod
      /\ fragid = Len(sets)
  BY <1>0, FragmentsAssumption DEF Inv, TypeOK, NumberedInv, SendMsg, SetNo
<1>2. /\ DOMAIN sets' = 1 .. n /\ Len(sets') = n
      /\ sets'[n] = [message |-> m, id |-> n - 1]
      /\ \A k \in DOMAIN sets : sets'[k] = sets[k]
  <2> DEFINE X == [message : Messages, id : 0 .. IdMod - 1]
             e == [message |-> m, id |-> fragid]
  <2>1. sets \in Seq(X) /\ e \in X /\ sets' = Append(sets, e)
    BY DEF Inv, TypeOK, SendMsg
  <2>2. e = [message |-> m, id |-> n - 1]
    BY <1>0, <1>1
  <2> HIDE DEF X, e
  <2> QED
    BY <1>0, <1>1, <2>1, <2>2
<1>3. net' = net \cup Packets(n, m, n - 1) /\ UNCHANGED <<slots, out, delivered, dropped>>
  BY <1>0, <1>1 DEF SendMsg
<1>4. n \notin DOMAIN sets /\ DOMAIN sets \subseteq DOMAIN sets' /\ n \in DOMAIN sets'
      /\ \A k \in DOMAIN sets' : k = n \/ k \in DOMAIN sets
  BY <1>0, <1>1, <1>2
<1>5. \A k \in DOMAIN sets : Length(k)' = Length(k) /\ Sent(k)' = Sent(k)
  BY <1>2 DEF Length, Sent
<1>6. Sent(n)' = Packets(n, m, n - 1)
  BY <1>2 DEF Sent
<1>7. \A p \in Packets(n, m, n - 1) : p.set = n
  BY DEF Packets
<1>8. NumberedInv'
  <2>1. \A k \in DOMAIN sets' : sets'[k].id = k - 1
    BY <1>2, <1>4 DEF Inv, NumberedInv
  <2>2. n < IdMod => fragid' = n
    BY <1>0, <1>1 DEF SendMsg, NextId
  <2> QED
    BY <1>2, <2>1, <2>2 DEF NumberedInv
<1>9. NetInv'
  BY <1>3, <1>4, <1>5, <1>6, <1>7 DEF Inv, NetInv
<1>10. DataInv'
  BY <1>3, <1>4, <1>5, <1>7 DEF Inv, DataInv, Covers
<1>11. SlotInv'
  BY <1>3, <1>4, <1>5 DEF Inv, SlotInv, Holding, Finished
<1>12. DistinctIds' /\ Intact'
  BY <1>3 DEF Inv, DistinctIds, Intact
<1>13. ProgressInv'
  <2>1. ASSUME NEW k \in DOMAIN sets
        PROVE  k \in delivered' \/ k \in dropped' \/ Untouched(k)' \/ InSlot(k)'
    <3>1. CASE Untouched(k)
      BY <1>3, <1>5, <3>1 DEF Untouched
    <3>2. CASE InSlot(k)
      BY <1>3, <1>5, <3>2 DEF InSlot, Gathers
    <3> QED
      BY <1>3, <3>1, <3>2 DEF Inv, ProgressInv
  <2>2. Untouched(n)'
    <3>1. ASSUME NEW i \in Index, slots[i].used PROVE slots[i].id # n - 1
      <4>1. slots[i].id + 1 \in DOMAIN sets /\ slots[i].id \in Nat
        BY <3>1 DEF Inv, SlotInv, TypeOK, Slot
      <4> QED
        BY <1>0, <1>1, <4>1
    <3> QED
      BY <1>3, <1>6, <3>1 DEF Untouched
  <2> QED
    BY <1>4, <2>1, <2>2 DEF ProgressInv
<1> QED
  BY <1>8, <1>9, <1>10, <1>11, <1>12, <1>13

LEMMA TickStep ==
    ASSUME Inv, Tick
    PROVE  /\ NumberedInv' /\ NetInv' /\ DataInv' /\ SlotInv'
           /\ DistinctIds' /\ Intact' /\ ProgressInv'
<1>1. UNCHANGED <<fragid, sets, net, out, delivered, dropped>>
  BY DEF Tick
<1>2. ASSUME NEW i \in Index
      PROVE  /\ slots'[i].used = slots[i].used /\ slots'[i].id = slots[i].id
             /\ slots'[i].received = slots[i].received
             /\ slots'[i].needed = slots[i].needed
             /\ slots'[i].data = slots[i].data
  <2>1. slots[i] \in Slot
    BY DEF Inv, TypeOK
  <2> QED
    BY <2>1 DEF Tick, Slot
<1>3. \A k : Length(k)' = Length(k) /\ Sent(k)' = Sent(k)
  BY <1>1 DEF Length, Sent
<1>4. NumberedInv' /\ NetInv' /\ Intact'
  BY <1>1, <1>3 DEF Inv, NumberedInv, NetInv, Intact
<1>5. DataInv'
  BY <1>1, <1>2, <1>3 DEF Inv, DataInv, Covers
<1>6. SlotInv'
  BY <1>1, <1>2, <1>3 DEF Inv, SlotInv, Holding, Finished
<1>7. DistinctIds'
  BY <1>2 DEF Inv, DistinctIds
<1>8. ProgressInv'
  <2>1. \A k \in DOMAIN sets : Untouched(k) => Untouched(k)'
    BY <1>1, <1>2, <1>3 DEF Untouched
  <2>2. ASSUME NEW k \in DOMAIN sets, InSlot(k) PROVE InSlot(k)'
    <3>1. PICK i \in Index : /\ slots[i].used /\ slots[i].id = k - 1
                             /\ Gathers(slots[i], net, k, Length(k))
      BY <2>2 DEF InSlot
    <3>2. Gathers(slots'[i], net', k, Length(k)')
      BY <1>1, <1>2, <1>3, <3>1 DEF Gathers
    <3> QED
      BY <1>2, <3>1, <3>2 DEF InSlot
  <2> QED
    BY <1>1, <2>1, <2>2 DEF Inv, ProgressInv
<1> QED
  BY <1>4, <1>5, <1>6, <1>7, <1>8

LEMMA InvInit == Init => Inv
<1> SUFFICES ASSUME Init PROVE Inv
  OBVIOUS
<1>1. \A i \in Index : ~ slots[i].used /\ \A u \in Unit : slots[i].data[u] = Garbage
  BY DEF Init, NULL
<1>2. DOMAIN sets = {} /\ Len(sets) = 0
  BY DEF Init
<1>3. NumberedInv /\ NetInv /\ ProgressInv
  BY <1>2 DEF Init, NumberedInv, NetInv, ProgressInv
<1>4. DataInv /\ SlotInv /\ DistinctIds
  BY <1>1 DEF DataInv, SlotInv, DistinctIds
<1>5. Intact
  BY DEF Init, Intact, Nothing
<1> QED
  BY <1>3, <1>4, <1>5, TypeInit DEF Inv

LEMMA InvNext ==
    ASSUME IdStep = 1, MaxSets <= IdMod
    PROVE  Inv /\ [Next]_vars => Inv'
<1> SUFFICES ASSUME Inv, [Next]_vars PROVE Inv'
  OBVIOUS
<1> DEFINE Goal == /\ NumberedInv' /\ NetInv' /\ DataInv' /\ SlotInv'
                   /\ DistinctIds' /\ Intact' /\ ProgressInv'
<1>1. TypeOK'
  BY TypeInvariant DEF Inv
<1> SUFFICES Goal
  BY <1>1 DEF Inv
<1>2. CASE SendNext
  BY <1>2, SendStep DEF SendNext
<1>3. CASE AddToPartial
  BY <1>3, PartialStep DEF AddToPartial, IsLowest
<1>4. CASE AddToNew
  BY <1>4, NewStep DEF AddToNew
<1>5. 0 \in Index
  BY FragmentsAssumption DEF Index
<1>6. out.whole
  BY DEF Inv, Intact
<1>7. CASE NoSpace
  BY <1>5, <1>6, <1>7, Discarding DEF NoSpace
<1>8. CASE NoMemory
  <2>1. PICK p \in net, i \in Index :
          /\ net' = net \ {p}
          /\ slots' = [slots EXCEPT ![i] = NULL]
          /\ dropped' = dropped \cup {p.set} \cup LostFrom(slots[i])
          /\ UNCHANGED <<fragid, sets, out, delivered>>
    BY <1>8 DEF NoMemory
  <2>2. /\ LostFrom(slots[i]) \subseteq dropped' /\ dropped \subseteq dropped'
        /\ p.set \in dropped'
    BY <2>1
  <2> QED
    BY <1>6, <2>1, <2>2, Discarding
<1>9. CASE NotFragmented
  BY <1>5, <1>9, Discarding DEF NotFragmented
<1>10. CASE Tick
  BY <1>10, TickStep
<1>11. CASE UNCHANGED vars
  <2>1. UNCHANGED <<fragid, sets, net, slots, out, delivered, dropped>>
    BY <1>11 DEF vars
  <2>2. \A k : Length(k)' = Length(k) /\ Sent(k)' = Sent(k)
    BY <2>1 DEF Length, Sent
  <2>3. \A k : Untouched(k)' = Untouched(k) /\ InSlot(k)' = InSlot(k)
    BY <2>1, <2>2 DEF Untouched, InSlot
  <2>4. NumberedInv' /\ NetInv' /\ Intact' /\ DistinctIds'
    BY <2>1, <2>2 DEF Inv, NumberedInv, NetInv, Intact, DistinctIds
  <2>5. DataInv' /\ SlotInv'
    BY <2>1, <2>2 DEF Inv, DataInv, SlotInv, Finished
  <2>6. ProgressInv'
    BY <2>1, <2>3 DEF Inv, ProgressInv
  <2> QED
    BY <2>4, <2>5, <2>6
<1> QED
  BY <1>2, <1>3, <1>4, <1>7, <1>8, <1>9, <1>10, <1>11 DEF Next, FragmanAdd

\* A set that has arrived has been put together.
LEMMA InvComplete == Inv => Complete
<1> SUFFICES ASSUME Inv, NEW k \in DOMAIN sets, \A p \in net : p.set # k,
                    k \notin dropped, k \notin delivered
             PROVE  FALSE
  BY DEF Complete
<1>1. /\ Length(k) \in Nat \ {0} /\ k \in SetNo /\ sets[k].message \in Messages
      /\ k - 1 \in 0 .. IdMod - 1
      /\ \A p \in Sent(k) : p.set = k
  BY SentFacts DEF Inv
<1>2. CASE Untouched(k)
  <2>1. 0 \in 0 .. LengthOf[sets[k].message] - 1
    BY <1>1 DEF Length
  <2>2. \E p \in Sent(k) : 0 \in Covers(p)
    BY <1>1, <2>1, Covered DEF Sent
  <2> QED
    BY <1>1, <1>2, <2>2 DEF Untouched
<1>3. CASE InSlot(k)
  <2>1. PICK i \in Index : /\ slots[i].used /\ slots[i].id = k - 1
                           /\ Gathers(slots[i], net, k, Length(k))
    BY <1>3 DEF InSlot
  <2> DEFINE S == Holding(slots[i].data, k)
  <2>2. /\ slots[i].received = Cardinality(S) /\ slots[i].needed # 0
        /\ \A u \in 0 .. Length(k) - 1 : u \in S
    BY <2>1 DEF Gathers
  <2>3. slots[i].needed = Length(k) /\ ~ Finished(slots[i])
    BY <1>1, <2>1, <2>2 DEF Inv, SlotInv, SetNo
  <2>4. S \in SUBSET Unit
    BY DEF Holding
  <2> HIDE DEF S
  <2>5. Length(k) <= Cardinality(S)
    <3> DEFINE N == 0 .. Length(k) - 1
    <3>1. IsFiniteSet(S) /\ Cardinality(S) \in Nat
      BY <2>4, Countable
    <3>2. N \in SUBSET S
      BY <2>2
    <3>3. Cardinality(N) = Length(k)
      <4>1. /\ 0 \in Int /\ Length(k) - 1 \in Int /\ ~ 0 > Length(k) - 1
            /\ (Length(k) - 1) - 0 + 1 = Length(k)
        BY <1>1
      <4> QED
        BY <4>1, FS_Interval
    <3> HIDE DEF N
    <3>4. Cardinality(N) <= Cardinality(S)
      BY <3>1, <3>2, FS_Subset
    <3> QED
      BY <3>3, <3>4
  <2> QED
    BY <1>1, <2>2, <2>3, <2>5 DEF Finished
<1> QED
  BY <1>2, <1>3 DEF Inv, ProgressInv

LEMMA InvHolds ==
    ASSUME IdStep = 1, MaxSets <= IdMod
    PROVE  Spec => []Inv
<1>1. Inv /\ [Next]_vars => Inv'
  BY InvNext
<1> QED
  BY <1>1, InvInit, PTL DEF Spec

\* If the peer numbers its sets, what fragman_add returns is one message,
\* from its start to its end, in whatever order the fragments arrive,
\* whichever are lost and whatever the buffer held before.
THEOREM ReturnsWhole ==
    ASSUME IdStep = 1, MaxSets <= IdMod
    PROVE  Spec => []Intact
<1>1. Inv => Intact
  BY DEF Inv
<1> QED
  BY <1>1, InvHolds, PTL

\* A set all of whose fragments have been taken from the network is
\* returned, unless fragman had no room for one or gave its slot away.
THEOREM ReturnsAll ==
    ASSUME IdStep = 1, MaxSets <= IdMod
    PROVE  Spec => []Complete
  BY InvComplete, InvHolds, PTL

\* No two slots collect the same set.
THEOREM SlotsDistinct ==
    ASSUME IdStep = 1, MaxSets <= IdMod
    PROVE  Spec => []DistinctIds
<1>1. Inv => DistinctIds
  BY DEF Inv
<1> QED
  BY <1>1, InvHolds, PTL

------------------------------------------------------------------------------
(* The ring. *)

\* i is the slot d places behind slot r of the ring, going round once.
Dist(r, i, d) == i - r = d \/ i - r + QSize = d

\* The indices and the counts.
IndexInv ==
    /\ nview <= nget /\ nget <= nput
    /\ nview = 0 <=> rview = -1
    /\ nget = 0 <=> qrpos = -1
    /\ Dist(qrpos, qwpos, nput - nget + 1)
    /\ Dist(rview, qwpos, nput - nview + 1)
    /\ rview = -1 => nput <= StartBurst
    /\ rview # -1 => nput - nview < QSize

\* The waiting packets are where the indices say.
ContentInv ==
    /\ \A s \in Slots : \A k \in nget + 1 .. nput :
           Dist(qrpos, s, k - nget) => q[s] = k
    /\ cpc = "advanced" => qrpos # -1 /\ q[qrpos] = nget

\* got is the last piece of packet n.
AllOf(n) == got[1] = n /\ (n # None => got[2] = PiecesOf[n])

\* What has been read.
ReadInv ==
    /\ cur = None /\ cpc # "advanced" => AllOf(nget)
    /\ cpc = "advanced" => cur = None /\ nget > 0 /\ AllOf(nget - 1)
    /\ cpc = "woken" => cur = None
    /\ cur # None => /\ cur = nget
                     /\ curpos < PiecesOf[cur]
                     /\ IF curpos = 0 THEN AllOf(cur - 1)
                                      ELSE got = <<cur, curpos>>

QueueInv == QueueTypeOK /\ IndexInv /\ ContentInv /\ SemaphoreExact /\ ReadInv

------------------------------------------------------------------------------
USE QueueAssumption

LEMMA QueueInitInv == QueueInit => QueueInv
  BY DEF QueueInit, QueueInv, QueueTypeOK, IndexInv, ContentInv, SemaphoreExact, ReadInv,
         AllOf, Dist, Slots, PacketNumber, None

\* A packet that is not refused goes to a slot that holds no waiting packet
\* and is not being read.
LEMMA FreeSlot ==
    ASSUME QueueInv, Arrival, ~ Full(Wrap(qwpos)), StartBurst <= QSize
    PROVE  /\ Wrap(qwpos) \in Slots
           /\ Wrap(qwpos) # qrpos
           /\ Dist(qrpos, Wrap(qwpos), nput + 1 - nget)
           /\ nput + 1 - nget <= QSize
           /\ rview = -1 => nput + 1 <= StartBurst
           /\ rview # -1 => nput + 1 - nview < QSize
           /\ Dist(rview, Wrap(qwpos) + 1, nput + 1 - nview + 1)
           /\ Dist(qrpos, Wrap(qwpos) + 1, nput + 1 - nget + 1)
  BY DEF QueueInv, QueueTypeOK, IndexInv, Arrival, Full, Wrap, Dist, Slots

\* Dist is a function of the slot: two different waiting packets are in two
\* different slots.
LEMMA DistInjective ==
    ASSUME NEW r \in -1 .. QSize - 1, NEW s \in Slots,
           NEW d \in 1 .. QSize, NEW e \in 1 .. QSize,
           r # -1 => d < QSize /\ e < QSize,
           Dist(r, s, d), Dist(r, s, e)
    PROVE  d = e
  BY DEF Dist, Slots

\* The slot the consumer takes next is the one that is one place on.
LEMMA NextSlot ==
    ASSUME QueueInv, cpc = "woken"
    PROVE  /\ Wrap(qrpos + 1) \in Slots
           /\ Dist(qrpos, Wrap(qrpos + 1), 1)
           /\ nget + 1 \in nget + 1 .. nput
           /\ q[Wrap(qrpos + 1)] = nget + 1
  <1>1. Wrap(qrpos + 1) \in Slots /\ Dist(qrpos, Wrap(qrpos + 1), 1)
    BY DEF QueueInv, QueueTypeOK, Wrap, Dist, Slots
  <1>2. nget + 1 \in nget + 1 .. nput
    BY DEF QueueInv, QueueTypeOK, SemaphoreExact, PacketNumber
  <1>3. Dist(qrpos, Wrap(qrpos + 1), (nget + 1) - nget)
    BY <1>1 DEF QueueInv, QueueTypeOK
  <1> QED
    BY <1>1, <1>2, <1>3 DEF QueueInv, ContentInv

------------------------------------------------------------------------------
LEMMA LoadQrposInv ==
    ASSUME QueueInv, LoadQrpos, StartBurst <= QSize
    PROVE  QueueInv'
  <1>1. QueueTypeOK' /\ SemaphoreExact' /\ ReadInv'
    BY DEF QueueInv, LoadQrpos, QueueTypeOK, SemaphoreExact, ReadInv, AllOf
  <1>2. IndexInv'
    BY DEF QueueInv, LoadQrpos, QueueTypeOK, IndexInv, Dist, PacketNumber
  <1>3. ContentInv'
    BY DEF QueueInv, LoadQrpos, ContentInv, Dist
  <1> QED
    BY <1>1, <1>2, <1>3 DEF QueueInv

LEMMA AddPacketInv ==
    ASSUME QueueInv, AddPacket, StartBurst <= QSize
    PROVE  QueueInv'
  <1> DEFINE w == Wrap(qwpos)
  <1>1. /\ w \in Slots /\ w # qrpos
        /\ Dist(qrpos, w, nput + 1 - nget)
        /\ nput + 1 - nget <= QSize
        /\ rview = -1 => nput + 1 <= StartBurst
        /\ rview # -1 => nput + 1 - nview < QSize
        /\ Dist(rview, w + 1, nput + 1 - nview + 1)
        /\ Dist(qrpos, w + 1, nput + 1 - nget + 1)
    BY FreeSlot DEF AddPacket
  <1>2. QueueTypeOK'
    <2>1. nput + 1 \in PacketNumber /\ nput' \in 0 .. MaxPackets
      BY DEF QueueInv, AddPacket, Arrival, QueueTypeOK, PacketNumber
    <2>2. q' \in [Slots -> PacketNumber \cup {None}]
      <3>1. q \in [Slots -> PacketNumber \cup {None}]
        BY DEF QueueInv, QueueTypeOK
      <3> QED
        BY <1>1, <2>1, <3>1, Zenon DEF AddPacket
    <2>3. qwpos' \in 0 .. QSize
      BY <1>1 DEF AddPacket, Slots
    <2> QED
      BY <2>1, <2>2, <2>3 DEF QueueInv, AddPacket, QueueTypeOK
  <1>3. IndexInv'
    BY <1>1 DEF QueueInv, AddPacket, QueueTypeOK, IndexInv, Dist
  <1>4. ContentInv'
    <2>1. ASSUME NEW s \in Slots, NEW k \in nget + 1 .. nput + 1,
                 Dist(qrpos, s, k - nget)
          PROVE  q'[s] = k
      <3>1. CASE s = w
        <4>1. qrpos # -1 => nput + 1 - nget < QSize
          BY <1>1 DEF QueueInv, QueueTypeOK, IndexInv, PacketNumber
        <4>2. k - nget = nput + 1 - nget
          BY <1>1, <2>1, <3>1, <4>1, DistInjective
             DEF QueueInv, QueueTypeOK, PacketNumber
        <4>3. k = nput + 1
          BY <4>2 DEF QueueInv, QueueTypeOK
        <4> QED
          BY <3>1, <4>3, <1>1 DEF QueueInv, AddPacket, QueueTypeOK
      <3>2. CASE s # w
        <4>1. k # nput + 1
          BY <1>1, <2>1, <3>2 DEF QueueInv, QueueTypeOK, Dist, Slots
        <4> QED
          BY <2>1, <3>2, <4>1 DEF QueueInv, AddPacket, QueueTypeOK, ContentInv
      <3> QED
        BY <3>1, <3>2
    <2>2. cpc = "advanced" => q'[qrpos] = nget
      BY <1>1 DEF QueueInv, AddPacket, QueueTypeOK, ContentInv, Slots
    <2> QED
      BY <2>1, <2>2 DEF QueueInv, AddPacket, ContentInv, Dist
  <1>5. SemaphoreExact'
    BY DEF QueueInv, AddPacket, Arrival, QueueTypeOK, SemaphoreExact
  <1>6. ReadInv'
    BY DEF QueueInv, AddPacket, ReadInv, AllOf
  <1> QED
    BY <1>2, <1>3, <1>4, <1>5, <1>6 DEF QueueInv

LEMMA AddNoMemoryInv ==
    ASSUME QueueInv, AddNoMemory, StartBurst <= QSize
    PROVE  QueueInv'
  <1>1. /\ Wrap(qwpos) \in Slots /\ Wrap(qwpos) # qrpos
        /\ Dist(qrpos, Wrap(qwpos), nput + 1 - nget)
        /\ nput + 1 - nget <= QSize
    BY FreeSlot DEF AddNoMemory
  <1>2. QueueTypeOK' /\ IndexInv' /\ SemaphoreExact' /\ ReadInv'
    BY <1>1 DEF QueueInv, AddNoMemory, counts, QueueTypeOK, IndexInv, SemaphoreExact,
                ReadInv, AllOf, Dist, Slots, None
  <1>3. ContentInv'
    <2>1. ASSUME NEW s \in Slots, NEW k \in nget + 1 .. nput,
                 Dist(qrpos, s, k - nget)
          PROVE  q'[s] = k
      <3>1. s # Wrap(qwpos)
        BY <1>1, <2>1 DEF QueueInv, QueueTypeOK, IndexInv, Dist, Slots, PacketNumber
      <3> QED
        BY <2>1, <3>1 DEF QueueInv, AddNoMemory, QueueTypeOK, ContentInv
    <2>2. cpc = "advanced" => q'[qrpos] = nget
      BY <1>1 DEF QueueInv, AddNoMemory, QueueTypeOK, ContentInv, Slots
    <2> QED
      BY <2>1, <2>2 DEF QueueInv, AddNoMemory, counts, ContentInv, Dist
  <1> QED
    BY <1>2, <1>3 DEF QueueInv

LEMMA AddPostInv == ASSUME QueueInv, AddPost PROVE QueueInv'
  <1>1. QueueTypeOK' /\ SemaphoreExact'
    BY DEF QueueInv, AddPost, counts, QueueTypeOK, SemaphoreExact
  <1>2. IndexInv' /\ ContentInv' /\ ReadInv'
    BY DEF QueueInv, AddPost, counts, IndexInv, ContentInv, ReadInv, AllOf, Dist
  <1> QED
    BY <1>1, <1>2 DEF QueueInv

LEMMA GetWaitInv == ASSUME QueueInv, GetWait PROVE QueueInv'
  <1>1. QueueTypeOK' /\ SemaphoreExact'
    BY DEF QueueInv, GetWait, counts, QueueTypeOK, SemaphoreExact
  <1>2. IndexInv' /\ ContentInv'
    BY DEF QueueInv, GetWait, counts, IndexInv, ContentInv, Dist
  <1>3. ReadInv'
    BY DEF QueueInv, GetWait, counts, QueueTypeOK, ReadInv, AllOf
  <1> QED
    BY <1>1, <1>2, <1>3 DEF QueueInv

LEMMA GetAdvanceInv == ASSUME QueueInv, GetAdvance PROVE QueueInv'
  <1>1. /\ Wrap(qrpos + 1) \in Slots
        /\ Dist(qrpos, Wrap(qrpos + 1), 1)
        /\ nget + 1 <= nput
        /\ q[Wrap(qrpos + 1)] = nget + 1
    BY NextSlot DEF GetAdvance, QueueInv, QueueTypeOK
  <1>2. QueueTypeOK' /\ SemaphoreExact'
    BY <1>1 DEF QueueInv, GetAdvance, QueueTypeOK, SemaphoreExact, Slots
  <1>3. IndexInv'
    BY <1>1 DEF QueueInv, GetAdvance, Wrap, QueueTypeOK, IndexInv, Dist, Slots,
                  PacketNumber
  <1>4. ContentInv'
    <2>1. ASSUME NEW s \in Slots, NEW k \in nget + 2 .. nput,
                 Dist(qrpos', s, k - (nget + 1))
          PROVE  q[s] = k
      <3>1. Dist(qrpos, s, k - nget)
        BY <2>1 DEF QueueInv, GetAdvance, Wrap, QueueTypeOK, IndexInv, Dist, Slots,
                    PacketNumber
      <3> QED
        BY <2>1, <3>1 DEF QueueInv, QueueTypeOK, ContentInv
    <2>2. qrpos' # -1 /\ q'[qrpos'] = nget'
      BY <1>1 DEF GetAdvance, Slots
    <2>3. nget' + 1 = nget + 2
      BY DEF QueueInv, QueueTypeOK, GetAdvance
    <2> QED
      BY <2>1, <2>2, <2>3 DEF GetAdvance, ContentInv, Dist
  <1>5. ReadInv'
    BY DEF QueueInv, GetAdvance, QueueTypeOK, ReadInv, AllOf
  <1> QED
    BY <1>2, <1>3, <1>4, <1>5 DEF QueueInv

LEMMA GetFetchInv == ASSUME QueueInv, GetFetch PROVE QueueInv'
  <1>1. nget \in PacketNumber /\ q[qrpos] = nget
    BY DEF QueueInv, GetFetch, QueueTypeOK, ContentInv, ReadInv, IndexInv, PacketNumber
  <1>2. QueueTypeOK' /\ SemaphoreExact'
    BY <1>1 DEF QueueInv, GetFetch, counts, ring, QueueTypeOK, SemaphoreExact
  <1>3. IndexInv' /\ ContentInv'
    BY DEF QueueInv, GetFetch, counts, ring, IndexInv, ContentInv, Dist
  <1>4. ReadInv'
    BY <1>1 DEF QueueInv, GetFetch, counts, ring, QueueTypeOK, ReadInv, AllOf, None,
                PacketNumber
  <1> QED
    BY <1>2, <1>3, <1>4 DEF QueueInv

LEMMA ReadPieceInv == ASSUME QueueInv, ReadPiece PROVE QueueInv'
  <1>1. cur \in PacketNumber /\ PiecesOf[cur] \in Nat /\ curpos < PiecesOf[cur]
    BY DEF QueueInv, ReadPiece, QueueTypeOK, ReadInv, PacketNumber
  <1>2. QueueTypeOK' /\ SemaphoreExact'
    BY <1>1 DEF QueueInv, ReadPiece, counts, ring, QueueTypeOK, SemaphoreExact
  <1>3. IndexInv' /\ ContentInv'
    BY DEF QueueInv, ReadPiece, counts, ring, IndexInv, ContentInv, Dist
  <1>4. ReadInv'
    BY <1>1 DEF QueueInv, ReadPiece, counts, ring, QueueTypeOK, ReadInv, AllOf, None,
                PacketNumber
  <1> QED
    BY <1>2, <1>3, <1>4 DEF QueueInv

LEMMA QueueNextInv ==
    StartBurst <= QSize /\ QueueInv /\ [QueueNext]_queueVars => QueueInv'
  <1> SUFFICES ASSUME StartBurst <= QSize, QueueInv, [QueueNext]_queueVars PROVE QueueInv'
    OBVIOUS
  <1>1. CASE LoadQrpos      BY <1>1, LoadQrposInv
  <1>2. CASE AddPacket      BY <1>2, AddPacketInv
  <1>3. CASE AddNoMemory    BY <1>3, AddNoMemoryInv
  <1>4. CASE AddPost        BY <1>4, AddPostInv
  <1>5. CASE GetWait        BY <1>5, GetWaitInv
  <1>6. CASE GetAdvance     BY <1>6, GetAdvanceInv
  <1>7. CASE GetFetch       BY <1>7, GetFetchInv
  <1>8. CASE ReadPiece      BY <1>8, ReadPieceInv
  <1>9. CASE UNCHANGED queueVars
    BY <1>9 DEF QueueInv, queueVars, QueueTypeOK, IndexInv, ContentInv, SemaphoreExact,
                ReadInv, AllOf, Dist
  <1> QED
    BY <1>1, <1>2, <1>3, <1>4, <1>5, <1>6, <1>7, <1>8, <1>9 DEF QueueNext, Consumer

\* The invariant holds in every behaviour.
THEOREM QueueInvariance == ASSUME StartBurst <= QSize PROVE QueueSpec => []QueueInv
  BY QueueInitInv, QueueNextInv, PTL DEF QueueSpec

\* The variables stay in their types.
THEOREM QueueTypeCorrect == ASSUME StartBurst <= QSize PROVE QueueSpec => []QueueTypeOK
  <1>1. QueueInv => QueueTypeOK BY DEF QueueInv
  <1> QED BY <1>1, QueueInvariance, PTL

\* conn_q_add_packet never overwrites the slot conn_q_get_packet is about to
\* read or has just released.
THEOREM SlotSafe == ASSUME StartBurst <= QSize PROVE QueueSpec => []SlotNotReused
  <1>1. QueueInv => SlotNotReused
    BY NextSlot DEF QueueInv, ContentInv, SlotNotReused
  <1> QED BY <1>1, QueueInvariance, PTL

\* The semaphore counts the waiting packets.
THEOREM SemaphoreCounts ==
    ASSUME StartBurst <= QSize PROVE QueueSpec => []SemaphoreExact
  <1>1. QueueInv => SemaphoreExact BY DEF QueueInv
  <1> QED BY <1>1, QueueInvariance, PTL

\* No more packets wait than there are slots.
THEOREM BuffersBounded ==
    ASSUME StartBurst <= QSize PROVE QueueSpec => []NoMoreThanBuffers
  <1>1. QueueInv => NoMoreThanBuffers
    BY DEF QueueInv, QueueTypeOK, IndexInv, NoMoreThanBuffers, PacketNumber
  <1> QED BY <1>1, QueueInvariance, PTL

\* Reads return every accepted packet, whole and in order.
THEOREM InOrder == ASSUME StartBurst <= QSize PROVE QueueSpec => StreamInOrder
  <1>1. QueueInv /\ [QueueNext]_queueVars => [Follows(got, got')]_got
    <2> SUFFICES ASSUME QueueInv, ReadPiece PROVE Follows(got, got')
      BY DEF QueueNext, Consumer, queueVars, LoadQrpos, AddPacket, AddNoMemory, AddPost,
             GetWait, GetAdvance, GetFetch
    <2>1. cur \in PacketNumber /\ cur = nget /\ nget \in Nat
      BY DEF QueueInv, QueueTypeOK, ReadPiece, ReadInv
    <2>2. CASE curpos = 0
      BY <2>1, <2>2 DEF QueueInv, QueueTypeOK, ReadPiece, ReadInv, AllOf, Follows,
                        PacketNumber, None
    <2>3. CASE curpos # 0
      BY <2>1, <2>3 DEF QueueInv, QueueTypeOK, ReadPiece, ReadInv, Follows, PacketNumber
    <2> QED BY <2>2, <2>3
  <1> QED BY <1>1, QueueInvariance, PTL DEF QueueSpec, StreamInOrder

------------------------------------------------------------------------------
(* The ring implements the bounded queue. *)

LEMMA NonEmpty ==
    ASSUME NEW S, NEW s \in Seq(S), Len(s) > 0
    PROVE  s # <<>> /\ Head(s) = s[1]
  OBVIOUS

\* The k-th waiting packet is packet number nget + k.
LEMMA WaitingIs ==
    ASSUME QueueInv, StartBurst <= QSize
    PROVE  /\ Waiting = [k \in 1 .. nput - nget |-> nget + k]
           /\ nput - nget \in 0 .. QSize
  <1>a. nput - nget \in 0 .. QSize /\ (qrpos # -1 => nput - nget < QSize)
    BY DEF QueueInv, QueueTypeOK, IndexInv, PacketNumber
  <1> SUFFICES ASSUME NEW k \in 1 .. nput - nget
               PROVE  q[Behind(k)] = nget + k
    BY <1>a DEF Waiting
  <1>1. k \in Nat /\ k <= QSize /\ (qrpos # -1 => k < QSize)
    BY <1>a DEF QueueInv, QueueTypeOK, PacketNumber
  <1>2. Behind(k) \in Slots /\ Dist(qrpos, Behind(k), (nget + k) - nget)
    BY <1>1 DEF QueueInv, QueueTypeOK, Behind, Dist, Slots
  <1>3. nget + k \in nget + 1 .. nput
    BY DEF QueueInv, QueueTypeOK
  <1> QED BY <1>2, <1>3 DEF QueueInv, ContentInv

\* Every behaviour of the ring, seen through Waiting, is one of the queue.
THEOREM Refinement == ASSUME StartBurst <= QSize PROVE QueueSpec => ImplementsFifo
  <1>1. QueueInit => Fifo!Init
    BY DEF QueueInit, Fifo!Init, Waiting, PacketNumber
  <1> DEFINE W == /\ Waiting = [k \in 1 .. nput - nget |-> nget + k]
                  /\ nput - nget \in 0 .. QSize
  <1>a. QueueInv => W
    BY WaitingIs
  <1>2. W /\ W' /\ QueueInv /\ QueueInv' /\ [QueueNext]_queueVars
          => [Fifo!Next]_(Fifo!vars)
    <2> SUFFICES ASSUME W, W', QueueInv, QueueInv', [QueueNext]_queueVars
                 PROVE  [Fifo!Next]_(Fifo!vars)
      OBVIOUS
    <2>1. /\ Waiting = [k \in 1 .. nput - nget |-> nget + k]
          /\ Waiting' = [k \in 1 .. nput' - nget' |-> nget' + k]
          /\ nput' - nget' <= QSize
      OBVIOUS
    <2>2. nget \in Nat /\ nput \in Nat /\ nget <= nput
      BY DEF QueueInv, QueueTypeOK, IndexInv, PacketNumber
    <2>3. CASE UNCHANGED <<nput, nget>>
      BY <2>1, <2>3 DEF Fifo!vars
    <2>4. CASE AddPacket
      <3>1. nput' = nput + 1 /\ nget' = nget /\ nput + 1 \in PacketNumber
        BY <2>4 DEF AddPacket, Arrival, QueueInv, QueueTypeOK, PacketNumber
      <3>2. Waiting' = Append(Waiting, nput + 1)
        BY <2>1, <2>2, <3>1
      <3>3. Len(Waiting) < QSize
        BY <2>1, <2>2, <3>1
      <3> QED
        BY <3>1, <3>2, <3>3 DEF Fifo!Next, Fifo!Put
    <2>5. CASE GetAdvance
      <3>1. nput' = nput /\ nget' = nget + 1 /\ nget < nput
        BY <2>5, NextSlot DEF GetAdvance, QueueInv, QueueTypeOK
      <3>2. Waiting # <<>> /\ Head(Waiting) = nget + 1
        <4>1. Waiting \in Seq(Nat) /\ Len(Waiting) = nput - nget
          BY <2>1, <2>2, <3>1
        <4>2. Waiting # <<>> /\ Head(Waiting) = Waiting[1]
          <5>1. Len(Waiting) > 0
            BY <4>1, <2>2, <3>1
          <5> HIDE DEF W
          <5> QED
            BY <4>1, <5>1, NonEmpty, Zenon
        <4>3. Waiting[1] = nget + 1
          BY <2>1, <2>2, <3>1
        <4> QED
          BY <4>2, <4>3
      <3>3. Waiting' = Tail(Waiting)
        BY <2>1, <2>2, <3>1
      <3> QED
        BY <3>1, <3>2, <3>3 DEF Fifo!Next, Fifo!Take
    <2> QED
      BY <2>3, <2>4, <2>5
         DEF QueueNext, Consumer, queueVars, LoadQrpos, AddNoMemory, AddPost, GetWait,
             GetFetch, ReadPiece, counts
  <1> QED
    BY <1>1, <1>a, <1>2, QueueInvariance, PTL DEF QueueSpec, ImplementsFifo, Fifo!Spec
==============================================================================
