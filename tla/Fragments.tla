------------------------------ MODULE Fragments ------------------------------
(***************************************************************************)
(* Fragmentation of control messages: cw_send_msg (src/cw/send.c) cuts a   *)
(* message into a set of fragments, fragman_add (src/cw/fragman.c) puts    *)
(* the fragments that arrive together again.                               *)
(*                                                                         *)
(* Lengths and offsets count units of eight bytes, which is what both      *)
(* payload sizes are multiples of.  A unit of payload is represented by    *)
(* the number of the set it was sent in.  Between sender and receiver is   *)
(* DTLS: a fragment arrives at most once, or never, and in any order.      *)
(***************************************************************************)
EXTENDS Integers, Sequences

CONSTANTS First,     \* payload of the first fragment: mtu - hlen
          Rest,      \* payload of the others: mtu - 8
          IdStep,    \* 0: this program's cw_send_msg, which never changes
                     \* fragid; 1: a peer that numbers its sets
          IdMod,     \* fragment ids (2^16)
          MaxIds,    \* FRAG_MAXIDS
          Ttl,       \* FRAG_TTL
          MaxSize,   \* FRAG_MAXSIZE
          LengthOf,  \* length of the n-th message
          MaxSets    \* bound: sets of fragments sent

ASSUME FragmentsAssumption ==
    /\ First \in Nat \ {0} /\ Rest \in Nat \ {0} /\ First <= Rest
    /\ IdStep \in {0, 1}
    /\ IdMod \in Nat \ {0}
    /\ MaxIds \in Nat \ {0}
    /\ Ttl \in Nat
    /\ MaxSize \in Nat \ {0}
    /\ LengthOf \in Seq(Nat \ {0})
    /\ MaxSets \in Nat

VARIABLES fragid,    \* sender: conn->fragid
          sets,      \* history: message and fragment id of every set sent
          net,       \* packets in flight
          slots,     \* receiver: conn->fragman
          out,       \* receiver: what process_message was last called with
          delivered, \* history: sets whose message was put together
          dropped    \* history: sets of which a fragment was thrown away

vars == <<fragid, sets, net, slots, out, delivered, dropped>>

Messages == DOMAIN LengthOf
SetNo == 1 .. MaxSets
Index == 0 .. MaxIds - 1
Unit == 0 .. MaxSize - 1
Garbage == 0             \* contents of memory nobody has written

Content == [Unit -> SetNo \cup {Garbage}]
Packet == [set : SetNo, id : 0 .. IdMod - 1, from : Nat, len : Nat \ {0},
           last : BOOLEAN, fragment : BOOLEAN]
Slot == [used : BOOLEAN, id : 0 .. IdMod - 1, received : Nat, needed : Nat,
         age : 0 .. Ttl + 1, data : Content]

NULL == [used |-> FALSE, id |-> 0, received |-> 0, needed |-> 0, age |-> 0,
         data |-> [u \in Unit |-> Garbage]]
Nothing == [len |-> 0, whole |-> TRUE]

TypeOK ==
    /\ fragid \in 0 .. IdMod - 1
    /\ sets \in Seq([message : Messages, id : 0 .. IdMod - 1])
    /\ Len(sets) <= MaxSets
    /\ net \subseteq Packet
    /\ slots \in [Index -> Slot]
    /\ out \in [len : Nat, whole : BOOLEAN]
    /\ delivered \subseteq SetNo /\ dropped \subseteq SetNo

Init ==
    /\ fragid = 0 /\ sets = <<>> /\ net = {}
    /\ slots = [i \in Index |-> NULL]
    /\ out = Nothing /\ delivered = {} /\ dropped = {}

------------------------------------------------------------------------------
(* The sender *)

Payload(from) == IF from = 0 THEN First ELSE Rest

\* Offsets at which cw_send_msg begins a fragment of a message of length l.
Cuts(l) ==
    {c \in 0 .. l - 1 : c = 0 \/ \E n \in 0 .. l : c = First + n * Rest}

Shorter(a, b) == IF a < b THEN a ELSE b

\* A message that fits in one packet is sent without the F flag.
Packets(k, m, id) ==
    {[set |-> k, id |-> id, from |-> c,
      len |-> Shorter(Payload(c), LengthOf[m] - c),
      last |-> LengthOf[m] - c <= Payload(c),
      fragment |-> LengthOf[m] > First] : c \in Cuts(LengthOf[m])}

IdNotWrapped(id) == id + IdStep        \* mutant of NextId

NextId(id) == (id + IdStep) % IdMod

\* The message sent last, if any: a request is sent again until it is
\* answered, a response whenever its request arrives again.
Current == IF sets = <<>> THEN 0 ELSE sets[Len(sets)].message

SendMsg(m) ==
    /\ Len(sets) < MaxSets
    /\ sets' = Append(sets, [message |-> m, id |-> fragid])
    /\ net' = net \cup Packets(Len(sets) + 1, m, fragid)
    /\ fragid' = NextId(fragid)
    /\ UNCHANGED <<slots, out, delivered, dropped>>

------------------------------------------------------------------------------
(* The receiver *)

AnyPartial(id) == {i \in Index : slots[i].used}        \* mutant of Partial

\* frag_get: it does not look at the age.
Partial(id) == {i \in Index : slots[i].used /\ slots[i].id = id}

\* frag_new: a slot is free when it has no buffer or is too old.
Free == {i \in Index : ~ slots[i].used \/ slots[i].age > Ttl}

\* Both take the first slot that will do.
IsLowest(i, S) == i \in S /\ \A j \in S : i <= j

Fits(p) == p.from + p.len < MaxSize

\* The buffer is reallocated: an old one keeps its contents.
Renewed(s, id) ==
    [s EXCEPT !.used = TRUE, !.id = id, !.received = 0, !.needed = 0, !.age = 0]

Copied(s, p) ==
    [s EXCEPT
       !.received = IF Fits(p) THEN @ + p.len ELSE @,
       !.needed = IF p.last THEN p.from + p.len ELSE @,
       !.data = IF Fits(p)
                THEN [u \in Unit |-> IF u \in p.from .. p.from + p.len - 1
                                     THEN p.set ELSE @[u]]
                ELSE @]

LateFinished(s) == s.needed > 0 /\ s.needed < s.received  \* mutant of Finished

Finished(s) == s.needed > 0 /\ s.needed <= s.received

\* The n units at the start of d are one message from its start to its end.
IsWhole(d, n) ==
    /\ n <= MaxSize
    /\ \E m \in Messages :
          /\ n = LengthOf[m]
          /\ \A u \in 0 .. n - 1 : d[u] # Garbage /\ sets[d[u]].message = m

\* The rest of fragman_add: s is the slot it has found or made at i.
Store(i, s, p) ==
    LET t == Copied(s, p)
    IN  /\ slots' = [slots EXCEPT ![i] = IF Finished(t) THEN NULL ELSE t]
        /\ out' = IF Finished(t)
                  THEN [len |-> t.needed, whole |-> IsWhole(t.data, t.needed)]
                  ELSE out
        /\ delivered' = IF Finished(t) THEN delivered \cup {p.set}
                                       ELSE delivered

\* Sets of which a slot held fragments, now given away.
LostFrom(s) == {k \in DOMAIN sets : s.used /\ sets[k].id = s.id}

AddToPartial ==
    \E p \in net, i \in Index :
        /\ p.fragment /\ IsLowest(i, Partial(p.id))
        /\ net' = net \ {p}
        /\ Store(i, slots[i], p)
        /\ dropped' = IF Fits(p) THEN dropped ELSE dropped \cup {p.set}
        /\ UNCHANGED <<fragid, sets>>

AddToNew ==
    \E p \in net, i \in Index :
        /\ p.fragment /\ Partial(p.id) = {} /\ IsLowest(i, Free)
        /\ net' = net \ {p}
        /\ Store(i, Renewed(slots[i], p.id), p)
        /\ dropped' = dropped \cup (IF Fits(p) THEN {} ELSE {p.set})
                              \cup LostFrom(slots[i])
        /\ UNCHANGED <<fragid, sets>>

\* "out of fragmentation space"
NoSpace ==
    \E p \in net :
        /\ p.fragment /\ Partial(p.id) = {} /\ Free = {}
        /\ net' = net \ {p}
        /\ dropped' = dropped \cup {p.set}
        /\ UNCHANGED <<fragid, sets, slots, out, delivered>>

\* frag_new fails to get memory; an old buffer is lost with its contents.
NoMemory ==
    \E p \in net, i \in Index :
        /\ p.fragment /\ Partial(p.id) = {} /\ IsLowest(i, Free)
        /\ net' = net \ {p}
        /\ slots' = [slots EXCEPT ![i] = NULL]
        /\ dropped' = dropped \cup {p.set} \cup LostFrom(slots[i])
        /\ UNCHANGED <<fragid, sets, out, delivered>>

NotFragmented ==
    \E p \in net :
        /\ ~ p.fragment
        /\ net' = net \ {p}
        /\ out' = [len |-> p.len, whole |-> TRUE]
        /\ delivered' = delivered \cup {p.set}
        /\ UNCHANGED <<fragid, sets, slots, dropped>>

Tick ==
    /\ slots' = [i \in Index |->
                   [slots[i] EXCEPT !.age = IF slots[i].used /\ @ <= Ttl
                                            THEN @ + 1 ELSE @]]
    /\ UNCHANGED <<fragid, sets, net, out, delivered, dropped>>

------------------------------------------------------------------------------
SendNext == \E m \in Messages : m \in {Current, Current + 1} /\ SendMsg(m)

FragmanAdd == AddToPartial \/ AddToNew \/ NoSpace \/ NoMemory

Next == SendNext \/ FragmanAdd \/ NotFragmented \/ Tick

Spec == Init /\ [][Next]_vars

------------------------------------------------------------------------------
(* Correctness *)

\* "the packet is a fragment and MUST be combined with the other
\* corresponding fragments to reassemble the complete information": what
\* fragman_add returns is a message that was sent, whole.
Intact == out.whole

\* "if you have got all fragments fragman_add will return the reassembled
\* packet": a set that has arrived is delivered, unless fragman had no room
\* for one of its fragments or gave its slot away.
Complete ==
    \A k \in DOMAIN sets :
        (\A p \in net : p.set # k) /\ k \notin dropped => k \in delivered

\* No two slots collect fragments of the same id, although frag_new gives
\* away slots that frag_get still finds.
DistinctIds ==
    \A i, j \in Index :
        slots[i].used /\ slots[j].used /\ slots[i].id = slots[j].id => i = j
==============================================================================
