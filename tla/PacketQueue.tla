----------------------------- MODULE PacketQueue -----------------------------
(***************************************************************************)
(* The packet queue of a connection (src/cw/conn_q_*.c): the ring through  *)
(* which the controller's receive loop, the only producer, hands the       *)
(* packets of one WTP to that WTP's thread, the only consumer.             *)
(*                                                                         *)
(* The ring is guarded by nothing but the counting semaphore q_sem.  The   *)
(* producer reads the consumer's index qrpos without synchronisation: a    *)
(* data race, whose outcome on the supported builds is an old value of     *)
(* qrpos that never runs backwards.  LoadQrpos models it: the value the    *)
(* producer compares with may have been loaded at any time since the       *)
(* packet before.                                                          *)
(*                                                                         *)
(* Packets are numbered in the order the ring accepts them; a slot holds   *)
(* the number of the packet whose buffer it points to.                     *)
(*                                                                         *)
(* Init, Next, Spec and TypeOK carry the prefix Queue, because the proofs  *)
(* of a connection's reception extend this module together with Fragments. *)
(***************************************************************************)
EXTENDS Integers, Sequences

CONSTANTS QSize,       \* slots of the ring (conn->qsize, 100 in wtpman_create)
          StartBurst,  \* bound: packets that may arrive before the producer
                       \* sees the consumer's first get
          MaxPackets,  \* bound: packets accepted in a behaviour
          PiecesOf     \* reads it takes to empty the n-th packet

ASSUME QueueAssumption ==
    /\ QSize \in Nat \ {0}
    /\ StartBurst \in Nat
    /\ MaxPackets \in Nat
    /\ PiecesOf \in [1 .. MaxPackets -> Nat \ {0}]

VARIABLES q,        \* conn->q
          qwpos,    \* conn->qwpos, owned by the producer
          qrpos,    \* conn->qrpos, owned by the consumer
          q_sem,    \* value of conn->q_sem
          ppc,      \* where the producer is in conn_q_add_packet
          rview,    \* the value of qrpos the producer has loaded
          cpc,      \* where the consumer is in conn_q_get_packet
          cur,      \* conn->cur_packet: the packet being read, or None
          curpos,   \* pieces of it read so far (conn->cur_packet_pos)
          got,      \* history: packet and piece returned by the last read
          nput,     \* history: packets accepted
          nget,     \* history: packets taken
          nview     \* history: value of nget when rview was loaded

ring == <<q, qwpos, qrpos, q_sem>>
counts == <<nput, nget, nview>>
queueVars == <<q, qwpos, qrpos, q_sem, ppc, rview, cpc, cur, curpos, got,
               nput, nget, nview>>

None == 0                \* no packet: a NULL pointer
Slots == 0 .. QSize - 1
PacketNumber == 1 .. MaxPackets

QueueTypeOK ==
    /\ q \in [Slots -> PacketNumber \cup {None}]
    /\ qwpos \in 0 .. QSize
    /\ qrpos \in -1 .. QSize - 1
    /\ q_sem \in Nat
    /\ ppc \in {"idle", "stored"}
    /\ rview \in -1 .. QSize - 1
    /\ cpc \in {"idle", "woken", "advanced"}
    /\ cur \in PacketNumber \cup {None}
    /\ curpos \in Nat
    /\ got \in (PacketNumber \cup {None}) \X Nat
    /\ nput \in 0 .. MaxPackets
    /\ nget \in Nat
    /\ nview \in Nat

QueueInit ==
    /\ q = [s \in Slots |-> None]
    /\ qwpos = 0 /\ qrpos = -1 /\ q_sem = 0
    /\ ppc = "idle" /\ rview = -1
    /\ cpc = "idle" /\ cur = None /\ curpos = 0
    /\ got = <<None, 0>>
    /\ nput = 0 /\ nget = 0 /\ nview = 0

WrapForgotten(i) == i   \* mutant of Wrap

\* An index that has reached the end of the ring continues at its start.
Wrap(i) == IF i = QSize THEN 0 ELSE i

NeverFull(w) == FALSE      \* mutant of Full

\* "no buffers": the slot to write is the one the consumer took last.
Full(w) == rview = w

------------------------------------------------------------------------------
(* conn_q_add_packet, in the receive loop *)

LoadQrpos ==
    /\ ppc = "idle"
    /\ rview' = qrpos
    /\ nview' = nget
    /\ UNCHANGED <<q, qwpos, qrpos, q_sem, ppc, cpc, cur, curpos, got, nput, nget>>

Arrival ==
    /\ ppc = "idle"
    /\ nput < MaxPackets
    /\ rview = -1 => nput < StartBurst

AddPacket ==
    /\ Arrival
    /\ ~ Full(Wrap(qwpos))
    /\ q' = [q EXCEPT ![Wrap(qwpos)] = nput + 1]
    /\ qwpos' = Wrap(qwpos) + 1
    /\ nput' = nput + 1
    /\ ppc' = "stored"
    /\ UNCHANGED <<qrpos, q_sem, rview, cpc, cur, curpos, got, nget, nview>>

\* malloc fails: the slot is left NULL and the packet is dropped.
AddNoMemory ==
    /\ Arrival
    /\ ~ Full(Wrap(qwpos))
    /\ q' = [q EXCEPT ![Wrap(qwpos)] = None]
    /\ UNCHANGED <<qwpos, qrpos, q_sem, ppc, rview, cpc, cur, curpos, got, counts>>

AddPostLost ==             \* mutant of AddPost
    /\ ppc = "stored"
    /\ ppc' = "idle"
    /\ UNCHANGED <<q, qwpos, qrpos, q_sem, rview, cpc, cur, curpos, got, counts>>

AddPost ==
    /\ ppc = "stored"
    /\ q_sem' = q_sem + 1
    /\ ppc' = "idle"
    /\ UNCHANGED <<q, qwpos, qrpos, rview, cpc, cur, curpos, got, counts>>

------------------------------------------------------------------------------
(* conn_q_recv_packet and conn_q_get_packet, in the WTP thread.  A peek is *)
(* a get without a ReadPiece.                                              *)

GetWait ==
    /\ cpc = "idle" /\ cur = None
    /\ q_sem > 0
    /\ q_sem' = q_sem - 1
    /\ cpc' = "woken"
    /\ UNCHANGED <<q, qwpos, qrpos, ppc, rview, cur, curpos, got, counts>>

GetAdvance ==
    /\ cpc = "woken"
    /\ qrpos' = Wrap(qrpos + 1)
    /\ nget' = nget + 1
    /\ cpc' = "advanced"
    /\ UNCHANGED <<q, qwpos, q_sem, ppc, rview, cur, curpos, got, nput, nview>>

GetFetch ==
    /\ cpc = "advanced"
    /\ cur' = q[qrpos]
    /\ curpos' = 0
    /\ cpc' = "idle"
    /\ UNCHANGED <<ring, ppc, rview, got, counts>>

\* One read of the caller's buffer size; the last one frees the packet.
ReadPiece ==
    /\ cpc = "idle" /\ cur # None
    /\ got' = <<cur, curpos + 1>>
    /\ curpos' = curpos + 1
    /\ cur' = IF curpos + 1 = PiecesOf[cur] THEN None ELSE cur
    /\ UNCHANGED <<ring, ppc, rview, cpc, counts>>

------------------------------------------------------------------------------
Consumer == GetWait \/ GetAdvance \/ GetFetch \/ ReadPiece

QueueNext == LoadQrpos \/ AddPacket \/ AddNoMemory \/ AddPost \/ Consumer

QueueSpec == QueueInit /\ [][QueueNext]_queueVars

\* The receive loop finishes the call it is in, and the WTP thread keeps
\* reading: its message loop does nothing else while the session lives.
FairQueueSpec == QueueSpec /\ WF_queueVars(AddPost) /\ WF_queueVars(Consumer)

------------------------------------------------------------------------------
(* Correctness *)

\* What the reads return, one after the other, is every accepted packet,
\* whole and in the order of arrival: conn_q_add_packet never overwrites a
\* packet that conn_q_recv_packet has not returned yet.
Follows(a, b) ==
    \/ b[1] = a[1] /\ b[2] = a[2] + 1
    \/ b = <<a[1] + 1, 1>> /\ (a[1] # None => a[2] = PiecesOf[a[1]])

StreamInOrder == [][Follows(got, got')]_got

\* The slot the consumer is about to read, or has released by moving qrpos
\* but not yet read, still holds the packet whose turn it is.
SlotNotReused ==
    /\ cpc = "woken" => q[Wrap(qrpos + 1)] = nget + 1
    /\ cpc = "advanced" => q[qrpos] = nget

\* conn_q_add_packet discards when there is "no buffers": never do more
\* packets wait than the ring has slots.
NoMoreThanBuffers == nput - nget <= QSize

\* The semaphore never promises a packet that is not in the ring, nor hides
\* one: it counts the waiting packets, but for those whose post or whose
\* removal is under way.
SemaphoreExact ==
    nput - nget = q_sem + (IF ppc = "stored" THEN 1 ELSE 0)
                        + (IF cpc = "woken" THEN 1 ELSE 0)

\* Every packet the ring accepts is read by the WTP thread in the end.
EveryPacketRead ==
    \A n \in PacketNumber :
        nput >= n ~> got[1] > n \/ got = <<n, PiecesOf[n]>>

\* The ring implements the queue it stands for: the waiting packets are the
\* slots behind qrpos.
Behind(k) == IF qrpos + k < QSize THEN qrpos + k ELSE qrpos + k - QSize

Waiting == [k \in 1 .. nput - nget |-> q[Behind(k)]]

Fifo == INSTANCE BoundedFifo
          WITH Capacity <- QSize, Packet <- PacketNumber, fifo <- Waiting,
               taken <- nget

ImplementsFifo == Fifo!Spec
==============================================================================
