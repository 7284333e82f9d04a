------------------------ MODULE ControlChannelProofs ------------------------
(***************************************************************************)
(* That eight bits of sequence number are enough: the AC processes every   *)
(* request of the WTP at most once, in order, and nothing but requests the *)
(* WTP composed, and all answers to a request are the same.                *)
(*                                                                         *)
(* The argument has two halves.  SerialOrder: the comparison the code does *)
(* on sequence numbers is the comparison of the numbers themselves, as     *)
(* long as these are less than Half apart.  PhaseInv and NetInv: they are. *)
(* Every request that ends well shows that the AC has processed one issued *)
(* less than Lifetime ago, at most two that failed follow one another      *)
(* before the WTP stops, and the network drops what is older.              *)
(*                                                                         *)
(* OrderInv adds what a session was served before its state changed.       *)
(***************************************************************************)
EXTENDS ControlChannel, TLAPS

\* The number of the request the AC has processed last.
Newest == IF log = <<>> THEN 0 ELSE log[Len(log)].id

\* How far the WTP may be ahead of it.
Lead == IF Lifetime > 3 THEN Lifetime ELSE 3

Answered(m) ==
    \E i \in DOMAIN log :
        log[i].id = m.id /\ log[i].type + 1 = m.type /\ log[i].ok = m.ok

NetInv ==
    \A m \in net :
        /\ m.id <= Len(issued) /\ Len(issued) - m.id < Lifetime
        /\ IsRequest(m.type) => m.type = issued[m.id] \/ m.id <= Newest
        /\ ~ IsRequest(m.type) => Answered(m)

CacheInv ==
    /\ log = <<>> => last = -1
    /\ log # <<>> =>
        /\ last = WireSeq(Newest)
        /\ cache = [type |-> log[Len(log)].type + 1, id |-> Newest,
                    ok |-> log[Len(log)].ok]

PhaseInv ==
    /\ phase = "join" => Len(issued) = (IF waiting THEN 1 ELSE 0)
    /\ phase = "configure" => Len(issued) = (IF waiting THEN 2 ELSE 1)
    /\ phase = "changestate" => Len(issued) = (IF waiting THEN 3 ELSE 2)
    /\ phase \notin {"join", "exit"} => log # <<>>
    /\ log = <<>> => Len(issued) <= 1
    /\ log # <<>> => Len(issued) - Newest <= Lead
    /\ phase = "run" /\ ~ waiting => Len(issued) - Newest < Lead
    /\ waiting => issued # <<>> /\ phase # "exit" /\ try >= 1

Inv == /\ TypeOK
       /\ AtMostOnceInOrder
       /\ NoGhostRequest
       /\ NetInv
       /\ CacheInv
       /\ PhaseInv

------------------------------------------------------------------------------
\* The comparison of process_message, on the sequence numbers of two requests
\* less than Half apart, finds the later one, and equal numbers are equal.
LEMMA SerialOrder ==
    ASSUME NEW a \in Nat, NEW b \in Nat, b - a < Half, a - b < Half
    PROVE  /\ Accepts(WireSeq(a), WireSeq(b)) <=> b > a
           /\ WireSeq(a) = WireSeq(b) <=> a = b
           /\ WireSeq(a) \in 0 .. SeqMod - 1
<1> DEFINE M == SeqMod
           x == (FirstSeq + a) % M
           y == (FirstSeq + b) % M
           p == (FirstSeq + a) \div M
           r == (FirstSeq + b) \div M
<1>1. Half \in Nat /\ M = 2 * Half /\ Half > 3 /\ FirstSeq \in Nat
      /\ M \in Nat \ {0}
  BY ChannelAssumption DEF Half
<1>2. /\ FirstSeq + a = M * p + x /\ x \in 0 .. M - 1 /\ p \in Int
      /\ FirstSeq + b = M * r + y /\ y \in 0 .. M - 1 /\ r \in Int
  <2>1. FirstSeq + a \in Nat /\ FirstSeq + b \in Nat
    BY <1>1
  <2> QED
    BY <1>1, <2>1
<1> HIDE DEF M, x, y, p, r
<1>3. b - a = M * (r - p) + (y - x)
  BY <1>1, <1>2
<1>4. r - p \in {-1, 0, 1}
  <2>1. r - p <= 1
    <3>1. SUFFICES ASSUME r - p >= 2 PROVE FALSE
      BY <1>2
    <3>2. M * (r - p) >= M * 2
      BY <3>1, <1>1, <1>2
    <3> QED
      BY <1>1, <1>2, <1>3, <3>2
  <2>2. r - p >= -1
    <3>1. SUFFICES ASSUME p - r >= 2 PROVE FALSE
      BY <1>2
    <3>2. M * (p - r) >= M * 2
      BY <3>1, <1>1, <1>2
    <3>3. a - b = M * (p - r) + (x - y)
      BY <1>1, <1>2
    <3> QED
      BY <1>1, <1>2, <3>2, <3>3
  <2> QED
    BY <1>2, <2>1, <2>2
<1>5. b - a \in {y - x, y - x + 2 * Half, y - x - 2 * Half}
  BY <1>1, <1>2, <1>3, <1>4
<1>6. WireSeq(a) = x /\ WireSeq(b) = y
  BY DEF WireSeq, x, y, M
<1>7. Accepts(x, y) <=> b > a
  BY <1>1, <1>2, <1>5 DEF Accepts
<1>8. x = y <=> a = b
  BY <1>1, <1>2, <1>5
<1> QED
  BY <1>2, <1>6, <1>7, <1>8 DEF M

------------------------------------------------------------------------------
LEMMA Constants ==
    /\ SeqMod \in Nat /\ Half \in Nat /\ FirstSeq \in Nat
    /\ MaxRetransmit \in Nat /\ MaxRetransmit >= 1
    /\ Lifetime \in Nat /\ Lifetime >= 1 /\ Lifetime <= Lead
    /\ Lead \in Nat /\ Lead >= 3 /\ Lead < Half
    /\ MaxRequests \in Nat
BY ChannelAssumption DEF Half, Lead

LEMMA LogTypes ==
    ASSUME TypeOK
    PROVE  /\ Len(log) \in Nat /\ DOMAIN log = 1 .. Len(log)
           /\ log # <<>> => Len(log) >= 1
           /\ \A i \in DOMAIN log : log[i] \in Entry /\ log[i].id \in Nat \ {0}
<1>1. log \in Seq(Entry)
  BY DEF TypeOK
<1>2. Len(log) \in Nat /\ DOMAIN log = 1 .. Len(log) /\ (log # <<>> => Len(log) >= 1)
  BY <1>1
<1>3. \A i \in DOMAIN log : log[i] \in Entry
  BY <1>1, <1>2
<1> QED
  BY <1>2, <1>3, Constants DEF Entry, Id

\* The newest request is the one with the largest number in the log.
LEMMA NewestIsLargest ==
    ASSUME TypeOK, AtMostOnceInOrder, NoGhostRequest
    PROVE  /\ Newest \in Nat /\ Newest <= Len(issued)
           /\ \A i \in DOMAIN log : log[i].id <= Newest
           /\ log # <<>> => Len(log) \in DOMAIN log /\ Newest = log[Len(log)].id
                            /\ Newest >= 1
           /\ log = <<>> => DOMAIN log = {}
<1>1. CASE log = <<>>
  BY <1>1 DEF TypeOK, Newest
<1>2. CASE log # <<>>
  <2>1. /\ Len(log) \in Nat \ {0} /\ DOMAIN log = 1 .. Len(log)
        /\ \A i \in DOMAIN log : log[i].id \in Nat \ {0}
    BY <1>2, LogTypes
  <2>2. Newest = log[Len(log)].id
    BY <1>2 DEF Newest
  <2>3. \A i \in DOMAIN log : i = Len(log) \/ i < Len(log)
    BY <2>1
  <2>4. \A i \in DOMAIN log : log[i].id <= Newest
    BY <2>1, <2>2, <2>3 DEF AtMostOnceInOrder
  <2> QED
    BY <1>2, <2>1, <2>2, <2>4 DEF NoGhostRequest
<1> QED
  BY <1>1, <1>2

\* What the handlers see of a request in flight: it compares as its number.
LEMMA InFlightCompares ==
    ASSUME Inv, NEW m \in net
    PROVE  /\ WireSeq(m.id) \in 0 .. SeqMod - 1
           /\ Accepts(last, WireSeq(m.id)) <=> m.id > Newest
           /\ log # <<>> => (WireSeq(m.id) = last <=> m.id = Newest)
           /\ log = <<>> => last = -1
<1>1. m.id \in Nat \ {0} /\ m.id <= Len(issued) /\ Len(issued) - m.id < Lifetime
      /\ Len(issued) \in Nat
  BY Constants DEF Inv, TypeOK, NetInv, Message, Id
<1>2. Newest \in Nat /\ Newest <= Len(issued)
  BY NewestIsLargest DEF Inv
<1>3. WireSeq(m.id) \in 0 .. SeqMod - 1
  BY <1>1, SerialOrder, Constants
<1>4. CASE log = <<>>
  <2>1. last = -1 /\ Newest = 0
    BY <1>4 DEF Inv, CacheInv, Newest
  <2> QED
    BY <1>1, <1>3, <1>4, <2>1 DEF Accepts
<1>5. CASE log # <<>>
  <2>1. last = WireSeq(Newest) /\ Len(issued) - Newest <= Lead
    BY <1>5 DEF Inv, CacheInv, PhaseInv
  <2>2. m.id - Newest < Half /\ Newest - m.id < Half
    BY <1>1, <1>2, <2>1, Constants
  <2>3. /\ Accepts(WireSeq(Newest), WireSeq(m.id)) <=> m.id > Newest
        /\ WireSeq(Newest) = WireSeq(m.id) <=> Newest = m.id
    BY <1>1, <1>2, <2>2, SerialOrder
  <2> QED
    BY <1>3, <1>5, <2>1, <2>3
<1> QED
  BY <1>4, <1>5

LEMMA IssuedTypes ==
    ASSUME TypeOK
    PROVE  /\ Len(issued) \in Nat
           /\ DOMAIN issued = 1 .. Len(issued)
           /\ \A k \in 1 .. Len(issued) :
                 /\ issued[k] \in {JoinReq, ConfigReq, ChangeReq, EchoReq}
                 /\ issued[k] \in Type /\ IsRequest(issued[k])
                 /\ issued[k] # UpdateReq
<1>1. issued \in Seq({JoinReq, ConfigReq, ChangeReq, EchoReq})
  BY DEF TypeOK
<1>2. \A k \in 1 .. Len(issued) :
        issued[k] \in {JoinReq, ConfigReq, ChangeReq, EchoReq}
  BY <1>1
<1>3. \A t \in {JoinReq, ConfigReq, ChangeReq, EchoReq} :
        t \in Type /\ IsRequest(t) /\ t # UpdateReq
  BY DEF JoinReq, ConfigReq, ChangeReq, EchoReq, UpdateReq, Type, IsRequest
<1> QED
  BY <1>1, <1>2, <1>3

\* Steps that leave the AC's side and the list of requests alone.
LEMMA AcUntouched ==
    ASSUME Inv, UNCHANGED <<issued, last, cache, log>>
    PROVE  /\ AtMostOnceInOrder' /\ NoGhostRequest' /\ CacheInv'
           /\ Newest' = Newest
           /\ \A m \in net' : m \in net =>
                 /\ m.id <= Len(issued)' /\ Len(issued)' - m.id < Lifetime
                 /\ IsRequest(m.type) => m.type = issued'[m.id] \/ m.id <= Newest'
                 /\ ~ IsRequest(m.type) => Answered(m)'
BY DEF Inv, AtMostOnceInOrder, NoGhostRequest, CacheInv, Newest, NetInv, Answered

LEMMA RecentOnes ==
    \A m \in Recent(Len(issued) + 1) :
        m \in net /\ (Len(issued) + 1) - m.id < Lifetime
BY Zenon DEF Recent

LEMMA StartRequestStep ==
    ASSUME Inv, StartRequest
    PROVE  Inv'
<1> DEFINE N == Len(issued)
           t == RequestOf(phase)
           new == Transmission(t, N + 1, 1)
<1>1. /\ N \in Nat /\ N + 1 \in Id /\ issued' = Append(issued, t)
      /\ t \in {JoinReq, ConfigReq, ChangeReq, EchoReq}
  BY IssuedTypes, Constants DEF Inv, StartRequest, Id, RequestOf
<1>2. /\ issued' \in Seq({JoinReq, ConfigReq, ChangeReq, EchoReq})
      /\ Len(issued') = N + 1 /\ issued'[N + 1] = t
      /\ \A k \in 1 .. N : issued'[k] = issued[k]
  <2>1. issued \in Seq({JoinReq, ConfigReq, ChangeReq, EchoReq})
    BY DEF Inv, TypeOK
  <2> QED
    BY <1>1, <2>1
<1>3. t \in Type /\ IsRequest(t)
  BY <1>1 DEF JoinReq, ConfigReq, ChangeReq, EchoReq, Type, IsRequest
<1>4. Newest' = Newest /\ Newest \in Nat /\ Newest <= N
  BY NewestIsLargest DEF Inv, StartRequest, ac, Newest
<1>5. /\ net' \subseteq net \cup {new}
      /\ \A m \in net' : m # new
                          => m \in net /\ (N + 1) - m.id < Lifetime
  <2>1. net' = Recent(N + 1) \cup {new}
    BY DEF StartRequest
  <2> QED
    BY <2>1, RecentOnes, Zenon
<1>6. new \in Message /\ new.id = N + 1 /\ new.type = t
  BY <1>1, <1>3, Constants DEF Transmission, Message
<1> HIDE DEF new
<1>7. TypeOK'
  BY <1>1, <1>2, <1>5, <1>6, Constants DEF Inv, TypeOK, StartRequest, ac, Id
<1>8. AtMostOnceInOrder' /\ CacheInv'
  BY <1>4 DEF Inv, AtMostOnceInOrder, CacheInv, StartRequest, ac
<1>9. NoGhostRequest'
  <2>1. \A i \in DOMAIN log : log[i].id \in 1 .. N /\ log[i].type = issued[log[i].id]
    BY <1>1, LogTypes DEF Inv, NoGhostRequest
  <2> QED
    BY <1>1, <1>2, <2>1 DEF NoGhostRequest, StartRequest, ac
<1>10. NetInv'
  <2> SUFFICES ASSUME NEW m \in net'
               PROVE  /\ m.id <= N + 1 /\ (N + 1) - m.id < Lifetime
                      /\ IsRequest(m.type) =>
                            m.type = issued'[m.id] \/ m.id <= Newest
                      /\ ~ IsRequest(m.type) => Answered(m)
    <3>1. log' = log /\ Len(issued)' = N + 1
      BY <1>2 DEF StartRequest, ac
    <3> QED
      BY <1>4, <3>1, Zenon DEF NetInv, Answered
  <2>1. CASE m = new
    <3>1. m.id = N + 1 /\ m.type = t
      BY <1>6, <2>1
    <3> QED
      BY <1>1, <1>2, <1>3, <3>1, Constants
  <2>2. CASE m # new
    <3>1. m \in net /\ (N + 1) - m.id < Lifetime /\ m.id \in 1 .. N
      BY <1>1, <1>5, <2>2, Constants DEF Inv, NetInv, TypeOK, Message, Id
    <3> QED
      BY <1>1, <1>2, <3>1 DEF Inv, NetInv
  <2> QED
    BY <2>1, <2>2
<1>11. PhaseInv'
  <2>1. /\ phase' = phase /\ waiting' /\ ~ waiting /\ try' = 1 /\ log' = log
        /\ issued' # <<>> /\ phase # "exit" /\ phase \in Phases
    BY <1>1, <1>2 DEF StartRequest, ac, Inv, TypeOK
  <2>2. log # <<>> => Newest >= 1
    BY NewestIsLargest DEF Inv
  <2> QED
    BY <1>1, <1>2, <1>4, <2>1, <2>2, Constants DEF Inv, PhaseInv, Phases
<1> QED
  BY <1>7, <1>8, <1>9, <1>10, <1>11 DEF Inv

LEMMA RetransmitStep ==
    ASSUME Inv, Retransmit
    PROVE  Inv'
<1> DEFINE N == Len(issued)
           new == Transmission(issued[N], N, try + 1)
<1>1. /\ net' = net \cup {new} /\ try' = try + 1 /\ try < MaxRetransmit /\ waiting
      /\ UNCHANGED <<phase, waiting, issued,
                     alive, acState, last, cache, log>>
  BY DEF Retransmit, ac
<1>2. /\ N \in Nat /\ N \in Id /\ try \in 0 .. MaxRetransmit
      /\ issued[N] \in Type /\ IsRequest(issued[N])
  <2>1. issued # <<>> /\ issued \in Seq({JoinReq, ConfigReq, ChangeReq, EchoReq})
        /\ N <= MaxRequests /\ try \in 0 .. MaxRetransmit
    BY <1>1 DEF Inv, PhaseInv, TypeOK
  <2>2. N \in Nat \ {0}
    BY <2>1
  <2> QED
    BY <2>1, <2>2, IssuedTypes, Constants DEF Inv, Id
<1>3. new \in Message /\ new.id = N /\ new.type = issued[N]
  BY <1>1, <1>2, Constants DEF Transmission, Message
<1> HIDE DEF new
<1>4. TypeOK'
  BY <1>1, <1>2, <1>3, Constants DEF Inv, TypeOK
<1>5. PhaseInv' /\ AtMostOnceInOrder' /\ NoGhostRequest' /\ CacheInv'
  <2>1. PhaseInv'
    BY <1>1, <1>2 DEF Inv, PhaseInv, Newest
  <2> QED
    BY <1>1, <2>1, AcUntouched
<1>6. NetInv'
  <2> SUFFICES ASSUME NEW m \in net'
               PROVE  /\ m.id <= N /\ N - m.id < Lifetime
                      /\ IsRequest(m.type) =>
                            m.type = issued[m.id] \/ m.id <= Newest
                      /\ ~ IsRequest(m.type) => Answered(m)
    BY <1>1, Zenon DEF NetInv, Answered, Newest
  <2>1. CASE m = new
    BY <1>2, <1>3, <2>1, Constants
  <2>2. CASE m # new
    <3>1. m \in net
      BY <1>1, <2>2
    <3> QED
      BY <3>1 DEF Inv, NetInv
  <2> QED
    BY <2>1, <2>2
<1> QED
  BY <1>4, <1>5, <1>6 DEF Inv

\* Steps that only take messages out of the network or end the session.
LEMMA QuietStep ==
    ASSUME Inv, net' \subseteq net, TypeOK', PhaseInv',
           UNCHANGED <<issued, last, cache, log>>
    PROVE  Inv'
<1>1. NetInv'
  <2> SUFFICES ASSUME NEW m \in net'
               PROVE  /\ m.id <= Len(issued) /\ Len(issued) - m.id < Lifetime
                      /\ IsRequest(m.type) =>
                            m.type = issued[m.id] \/ m.id <= Newest
                      /\ ~ IsRequest(m.type) => Answered(m)
    BY Zenon DEF NetInv, Answered, Newest
  <2> QED
    BY DEF Inv, NetInv
<1> QED
  BY <1>1, AcUntouched DEF Inv

LEMMA GiveUpStep ==
    ASSUME Inv, GiveUp \/ PeerClosed
    PROVE  Inv'
<1>1. /\ net' \subseteq net /\ waiting' = FALSE /\ phase' = Failing(phase)
      /\ waiting \/ phase = "run"
      /\ UNCHANGED <<try, issued,
                     alive, acState, last, cache, log>>
  BY DEF GiveUp, PeerClosed, ac
<1>2. TypeOK'
  <2>1. phase' \in Phases /\ waiting' \in BOOLEAN /\ net' \subseteq Message
    BY <1>1 DEF Inv, TypeOK, Failing, Phases
  <2> QED
    BY <1>1, <2>1 DEF Inv, TypeOK
<1>3. PhaseInv'
  <2>1. /\ Newest \in Nat /\ Len(issued) \in Nat /\ Newest <= Len(issued)
        /\ (log # <<>> => Newest >= 1) /\ phase \in Phases
    BY NewestIsLargest, IssuedTypes DEF Inv, TypeOK
  <2>2. Newest' = Newest
    BY <1>1 DEF Newest
  <2>3. CASE phase = "run" \/ phase = "join" \/ phase = "exit"
    <3>1. phase' = "exit"
      BY <1>1, <2>3 DEF Failing
    <3> QED
      BY <1>1, <2>1, <2>2, <3>1 DEF Inv, PhaseInv
  <2>4. CASE phase = "configure"
    <3>1. waiting /\ phase' = "changestate"
      BY <1>1, <2>4 DEF Failing
    <3> QED
      BY <1>1, <2>1, <2>2, <2>4, <3>1 DEF Inv, PhaseInv
  <2>5. CASE phase = "changestate"
    <3>1. waiting /\ phase' = "run"
      BY <1>1, <2>5 DEF Failing
    <3> QED
      <4>1. Len(issued) = 3 /\ log # <<>>
        BY <2>5, <3>1 DEF Inv, PhaseInv
      <4>2. Len(issued) - Newest < Lead
        BY <2>1, <4>1, Constants
      <4>3. /\ Len(issued)' = 3 /\ log' # <<>> /\ waiting' = FALSE
            /\ Len(issued)' - Newest' < Lead
        BY <1>1, <2>2, <4>1, <4>2
      <4> QED
        BY <2>1, <2>2, <3>1, <4>3, Constants DEF PhaseInv
  <2> QED
    BY <2>1, <2>3, <2>4, <2>5 DEF Phases
<1> QED
  BY <1>1, <1>2, <1>3, QuietStep

LEMMA TakeResponseStep ==
    ASSUME Inv, TakeResponse
    PROVE  Inv'
<1>1. PICK m \in net :
        /\ ~ IsRequest(m.type) /\ (waiting \/ phase = "run")
        /\ net' = net \ {m} /\ waiting' = FALSE
        /\ phase' = IF waiting THEN Succeeding(phase) ELSE phase
        /\ UNCHANGED <<try, issued, alive, acState, last, cache, log>>
  BY DEF TakeResponse, WtpReads, ac
<1>2. m \in Message
  BY DEF Inv, TypeOK
<1>3. TypeOK'
  <2>1. phase' \in Phases /\ waiting' \in BOOLEAN /\ net' \subseteq Message
    BY <1>1 DEF Inv, TypeOK, Succeeding, Phases
  <2> QED
    BY <1>1, <2>1 DEF Inv, TypeOK
<1>4. PhaseInv'
  <2>1. /\ Newest \in Nat /\ Len(issued) \in Nat /\ Newest <= Len(issued)
        /\ (log # <<>> => Newest >= 1) /\ phase \in Phases
    BY NewestIsLargest, IssuedTypes DEF Inv, TypeOK
  <2>2. Newest' = Newest
    BY <1>1 DEF Newest
  <2>3. log # <<>> /\ m.id <= Newest /\ Len(issued) - m.id < Lifetime /\ m.id \in Nat
    <3>1. PICK i \in DOMAIN log : log[i].id = m.id
      BY <1>1 DEF Inv, NetInv, Answered
    <3> QED
      BY <1>2, <3>1, NewestIsLargest, Constants DEF Inv, NetInv, Message, Id
  <2>4. waiting => Len(issued) - Newest < Lead
    BY <2>1, <2>3, Constants
  <2>5. CASE waiting
    <3>1. phase' = Succeeding(phase) /\ phase # "exit"
      BY <1>1, <2>5 DEF Inv, PhaseInv
    <3> QED
      BY <1>1, <2>1, <2>2, <2>3, <2>4, <2>5, <3>1
      DEF Inv, PhaseInv, Succeeding, Phases
  <2>6. CASE ~ waiting
    <3>1. phase' = phase /\ phase = "run"
      BY <1>1, <2>6
    <3> QED
      BY <1>1, <2>1, <2>2, <2>6, <3>1 DEF Inv, PhaseInv
  <2> QED
    BY <2>5, <2>6
<1> QED
  BY <1>1, <1>3, <1>4, QuietStep

LEMMA RefuseResponseStep ==
    ASSUME Inv, RefuseResponse
    PROVE  Inv'
<1>1. PICK m \in net :
        /\ ~ IsRequest(m.type)
        /\ net' = (net \ {m}) \cup (IF m.type \in WtpKnown
                                    THEN {Send(ReplyTo(m, FALSE), m.try)} ELSE {})
        /\ UNCHANGED <<phase, waiting, try, issued,
                       alive, acState, last, cache, log>>
  BY DEF RefuseResponse, WtpReads, ac
<1> DEFINE new == Send(ReplyTo(m, FALSE), m.try)
<1>2. m \in Message /\ m.type \in Type
  BY DEF Inv, TypeOK, Message
<1>3. /\ new.type = m.type + 1 /\ new.id = m.id
      /\ m.type \in WtpKnown => new \in Message /\ IsRequest(new.type)
  <2>1. \A t \in WtpKnown : t + 1 \in Type /\ IsRequest(t + 1)
    BY DEF WtpKnown, Type, IsRequest
  <2> QED
    BY <1>2, <2>1 DEF Send, ReplyTo, Message
<1> HIDE DEF new
<1>4. \A k \in net' : k \in net \/ (k = new /\ m.type \in WtpKnown)
  BY <1>1 DEF new
<1>5. TypeOK'
  <2>1. net' \subseteq Message
    BY <1>1, <1>3, <1>4 DEF Inv, TypeOK
  <2> QED
    BY <1>1, <2>1 DEF Inv, TypeOK
<1>6. PhaseInv' /\ AtMostOnceInOrder' /\ NoGhostRequest' /\ CacheInv'
  <2>1. PhaseInv'
    BY <1>1 DEF Inv, PhaseInv, Newest
  <2> QED
    BY <1>1, <2>1, AcUntouched
<1>7. NetInv'
  <2> SUFFICES ASSUME NEW k \in net'
               PROVE  /\ k.id <= Len(issued) /\ Len(issued) - k.id < Lifetime
                      /\ IsRequest(k.type) =>
                            k.type = issued[k.id] \/ k.id <= Newest
                      /\ ~ IsRequest(k.type) => Answered(k)
    BY <1>1, Zenon DEF NetInv, Answered, Newest
  <2>1. CASE k \in net
    BY <2>1 DEF Inv, NetInv
  <2>2. CASE k = new /\ m.type \in WtpKnown
    <3>1. PICK i \in DOMAIN log : log[i].id = m.id
      BY <1>1 DEF Inv, NetInv, Answered
    <3>2. k.id = m.id /\ m.id <= Newest /\ IsRequest(k.type)
      BY <1>3, <2>2, <3>1, NewestIsLargest DEF Inv
    <3> QED
      BY <3>2 DEF Inv, NetInv
  <2> QED
    BY <1>4, <2>1, <2>2
<1> QED
  BY <1>5, <1>6, <1>7 DEF Inv

LEMMA AcResendStep ==
    ASSUME Inv, AcResend
    PROVE  Inv'
<1>1. PICK m \in net :
        /\ IsRequest(m.type) /\ ~ Accepts(last, WireSeq(m.id))
        /\ WireSeq(m.id) = last
        /\ net' = (net \ {m}) \cup {Send(cache, m.try)}
        /\ UNCHANGED <<phase, waiting, try, issued,
                       alive, acState, last, cache, log>>
  BY DEF AcResend, ac, wtp
<1> DEFINE new == Send(cache, m.try)
           L == Len(log)
<1>2. m \in Message
  BY DEF Inv, TypeOK
<1>3. log # <<>> /\ m.id = Newest
  <2>1. log = <<>> => last = -1 /\ WireSeq(m.id) # -1
    BY InFlightCompares, Constants
  <2> QED
    BY <1>1, <2>1, InFlightCompares
<1>4. /\ L \in DOMAIN log /\ log[L].id = m.id /\ log[L] \in Entry
      /\ IsRequest(log[L].type) /\ log[L].type <= 13 /\ log[L].type >= 3
  <2>1. L \in DOMAIN log /\ log[L].id = m.id /\ log[L] \in Entry
        /\ log[L].id \in Nat \ {0}
    BY <1>3, NewestIsLargest, LogTypes DEF Inv
  <2>2. log[L].type = issued[log[L].id] /\ log[L].id \in 1 .. Len(issued)
    BY <2>1, IssuedTypes DEF Inv, NoGhostRequest
  <2> QED
    BY <2>1, <2>2, IssuedTypes DEF Inv, JoinReq, ConfigReq, ChangeReq, EchoReq
<1>5. /\ new.type = log[L].type + 1 /\ new.id = m.id /\ new.ok = log[L].ok
      /\ new \in Message /\ ~ IsRequest(new.type)
  <2>1. cache = [type |-> log[L].type + 1, id |-> m.id, ok |-> log[L].ok]
    BY <1>3 DEF Inv, CacheInv
  <2>2. log[L].type + 1 \in Type /\ ~ IsRequest(log[L].type + 1)
    BY <1>4 DEF Type, IsRequest, Entry
  <2> QED
    BY <1>2, <1>4, <2>1, <2>2 DEF Send, Message, Entry
<1> HIDE DEF new
<1>6. \A k \in net' : k \in net \/ k = new
  BY <1>1 DEF new
<1>7. TypeOK'
  <2>1. net' \subseteq Message
    BY <1>5, <1>6 DEF Inv, TypeOK
  <2> QED
    BY <1>1, <2>1 DEF Inv, TypeOK
<1>8. PhaseInv' /\ AtMostOnceInOrder' /\ NoGhostRequest' /\ CacheInv'
  <2>1. PhaseInv'
    BY <1>1 DEF Inv, PhaseInv, Newest
  <2> QED
    BY <1>1, <2>1, AcUntouched
<1>9. NetInv'
  <2> SUFFICES ASSUME NEW k \in net'
               PROVE  /\ k.id <= Len(issued) /\ Len(issued) - k.id < Lifetime
                      /\ IsRequest(k.type) =>
                            k.type = issued[k.id] \/ k.id <= Newest
                      /\ ~ IsRequest(k.type) => Answered(k)
    BY <1>1, Zenon DEF NetInv, Answered, Newest
  <2>1. CASE k \in net
    BY <2>1 DEF Inv, NetInv
  <2>2. CASE k = new
    <3>1. k.id = m.id /\ ~ IsRequest(k.type) /\ Answered(k)
      BY <1>4, <1>5, <2>2 DEF Answered
    <3> QED
      BY <3>1 DEF Inv, NetInv
  <2> QED
    BY <1>6, <2>1, <2>2
<1> QED
  BY <1>7, <1>8, <1>9 DEF Inv

\* The step all others are there for: what process_message accepts is newer
\* than everything it has accepted before.
LEMMA AcProcessStep ==
    ASSUME Inv, AcProcess
    PROVE  Inv'
<1> DEFINE L == Len(log)
<1>1. PICK m \in net, ok \in BOOLEAN :
        /\ IsRequest(m.type) /\ Accepts(last, WireSeq(m.id))
        /\ last' = WireSeq(m.id)
        /\ log' = Append(log, [type |-> m.type, id |-> m.id, ok |-> ok,
                               answered |-> m.type # UpdateReq])
        /\ acState' \in AcStates
        /\ cache' = IF m.type # UpdateReq THEN ReplyTo(m, ok) ELSE cache
        /\ net' = (net \ {m}) \cup
              (IF m.type # UpdateReq THEN {Send(ReplyTo(m, ok), m.try)} ELSE {})
        /\ UNCHANGED <<phase, waiting, try, issued, alive>>
  <2> DEFINE Next3(m) == {r[3] : r \in {x \in AcRules : x[1] = m.type /\ x[2] = acState}}
  <2>1. PICK m \in net :
          /\ IsRequest(m.type) /\ Accepts(last, WireSeq(m.id))
          /\ last' = WireSeq(m.id)
          /\ log' = Append(log, [type |-> m.type, id |-> m.id, ok |-> Next3(m) # {},
                                 answered |-> m.type # UpdateReq])
          /\ acState' = IF Next3(m) # {} THEN Settle(CHOOSE s \in Next3(m) : TRUE)
                                         ELSE acState
          /\ cache' = IF m.type # UpdateReq THEN ReplyTo(m, Next3(m) # {}) ELSE cache
          /\ net' = (net \ {m}) \cup
                (IF m.type # UpdateReq
                 THEN {Send(ReplyTo(m, Next3(m) # {}), m.try)} ELSE {})
          /\ UNCHANGED <<phase, waiting, try, issued, alive>>
    BY DEF AcProcess, wtp
  <2>2. \A r \in AcRules : r[3] \in AcStates
    BY DEF AcRules, AcStates
  <2>3. Next3(m) \subseteq AcStates
    BY <2>2
  <2> HIDE DEF Next3
  <2>4. acState' \in AcStates
    BY <2>1, <2>3 DEF Inv, TypeOK, Settle, AcStates
  <2> DEFINE b == Next3(m) # {}
  <2>5. b \in BOOLEAN
    OBVIOUS
  <2> HIDE DEF b
  <2> QED
    BY <2>1, <2>4, <2>5, Zenon DEF b
<1> DEFINE e == [type |-> m.type, id |-> m.id, ok |-> ok,
                 answered |-> m.type # UpdateReq]
           new == Send(ReplyTo(m, ok), m.try)
<1>2. /\ m \in Message /\ m.id \in Nat \ {0} /\ m.id <= Len(issued)
      /\ Len(issued) - m.id < Lifetime /\ m.id > Newest
      /\ Newest \in Nat /\ Len(issued) \in Nat
      /\ WireSeq(m.id) \in 0 .. SeqMod - 1
  BY <1>1, InFlightCompares, NewestIsLargest, IssuedTypes, Constants
  DEF Inv, TypeOK, NetInv, Message, Id
<1>3. /\ m.type = issued[m.id] /\ m.type # UpdateReq
      /\ m.type \in {JoinReq, ConfigReq, ChangeReq, EchoReq}
  <2>1. m.type = issued[m.id] /\ m.id \in 1 .. Len(issued)
    BY <1>1, <1>2 DEF Inv, NetInv
  <2> QED
    BY <2>1, IssuedTypes DEF Inv
<1>4. e \in Entry /\ e.type = m.type /\ e.id = m.id /\ e.ok = ok
  BY <1>1, <1>2 DEF Entry, Message
<1>5. /\ new \in Message /\ new.type = m.type + 1 /\ new.id = m.id /\ new.ok = ok
      /\ ~ IsRequest(new.type) /\ ReplyTo(m, ok) \in Reply
  <2>1. m.type + 1 \in Type /\ ~ IsRequest(m.type + 1)
    BY <1>3 DEF Type, IsRequest, JoinReq, ConfigReq, ChangeReq, EchoReq
  <2> QED
    BY <1>1, <1>2, <2>1 DEF Send, ReplyTo, Message, Reply
<1>6. /\ log' = Append(log, e) /\ cache' = ReplyTo(m, ok)
      /\ net' = (net \ {m}) \cup {new}
  BY <1>1, <1>3
<1> HIDE DEF e, new
<1>7. /\ log' \in Seq(Entry) /\ L \in Nat /\ Len(log') = L + 1
      /\ DOMAIN log = 1 .. L /\ DOMAIN log' = 1 .. L + 1 /\ log' # <<>>
      /\ log'[L + 1] = e /\ \A i \in DOMAIN log : log'[i] = log[i]
  <2>1. log \in Seq(Entry)
    BY DEF Inv, TypeOK
  <2> QED
    BY <1>4, <1>6, <2>1
<1>8. Newest' = m.id
  BY <1>4, <1>7 DEF Newest
<1>9. TypeOK'
  <2>1. net' \subseteq Message
    BY <1>5, <1>6 DEF Inv, TypeOK
  <2>2. last' \in -1 .. SeqMod - 1
    BY <1>1, <1>2, Constants
  <2> QED
    BY <1>1, <1>5, <1>6, <1>7, <2>1, <2>2 DEF Inv, TypeOK
<1>10. \A i \in DOMAIN log' : i \in DOMAIN log \/ i = L + 1
  BY <1>7
<1>11. AtMostOnceInOrder'
  <2> SUFFICES ASSUME NEW i \in DOMAIN log', NEW j \in DOMAIN log', i < j
               PROVE  log'[i].id < log'[j].id
    BY DEF AtMostOnceInOrder
  <2>1. i \in DOMAIN log
    BY <1>7, <1>10
  <2>2. CASE j \in DOMAIN log
    BY <1>7, <2>1, <2>2 DEF Inv, AtMostOnceInOrder
  <2>3. CASE j = L + 1
    <3>1. log[i].id <= Newest /\ log[i].id \in Nat
      BY <2>1, NewestIsLargest, LogTypes DEF Inv
    <3> QED
      BY <1>2, <1>4, <1>7, <2>1, <2>3, <3>1
  <2> QED
    BY <1>10, <2>2, <2>3
<1>12. NoGhostRequest'
  <2> SUFFICES ASSUME NEW i \in DOMAIN log'
               PROVE  log'[i].id <= Len(issued) /\ log'[i].type = issued[log'[i].id]
    BY <1>1 DEF NoGhostRequest
  <2>1. CASE i \in DOMAIN log
    BY <1>7, <2>1 DEF Inv, NoGhostRequest
  <2>2. CASE i = L + 1
    BY <1>2, <1>3, <1>4, <1>7, <2>2
  <2> QED
    BY <1>10, <2>1, <2>2
<1>13. CacheInv'
  BY <1>1, <1>4, <1>6, <1>7, <1>8 DEF CacheInv, ReplyTo
<1>14. NetInv'
  <2> SUFFICES ASSUME NEW k \in net'
               PROVE  /\ k.id <= Len(issued) /\ Len(issued) - k.id < Lifetime
                      /\ IsRequest(k.type) =>
                            k.type = issued[k.id] \/ k.id <= Newest'
                      /\ ~ IsRequest(k.type) =>
                            \E i \in DOMAIN log' :
                                /\ log'[i].id = k.id /\ log'[i].type + 1 = k.type
                                /\ log'[i].ok = k.ok
    BY <1>1, Zenon DEF NetInv, Answered
  <2>1. CASE k \in net
    <3>1. k.id \in Nat
      BY <2>1, Constants DEF Inv, TypeOK, Message, Id
    <3>2. k.id <= Newest => k.id <= Newest'
      BY <1>2, <1>8, <3>1
    <3>3. ASSUME Answered(k)
          PROVE  \E i \in DOMAIN log' :
                     /\ log'[i].id = k.id /\ log'[i].type + 1 = k.type
                     /\ log'[i].ok = k.ok
      <4>1. PICK i \in DOMAIN log :
                log[i].id = k.id /\ log[i].type + 1 = k.type /\ log[i].ok = k.ok
        BY <3>3 DEF Answered
      <4> QED
        BY <1>7, <4>1
    <3> QED
      BY <2>1, <3>2, <3>3 DEF Inv, NetInv
  <2>2. CASE k = new
    <3>1. L + 1 \in DOMAIN log'
      BY <1>7
    <3> QED
      BY <1>2, <1>4, <1>5, <1>7, <2>2, <3>1
  <2> QED
    BY <1>6, <2>1, <2>2
<1>15. PhaseInv'
  <2>1. m.id > Newest /\ Len(issued) - m.id < Lead
    BY <1>2, Constants
  <2> QED
    BY <1>1, <1>2, <1>7, <1>8, <2>1, Constants DEF Inv, PhaseInv
<1> QED
  BY <1>9, <1>11, <1>12, <1>13, <1>14, <1>15 DEF Inv

LEMMA InitInv == Init => Inv
<1> SUFFICES ASSUME Init PROVE Inv
  OBVIOUS
<1>1. TypeOK
  <2>1. /\ issued \in Seq({JoinReq, ConfigReq, ChangeReq, EchoReq})
        /\ log \in Seq(Entry) /\ Len(issued) = 0 /\ net \subseteq Message
    BY DEF Init
  <2>2. try \in 0 .. MaxRetransmit /\ last \in -1 .. SeqMod - 1
    BY Constants DEF Init
  <2>3. phase \in Phases /\ acState \in AcStates
    BY DEF Init, Phases, AcStates
  <2>4. /\ waiting \in BOOLEAN /\ alive \in BOOLEAN
        /\ cache \in Reply \cup {NoMessage}
    BY DEF Init
  <2>5. Len(issued) <= MaxRequests
    BY <2>1, Constants
  <2> QED
    BY <2>1, <2>2, <2>3, <2>4, <2>5, Zenon DEF TypeOK
<1>2. /\ issued = <<>> /\ log = <<>> /\ net = {} /\ last = -1 /\ phase = "join"
      /\ waiting = FALSE /\ DOMAIN log = {} /\ Len(issued) = 0
  BY DEF Init
<1> QED
  BY <1>1, <1>2 DEF Inv, AtMostOnceInOrder, NoGhostRequest, NetInv, CacheInv, PhaseInv

LEMMA NextInv == Inv /\ [Next]_vars => Inv'
<1> SUFFICES ASSUME Inv, [Next]_vars PROVE Inv'
  OBVIOUS
<1>1. CASE StartRequest
  BY <1>1, StartRequestStep
<1>2. CASE Retransmit
  BY <1>2, RetransmitStep
<1>3. CASE GiveUp \/ PeerClosed
  BY <1>3, GiveUpStep
<1>4. CASE TakeResponse
  BY <1>4, TakeResponseStep
<1>5. CASE RefuseResponse
  BY <1>5, RefuseResponseStep
<1>6. CASE AcProcess
  BY <1>6, AcProcessStep
<1>7. CASE AcResend
  BY <1>7, AcResendStep
<1>8. CASE AcDiscard \/ AcTimeout \/ UNCHANGED vars
  <2>1. /\ net' \subseteq net /\ alive' \in BOOLEAN
        /\ UNCHANGED <<phase, waiting, try, issued,
                       acState, last, cache, log>>
    BY <1>8 DEF AcDiscard, AcTimeout, vars, wtp, ac, Inv, TypeOK
  <2>2. TypeOK'
    BY <2>1 DEF Inv, TypeOK
  <2>3. PhaseInv'
    BY <2>1 DEF Inv, PhaseInv, Newest
  <2> QED
    BY <2>1, <2>2, <2>3, QuietStep
<1> QED
  BY <1>1, <1>2, <1>3, <1>4, <1>5, <1>6, <1>7, <1>8 DEF Next, WtpStep, AcStep

THEOREM Invariance == Spec => []Inv
BY InitInv, NextInv, PTL DEF Spec

------------------------------------------------------------------------------
\* Every state of the model is one of the types declared for it.
THEOREM TypeCorrect == Spec => []TypeOK
BY Invariance, PTL DEF Inv

\* The AC processes every request at most once and in the order in which they
\* were issued, whatever the network loses, delays or reorders.
THEOREM ProcessedOnce == Spec => []AtMostOnceInOrder
BY Invariance, PTL DEF Inv

\* No reply of the WTP to a response is ever processed as a request.
THEOREM NoGhosts == Spec => []NoGhostRequest
BY Invariance, PTL DEF Inv

\* All the responses to a request are the same.
THEOREM AnswersAgree == Spec => []OneAnswer
<1>1. Inv => OneAnswer
  <2> SUFFICES ASSUME Inv, NEW m \in net, ~ IsRequest(m.type)
               PROVE  /\ \E i \in DOMAIN log : log[i].id = m.id
                      /\ \A i \in DOMAIN log : log[i].id = m.id =>
                            log[i].type = m.type - 1 /\ log[i].ok = m.ok
    BY DEF OneAnswer
  <2>1. PICK i \in DOMAIN log :
          log[i].id = m.id /\ log[i].type + 1 = m.type /\ log[i].ok = m.ok
    BY DEF Inv, NetInv, Answered
  <2>2. /\ DOMAIN log = 1 .. Len(log) /\ Len(log) \in Nat
        /\ \A j \in DOMAIN log : log[j] \in Entry /\ log[j].id \in Nat
    BY LogTypes DEF Inv
  <2>3. \A j \in DOMAIN log : log[j].id = m.id => j = i
    BY <2>1, <2>2 DEF Inv, AtMostOnceInOrder
  <2>4. log[i].type \in Nat /\ m.type \in Nat
    <3>1. log[i] \in Entry /\ m \in Message
      BY <2>2 DEF Inv, TypeOK
    <3> QED
      BY <3>1 DEF Entry, Message, Type
  <2> QED
    BY <2>1, <2>3, <2>4
<1> QED
  BY <1>1, Invariance, PTL

\* The WTP never gets Half requests ahead of the AC.
THEOREM AcKept == Spec => []AcKeepsUp
<1>1. Inv => AcKeepsUp
  <2> SUFFICES ASSUME Inv, log # <<>> PROVE Len(issued) - log[Len(log)].id < Half
    BY DEF AcKeepsUp
  <2>1. Len(issued) - Newest <= Lead /\ Newest = log[Len(log)].id
        /\ Newest \in Nat /\ Len(issued) \in Nat
    BY NewestIsLargest, IssuedTypes DEF Inv, PhaseInv
  <2> QED
    BY <2>1, Constants
<1> QED
  BY <1>1, Invariance, PTL
------------------------------------------------------------------------------
(* The order of the handshake *)

\* The first request is a Join Request, and the first the AC processes is it,
\* because there is no second before the WTP has read an answer.
OrderInv ==
    /\ issued # <<>> => issued[1] = JoinReq
    /\ log = <<>> => acState = "JOIN"
    /\ log # <<>> => Served(JoinReq, 1)
    /\ acState # "JOIN" => \E j \in DOMAIN log : Served(ConfigReq, j)
    /\ acState \in {"DATA_CHECK", "RUN"} =>
          \E i, j \in DOMAIN log :
              i < j /\ Served(ConfigReq, i) /\ Served(ChangeReq, j)

\* The state a session changes to, if the message is allowed.
NextStates(t, s) == {r[3] : r \in {x \in AcRules : x[1] = t /\ x[2] = s}}

\* What the tables do to the state of a session.
LEMMA StateRules ==
    ASSUME NEW t, NEW s
    PROVE  /\ t = JoinReq /\ s = "JOIN" => NextStates(t, s) # {}
           /\ \A n \in NextStates(t, s) :
                 \/ n = s
                 \/ t = ConfigReq /\ s = "JOIN" /\ n = "CONFIGURE"
                 \/ t = ChangeReq /\ s = "CONFIGURE" /\ n = "DATA_CHECK"
<1>1. ASSUME t = JoinReq, s = "JOIN" PROVE NextStates(t, s) # {}
  <2>1. <<JoinReq, "JOIN", "JOIN">> \in AcRules
    BY DEF AcRules
  <2> QED
    BY <1>1, <2>1 DEF NextStates
<1>2. \A x \in AcRules :
          \/ x[3] = x[2]
          \/ x[1] = ConfigReq /\ x[2] = "JOIN" /\ x[3] = "CONFIGURE"
          \/ x[1] = ChangeReq /\ x[2] = "CONFIGURE" /\ x[3] = "DATA_CHECK"
  <2> TAKE x \in AcRules
  <2>1. \/ x = <<JoinReq, "JOIN", "JOIN">>
        \/ x = <<ConfigReq, "JOIN", "CONFIGURE">>
        \/ x = <<ChangeReq, "CONFIGURE", "DATA_CHECK">>
        \/ x = <<ChangeReq, "RUN", "RUN">>
        \/ x = <<EventReq, "RUN", "RUN">>
        \/ x = <<EchoReq, "RUN", "RUN">>
        \/ x = <<ConfigReq, "RUN", "RUN">>
    <3>1. CASE Cisco
      BY <3>1, Zenon DEF AcRules
    <3>2. CASE ~ Cisco
      BY <3>2, Zenon DEF AcRules
    <3> QED
      BY <3>1, <3>2
  <2>2. CASE x = <<ConfigReq, "JOIN", "CONFIGURE">>
    BY <2>2
  <2>3. CASE x = <<ChangeReq, "CONFIGURE", "DATA_CHECK">>
    BY <2>3
  <2>4. CASE \E c : x = <<c, "JOIN", "JOIN">> \/ x = <<c, "RUN", "RUN">>
    BY <2>4
  <2> QED
    BY <2>1, <2>2, <2>3, <2>4, Zenon
<1>3. \A n \in NextStates(t, s) : \E x \in AcRules : x[1] = t /\ x[2] = s /\ x[3] = n
  BY DEF NextStates
<1> QED
  BY <1>1, <1>2, <1>3

\* AcProcess: what is processed and what becomes of the state.
LEMMA OrderStep ==
    ASSUME Inv, OrderInv, AcProcess PROVE OrderInv'
<1>1. PICK m \in net, ok \in BOOLEAN :
        /\ IsRequest(m.type) /\ Accepts(last, WireSeq(m.id))
        /\ log' = Append(log, [type |-> m.type, id |-> m.id, ok |-> ok,
                               answered |-> m.type # UpdateReq])
        /\ m.type = JoinReq /\ acState = "JOIN" => ok
        /\ \/ acState' = acState
           \/ acState = "DATA_CHECK" /\ acState' = "RUN"
           \/ ok /\ m.type = ConfigReq /\ acState = "JOIN" /\ acState' = "CONFIGURE"
           \/ ok /\ m.type = ChangeReq /\ acState = "CONFIGURE"
                 /\ acState' \in {"DATA_CHECK", "RUN"}
        /\ issued' = issued
  <2>1. PICK m \in net :
          /\ IsRequest(m.type) /\ Accepts(last, WireSeq(m.id))
          /\ log' = Append(log, [type |-> m.type, id |-> m.id,
                                 ok |-> NextStates(m.type, acState) # {},
                                 answered |-> m.type # UpdateReq])
          /\ acState' = IF NextStates(m.type, acState) # {}
                        THEN Settle(CHOOSE s \in NextStates(m.type, acState) : TRUE)
                        ELSE acState
          /\ issued' = issued
    BY DEF AcProcess, wtp, NextStates
  <2>2. /\ m.type = JoinReq /\ acState = "JOIN" => NextStates(m.type, acState) # {}
        /\ \A n \in NextStates(m.type, acState) :
              \/ n = acState
              \/ m.type = ConfigReq /\ acState = "JOIN" /\ n = "CONFIGURE"
              \/ m.type = ChangeReq /\ acState = "CONFIGURE" /\ n = "DATA_CHECK"
    BY StateRules
  <2> DEFINE b == NextStates(m.type, acState) # {}
             n == CHOOSE s \in NextStates(m.type, acState) : TRUE
  <2>3. b => n \in NextStates(m.type, acState)
    OBVIOUS
  <2>4. \A s : Settle(s) = s \/ (s = "DATA_CHECK" /\ Settle(s) = "RUN")
    <3> SUFFICES ASSUME NEW s PROVE Settle(s) = s \/ (s = "DATA_CHECK" /\ Settle(s) = "RUN")
      OBVIOUS
    <3>1. CASE Cisco /\ s = "DATA_CHECK"
      BY <3>1, Zenon DEF Settle
    <3>2. CASE ~ (Cisco /\ s = "DATA_CHECK")
      BY <3>2, Zenon DEF Settle
    <3> QED
      BY <3>1, <3>2
  <2>5. acState' = IF b THEN Settle(n) ELSE acState
    BY <2>1
  <2>6. \/ acState' = acState
        \/ acState = "DATA_CHECK" /\ acState' = "RUN"
        \/ b /\ m.type = ConfigReq /\ acState = "JOIN" /\ acState' = "CONFIGURE"
        \/ b /\ m.type = ChangeReq /\ acState = "CONFIGURE"
              /\ acState' \in {"DATA_CHECK", "RUN"}
    <3> HIDE DEF b, n
    <3>1. CASE ~ b
      BY <3>1, <2>5
    <3>2. CASE b
      <4>1. acState' = Settle(n) /\ (Settle(n) = n \/ (n = "DATA_CHECK" /\ Settle(n) = "RUN"))
        BY <3>2, <2>4, <2>5
      <4> QED
        BY <3>2, <4>1, <2>2, <2>3
    <3> QED
      BY <3>1, <3>2
  <2>7. b \in BOOLEAN
    OBVIOUS
  <2> HIDE DEF n
  <2>8. /\ log' = Append(log, [type |-> m.type, id |-> m.id, ok |-> b,
                               answered |-> m.type # UpdateReq])
        /\ m.type = JoinReq /\ acState = "JOIN" => b
    BY <2>1, <2>2
  <2> HIDE DEF b
  <2> QED
    BY <2>1, <2>6, <2>7, <2>8, Zenon
<1> DEFINE L == Len(log)
           e == [type |-> m.type, id |-> m.id, ok |-> ok, answered |-> m.type # UpdateReq]
<1>2. /\ L \in Nat /\ log \in Seq(Entry) /\ e \in Entry
      /\ m.id \in Nat \ {0} /\ m.id <= Len(issued) /\ m.id > Newest
      /\ Len(issued) \in Nat
  <2>1. m \in Message
    BY DEF Inv, TypeOK
  <2> QED
    BY <1>1, <2>1, InFlightCompares, IssuedTypes, Constants
    DEF Inv, TypeOK, NetInv, Message, Id, Entry
<1>3. e.type = m.type /\ e.ok = ok
  OBVIOUS
<1>4. log' = Append(log, e)
  BY <1>1
<1> HIDE DEF e
<1>5. /\ DOMAIN log = 1 .. L /\ DOMAIN log' = 1 .. L + 1 /\ log' # <<>>
      /\ log'[L + 1] = e /\ \A i \in 1 .. L : log'[i] = log[i]
      /\ log = <<>> <=> L = 0
  BY <1>2, <1>4
<1>6. /\ \A i \in DOMAIN log : i \in DOMAIN log' /\ log'[i] = log[i] /\ i < L + 1
      /\ L + 1 \in DOMAIN log' /\ log'[L + 1].type = m.type /\ log'[L + 1].ok = ok
  BY <1>2, <1>3, <1>5
<1>7. Served(JoinReq, 1)'
  <2>1. CASE log = <<>>
    <3>1. Len(issued) <= 1 /\ Newest = 0 /\ acState = "JOIN"
      BY <2>1 DEF Inv, PhaseInv, OrderInv, Newest
    <3>2. m.id = 1 /\ m.type = issued[1] /\ issued # <<>>
      BY <1>1, <1>2, <3>1 DEF Inv, NetInv, TypeOK
    <3>3. m.type = JoinReq /\ ok
      BY <1>1, <3>1, <3>2 DEF OrderInv
    <3> QED
      <4>1. L = 0 /\ L + 1 = 1
        BY <1>5, <2>1
      <4>2. log'[1].type = JoinReq /\ log'[1].ok
        BY <1>6, <3>3, <4>1
      <4> QED
        BY <4>2 DEF Served
  <2>2. CASE log # <<>>
    <3>1. 1 \in DOMAIN log /\ Served(JoinReq, 1)
      BY <1>2, <1>5, <2>2 DEF OrderInv
    <3> QED
      BY <1>6, <3>1 DEF Served
  <2> QED
    BY <2>1, <2>2
<1>8. acState' # "JOIN" => \E j \in DOMAIN log' : Served(ConfigReq, j)'
  <2> SUFFICES ASSUME acState' # "JOIN" PROVE \E j \in DOMAIN log' : Served(ConfigReq, j)'
    OBVIOUS
  <2>1. CASE acState # "JOIN"
    <3>1. PICK j \in DOMAIN log : Served(ConfigReq, j)
      BY <2>1 DEF OrderInv
    <3> QED
      BY <1>6, <3>1 DEF Served
  <2>2. CASE acState = "JOIN"
    <3>1. ok /\ m.type = ConfigReq
      BY <1>1, <2>2
    <3> QED
      BY <1>6, <3>1 DEF Served
  <2> QED
    BY <2>1, <2>2
<1>9. acState' \in {"DATA_CHECK", "RUN"} =>
        \E i, j \in DOMAIN log' :
            i < j /\ Served(ConfigReq, i)' /\ Served(ChangeReq, j)'
  <2> SUFFICES ASSUME acState' \in {"DATA_CHECK", "RUN"}
               PROVE  \E i, j \in DOMAIN log' :
                          i < j /\ Served(ConfigReq, i)' /\ Served(ChangeReq, j)'
    OBVIOUS
  <2>1. CASE acState \in {"DATA_CHECK", "RUN"}
    <3>1. PICK i \in DOMAIN log, j \in DOMAIN log :
              i < j /\ Served(ConfigReq, i) /\ Served(ChangeReq, j)
      BY <2>1 DEF OrderInv
    <3> QED
      BY <1>6, <3>1 DEF Served
  <2>2. CASE acState \notin {"DATA_CHECK", "RUN"}
    <3>1. ok /\ m.type = ChangeReq /\ acState = "CONFIGURE"
      BY <1>1, <2>2
    <3>2. PICK i \in DOMAIN log : Served(ConfigReq, i)
      BY <3>1 DEF OrderInv
    <3> QED
      BY <1>6, <3>1, <3>2 DEF Served
  <2> QED
    BY <2>1, <2>2
<1> QED
  BY <1>1, <1>5, <1>7, <1>8, <1>9 DEF OrderInv

LEMMA OrderNext == Inv /\ OrderInv /\ [Next]_vars => OrderInv'
<1> SUFFICES ASSUME Inv, OrderInv, [Next]_vars PROVE OrderInv'
  OBVIOUS
<1>1. CASE AcProcess
  BY <1>1, OrderStep
<1>2. CASE StartRequest
  <2>1. /\ log' = log /\ acState' = acState /\ phase \in Phases
        /\ issued' = Append(issued, RequestOf(phase)) /\ ~ waiting /\ phase # "exit"
        /\ issued \in Seq({JoinReq, ConfigReq, ChangeReq, EchoReq})
    BY <1>2 DEF StartRequest, ac, Inv, TypeOK
  <2>2. CASE issued = <<>>
    <3>1. phase = "join"
      <4>1. Len(issued) = 0
        BY <2>2
      <4>2. log = <<>>
        BY <4>1, NewestIsLargest DEF Inv
      <4> QED
        BY <2>1, <4>2 DEF Inv, PhaseInv
    <3>2. RequestOf(phase) = JoinReq
      BY <3>1 DEF RequestOf
    <3>3. issued'[1] = JoinReq
      BY <2>1, <2>2, <3>2
    <3> QED
      BY <2>1, <3>3 DEF OrderInv, Served
  <2>3. CASE issued # <<>>
    <3>1. issued'[1] = issued[1]
      <4>1. RequestOf(phase) \in {JoinReq, ConfigReq, ChangeReq, EchoReq}
        BY DEF RequestOf
      <4> QED
        BY <2>1, <2>3, <4>1
    <3> QED
      BY <2>1, <2>3, <3>1 DEF OrderInv, Served
  <2> QED
    BY <2>2, <2>3
<1>3. ASSUME UNCHANGED <<issued, acState, log>> PROVE OrderInv'
  BY <1>3 DEF OrderInv, Served
<1> QED
  BY <1>1, <1>2, <1>3
  DEF Next, WtpStep, AcStep, Retransmit, GiveUp, PeerClosed, TakeResponse,
      RefuseResponse, AcResend, AcDiscard, AcTimeout, vars, wtp, ac

\* The AC is past JOIN only after a Join Request and a Configuration Status
\* Request were served, and past CONFIGURE only after a Change State Event
\* Request was too, in this order, whatever the WTP takes for success.
THEOREM OrderOfHandshake == Spec => []HandshakeOrder
<1>1. Init => OrderInv
  BY DEF Init, OrderInv
<1>2. Inv /\ OrderInv => HandshakeOrder
  <2> SUFFICES ASSUME Inv, OrderInv PROVE HandshakeOrder
    OBVIOUS
  <2>1. ASSUME acState # "JOIN"
        PROVE  \E i, j \in DOMAIN log :
                   i < j /\ Served(JoinReq, i) /\ Served(ConfigReq, j)
    <3>1. PICK j \in DOMAIN log : Served(ConfigReq, j)
      BY <2>1 DEF OrderInv
    <3>2. DOMAIN log = 1 .. Len(log) /\ Len(log) \in Nat
      BY LogTypes DEF Inv
    <3>3. log # <<>> /\ Served(JoinReq, 1)
      BY <2>1 DEF OrderInv
    <3>4. j # 1
      BY <3>1, <3>3 DEF Served, JoinReq, ConfigReq
    <3>5. 1 \in DOMAIN log /\ 1 < j
      BY <3>1, <3>2, <3>4
    <3> QED
      BY <3>1, <3>3, <3>5
  <2> QED
    BY <2>1 DEF HandshakeOrder, OrderInv
<1> QED
  BY <1>1, <1>2, InitInv, NextInv, OrderNext, PTL DEF Spec
==============================================================================
