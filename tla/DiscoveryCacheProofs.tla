------------------------ MODULE DiscoveryCacheProofs ------------------------
(***************************************************************************)
(* Theorems about DiscoveryCache.  The inductive invariant adds to the     *)
(* shape of the trees when each slot was written: a slot in use holds the  *)
(* discovery of its last turn, so that the counters in the ring differ and *)
(* the slot in the way is the one that is Len discoveries old.             *)
(***************************************************************************)
EXTENDS DiscoveryCache, TLAPS

\* The discovery that went to slot s last (in the Init state, a number below 1).
Turn(s) == IF s < qpos THEN ctr - qpos + 1 + s ELSE ctr - qpos + 1 + s - Len

TurnInv ==
    \A s \in Pos : queue[s].cmod # NULL =>
        /\ queue[s].cmod = Turn(s)
        /\ queue[s].ctr = queue[s].cmod - 1

Inv == TypeOK /\ TreesMatchRing /\ TurnInv

LEMMA TurnsDiffer ==
    ASSUME Inv, NEW s \in Pos, NEW t \in Pos,
           queue[s].cmod # NULL, queue[t].cmod # NULL,
           \/ queue[s].cmod = queue[t].cmod
           \/ queue[s].ctr = queue[t].ctr
    PROVE  s = t
  <1>1. queue[s].cmod = Turn(s) /\ queue[t].cmod = Turn(t)
    BY DEF Inv, TurnInv
  <1>2. queue[s].ctr = Turn(s) - 1 /\ queue[t].ctr = Turn(t) - 1
    BY DEF Inv, TurnInv
  <1>3. qpos \in Pos /\ ctr \in Nat /\ Len \in Nat
    BY CacheAssumption DEF Inv, TypeOK
  <1>4. Turn(s) = Turn(t)
    <2>1. Turn(s) \in Int /\ Turn(t) \in Int
      BY <1>3 DEF Turn, Pos
    <2> QED
      BY <1>1, <1>2, <2>1
  <1> QED
    BY <1>3, <1>4 DEF Turn, Pos

\* A slot in use was written within the last Len discoveries.
LEMMA TurnBounds ==
    ASSUME Inv, NEW s \in Pos, queue[s].cmod # NULL
    PROVE  /\ queue[s].cmod \in 1 .. ctr
           /\ ctr + 1 - queue[s].cmod <= Len
           /\ ctr + 1 - queue[s].cmod = Len <=> s = qpos
           /\ queue[s].addr \in Address
           /\ queue[s].ctr \in 0 .. ctr - 1
  <1>1. queue[s].cmod = Turn(s) /\ queue[s].ctr = queue[s].cmod - 1
    BY DEF Inv, TurnInv
  <1>2. /\ qpos \in Pos /\ ctr \in 0 .. MaxAdds /\ Len \in Nat \ {0} /\ MaxAdds \in Nat
        /\ queue[s] \in Elem
    BY CacheAssumption DEF Inv, TypeOK
  <1>3. queue[s].cmod \in 0 .. MaxAdds /\ queue[s].addr \in Address
    BY <1>2 DEF Elem
  <1> QED
    BY <1>1, <1>2, <1>3 DEF Turn, Pos, NULL

LEMMA InitInv == Init => Inv
  <1> SUFFICES ASSUME Init PROVE Inv
    OBVIOUS
  <1>1. NoAddr \in Address
    BY CacheAssumption DEF NoAddr, Address
  <1>2. TypeOK
    BY <1>1, CacheAssumption DEF Init, TypeOK, Elem, Pos, NULL
  <1>3. TreesMatchRing /\ TurnInv
    BY DEF Init, TreesMatchRing, TurnInv
  <1> QED
    BY <1>2, <1>3 DEF Inv

\* The slot in the way loses its nodes, and only its own.
LEMMA SlotFreed ==
    ASSUME Inv, NEW s \in Pos,
           queue[s].cmod # NULL
    PROVE  /\ DelByAddr(queue, byaddr, s) = byaddr \ {s}
           /\ DelByAddrP(queue, byaddrp, s) \subseteq byaddrp \ {s}
  <1>1. \A t \in byaddr : queue[t].ctr = queue[s].ctr => t = s
    BY TurnsDiffer DEF Inv, TreesMatchRing
  <1> QED
    BY <1>1 DEF DelByAddr, DelByAddrP

LEMMA AddInv ==
    ASSUME Inv, NEW a \in Address, Add(a)
    PROVE  Inv'
  <1> DEFINE e == [addr |-> a, ctr |-> ctr, cmod |-> ctr + 1]
             q == [queue EXCEPT ![qpos] = e]
             old == queue[qpos].cmod # NULL
             T == IF old THEN DelByAddr(queue, byaddr, qpos) ELSE byaddr
             P == IF old THEN DelByAddrP(queue, byaddrp, qpos) ELSE byaddrp
  <1>1. /\ queue \in [Pos -> Elem] /\ qpos \in Pos /\ ctr \in 0 .. MaxAdds
        /\ byaddr \subseteq Pos /\ byaddrp \subseteq byaddr
        /\ byaddr = {s \in Pos : queue[s].cmod # NULL}
        /\ \A s, t \in byaddrp : queue[s].addr = queue[t].addr => s = t
        /\ MaxAdds \in Nat /\ Len \in Nat \ {0}
    BY CacheAssumption DEF Inv, TypeOK, TreesMatchRing
  <1>2. /\ queue' = q /\ byaddr' = InsByAddr(q, T, qpos)
        /\ byaddrp' = InsByAddrP(q, P, qpos)
        /\ ctr' = ctr + 1 /\ qpos' = Advance(qpos) /\ got' = got /\ ctr < MaxAdds
    BY DEF Add
  <1>3. e \in Elem /\ q \in [Pos -> Elem] /\ q[qpos] = e
        /\ \A s \in Pos \ {qpos} : q[s] = queue[s]
    BY <1>1, <1>2 DEF Elem
  <1>4. T = byaddr \ {qpos} /\ P \subseteq byaddrp \ {qpos}
    BY <1>1, SlotFreed
  <1>5. byaddr' = byaddr \cup {qpos}
    <2>1. \A t \in T : q[t].ctr # q[qpos].ctr
      BY <1>1, <1>3, <1>4, TurnBounds
    <2>2. DelByAddr(q, T, qpos) = T
      BY <2>1 DEF DelByAddr
    <2> QED
      BY <1>2, <1>4, <2>2 DEF InsByAddr
  <1>6. byaddrp' \in {P, P \cup {qpos}}
        /\ (qpos \in byaddrp' => \A t \in P : q[t].addr # q[qpos].addr)
    BY <1>2, <1>4 DEF InsByAddrP, DelByAddrP
  <1> HIDE DEF e, q, old, T, P
  <1>7. TypeOK'
    <2>1. qpos' \in Pos
      BY <1>1, <1>2 DEF Advance, Pos
    <2>2. byaddr' \subseteq Pos /\ byaddrp' \subseteq Pos
      BY <1>1, <1>4, <1>5, <1>6
    <2>3. queue' \in [Pos -> Elem] /\ ctr' \in 0 .. MaxAdds
      BY <1>1, <1>2, <1>3
    <2>4. got' \in {[id |-> 0]} \cup {Miss(x) : x \in Address}
                  \cup [from : Address, id : 1 .. MaxAdds, addr : Address]
      BY <1>2 DEF Inv, TypeOK
    <2> QED
      BY <2>1, <2>2, <2>3, <2>4 DEF TypeOK
  <1>8. TreesMatchRing'
    <2>1. byaddr' = {s \in Pos : queue'[s].cmod # NULL}
      <3>1. \A s \in Pos : s \in byaddr' <=> queue'[s].cmod # NULL
        <4>1. queue'[qpos].cmod # NULL
          BY <1>1, <1>2, <1>3 DEF e, NULL
        <4> QED
          BY <4>1, <1>1, <1>2, <1>3, <1>5
      <3> QED
        BY <3>1, <1>1, <1>5
    <2>2. byaddrp' \subseteq byaddr'
      BY <1>1, <1>4, <1>5, <1>6
    <2>3. \A s, t \in byaddrp' : queue'[s].addr = queue'[t].addr => s = t
      <3>1. \A s \in P : s \in byaddrp /\ s \in Pos /\ s # qpos
                        /\ queue'[s].addr = queue[s].addr
        BY <1>1, <1>2, <1>3, <1>4
      <3>2. qpos \in byaddrp' => \A t \in P : queue'[t].addr # queue'[qpos].addr
        BY <1>2, <1>6
      <3> QED
        BY <1>1, <1>6, <3>1, <3>2
    <2> QED
      BY <2>1, <2>2, <2>3 DEF TreesMatchRing
  <1>9. TurnInv'
    <2> SUFFICES ASSUME NEW s \in Pos, queue'[s].cmod # NULL
                 PROVE  /\ queue'[s].cmod = Turn(s)'
                        /\ queue'[s].ctr = queue'[s].cmod - 1
      BY DEF TurnInv
    <2>1. CASE s = qpos
      BY <2>1, <1>1, <1>2, <1>3 DEF Turn, Advance, Pos, e
    <2>2. CASE s # qpos
      <3>1. queue[s].cmod = Turn(s) /\ queue[s].ctr = queue[s].cmod - 1
            /\ queue'[s] = queue[s]
        BY <2>2, <1>2, <1>3 DEF Inv, TurnInv
      <3>2. Turn(s)' = Turn(s)
        BY <2>2, <1>1, <1>2 DEF Turn, Advance, Pos
      <3> QED
        BY <3>1, <3>2
    <2> QED
      BY <2>1, <2>2
  <1> QED
    BY <1>7, <1>8, <1>9 DEF Inv

LEMMA GiveInv ==
    ASSUME Inv, NEW a \in Address, NEW s \in byaddr, Give(a, s)
    PROVE  Inv'
  <1>1. /\ queue \in [Pos -> Elem] /\ byaddr \subseteq Pos /\ byaddrp \subseteq byaddr
        /\ byaddr = {t \in Pos : queue[t].cmod # NULL}
        /\ \A t, u \in byaddrp : queue[t].addr = queue[u].addr => t = u
    BY DEF Inv, TypeOK, TreesMatchRing
  <1>2. s \in Pos /\ queue[s].cmod # NULL
    BY <1>1
  <1>3. byaddr' = byaddr \ {s} /\ byaddrp' \subseteq byaddrp \ {s}
    BY <1>2, SlotFreed DEF Give
  <1>4. queue[s] \in Elem /\ NULL \in 0 .. MaxAdds
    BY <1>1, <1>2, CacheAssumption DEF NULL
  <1>5. queue'[s] = [queue[s] EXCEPT !.cmod = NULL]
        /\ \A t \in Pos \ {s} : queue'[t] = queue[t]
    BY <1>1, <1>2 DEF Give
  <1>6. queue' \in [Pos -> Elem] /\ queue'[s].cmod = NULL
        /\ \A t \in Pos : queue'[t].addr = queue[t].addr
    <2>1. [queue[s] EXCEPT !.cmod = NULL] \in Elem
          /\ [queue[s] EXCEPT !.cmod = NULL].cmod = NULL
          /\ [queue[s] EXCEPT !.cmod = NULL].addr = queue[s].addr
      BY <1>4 DEF Elem
    <2> QED
      BY <1>1, <1>2, <1>5, <2>1 DEF Give
  <1>7. got' \in [from : Address, id : 1 .. MaxAdds, addr : Address]
    BY <1>2, <1>4, TurnBounds DEF Give, Hit, Elem, NULL
  <1>8. TypeOK'
    BY <1>1, <1>3, <1>6, <1>7 DEF Give, TypeOK, Inv
  <1>9. TreesMatchRing'
    <2>1. byaddr' = {t \in Pos : queue'[t].cmod # NULL}
      <3>1. \A t \in Pos : t \in byaddr' <=> queue'[t].cmod # NULL
        BY <1>1, <1>2, <1>3, <1>5, <1>6
      <3> QED
        BY <3>1, <1>1, <1>3
    <2> QED
      BY <2>1, <1>1, <1>3, <1>6 DEF TreesMatchRing
  <1>10. TurnInv'
    <2>1. qpos' = qpos /\ ctr' = ctr
      BY DEF Give
    <2> QED
      BY <2>1, <1>5, <1>6 DEF TurnInv, Turn, Inv
  <1> QED
    BY <1>8, <1>9, <1>10 DEF Inv

LEMMA NextInv == Inv /\ [Next]_vars => Inv'
  <1> SUFFICES ASSUME Inv, [Next]_vars PROVE Inv'
    OBVIOUS
  <1>1. CASE UNCHANGED vars
    BY <1>1 DEF vars, Inv, TypeOK, TreesMatchRing, TurnInv, Turn
  <1>2. ASSUME NEW a \in Address, Add(a) PROVE Inv'
    BY <1>2, AddInv
  <1>3. ASSUME NEW a \in Address, GetByPort(a) PROVE Inv'
    BY <1>3, GiveInv DEF GetByPort, SameAddr, Inv, TreesMatchRing
  <1>4. ASSUME NEW a \in Address, GetByHost(a) PROVE Inv'
    BY <1>4, GiveInv DEF GetByHost, Oldest, SameHost
  <1>5. ASSUME NEW a \in Address, GetNothing(a) PROVE Inv'
    BY <1>5 DEF GetNothing, Inv, TypeOK, TreesMatchRing, TurnInv, Turn
  <1> QED
    BY <1>1, <1>2, <1>3, <1>4, <1>5 DEF Next, Get

LEMMA Invariance == Spec => []Inv
  BY InitInv, NextInv, PTL DEF Spec

\* The variables keep their types: qpos stays in the ring.
THEOREM TypeCorrect == Spec => []TypeOK
  BY Invariance, PTL DEF Inv

\* Whatever is added and given in whatever order, the two trees hold what is in
\* the ring: no node is left behind when its slot is written again.
THEOREM NoStaleNode == Spec => []TreesMatchRing
  BY Invariance, PTL DEF Inv

------------------------------------------------------------------------------
(* The refinement *)

LEMMA SmallMod ==
    ASSUME NEW m \in Nat \ {0}, NEW x \in 0 .. m - 1
    PROVE  x \div m = 0 /\ x % m = x
  <1> DEFINE d == x \div m
             r == x % m
  <1>1. x = m * d + r /\ r \in 0 .. m - 1 /\ d \in Int
    OBVIOUS
  <1> HIDE DEF d, r
  <1>2. d = 0
    <2>1. ASSUME d >= 1 PROVE FALSE
      <3>1. m * d >= m
        BY <2>1, <1>1
      <3> QED
        BY <3>1, <1>1
    <2>2. ASSUME d <= -1 PROVE FALSE
      <3>1. m * d <= 0 - m
        BY <2>2, <1>1
      <3> QED
        BY <3>1, <1>1
    <2> QED
      BY <1>1, <2>1, <2>2
  <1>3. x = r
    BY <1>1, <1>2
  <1> QED
    BY <1>2, <1>3 DEF d, r

\* Up to Half the comparison of counters is that of numbers.
LEMMA BeforeIsLess ==
    ASSUME NEW c \in 0 .. Half - 1, NEW d \in 0 .. Half - 1
    PROVE  Before(c, d) <=> c < d
  <1> DEFINE m == 2 * Half
  <1>1. Half \in Nat \ {0} /\ m \in Nat \ {0} /\ m = 2 * Half
    BY CacheAssumption
  <1> HIDE DEF m
  <1>2. c \in 0 .. m - 1 /\ d \in 0 .. m - 1
    BY <1>1
  <1>3. c \div m = 0 /\ d \div m = 0 /\ c % m = c /\ d % m = d
    BY <1>1, <1>2, SmallMod
  <1>4. Before(c, d) <=> (c - d) % m >= Half
    BY <1>3 DEF Before, High, Low, m
  <1>5. CASE d <= c
    <2>1. c - d \in 0 .. m - 1 /\ c - d < Half
      BY <1>1, <1>5
    <2>2. (c - d) % m = c - d
      BY <1>1, <2>1, SmallMod
    <2> QED
      BY <1>1, <1>4, <1>5, <2>1, <2>2
  <1>6. CASE c < d
    <2> DEFINE r == (c - d) % m
               k == (c - d) \div m
    <2>1. c - d = m * k + r /\ r \in 0 .. m - 1 /\ k \in Int
      <3>1. ASSUME NEW x \in Int
            PROVE  x = m * (x \div m) + (x % m) /\ x % m \in 0 .. m - 1
                   /\ x \div m \in Int
        <4>1. x \div m \in Int
          BY <1>1
        <4>2. x % m \in 0 .. m - 1
          BY <1>1
        <4>3. x = m * (x \div m) + (x % m)
          BY <1>1
        <4> QED
          BY <4>1, <4>2, <4>3
      <3>2. c - d \in Int
        OBVIOUS
      <3> QED
        BY <3>1, <3>2
    <2> HIDE DEF r, k
    <2>2. ASSUME k >= 0 PROVE FALSE
      <3>1. m * k >= 0
        BY <2>2, <2>1, <1>1
      <3> QED
        BY <3>1, <2>1, <1>6, <1>1
    <2>3. ASSUME k <= -2 PROVE FALSE
      <3>1. m * k <= 0 - (2 * m)
        BY <2>3, <2>1, <1>1
      <3> QED
        BY <3>1, <2>1, <1>6, <1>1
    <2>4. k = -1
      BY <2>1, <2>2, <2>3
    <2>5. r = (c - d) + m
      BY <2>1, <2>4, <1>1
    <2> QED
      BY <1>1, <1>4, <1>6, <2>5 DEF r
  <1> QED
    BY <1>1, <1>5, <1>6

\* What the ring holds for the abstract specification.
Entry(s) == [id |-> queue[s].cmod, addr |-> queue[s].addr]
Held == {Entry(s) : s \in {t \in Pos : queue[t].cmod # NULL}}

LEMMA AddRefines ==
    ASSUME Inv, NEW a \in Address, Add(a)
    PROVE  Recent!Add(a)
  <1>1. /\ queue \in [Pos -> Elem] /\ qpos \in Pos /\ ctr \in 0 .. MaxAdds
        /\ MaxAdds \in Nat
    BY CacheAssumption DEF Inv, TypeOK
  <1>2. /\ queue'[qpos].cmod = ctr + 1 /\ queue'[qpos].addr = a
        /\ \A s \in Pos \ {qpos} : queue'[s] = queue[s]
        /\ ctr' = ctr + 1 /\ ctr < MaxAdds /\ got' = got
    BY <1>1 DEF Add
  <1>3. Held' = {d \in Held : ctr' - d.id < Len} \cup {[id |-> ctr', addr |-> a]}
    <2>1. ASSUME NEW d \in Held' PROVE d \in {e \in Held : ctr' - e.id < Len}
                                              \cup {[id |-> ctr', addr |-> a]}
      <3>1. PICK s \in Pos : queue'[s].cmod # NULL
                             /\ d = [id |-> queue'[s].cmod, addr |-> queue'[s].addr]
        BY <2>1 DEF Held, Entry
      <3>2. CASE s = qpos
        BY <3>1, <3>2, <1>2
      <3>3. CASE s # qpos
        <4>1. queue[s].cmod # NULL /\ d = Entry(s) /\ d \in Held /\ d.id = queue[s].cmod
          BY <3>1, <3>3, <1>2 DEF Held, Entry
        <4>2. ctr + 1 - d.id < Len /\ d.id \in Nat
          BY <4>1, <3>3, <1>1, CacheAssumption, TurnBounds
        <4>3. ctr' - d.id < Len
          BY <4>2, <1>1, <1>2
        <4> HIDE DEF Held
        <4> QED
          BY <4>1, <4>3
      <3> QED
        BY <3>2, <3>3
    <2>2. ASSUME NEW d \in Held, ctr' - d.id < Len PROVE d \in Held'
      <3>1. PICK s \in Pos : queue[s].cmod # NULL /\ d = Entry(s)
        BY <2>2 DEF Held
      <3>2. s # qpos
        BY <3>1, <2>2, <1>1, <1>2, TurnBounds DEF Entry
      <3> QED
        BY <3>1, <3>2, <1>2 DEF Held, Entry
    <2>3. [id |-> ctr', addr |-> a] \in Held'
      BY <1>1, <1>2 DEF Held, Entry, NULL
    <2> QED
      BY <2>1, <2>2, <2>3
  <1> QED
    BY <1>2, <1>3 DEF Recent!Add, Held, Entry

LEMMA GiveRefines ==
    ASSUME Inv, NEW a \in Address, NEW s \in byaddr, Give(a, s),
           queue[s].addr.host = a.host,
           \/ queue[s].addr = a
           \/ \A t \in SameHost(a) : queue[s].cmod <= queue[t].cmod
    PROVE  Recent!Get(a)
  <1>1. /\ queue \in [Pos -> Elem] /\ s \in Pos /\ queue[s].cmod # NULL
        /\ byaddr = {t \in Pos : queue[t].cmod # NULL}
    BY DEF Inv, TypeOK, TreesMatchRing
  <1>2. /\ queue'[s].cmod = NULL /\ \A t \in Pos \ {s} : queue'[t] = queue[t]
        /\ got' = Hit(a, queue[s]) /\ ctr' = ctr
    <2>1. queue'[s] = [queue[s] EXCEPT !.cmod = NULL] /\ queue[s] \in Elem
      BY <1>1 DEF Give
    <2> QED
      BY <1>1, <2>1 DEF Give, Elem
  <1>3. Entry(s) \in Held
    BY <1>1 DEF Held
  <1>4. Held' = Held \ {Entry(s)}
    <2>1. ASSUME NEW d \in Held' PROVE d \in Held \ {Entry(s)}
      <3>1. PICK t \in Pos : queue'[t].cmod # NULL
                             /\ d = [id |-> queue'[t].cmod, addr |-> queue'[t].addr]
        BY <2>1 DEF Held, Entry
      <3>2. t # s /\ queue[t].cmod # NULL /\ d = Entry(t)
        BY <3>1, <1>2 DEF Entry
      <3>3. queue[t].cmod # queue[s].cmod
        BY <3>2, <1>1, TurnsDiffer
      <3>4. d.id # Entry(s).id
        BY <3>2, <3>3 DEF Entry
      <3> QED
        BY <3>2, <3>4 DEF Held
    <2>2. ASSUME NEW d \in Held, d # Entry(s) PROVE d \in Held'
      <3>1. PICK t \in Pos : queue[t].cmod # NULL /\ d = Entry(t)
        BY <2>2 DEF Held
      <3>2. t # s
        BY <3>1, <2>2
      <3> QED
        BY <3>1, <3>2, <1>2 DEF Held, Entry
    <2> QED
      BY <2>1, <2>2
  <1>5. Entry(s).addr = queue[s].addr /\ Entry(s).id = queue[s].cmod
    BY DEF Entry
  <1>6. \/ Entry(s).addr = a
        \/ \A d \in Held : d.addr.host = a.host => Entry(s).id <= d.id
    <2> SUFFICES ASSUME \A t \in SameHost(a) : queue[s].cmod <= queue[t].cmod,
                        NEW d \in Held, d.addr.host = a.host
                 PROVE  queue[s].cmod <= d.id
      BY <1>5
    <2>1. PICK t \in Pos : queue[t].cmod # NULL /\ d = Entry(t)
      BY DEF Held
    <2>2. t \in SameHost(a)
      BY <2>1, <1>1 DEF SameHost, Entry
    <2> QED
      BY <2>1, <2>2 DEF Entry
  <1>7. Recent!SameHost(a) = {d \in Held : d.addr.host = a.host}
    BY DEF Recent!SameHost, Held, Entry, HostOfAddr
  <1>8. Entry(s) \in Recent!SameHost(a)
    BY <1>3, <1>5, <1>7
  <1> QED
    BY <1>2, <1>4, <1>6, <1>7, <1>8 DEF Recent!Get, Recent!Hit, Hit, Held, Entry

LEMMA GetRefines ==
    ASSUME MaxAdds <= Half, Inv, NEW a \in Address, Get(a)
    PROVE  Recent!Get(a)
  <1>1. /\ byaddr \subseteq Pos /\ byaddrp \subseteq byaddr
        /\ byaddr = {t \in Pos : queue[t].cmod # NULL}
        /\ MaxAdds \in Nat /\ Half \in Nat \ {0} /\ ctr \in 0 .. MaxAdds
    BY CacheAssumption DEF Inv, TypeOK, TreesMatchRing
  <1>2. \A s \in byaddr : queue[s].ctr \in 0 .. Half - 1
                          /\ queue[s].ctr = queue[s].cmod - 1
                          /\ queue[s].cmod \in Nat
    BY <1>1, TurnBounds DEF Inv, TurnInv
  <1>3. CASE GetByPort(a)
    BY <1>1, <1>3, GiveRefines DEF GetByPort, SameAddr
  <1>4. CASE GetByHost(a)
    <2>1. PICK s \in Pos : Oldest(s, SameHost(a)) /\ Give(a, s)
      BY <1>4 DEF GetByHost
    <2>2. s \in byaddr /\ queue[s].addr.host = a.host
      BY <2>1 DEF Oldest, SameHost
    <2>3. ASSUME NEW t \in SameHost(a) PROVE queue[s].cmod <= queue[t].cmod
      <3>1. t \in byaddr
        BY DEF SameHost
      <3>2. CASE t = s
        BY <3>2, <2>2, <1>2
      <3>3. CASE t # s
        <4>1. Before(queue[s].ctr, queue[t].ctr)
          BY <3>3, <2>1 DEF Oldest
        <4> QED
          BY <4>1, <3>1, <2>2, <1>2, BeforeIsLess
      <3> QED
        BY <3>2, <3>3
    <2> QED
      BY <2>1, <2>2, <2>3, GiveRefines
  <1>5. CASE GetNothing(a)
    <2>1. \A s \in SameHost(a) : ~ Before(queue[s].ctr, 0)
      <3> SUFFICES ASSUME NEW s \in byaddr PROVE ~ Before(queue[s].ctr, 0)
        BY DEF SameHost
      <3>1. 0 \in 0 .. Half - 1
        BY <1>1
      <3> QED
        BY <3>1, <1>2, BeforeIsLess
    <2>2. SameHost(a) = {} /\ got' = Miss(a) /\ queue' = queue /\ ctr' = ctr
      BY <1>5, <2>1 DEF GetNothing, FarFromZero
    <2>3. Recent!SameHost(a) = {}
      BY <2>2, <1>1 DEF Recent!SameHost, SameHost, HostOfAddr
    <2> QED
      BY <2>2, <2>3 DEF Recent!Get, Recent!Miss, Miss
  <1> QED
    BY <1>3, <1>4, <1>5 DEF Get

LEMMA InitRefines == Init => Recent!Init
  BY DEF Init, Recent!Init

\* The cache implements RecentDiscoveries: of the last Len discoveries each is
\* given to at most one session, one from its host, and a session that finds
\* nothing comes from a host of which nothing is left.  This holds up to the
\* counter Half, above which discovery_cache_get no longer finds the first.
THEOREM Refinement == ASSUME MaxAdds <= Half PROVE Spec => ImplementsRecent
  <1>1. Inv /\ [Next]_vars => [Recent!Next]_(Recent!vars)
    <2> SUFFICES ASSUME Inv, [Next]_vars PROVE [Recent!Next]_(Recent!vars)
      OBVIOUS
    <2>1. CASE UNCHANGED vars
      BY <2>1 DEF vars, Recent!vars
    <2>2. CASE Next
      BY <2>2, AddRefines, GetRefines DEF Next, Recent!Next
    <2> QED
      BY <2>1, <2>2
  <1> QED
    BY <1>1, InitRefines, Invariance, PTL DEF Spec, ImplementsRecent, Recent!Spec
=============================================================================
