--------------------------- MODULE DiscoveryCache ---------------------------
(***************************************************************************)
(* The discovery cache of the controller (src/ac/discovery_cache.c).  A    *)
(* session that answered a Discovery Request stores the modules it found   *)
(* for the sender (wtpman_run_discovery); the creation of a DTLS session   *)
(* looks for them (wtpman_create).  Both hold the lock of the list of      *)
(* sessions, so that each call is one step.                                *)
(*                                                                         *)
(* The elements of a ring are the nodes of two search trees.  A tree is    *)
(* the set of ring positions in it; its keys are read from the ring, as    *)
(* the comparison functions do.                                            *)
(***************************************************************************)
EXTENDS Integers

CONSTANTS Host, Port,
          Len,       \* length of the ring
          Half,      \* half the range of ctrlo (2^31)
          MaxAdds    \* bound: discoveries

Address == [host : Host, port : Port]

ASSUME CacheAssumption ==
    /\ Host # {} /\ Port # {}
    /\ Len \in Nat \ {0} /\ Half \in Nat \ {0} /\ Len < Half
    /\ MaxAdds \in Nat

VARIABLES queue, qpos,
          ctr,       \* ctrhi and ctrlo, as one number of 64 bits
          byaddr,    \* tree by host and counter
          byaddrp,   \* tree by host and port
          got        \* the last discovery_cache_get: who asked, and the result

vars == <<queue, qpos, ctr, byaddr, byaddrp, got>>

Pos == 0 .. Len - 1
NULL == 0
NoAddr == [host |-> CHOOSE h \in Host : TRUE, port |-> CHOOSE p \in Port : TRUE]
Miss(a) == [from |-> a, id |-> 0]
Hit(a, e) == [from |-> a, id |-> e.cmod, addr |-> e.addr]

\* The modules a discovery found are named by its number.
Elem == [addr : Address, ctr : Nat, cmod : 0 .. MaxAdds]

TypeOK ==
    /\ queue \in [Pos -> Elem] /\ qpos \in Pos /\ ctr \in 0 .. MaxAdds
    /\ byaddr \subseteq Pos /\ byaddrp \subseteq Pos
    /\ got \in {[id |-> 0]} \cup {Miss(a) : a \in Address}
                \cup [from : Address, id : 1 .. MaxAdds, addr : Address]

Init ==
    /\ queue = [s \in Pos |-> [addr |-> NoAddr, ctr |-> 0, cmod |-> NULL]]
    /\ qpos = 0 /\ ctr = 0
    /\ byaddr = {} /\ byaddrp = {}
    /\ got = [id |-> 0]

------------------------------------------------------------------------------
(* The trees *)

High(c) == c \div (2 * Half)
Low(c) == c % (2 * Half)

\* cmpaddr on two elements of one host: the difference of the low words is
\* taken as a signed number.
Before(c, d) == IF High(c) # High(d) THEN High(c) < High(d)
                                     ELSE (Low(c) - Low(d)) % (2 * Half) >= Half

SameHost(a) == {s \in byaddr : queue[s].addr.host = a.host}
SameAddr(a) == {s \in byaddrp : queue[s].addr = a}

\* mavl_del takes out the element with the key of s, whichever it is.
DelByAddr(q, T, s) ==
    {t \in T : q[t].addr.host # q[s].addr.host \/ q[t].ctr # q[s].ctr}
DelByAddrP(q, T, s) == {t \in T : q[t].addr # q[s].addr}

\* mavl_insert does nothing if the tree has an element with that key.
InsByAddr(q, T, s) == IF DelByAddr(q, T, s) = T THEN T \cup {s} ELSE T
InsByAddrP(q, T, s) == IF DelByAddrP(q, T, s) = T THEN T \cup {s} ELSE T

------------------------------------------------------------------------------
(* The operations *)

Advance(p) == IF p + 1 >= Len THEN 0 ELSE p + 1

Add(a) ==
    /\ ctr < MaxAdds
    /\ LET old == queue[qpos].cmod # NULL
           q == [queue EXCEPT ![qpos] = [addr |-> a, ctr |-> ctr, cmod |-> ctr + 1]]
       IN  /\ queue' = q
           /\ byaddr' = InsByAddr(q, IF old THEN DelByAddr(queue, byaddr, qpos)
                                            ELSE byaddr, qpos)
           /\ byaddrp' = InsByAddrP(q, IF old THEN DelByAddrP(queue, byaddrp, qpos)
                                              ELSE byaddrp, qpos)
    /\ ctr' = ctr + 1
    /\ qpos' = Advance(qpos)
    /\ UNCHANGED got

GiveKeepsNode(a, s) ==                                       \* mutant of Give
    /\ byaddr' = DelByAddr(queue, byaddr, s)
    /\ queue' = [queue EXCEPT ![s].cmod = NULL]
    /\ got' = Hit(a, queue[s])
    /\ UNCHANGED <<byaddrp, qpos, ctr>>

\* The rest of discovery_cache_get, when it has found s for a.
Give(a, s) ==
    /\ byaddr' = DelByAddr(queue, byaddr, s)
    /\ byaddrp' = DelByAddrP(queue, byaddrp, s)
    /\ queue' = [queue EXCEPT ![s].cmod = NULL]
    /\ got' = Hit(a, queue[s])
    /\ UNCHANGED <<qpos, ctr>>

GetByPort(a) == \E s \in SameAddr(a) : Give(a, s)

Newest(s, T) ==                                            \* mutant of Oldest
    s \in T /\ \A t \in T \ {s} : Before(queue[t].ctr, queue[s].ctr)

Oldest(s, T) == s \in T /\ \A t \in T \ {s} : Before(queue[s].ctr, queue[t].ctr)

\* mavl_get_first looks for the first element of the host from counter 0 on.
\* An element Half away looks smaller than counter 0, or greater, as the
\* comparison is made, and an element further away smaller.  If only some look
\* smaller, the shape of the tree decides whether the search meets the first.
FarFromZero(c) == Before(c, 0)

GetByHost(a) ==
    /\ SameAddr(a) = {}
    /\ \E s \in Pos : /\ Oldest(s, SameHost(a))
                      /\ FarFromZero(queue[s].ctr) => queue[s].ctr = Half
                      /\ Give(a, s)

GetNothing(a) ==
    /\ SameAddr(a) = {}
    /\ (\A s \in SameHost(a) : ~ FarFromZero(queue[s].ctr)) => SameHost(a) = {}
    /\ got' = Miss(a)
    /\ UNCHANGED <<queue, qpos, ctr, byaddr, byaddrp>>

Get(a) == GetByPort(a) \/ GetByHost(a) \/ GetNothing(a)

Next == \E a \in Address : Add(a) \/ Get(a)

Spec == Init /\ [][Next]_vars

------------------------------------------------------------------------------
(* Correctness *)

\* The trees hold what is in the ring and not given away: byaddr all of it,
\* byaddrp one element of each address.
TreesMatchRing ==
    /\ byaddr = {s \in Pos : queue[s].cmod # NULL}
    /\ byaddrp \subseteq byaddr
    /\ \A s, t \in byaddrp : queue[s].addr = queue[t].addr => s = t

HostOfAddr(a) == a.host

Recent == INSTANCE RecentDiscoveries
    WITH n <- ctr, HostOf <- HostOfAddr,
         held <- {[id |-> queue[s].cmod, addr |-> queue[s].addr] :
                     s \in {t \in Pos : queue[t].cmod # NULL}}

\* The cache gives each discovery to at most one session, and finds one
\* while there is one of the host among the last Len (as long as the counter
\* has not come to Half: see FarFromZero).  It need not be the one of the
\* port: byaddrp refuses the second discovery of an address, and giving the
\* first takes the address out.
ImplementsRecent == Recent!Spec
==============================================================================
