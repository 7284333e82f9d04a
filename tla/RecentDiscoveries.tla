-------------------------- MODULE RecentDiscoveries --------------------------
(***************************************************************************)
(* What the discovery cache promises: it keeps the last Len discoveries    *)
(* and gives each to at most one DTLS session, from the same host: one     *)
(* from the same port, or the oldest of the host.                          *)
(***************************************************************************)
EXTENDS Integers

CONSTANTS Address, Len, MaxAdds, HostOf(_)

VARIABLES n,      \* number of discoveries so far
          held,   \* those not given to a session yet
          got     \* the last look-up: who asked, and the answer

vars == <<n, held, got>>

Miss(a) == [from |-> a, id |-> 0]
Hit(a, d) == [from |-> a, id |-> d.id, addr |-> d.addr]

SameHost(a) == {d \in held : HostOf(d.addr) = HostOf(a)}

Init == n = 0 /\ held = {} /\ got = [id |-> 0]

Add(a) ==
    /\ n < MaxAdds
    /\ n' = n + 1
    /\ held' = {d \in held : n' - d.id < Len} \cup {[id |-> n', addr |-> a]}
    /\ UNCHANGED got

Get(a) ==
    /\ \/ SameHost(a) = {} /\ got' = Miss(a) /\ UNCHANGED held
       \/ \E d \in SameHost(a) :
             /\ d.addr = a \/ \A e \in SameHost(a) : d.id <= e.id
             /\ held' = held \ {d}
             /\ got' = Hit(a, d)
    /\ UNCHANGED n

Next == \E a \in Address : Add(a) \/ Get(a)

Spec == Init /\ [][Next]_vars
==============================================================================
