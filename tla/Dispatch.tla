------------------------------- MODULE Dispatch -------------------------------
(***************************************************************************)
(* The controller's receive loop (ac_run and its two packet handlers in    *)
(* src/ac/ac_main.c), the list of sessions it looks packets' senders up in *)
(* (src/ac/wtplist.c, src/cw/connlist.c), the threads of the sessions as   *)
(* far as they touch that list (src/ac/wtpman.c), the data managers        *)
(* (src/ac/dataman.c) and the thread that serves the command line          *)
(* (src/ac/rpc.c).  They share the list's lock.                            *)
(*                                                                         *)
(* A session is a slot: the memory of wtpman and its connection, which is  *)
(* used again after it was freed.                                          *)
(***************************************************************************)
EXTENDS Integers, Sequences

CONSTANTS Host, Port,
          Session,     \* slots of memory for sessions
          Recv, Rpc,   \* the two threads that are no session's
          NoOne,
          QSize,       \* length of a session's packet queue (100)
          MaxHeld      \* bound: discoveries of one host the cache holds

ASSUME DispatchAssumption ==
    /\ Host # {} /\ Port # {}
    /\ Recv # Rpc /\ NoOne \notin Session \cup {Recv, Rpc}
    /\ {Recv, Rpc} \cap Session = {}
    /\ QSize \in Nat \ {0} /\ MaxHeld \in Nat \ {0}

VARIABLES recv,    \* where the receive loop is
          pkt,     \* the packet in its buffer
          target,  \* the session it has for it
          lock,    \* who holds the lock of the list
          tree,    \* the sessions in connlist->by_addr
          stage,   \* what the memory of a slot is, and where its thread is
          peer,    \* conn->addr
          tables,  \* conn->msgset and the DTLS parameters have been set
          foreign, \* conn->update_cfg is not the session's own any more
          queue,   \* the session's packet queue: which packets are encrypted
          cached,  \* entries of the discovery cache, by host
          owed,    \* history: discoveries answered, no DTLS session yet
          datalock,\* a return has left the lock of the data managers taken
          dataman, \* there is a data manager
          rpc,     \* where the thread of the command line is
          todo,    \* and the sessions it has yet to look at
          crashed

receiver == <<recv, pkt, target>>
sessions == <<stage, peer, tables, foreign, queue>>
cache == <<cached, owed>>
data == <<datalock, dataman>>
shell == <<rpc, todo>>
vars == <<receiver, lock, tree, sessions, cache, data, shell, crashed>>

Endpoint == [host : Host, port : Port]
Packet == [from : Endpoint, dtls : BOOLEAN]

Active == {"discovery", "found", "accept", "running", "leave", "stuck"}
Stage == Active \cup {"none", "new", "unlinked"}

TypeOK ==
    /\ recv \in {"select", "lock", "look", "add", "hand", "data"}
    /\ pkt \in Packet
    /\ target \in Session \cup {NoOne}
    /\ lock \in Session \cup {NoOne, Recv, Rpc}
    /\ tree \subseteq Session
    /\ stage \in [Session -> Stage]
    /\ peer \in [Session -> Endpoint]
    /\ tables \in [Session -> BOOLEAN] /\ foreign \in [Session -> BOOLEAN]
    /\ queue \in [Session -> Seq(BOOLEAN)]
    /\ cached \in [Host -> Nat] /\ owed \in [Host -> Nat]
    /\ datalock \in BOOLEAN /\ dataman \in BOOLEAN
    /\ rpc \in {"command", "walk"}
    /\ todo \subseteq Session
    /\ crashed \in BOOLEAN

NoEndpoint == [host |-> CHOOSE h \in Host : TRUE, port |-> CHOOSE p \in Port : TRUE]
NoPacket == [from |-> NoEndpoint, dtls |-> FALSE]

Init ==
    /\ recv = "select" /\ pkt = NoPacket
    /\ target = NoOne /\ lock = NoOne /\ tree = {}
    /\ stage = [s \in Session |-> "none"]
    /\ peer = [s \in Session |-> NoEndpoint]
    /\ tables = [s \in Session |-> FALSE]
    /\ foreign = [s \in Session |-> FALSE]
    /\ queue = [s \in Session |-> <<>>]
    /\ cached = [h \in Host |-> 0] /\ owed = [h \in Host |-> 0]
    /\ datalock = FALSE /\ dataman = FALSE
    /\ rpc = "command" /\ todo = {}
    /\ crashed = FALSE

------------------------------------------------------------------------------
(* The list: connlist_create(0, 0), so that ports are not compared *)

LookupNotLeaving(a) ==                                           \* mutant of Lookup
    {s \in tree : peer[s].host = a.host /\ stage[s] # "leave"}

Lookup(a) == {s \in tree : peer[s].host = a.host}

\* mavl_del takes out the session of the address, whichever it is.
DelByAddr(a) == tree \ Lookup(a)

\* What freed memory holds is nobody's concern.
Free(s) ==
    /\ stage' = [stage EXCEPT ![s] = "none"]
    /\ peer' = [peer EXCEPT ![s] = NoEndpoint]
    /\ tables' = [tables EXCEPT ![s] = FALSE]
    /\ foreign' = [foreign EXCEPT ![s] = FALSE]
    /\ queue' = [queue EXCEPT ![s] = <<>>]

------------------------------------------------------------------------------
(* The receive loop: control packets *)

Receive(a, encrypted) ==
    /\ recv = "select"
    /\ pkt' = [from |-> a, dtls |-> encrypted]
    /\ recv' = "lock"
    /\ UNCHANGED <<target, lock, tree, sessions, cache, data, shell, crashed>>

LockList ==
    /\ recv = "lock" /\ lock = NoOne
    /\ lock' = Recv
    /\ recv' = "look"
    /\ UNCHANGED <<pkt, target, tree, sessions, cache, data, shell, crashed>>

Found(s) ==
    /\ recv = "look" /\ s \in Lookup(pkt.from)
    /\ target' = s
    /\ recv' = "hand"
    /\ UNCHANGED <<pkt, lock, tree, sessions, cache, data, shell, crashed>>

NotFound == recv = "look" /\ Lookup(pkt.from) = {}

\* Back to select: the packet and the session are local to the turn of the loop.
Return == recv' = "select" /\ pkt' = NoPacket /\ target' = NoOne
ReleaseRecv == lock' = NoOne /\ Return

CreateFailsNoUnlock ==                                      \* mutant of CreateFails
    /\ NotFound
    /\ Return
    /\ UNCHANGED <<lock, tree, sessions, cache, data, shell, crashed>>

\* wtpman_create has no memory, or no unicast socket to answer from.
CreateFails ==
    /\ NotFound
    /\ ReleaseRecv
    /\ UNCHANGED <<tree, sessions, cache, data, shell, crashed>>

TakenBlindly(c, hit) == c - 1                                     \* mutant of Taken

Taken(c, hit) == IF hit THEN c - 1 ELSE c

\* wtpman_create, which takes the host's discovery from the cache for an
\* encrypted packet: without one the session has no message set, and no
\* cipher to accept a DTLS session with, as setup_cfg is not called.
Create(s) ==
    /\ NotFound /\ stage[s] = "none"
    /\ LET h == pkt.from.host
           hit == pkt.dtls /\ cached[h] > 0
       IN  /\ tables' = [tables EXCEPT ![s] = hit]
           /\ cached' = [cached EXCEPT ![h] = Taken(@, hit)]
           /\ owed' = [owed EXCEPT ![h] = Taken(@, pkt.dtls /\ @ > 0)]
    /\ stage' = [stage EXCEPT ![s] = "new"]
    /\ peer' = [peer EXCEPT ![s] = pkt.from]
    /\ target' = s
    /\ recv' = "add"
    /\ UNCHANGED <<pkt, lock, tree, foreign, queue, data, shell, crashed>>

\* mavl_insert has no memory: the session is destroyed, and what it took from
\* the cache is lost.
AddFails ==
    /\ recv = "add"
    /\ Free(target)
    /\ ReleaseRecv
    /\ UNCHANGED <<tree, cache, data, shell, crashed>>

\* wtplist_add and wtpman_start.  The result of pthread_create is not looked
\* at, so that a session may be listed that no thread will ever take out.
Start ==
    /\ recv = "add"
    /\ tree' = tree \cup {target}
    /\ \E to \in {IF pkt.dtls THEN "accept" ELSE "discovery", "stuck"} :
          stage' = [stage EXCEPT ![target] = to]
    /\ recv' = "hand"
    /\ UNCHANGED <<pkt, target, lock, peer, tables, foreign, queue, cache, data,
                   shell, crashed>>

HandNoUnlock ==                                                     \* mutant of Hand
    /\ recv = "hand"
    /\ queue' = IF Len(queue[target]) < QSize
                THEN [queue EXCEPT ![target] = Append(@, pkt.dtls)] ELSE queue
    /\ Return
    /\ UNCHANGED <<lock, tree, stage, peer, tables, foreign, cache, data,
                   shell, crashed>>

\* wtpman_addpacket drops the packet when the queue is full.
Hand ==
    /\ recv = "hand"
    /\ queue' = IF Len(queue[target]) < QSize
                THEN [queue EXCEPT ![target] = Append(@, pkt.dtls)] ELSE queue
    /\ ReleaseRecv
    /\ UNCHANGED <<tree, stage, peer, tables, foreign, cache, data,
                   shell, crashed>>

------------------------------------------------------------------------------
(* The receive loop: data packets, which are themselves not looked at *)

ReceiveData ==
    /\ recv = "select"
    /\ recv' = "data"
    /\ UNCHANGED <<pkt, target, lock, tree, sessions, cache, data, shell, crashed>>

\* process_cw_data_packet.  No other thread takes the lock of the managers, so
\* that taking and giving it back is one step.  The tree compares its first
\* argument with itself: any manager is found for any packet, also one whose
\* thread has ended, as it does after two seconds.
DataFound ==
    /\ recv = "data" /\ ~ datalock /\ dataman
    /\ Return
    /\ UNCHANGED <<lock, tree, sessions, cache, data, shell, crashed>>

DataCreated ==
    /\ recv = "data" /\ ~ datalock /\ ~ dataman
    /\ dataman' = TRUE
    /\ Return
    /\ UNCHANGED <<lock, tree, sessions, cache, datalock, shell, crashed>>

\* dataman_create has no memory: the return leaves the lock taken.
DataFails ==
    /\ recv = "data" /\ ~ datalock /\ ~ dataman
    /\ datalock' = TRUE
    /\ Return
    /\ UNCHANGED <<lock, tree, sessions, cache, dataman, shell, crashed>>

------------------------------------------------------------------------------
(* The thread of a session *)

Go(s, to) == stage' = [stage EXCEPT ![s] = to]
Pop(s) == queue' = [queue EXCEPT ![s] = Tail(@)]

\* cw_read_messages finds a request in an unencrypted packet and answers it.
Detect(s) ==
    /\ stage[s] = "discovery" /\ queue[s] # <<>> /\ ~ Head(queue[s])
    /\ owed[peer[s].host] < MaxHeld
    /\ owed' = [owed EXCEPT ![peer[s].host] = @ + 1]
    /\ tables' = [tables EXCEPT ![s] = TRUE]
    /\ Pop(s) /\ Go(s, "found")
    /\ UNCHANGED <<receiver, lock, tree, peer, foreign, cached, data, shell, crashed>>

\* A packet that is not for the state of the session is dropped.
Ignore(s) ==
    /\ stage[s] \in {"discovery", "accept", "running"} /\ queue[s] # <<>>
    /\ Pop(s)
    /\ UNCHANGED <<receiver, lock, tree, stage, peer, tables, foreign, cache,
                   data, shell, crashed>>

AcceptWithoutCipher(s) ==                                        \* mutant of Accept
    /\ stage[s] = "accept" /\ queue[s] # <<>> /\ Head(queue[s])
    /\ Pop(s) /\ Go(s, "running")
    /\ UNCHANGED <<receiver, lock, tree, peer, tables, foreign, cache, data,
                   shell, crashed>>

\* wtpman_dtls_setup: dtls_openssl_data_create fails without a cipher.
Accept(s) ==
    /\ stage[s] = "accept" /\ queue[s] # <<>> /\ Head(queue[s])
    /\ tables[s]
    /\ Pop(s) /\ Go(s, "running")
    /\ UNCHANGED <<receiver, lock, tree, peer, tables, foreign, cache, data,
                   shell, crashed>>

\* Decoding and answering a message writes to conn->update_cfg.
Serve(s) ==
    /\ stage[s] = "running" /\ queue[s] # <<>> /\ Head(queue[s])
    /\ Pop(s)
    /\ crashed' = foreign[s]
    /\ UNCHANGED <<receiver, lock, tree, stage, peer, tables, foreign, cache, data, shell>>

\* The timer of the discovery, a failed accept, a timeout or an error.
GiveUp(s) ==
    /\ stage[s] \in {"discovery", "accept", "running"}
    /\ Go(s, "leave")
    /\ UNCHANGED <<receiver, lock, tree, peer, tables, foreign, queue, cache,
                   data, shell, crashed>>

LockSession(s) ==
    /\ stage[s] \in {"found", "leave"} /\ lock = NoOne
    /\ lock' = s
    /\ UNCHANGED <<receiver, tree, sessions, cache, data, shell, crashed>>

RememberNot(s) ==                                              \* mutant of Remember
    /\ stage[s] = "found" /\ lock = s
    /\ lock' = NoOne
    /\ Go(s, "leave")
    /\ UNCHANGED <<receiver, tree, peer, tables, foreign, queue, cache, data,
                   shell, crashed>>

\* discovery_cache_add under the lock of the list.
Remember(s) ==
    /\ stage[s] = "found" /\ lock = s
    /\ cached' = [cached EXCEPT ![peer[s].host] = @ + 1]
    /\ lock' = NoOne
    /\ Go(s, "leave")
    /\ UNCHANGED <<receiver, tree, peer, tables, foreign, queue, owed, data,
                   shell, crashed>>

RemoveWithoutLock(s) ==                                          \* mutant of Remove
    /\ stage[s] = "leave"
    /\ tree' = DelByAddr(peer[s])
    /\ Go(s, "unlinked")
    /\ UNCHANGED <<receiver, lock, peer, tables, foreign, queue, cache, data,
                   shell, crashed>>

\* wtpman_remove, up to the unlock ...
Remove(s) ==
    /\ stage[s] = "leave" /\ lock = s
    /\ tree' = DelByAddr(peer[s])
    /\ lock' = NoOne
    /\ Go(s, "unlinked")
    /\ UNCHANGED <<receiver, peer, tables, foreign, queue, cache, data, shell, crashed>>

\* ... and wtpman_destroy.  It also frees what update_cfg points to.
Destroy(s) ==
    /\ stage[s] = "unlinked"
    /\ crashed' \in IF foreign[s] THEN BOOLEAN ELSE {FALSE}
    /\ Free(s)
    /\ UNCHANGED <<receiver, lock, tree, cache, data, shell>>

------------------------------------------------------------------------------
(* The command line *)

RpcLockNoWait ==                                                \* mutant of RpcLock
    /\ rpc = "command"
    /\ rpc' = "walk" /\ todo' = tree
    /\ UNCHANGED <<receiver, lock, tree, sessions, cache, data, crashed>>

\* list, cfg and send: they differ in when the walk over the list ends.
RpcLock ==
    /\ rpc = "command" /\ lock = NoOne
    /\ lock' = Rpc
    /\ rpc' = "walk" /\ todo' = tree
    /\ UNCHANGED <<receiver, tree, sessions, cache, data, crashed>>

\* show_aps prints each session, find_ap compares the name of each.
RpcVisit(s) ==
    /\ rpc = "walk" /\ s \in todo
    /\ todo' = todo \ {s}
    /\ UNCHANGED <<receiver, lock, tree, sessions, cache, data, rpc, crashed>>

ReleaseRpc == lock' = NoOne /\ rpc' = "command" /\ todo' = {}

\* list has shown the last session, or find_ap has found none, or the one
\* whose configuration cfg has written to the client.
RpcDone ==
    /\ rpc = "walk"
    /\ ReleaseRpc
    /\ UNCHANGED <<receiver, tree, sessions, cache, data, crashed>>

\* send has found s, and stores sd->update_cfg, which rpc_loop has not
\* initialised, in its connection.
RpcSend(s) ==
    /\ rpc = "walk" /\ s \in todo
    /\ foreign' = [foreign EXCEPT ![s] = TRUE]
    /\ ReleaseRpc
    /\ UNCHANGED <<receiver, tree, stage, peer, tables, queue, cache, data, crashed>>

------------------------------------------------------------------------------
Control == LockList \/ (\E s \in Session : Found(s) \/ Create(s))
           \/ CreateFails \/ AddFails \/ Start \/ Hand
Data == DataFound \/ DataCreated \/ DataFails
Input == ReceiveData \/ \E a \in Endpoint, e \in BOOLEAN : Receive(a, e)
Reads(s) == Detect(s) \/ Ignore(s) \/ Accept(s) \/ Serve(s)
Leaves(s) == GiveUp(s) \/ Remember(s) \/ Remove(s) \/ Destroy(s)
Shell == RpcLock \/ (\E s \in Session : RpcVisit(s) \/ RpcSend(s)) \/ RpcDone

\* After a crash nothing happens any more.
Next ==
    /\ ~ crashed
    /\ \/ Input \/ Control \/ Data \/ Shell
       \/ \E s \in Session : Reads(s) \/ LockSession(s) \/ Leaves(s)

Spec == Init /\ [][Next]_vars

\* The threads run, and no one is passed over for ever when the lock is free
\* again and again.  Neither packets nor the client of the command line, who
\* may stop reading what is written to him, are obliged to do anything.
FairSpec ==
    /\ Spec
    /\ WF_vars(~ crashed /\ (Control \/ Data))
    /\ SF_vars(~ crashed /\ LockList)
    /\ \A s \in Session : /\ WF_vars(~ crashed /\ Leaves(s))
                          /\ SF_vars(~ crashed /\ LockSession(s))

------------------------------------------------------------------------------
(* Correctness *)

\* The list has at most one session for a host: the receive loop keeps the
\* lock from the look-up that found none to the insertion.
OneSessionPerHost ==
    \A s, t \in tree : peer[s].host = peer[t].host => s = t

\* The list has the sessions whose threads are at work and no others, though
\* a session is taken out by its key: no pointer to freed memory stays in it,
\* and no thread loses its session to another's removal.
ListIsOfTheLiving ==
    tree = {s \in Session : stage[s] \in Active}

\* The session a packet is handed to is still there, and of the sender's host.
HandedToTheLiving ==
    recv = "hand" =>
        /\ target \in tree /\ peer[target].host = pkt.from.host
        /\ stage[target] \in Active

\* The sessions the command line has yet to look at are not taken from the
\* list meanwhile.
ShellSeesTheLiving == rpc = "walk" => todo \subseteq tree

\* A host whose discovery was answered and that then starts DTLS finds the
\* modules of its discovery, however the threads are scheduled: the discovery
\* session stays in the way until it has stored them.
AnsweredIsRemembered ==
    NotFound => cached[pkt.from.host] >= owed[pkt.from.host]

\* The state machine of a session is never run without its tables.
RunningHasTables == \A s \in Session : stage[s] = "running" => tables[s]

\* What stops the receive loop for good: a client of the command line who
\* stalls it with the list locked, a data manager that could not be created,
\* or a crash.
Stalled == lock = Rpc
Halted == crashed \/ datalock

\* Otherwise it comes back to select, whatever fails on the way.
ReceiveLoopReturns ==
    []<>(~ Stalled) => (recv # "select" ~> recv = "select" \/ Halted)

\* A session that is to end is freed, unless the command line keeps the lock.
SessionsAreFreed ==
    []<>(~ Stalled) =>
        \A s \in Session : stage[s] \in {"found", "leave"} ~> stage[s] = "none" \/ crashed

==============================================================================
