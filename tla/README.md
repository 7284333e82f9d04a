# Verification of actube

actube is a CAPWAP implementation in C: a controller (AC, `src/src/ac`), a
wireless termination point (WTP, `src/src/wtp`), the library both use
(`src/src/cw`) and protocol modules (`src/src/mod`). This directory holds TLA+
models of its concurrent and protocol logic, the TLC runs that check them on
small instances, and TLAPS proofs that hold for every value of the constants.
Paths below are relative to `src/src` unless they start with `src/`.

## 1. The system

### Components, their state and how they interact

| Component | Code | State | Operations |
|---|---|---|---|
| Receive loop of the AC | `ac/ac_main.c` | sockets | one thread: `select`, then `process_ctrl_packet`: get or create the session of the sender's address, add the packet to its queue |
| List of sessions | `ac/wtplist.c`, `cw/connlist.c` | two trees of connections, by address and by session id; one mutex | get, add, remove |
| Packet queue | `cw/conn_q_*.c` | ring `q`, `qwpos`, `qrpos`, semaphore, `cur_packet` | `conn_q_add_packet` (receive loop), `conn_q_recv_packet` (session thread) |
| Session thread | `ac/wtpman.c` | `capwap_state`, `capwap_prevstate`, timer, result of the last read | discovery, DTLS accept, state machine, timeout, removal |
| Control channel | `cw/conn.c`, `cw/send.c`, `cw/message.c` | sequence numbers, request and response buffer, state | `cw_send_request`, `process_message`, `process_elements` |
| WTP main program | `wtp/wtp_main.c`, `discovery.c`, `join.c`, `configure.c`, `changestate.c`, `run.c`, `cw/discovery.c` | state, tree of candidates, DTLS object, configuration, echo timer | load the file, discovery, join one candidate after the other, configure, change state, run; save what it is told |
| Configuration file | `cw/cfg.c`, `cw/cw_type_bstr16.c` | a tree of keys and texts; the text of the file | set, copy, save, load |
| State tables | `mod/capwap/capwap_actions.c`, `mod/cisco/cisco_actions.c`, `cw/msgset.c` | allowed states of each message, transitions and their timers | registration merges the tables of modules |
| Fragmentation | `cw/send.c`, `cw/fragman.c` | `fragid`, ten reassembly slots | split on send, `fragman_add` |
| Discovery cache | `ac/discovery_cache.c` | ring of 100 discoveries, two trees | add (session thread of a discovery), get (creation of a DTLS session) |
| Message sets | `cw/msgset.c`, `cw/mod.c`, `mod/*` | for each connection: handlers by element, messages with receiver, states and elements | a module registers its table over those of earlier ones; detection of the modules a peer speaks; upgrade by version |
| Keep-alive | `wtp/run.c`, `ac/wtpman.c` | echo timer of the WTP, timer of the session | Echo Request when one expires, removal of the session when the other does |
| Command line | `ac/rpc.c` | the client's session | list, cfg and send walk over the sessions |
| Data channel | `ac/dataman.c`, `cw/netconn.c` | list of data managers, one mutex | create, keep-alive (unfinished) |
| DTLS glue | `cw/dtls_*.c` | library objects | accept, connect, read, write |
| Elements, sockets, database | `cw/cw_*.c`, `ac/conf.c`, `ac/socklist.c`, `ac/db.c` | values, files | parsing, composing, start-up |

The AC has one thread that receives, one per session, one per data session and
one for the command line.
The receive loop calls into the list (under its mutex) and into the queue
(under the same mutex, which the consumer does not take). A session thread reads
its queue through DTLS, lets `conn.c` process messages, which sets the state
fields, and then consults the state machine. The WTP is a single thread.

### What is hard, and what makes each part correct

* Queue: a ring shared by two threads with a semaphore and no lock. Nothing
  accepted may be lost, repeated or reordered, whatever the producer sees of the
  consumer's index.
* Control channel: retransmission on a channel that loses and reorders, with
  8-bit numbers that wrap. A request must take effect at most once, and get one
  answer; both ends must keep step through the handshake.
* Session thread: time passes between any two statements, the timer is looked at
  in one place only and the cause of a timeout is guessed from an old result.
  No session may end early, none may last for ever.
* Fragmentation: fragments lost, duplicated and mixed with those of other
  messages.
* List and creation of sessions: a session is looked up, created, fed and
  destroyed by two threads, and visited by a third. No packet may reach a freed
  session, no host may get two, and a lock must be given back on every path.
* Message sets: what an end understands and when it may say it is the result of
  merging tables in the order the modules were loaded. Both ends must come to
  sets that fit each other.
* Discovery cache: slots that are ring elements and tree nodes at once.
* Start of the WTP: answers of several controllers, in any order and repeated, in
  a tree that refuses equal elements; candidates that refuse, one after the other;
  a file that is emptied before it is written, by a program that may stop at any
  time. No announced address may be left out, and what the WTP was told must come
  back after a restart, or be missing, but never be something else.
* Keep-alive: two timers, set at two ends. No end may give up the other while it
  is there, and each must notice that the other is gone.

`PROJECT.json` lists these hazards with the line where each bites.

## 2. Modules

| Module | What it is |
|---|---|
| `BoundedFifo` | what the packet queue promises: a FIFO of bounded capacity |
| `PacketQueue` | the packet queue; shown to implement `BoundedFifo` |
| `ControlChannel` | WTP and AC ends of the control channel, and the network between |
| `ControlChannelProofs` | its theorems |
| `WtpSession` | the session thread, the state machine tables and time |
| `WtpSessionProofs` | its theorems |
| `Fragments` | cutting a message into fragments, the slots that put it together, and the network between |
| `ReceptionProofs` | the theorems of the two modules a received packet passes, `PacketQueue` and `Fragments` |
| `RecentDiscoveries` | what the discovery cache promises: the last discoveries, each given once |
| `DiscoveryCache` | the discovery cache; shown to implement `RecentDiscoveries` |
| `DiscoveryCacheProofs` | its theorems |
| `Dispatch` | receive loop, list of sessions and its lock, creation and removal of sessions, data managers, command line |
| `DispatchProofs` | its theorems |
| `Elements` | the tables of the three modules: every handler with its lengths, every message with receiver, states and elements |
| `MessageSets` | the two ends that merge these tables, and a session between them; extends `Elements` |
| `MessageSetsProofs` | its theorems, and those of `Elements` |
| `KeepAlive` | the loop of a WTP in RUN and that of its session, with a clock each and the network between |
| `KeepAliveProofs` | its theorems |
| `Cfg` | the configuration store, its file, character by character, and octets kept as text; operators only |
| `WtpStart` | a WTP from its start to RUN and back: file, discovery, joining, settings, saving, crash and restart; extends `Cfg` |
| `WtpStartProofs` | its theorems, and those of `Cfg` |
| `MCPacketQueue`, `MCFragments`, `MCMessageSets`, `MCWtpStart` | give constants that a configuration cannot write a value (functions, lists of modules); TLC runs the other modules directly |

The modules cut the program at its locks and messages. `Dispatch` hands packets to
a queue (`PacketQueue`), the thread that reads them is `WtpSession`, which calls
the control channel (`ControlChannel`, over the packets `Fragments` puts together);
what the tables let the channel do is `MessageSets`; when the thread is in RUN and
the WTP in `run`, `KeepAlive` puts both loops together with their clocks. Each
module abstracts its neighbours to what they may do: `WtpSession` reads any
message at any time, `Dispatch` keeps of a session thread the steps that touch the
list, `KeepAlive` keeps one bit of the sequence numbers because `ControlChannel`
shows that a repeated request is told from a new one. `WtpStart` is the program of
the WTP around all of this: it keeps of a connection which controller it was made
for, and of a session the settings that arrive in it.

Some definitions are followed or preceded by a variant marked "mutant of": the
same definition with a plausible error. Putting it in place makes the property
named with it in `PROJECT.json` fail, which shows that the property constrains
the code.

### PacketQueue

The names `QueueInit`, `QueueNext`, `QueueSpec` and `QueueTypeOK` leave the plain ones to
`Fragments`, since `ReceptionProofs` extends both. `ppc` splits `conn_q_add_packet` into storing the packet and `sem_post`; `cpc`
splits `conn_q_get_packet` into the wait, the advance of `qrpos` and the fetch.
`LoadQrpos` is the producer's unsynchronised read of `qrpos`: a data race, whose
result may be any value since the last load. Packets are numbers; `PiecesOf`
says how many reads a packet takes. `nput`, `nget`, `nview` and `got` are
history. The bound `StartBurst` limits the packets that arrive before the
producer first sees a get: the code's check for a full ring does not work before,
because `qrpos` is -1 and `qwpos` never equals it (with `StartBurst = QSize + 1`
the ring overwrites its first packet).

### ControlChannel

The WTP's program is `phase` (the function `main` is in) plus the state of
`cw_send_request` (`waiting`, `try`). The AC's is the part of `struct cw_Conn`
that `process_message` and `process_elements` use: `acState`, `last`
(`last_seqnum_received`) and `cache` (`resp_buffer`). `net` is the set of
messages in flight. A message carries the number of the request (a history
identity) and the handlers see `WireSeq` of it only. `log` records what
`process_elements` was called for.

The network loses (a message need never be taken), reorders, and delivers late,
but not later than `Lifetime` requests after; DTLS removes duplicates, so each
transmission is distinguished by its `try`. `Lifetime < Half` is an assumption
about the network without which no 8-bit numbering works.

`AcProcess` is the whole of `process_elements` for a request: look-up of type,
role and state, error response or state change and response, plus the jump of
the Cisco tables which the session thread makes before it reads again.
`RefuseResponse` is `process_elements` for a response that is not allowed.
One AC is tried; how `main` comes to the next one is in `WtpStart`. Message contents are left out.

### WtpSession

One step per statement of `wtpman_main` that reads or writes shared control
state; `Tick` lets at most a second pass between two steps, which is the time
`conn_q_get_packet` waits. `left` is the timer relative to the clock: `Expired`
means `time(NULL) > timer`, so a timer of `t` seconds expires when `t + 1` ticks
have passed. `BaseMachine` and `Jumps` are the tables, `Requests` the
state changes `process_elements` makes. `quiet` counts the seconds of
silence and stops at `Patience`.

### Fragments

`SendMsg` is a whole `cw_send_msg`: `Cuts` are the offsets its loop produces,
and the `i`-th offset and length follow from `First` and `Rest` (the header of
the first fragment is longer than that of the others). Lengths count units of
eight bytes; `conn->mtu` is 1480 and the only other value in the code is 480, so both payload sizes are multiples of eight. A unit of a
buffer is represented by the number of the set it came from; memory nobody wrote
is `Garbage`, and memory reused by `realloc` keeps what it held. The actions of
the receiver are the paths through `fragman_add`: a slot found (`AddToPartial`),
a slot made (`AddToNew`), none free (`NoSpace`), no memory (`NoMemory`). `age` is
the slot's time stamp relative to the clock. `IdStep` tells the sender of this
program (0: it never changes `fragid`) from a peer that follows the protocol (1).
Fragments are lost (never taken) and reordered; DTLS removes duplicates.
`MaxSets <= IdMod`: the numbers do not come round again, because a slot is
found by its number however old it is.

### DiscoveryCache

`Add` and `Get` are whole calls, because both callers hold the lock of the list
of sessions. The ring is `queue` and `qpos`; `ctr` is `ctrhi` and `ctrlo` as one
number; `byaddr` and `byaddrp` are the sets of ring positions that are nodes of
the trees, whose keys the comparison functions read from the ring. `mavl` is a
library outside `src/`: `mavl_del` removes the node with an equal key, and
`mavl_insert_ptr` does nothing if there is one. The modules a discovery found
are represented by the number of the discovery. A look-up is `GetByPort`,
`GetByHost` or `GetNothing`; `got` is history: who asked, and the answer. `Half` is 2^31: the comparison returns a difference
of unsigned words as an `int`, and the search by host starts at counter 0
(`FarFromZero`), so from counter `Half` on a discovery may not be found. Up to
there the cache implements `RecentDiscoveries`; the trees agree with the ring
beyond, which is proved. `RecentDiscoveries` promises a discovery of the same
host, not of the same port, and the code keeps no more: a second discovery of an
address is not put into `byaddrp`, giving the first removes the address from it,
and the second is then found by host only, after older ones of that host.

### Dispatch

A session is a slot of memory, used again once it was freed; `stage` says where
its thread is, from `new` (created, not yet in the list) over `discovery`, `found`
(it has answered the discovery and has yet to leave), `accept` and `running` to
`leave` (it waits for the lock) and `unlinked` (out of the list, not yet freed).
`stuck` is a session whose thread could not be created: the code does not look at
the result, so it stays in the list. `recv` is the receive loop between its
calls: it takes the lock, looks the sender's host up, creates, adds, starts and
hands the packet over, and returns on every error path. The list was created to compare hosts
without ports (`connlist_create(0, 0)`), so `Lookup` does. `DelByAddr` removes by
key, as `mavl_del` does, so removing one's own session is something to show and
not built in. `cached` counts the entries of the discovery cache by host
(`DiscoveryCache` has the rest of it), `owed` is history: discoveries answered whose DTLS
session has not begun. `tables` says that `conn->msgset` is set. A data packet may
meet a manager, make one, or fail to: then the function returns with the lock of
the managers taken (`datalock`), and the next data packet blocks the loop for
good. `rpc` is the thread of the command line, which visits the sessions with the
list locked and writes to its client meanwhile (the client may stall); its
command `send` stores a pointer that was never initialised (`foreign`), and what
happens when the session uses or frees it is `crashed`. The tree by session id is
left out: its key is never set in any run of the program because the look-up of
the element uses another key than the one it was stored under.

### Elements and MessageSets

`Elements` is the tables of `mod_capwap`, `mod_capwap80211` and `mod_cisco`: one
row for each handler (lengths it accepts, lengths it writes, which follow from
the structure or the type in its `param`, how its value is kept, and what its
`get` and `put` do, `stop()` included) and one for each message. Element contents
are left out. A table is a set of rows, each with another key (`TableOf` makes a function
of it), so that a statement about its rows can be proved part by part.

`MessageSets` builds sets with `Add` (`cw_msgset_add`): a later handler replaces
an earlier one, elements are replaced, ignored or deleted, a message without
states keeps those of an earlier table, and the receiver is always overwritten.
`setup` is what the two programs were started with: the WTP's list of modules,
the controller's, the WTP's software version, whether the security of the
controller is configured without the `capwap/` prefix (`bare`), whether the WTP
has values for the keys of Cisco elements (`known`), the address family, and
whether messages are lost. The WTP registers its list in both modes; the
controller detects the modules from the first message of a session, keeps those
of the discovery for the DTLS connection, and upgrades its set when the Discovery
or Join Request tells version 7.3 or 7.5. A message is the set of elements its
sender's set writes, each with the lengths it can have; `Taken` is what the
receiver's set accepts; handlers that call `stop()` end their program. The states
are those of the two main programs. A message that is sent is delivered once or
lost; retransmission is in `ControlChannel`.

`ListsAssumption` leaves out lists that put `capwap` after `cisco` at the WTP (its header
handler replaces that of Cisco, and elements then carry numbers of other
elements) and lists of bindings alone.

### KeepAlive

`left`, `try` and `pc` are the WTP (`run` and `cw_send_request` in it), `acLeft`
and `ac` the session thread. Each end has a clock in seconds; the clocks tick in
turn, so that neither runs ahead by more than one, and a thread makes at least a
step per tick of its own clock, because every read returns after a second.
Packets are at most `MaxDelay` ticks on their way, and at most `MaxLosses` of
them are lost between one accepted request and the next; both are assumptions
about the network. A repeated request is answered from the cache and does not
start the timer of the session. Either program may stop at any time; with OpenSSL,
which is what is built, the other end notices no more than silence.
`KeepAliveAssumption` asks that a request that is repeated as often as the code
repeats it comes through, and that what one exchange left on its way has arrived when the next
begins.

`Enough` says by how much the interval of the controller must exceed that of the
WTP. It is sharp: with one second less TLC finds a session that is given up, for
each of the parameters tried. The defaults of the two intervals are equal
(30 seconds, `CAPWAP_ECHO_INTERVAL`, at either end), and do not satisfy it even if nothing is
late or lost: the clock is read in whole seconds and each end looks at its timer
once a second, so an echo may be sent up to 31 seconds after the last one and the session
may end after 30. An installation has to configure the controller's interval higher.

### Cfg and WtpStart

`Cfg` is a store (a function from names to values), the text it is written to, and
the reader of `cw_cfg_read_from_file` as an automaton that takes one character at a
time: `in` says in which of the functions `read_key`, `skip_to_colon` and `read_val`
it is, and `quote` is `p->quote`, which outlives a line. The characters that these
functions treat in ways of their own are single characters; all white space on a
line is `Blank`; the keys of the element tables are single characters too. The order
of the tree (`KeyBefore`) is that of `strcmp`, which `cmp` of `cw/cfg.c` amounts to for
keys that have no number after a dot. The order between letters is left open, and
names have no bound: those of the tables are short. `Stored` and `Sent` are what becomes of the octets of an element: text
if they can be printed, otherwise `.x` and two digits each.

`WtpStart` is `main` of the WTP. `Start` loads the file, or ends if there is an
error in it. `Answer` and `AddAddress` take a Discovery Response and the
addresses in it one by one; what the controller puts on the wire is `Wire`: it
writes the number of WTPs of each address to the place of that of the first. The
candidates are tried in the order of the tree. An attempt ends at the security, the socket,
the handshake or the Join Request, or succeeds; `dtls` is the controller whose keys
the connection has. `Configured` and `Updated` are the two callbacks that copy what
a message has set into the configuration and save it, in the same message but one
file operation later. `Save` writes any beginning of the text, because no error of
a write is looked at (`n` the whole text: it went well); `FailWhileSaving` does the same and the process is
gone; `SaveNothing` is a file that cannot be opened. `End` is the end of the process
at any other moment. `told` (what controllers told the WTP that its store should
hold), `saved` (store and `told` when the file was last opened for writing) and `whole`
(whether the text was then written to its end) are history.

`Holdable` and `Faithful` say, without the reader, which stores a file can hold and
which octets come back as they were. That a holdable store comes back is `Remembered`,
and so is that `Faithful` is exact; that `Holdable` asks for no more than it must is
`HoldableIsExact` in `MCWtpStart`, which TLC evaluates for the stores of one short name, and of
two. `MaxOctets` charges a controller for every octet, and one more for a setting, so that
histories end. Failures of
memory are left out, and the sockets and the length of the discovery interval are I/O.

## 3. Runs

| Run | What it checks | Bounds and why they are enough |
|---|---|---|
| `packet_queue` | types, no slot reused before it is read, refinement of `BoundedFifo`, every packet read | 4 slots, 11 packets: the indices go round nearly three times; packets of one and more pieces |
| `control_channel` | at most once and in order, no request that was never made, one answer, handshake order, requests end | modulus 8 and 8 requests starting at 2: the numbers wrap; 2 transmissions give every retransmission race |
| `wtp_session` | transitions exist, no early timeout, bounded silence, sessions past JOIN end | small distinct timer values, 5 messages: all states are reached and RUN is repeated; `Patience` exceeds every limit by `Slack` |
| `wtp_session_ends` | violated: every session ends | the same |
| `fragments` | reassembled messages whole, sets that arrive are returned | messages of three packets, of three the last of which does not fit the buffer, and of one; 3 sets, 2 slots: retransmission, no free slot and a slot given away all occur |
| `discovery_cache` | trees agree with the ring, refinement of `RecentDiscoveries` | 3 slots, 7 discoveries of 4 addresses: the ring goes round twice; counters below `Half` (see DiscoveryCache) |
| `dispatch` | one session per host, packets and visits for the living only, an answered host is remembered, no session without tables | 2 hosts, 2 session slots, queue of 1, one cached discovery per host: no free slot, a full queue, two sessions and reuse of memory all occur (2.5 million states); ports are not compared, so one is enough |
| `dispatch_liveness` | the receive loop returns, sessions are freed | 1 host, 2 slots: the session that ends and the one that replaces it |
| `message_sets` | both ends read what the other writes, nobody exits in a served setup, which setups reach RUN, and that they do | 7 lists of the WTP, 3 of the controller, 3 versions and every combination of the other four choices, with the real tables: nothing is scaled down |
| `message_sets_join` | violated: a Join Response is heard | the lists both programs have by default |
| `keep_alive` | no end gives the other up, the end of one is noticed by the other | intervals 4 and 10, repetition after 2 seconds, 4 transmissions, delay of 1, one loss: requests and answers are lost, repeated and cross each other. `AcEcho` is the smallest value that is `Enough` |
| `wtp_start` | no announced address left out of the candidates; what is remembered over a restart, exactly; what a save that was cut off leaves | 2 controllers, one with two addresses and one without common security, a priority of 270, 2 answers: equal ranks within an answer and between two; settings of at most 4 octets in all, of every kind of character, in one or more messages and two keys, values of at most 7 characters: all ways of quoting, escaping, hexadecimal and cutting occur (1.9 million states) |

Deadlock checking is off where the system really stops: for `control_channel` and
`wtp_session*` (a WTP that has ended, a removed session), for `dispatch*` (a
crashed controller) and for `wtp_start` (a WTP that refuses its file). The other
runs check it.

`message_sets` shows more than its verdict. A session comes to RUN if and only if
it is `Serviceable`: the WTP's last module is `cisco`, the controller detects
Cisco before it settles for `capwap`, the version is below 7.3, the security of
the controller is configured without a prefix, and the WTP has values for Cisco's
keys. The rest fails at these points:

* a WTP with the default list never joins: `capwap80211` makes the controller the
  receiver of the Join Response (`mod/capwap80211/capwap80211_messages.c:131`);
* a WTP with `capwap80211,capwap` exits when it composes the radio operational
  state for its Change State Event Request;
* a controller whose connection has the plain `capwap` tables exits when it reads
  that request;
* from version 7.3 on the controller exits when it composes its Configuration
  Status Response.

`Misfits` are the elements that are written with a length the other end does not
accept: the local IPv6 addresses (4 octets are written of 16) and Cisco's radio
module information (184 octets against 183). `Understood` says that there are no
others.

### Fairness

* `PacketQueue`: weak fairness of the producer's post (the receive loop finishes
  the call it is in) and of the consumer (the session thread does nothing but
  read while the session lives). Arrival of packets is not fair.
* `ControlChannel`: weak fairness of `Retransmit` and `GiveUp`, because
  `cw_send_request` comes back to its timer at least every second. Delivery is
  not fair: the network may lose everything.
* `WtpSession`: the thread runs and time passes. Messages are not fair.
* `Dispatch`: the threads run, and a thread that waits for the lock of the list
  gets it if it is free again and again (strong fairness). Packets and the client
  of the command line owe nothing: what a client who stops reading causes is named
  in the properties (`Stalled`), as are a data manager that could not be created
  and a crash (`Halted`).
* `MessageSets`: the system goes on unless it is over. `Fairness` is written out
  as `<>[]Over \/ []<><<Next>>_vars`, which weak fairness of `Next` amounts to
  where some step is always possible (the run checks for deadlocks).
* `KeepAlive`: none. The clocks force the threads to step, and the properties
  bound time instead of asking for something to happen at last.

### Disagreements found

Two runs end in a violation; `PROJECT.json` quotes the line each contradicts: a
session whose wait-join timer expires at the wrong moment spins for ever, and a
WTP with the default modules discards every Join Response.

Others came up while modelling. They are part of the models, which do what
the code does, and no run is spent on them:

* the sender gives all its sets of fragments one number (`cw/send.c:134`), while
  `src/doc/rfc5415.txt:2710` says "The value of Fragment ID is incremented with each
  new set of fragments": with `IdStep = 0` in `MCFragments.cfg` TLC finds `Intact`
  violated, by a message that lost a fragment and is completed from the next;
* the ring of packets overflows before the first get (`StartBurst`);
* a response is matched with the request neither by its sequence number nor by its
  result code, an error response answers a response, and the WTP goes on to RUN
  whatever configure and changestate return (`ControlChannel`);
* a WTP that starts DTLS without a discovery is never served, since its modules
  are only found in the discovery cache (`Dispatch`; RFC 5415, section 2.3.1
  allows a WTP to skip discovery);
* `process_cw_data_packet` returns with a lock taken if a data manager cannot be
  created, and a thread that cannot be created leaves its session in the list;
* the shipped intervals of both ends are equal (`KeepAlive`);
* after a refused join the DTLS object stays in the connection, although
  `src/doc/rfc5415.txt:1250` has the WTP "initiate the DTLSShutdown command": no later
  candidate can be joined (`Connection` of `WtpStart`);
* a socket that cannot be made is taken for a successful join (`NoSocket`);
* some settings do not come back after a restart: a value that begins with a quote is
  read as another one, and `"HQ" building` makes the WTP refuse its file for good;
  printable octets that begin with `.x` are sent as other octets; from 512 on, octets
  that are no text are cut; and a file that was cut off, even an empty one, loads
  without a word (`Remembered`, `NothingInvented`);
* numbers of a configuration are cut to a byte (`cw/cw_type_byte.c:95`): a
  controller with priority 270 comes before one with 15;
* the priority of a controller is read under the key
  `capwap/ac-name-with-priority/<name>` (`cw/discovery.c:72`), which no message
  element is stored under: only a hand-written file has one;
* the numbers of WTPs of a controller's addresses are all written to the place of the first (`Wire`);
* the controller looks for its timers under `capwap-timers/` and stores
  those of messages and files under `capwap/timers/`, and
  the shipped `capwap/timers/echo-interval :Byte: 30` (`ac/config.ckv:71`) is read as
  the number 0, since the value is the text `Byte: 30`.

## 4. Proofs

The theorems hold for all constants that satisfy the named assumption of their
module (`QueueAssumption`, `ChannelAssumption`, `SessionAssumption`,
`FragmentsAssumption`, `CacheAssumption`, `DispatchAssumption`,
`KeepAliveAssumption`, `CfgAssumption`, `WtpStartAssumption`, `ListsAssumption`).

* `ReceptionProofs`, queue: the inductive invariant says which packet each slot
  behind `qrpos` holds, how `qwpos` and `qrpos` follow from the numbers of
  packets put and taken, and that `rview` is the index that belongs to `nview`,
  an old value of `nget`. From it: `SlotNotReused`, `SemaphoreExact`,
  `NoMoreThanBuffers`, `StreamInOrder`, and the refinement of `BoundedFifo`. All
  need `StartBurst <= QSize`: with one packet more the first slot is overwritten.
* `ControlChannelProofs`: the invariant bounds the distance between the newest
  request, the messages in flight and `last`, so that comparison modulo
  `SeqMod` agrees with comparison of the requests' numbers. From it:
  `AtMostOnceInOrder`, `NoGhostRequest`, `OneAnswer`, `AcKeepsUp`. `OrderInv` adds that
  the first request the AC processes is the Join Request, since the WTP issues no
  second one before it has read an answer; from it: `HandshakeOrder`.
* `WtpSessionProofs`: the invariant relates `quiet`, `left` and the place of the
  thread: how much of `Slack` each place may have used. From it: `StateFound`,
  `TimerArmed`, `NoEarlyTimeout`, `SilenceBounded`.
* `ReceptionProofs`, fragments: the code adds up lengths, and the invariant says why the sum
  tells what is in the buffer: fragments of a set are disjoint and cover the
  message (lemmas `Disjoint` and `Covered` on the offsets), what is in a buffer is
  not in flight, so a fragment that fits adds as many units as it has, and as
  many units as the message has are the message (`CountAll`). `ProgressInv` says
  where a set is: dropped, delivered, all in flight, or in one slot and in
  flight. From it: `Intact`, `Complete`, `DistinctIds`. They assume `IdStep = 1`
  (see Disagreements found for why) and `MaxSets <= IdMod`.
* `DiscoveryCacheProofs`: the invariant says that a slot in use holds the
  discovery of its last turn (`Turn`), so that counters in the ring differ, a
  removal by key removes the slot's own node, and the slot in the way is the one
  `Len` discoveries old. From it: `TreesMatchRing`, and the refinement of
  `RecentDiscoveries`, which assumes `MaxAdds <= Half`: below `Half` the
  comparison of counters is that of numbers (`BeforeIsLess`).

* `DispatchProofs`: the inductive invariant says who may hold the lock at which
  place (`LockHeld`), that the list is exactly the sessions at work and has one
  per host, what the receive loop knows between its calls (`Making`), that its
  target is alive, that discoveries owed are cached or about to be (`Owed`), and
  that a running session has its tables. Each part needs the others: a removal by
  key takes out the right session only if there is one per host, and there is one
  per host only because the look-up that found none still holds the lock when the session is added.
  From it, every safety property of the run.
* `KeepAliveProofs`: `EndInv` bounds the seconds an end has been alone by its timer
  and the transmissions it has made, and gives `EndNoticed` for all values of the
  constants. `StayInv` says, for each case of what is on its way and what the
  controller has accepted, that what is left on its timer (`Spare`) together with
  the time since the request was first sent (`Elapsed`) exceeds the delays to come
  plus a repetition for every packet that may still be lost or was (`AllRepeats`), and
  gives `SessionSurvives`. Answers take longer than the retransmission interval in general,
  so any number of transmissions and answers of one request may be on their way. What keeps
  them in order: each packet belongs to a transmission of its own (`Apart`), its age
  is the time since then (an answer: at most a delay less), and a transmission no packet
  belongs to was lost (`Missing`). So the oldest packet there is bounds how
  old the request is (`InTime`), and how many there are does not matter. When the WTP has
  its answer, the others that are left are as old as that, and none is left when the
  next echo is due (`NothingLeft`).
* `WtpStartProofs`: three invariants.
  `IInv`: the tree of candidates refuses an element of the same rank, and
  what tells two elements of one priority and load is the size the tree had. Every
  element's counter is below the present size, so that
  the next element is refused by none, and an announced address is in the tree
  or in the part of the list that is still to be added (`Kept`). From it: `Considered`.
  `StoreInv`: the file is a beginning of the text of `saved.cfg`, all of it if `whole`; the
  store holds what `told` says, as text; and where the program has just started, the
  store is what the file reads as. From it: `Remembered` and `NothingInvented`.
  `JoinInv` says what the search holds in each place of the program, and completes `TypeOK`.

  `StoreInv` rests on theorems about `Cfg` as a program, whatever the WTP does with it:
  the traversal of the tree gives every name once, in order (`InOrderIs`); a store that
  is `Holdable` is read from its text as it was (`RoundTrip`); from a text that is cut off
  anywhere, an error or a beginning of the store is read (`CutTrip`); octets are sent as
  they were received exactly if they are `Faithful` (`SentIs`). The library's induction
  theorems take an operator and cannot be used; the module gets by without them. A set of
  numbers that is closed under the next one is all of them, because its complement has
  no least element (`NatInd`), and a loop over a text is a recursive function
  which exists and is unique by the same argument (`Recursion`). The reader is then
  followed from state to state: `Leads(r, s, q, O)` says that the text `s` takes it from `r` to
  `q` and that a file that ends inside `s` leaves something of `O`. Texts in a row lead
  on (`LeadsConcat`), so a store follows from its lines, a line from its name, colon and value,
  and a value from its characters, quoted and escaped or not.

* `MessageSetsProofs`: the theorems hold for lists of any length and of any order that
  `ListsAssumption` allows, where the run has seven and three. The tables are those of
  the program, about 500 rows, and the argument goes through three layers.

  *Tables.* Part by part it is proved that a handler takes every length it
  writes, except `Misfits` (`Sound`); that the handlers that end the program belong to
  elements no message of a session carries (`Unsent`), to those of versions 7.3 and 7.5,
  or to the one of `capwap` that `cisco` replaces (`Own`); and that the messages lead
  from state to state as they should and list no element as mandatory and optional at
  once (`Orderly`).

  *Sets.* `cw_msgset_add` keeps a set `Good` whatever orderly table comes next: every
  element a message lists is allowed and has a handler, and none is listed twice. What else is in a
  set depends on the order of the tables: after `cisco` it is `CiscoSpoken`, whatever
  came before, and stays so as long as no `capwap` follows (`WtpSet`). `SessionSet` is what the
  modules the controller has detected make of an empty set.

  *Sessions.* The inductive invariant `Inv` says what the sets of both ends are at each stage
  (`Registered`, `Controlled`), and what the message on its way shows of the set it was
  written with (`Flight`): a WTP that has `cisco` shows it in its first message, and its
  version in the Join Request. That is what detection and upgrade rest on. `Agreement`
  says that the modules the controller has detected are those of this WTP; `Admission` what it
  takes to get past the Join Response, and which handler a version from 7.3 on will
  meet; `Service` that the state goes beyond JOIN with Cisco's tables in `Serviceable`
  setups only. `RunsOnlyIf` alone is not inductive, because which setup it is shows in what was
  detected, written and answered several messages earlier. From `Inv`: `TypeOK`, `Understood`,
  `NobodyExits`, `RunsOnlyIf`. TLC has checked `Inv` on the constants of the run.

`SemaphoreExact`, `NoMoreThanBuffers`, `StreamInOrder`, `AcKeepsUp`, `TimerArmed`,
`DistinctIds`, `ListIsOfTheLiving` and the type invariant of `DiscoveryCache`
are theorems only, not properties of a run: the proofs cover every instance.

Every safety property of the runs, type invariants included, is a theorem. Only
model-checked:

* that `Holdable` is no stronger than it must be (`HoldableIsExact`);
* the liveness properties `EveryPacketRead`, `RequestEnds`, `PastJoinEnds`,
  `ReceiveLoopReturns`, `SessionsAreFreed` and `ServiceableRuns`: fairness and `ENABLED`
  are out of the prover's reach here.

## 5. Not modelled

* Values of elements other than octets (the readers and writers in `cw/cw_*.c`), and
  of `cw/cfg.c` the iteration by index, truth values, words and the dump: `Elements`
  has the lengths and the effect on control; a value decides on control only where
  `setup` says so.
* The DTLS libraries and the glue around them: their effect on the models is a
  channel without duplicates or alterations, silent after a shutdown.
* The thread of a data manager: it reads for two seconds and ends, and the look-up
  of its session is commented out. Its creation is in `Dispatch`.
* Sockets, configuration files, SQL and logging: start-up and I/O without shared
  state. The commands of `ac/rpc.c` that take the lock of the list are in
  `Dispatch`.
* Messages the programs have tables for and never send: primary discovery, WTP
  event, image data, and updates of the configuration by the controller.
* LWAPP (`WITH_LWAPP` is not set), vendored, generated and unused code. A large
  part of the repository is of this kind (two copies of `nl80211.h`, headers
  of constants, JSON and key-value libraries, retired handlers), which is why
  the definitions here cover a small share of all lines.

Known in the code and outside the models: `sock_receive` (`cw/sock_receive.c:38`)
gives `recvfrom` the size of an IPv4 address for its buffer; `message->states` is read
without a test for NULL (`cw/conn.c:458`), which no merged table leads to;
`cw/message.c:26` names a handler that was not found; a data keep-alive with a
session id ends in `stop()` (`ac/dataman.c:119`); a configured
echo interval of 0 makes the WTP's timer expire in the past (`wtp/run.c:93`);
the index of the socket is not stored in the session (`ac/wtpman.c:327`); end of
file on the command line does not end its loop (`ac/rpc.c:553`); `list` and `cfg`
read `conn->remote_cfg`, a tree that its session's thread changes without a lock
(`ac/rpc.c:317`).

## 6. Plan

1. Refinement between modules: a session of `Dispatch` whose thread is the whole of
   `WtpSession`, with `PacketQueue` between it and the receive loop.
2. The settings of `MessageSets` (`setup`) as the result of loading a file with
   `Cfg`, with the keys that have numbers in them.
3. Of the liveness properties, the safety they rest on as theorems: that a WTP in a
   `Serviceable` setup that loses no message is never refused, discarded or given up
   (`ServiceableRuns` without the progress), and a bound on the steps left for
   `RequestEnds` and `PastJoinEnds`.
