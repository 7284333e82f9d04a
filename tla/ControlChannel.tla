---------------------------- MODULE ControlChannel ----------------------------
(***************************************************************************)
(* Requests and responses on the control channel of one WTP's session.     *)
(*                                                                         *)
(* The WTP is the requester: wtp_main.c goes through join, configure and   *)
(* changestate to run, and every request is a cw_send_request that         *)
(* transmits it up to MaxRetransmit times (src/cw/send.c).  The AC is the  *)
(* responder: process_message and process_elements (src/cw/conn.c) compare *)
(* eight-bit sequence numbers, cache the last response and look up the     *)
(* message type and the session's state in the tables the modules          *)
(* registered.  Both ends run the same process_elements.                   *)
(*                                                                         *)
(* The channel is DTLS over UDP: a transmission arrives at most once, or   *)
(* never, and in any order; what retransmits is the program.  A request is *)
(* identified by its number; on the wire there is only WireSeq of it, and  *)
(* the handlers use nothing else.                                          *)
(***************************************************************************)
EXTENDS Integers, Sequences

CONSTANTS SeqMod,         \* values of a sequence number (256)
          FirstSeq,       \* discovery requests sent on the same connection
          MaxRetransmit,  \* conn->max_retransmit (5)
          Lifetime,       \* assumption on the network: a packet arrives before
                          \* the Lifetime-th request after its own is issued
          MaxRequests,    \* bound: requests issued in a behaviour
          Cisco           \* the AC has the cisco module's tables

Half == SeqMod \div 2

ASSUME ChannelAssumption ==
    /\ SeqMod \in Nat /\ SeqMod = 2 * Half
    /\ FirstSeq \in Nat
    /\ MaxRetransmit \in Nat \ {0}
    /\ Lifetime \in Nat \ {0}
    /\ Lifetime < Half /\ 3 < Half
    /\ MaxRequests \in Nat
    /\ Cisco \in BOOLEAN

VARIABLES phase,     \* WTP: the function wtp_main is in
          waiting,   \* WTP: inside cw_send_request
          try,       \* WTP: transmissions of the current request
          issued,    \* WTP: type of every request composed so far
          alive,     \* AC: the session exists
          acState,   \* AC: conn->capwap_state
          last,      \* AC: conn->last_seqnum_received
          cache,     \* AC: conn->resp_buffer
          log,       \* history: every request process_elements was called for
          net        \* messages in flight

wtp == <<phase, waiting, try, issued>>
ac == <<alive, acState, last, cache, log>>
vars == <<phase, waiting, try, issued,
          alive, acState, last, cache, log, net>>

JoinReq == 3
ConfigReq == 5
UpdateReq == 7
EventReq == 9
ChangeReq == 11
EchoReq == 13

IsRequest(type) == type % 2 = 1

WireSeq(id) == (FirstSeq + id) % SeqMod

Id == 1 .. MaxRequests
Type == 3 .. 16
Message == [type : Type, id : Id, try : 1 .. MaxRetransmit, ok : BOOLEAN]
NoMessage == [type |-> 0, id |-> 0, ok |-> FALSE]
Reply == [type : Type, id : Id, ok : BOOLEAN]
Entry == [type : Type, id : Id, ok : BOOLEAN, answered : BOOLEAN]

Phases == {"join", "configure", "changestate", "run", "exit"}
AcStates == {"JOIN", "CONFIGURE", "DATA_CHECK", "RUN"}

TypeOK ==
    /\ phase \in Phases
    /\ waiting \in BOOLEAN
    /\ try \in 0 .. MaxRetransmit
    /\ issued \in Seq({JoinReq, ConfigReq, ChangeReq, EchoReq})
    /\ Len(issued) <= MaxRequests
    /\ alive \in BOOLEAN
    /\ acState \in AcStates
    /\ last \in -1 .. SeqMod - 1
    /\ cache \in Reply \cup {NoMessage}
    /\ log \in Seq(Entry)
    /\ net \subseteq Message

Init ==
    /\ phase = "join" /\ waiting = FALSE /\ try = 0
    /\ issued = <<>>
    /\ alive = TRUE /\ acState = "JOIN" /\ last = -1
    /\ cache = NoMessage /\ log = <<>>
    /\ net = {}

------------------------------------------------------------------------------
\* cw_init_response: the type after the request's and its sequence number.
ReplyTo(m, ok) == [type |-> m.type + 1, id |-> m.id, ok |-> ok]

Send(reply, t) ==
    [type |-> reply.type, id |-> reply.id, try |-> t, ok |-> reply.ok]

------------------------------------------------------------------------------
(* The WTP: cw_send_request and the functions that call it *)

RequestOf(p) ==
    CASE p = "join" -> JoinReq
      [] p = "configure" -> ConfigReq
      [] p = "changestate" -> ChangeReq
      [] OTHER -> EchoReq

Succeeding(p) ==
    CASE p = "join" -> "configure"
      [] p = "configure" -> "changestate"
      [] OTHER -> "run"

JoinFailureIgnored(p) ==       \* mutant of Failing
    CASE p = "join" -> "configure"
      [] p = "configure" -> "changestate"
      [] p = "changestate" -> "run"
      [] OTHER -> "exit"

\* wtp_main looks at the result of join only, and run breaks on an error.
Failing(p) ==
    CASE p = "configure" -> "changestate"
      [] p = "changestate" -> "run"
      [] OTHER -> "exit"

WtpState == IF phase = "run" THEN "RUN" ELSE "JOIN"

Transmission(type, n, t) == [type |-> type, id |-> n, try |-> t, ok |-> TRUE]

\* What may still arrive once the n-th request is issued.
Recent(n) == {m \in net : n - m.id < Lifetime}

StartRequest ==
    /\ ~ waiting /\ phase # "exit"
    /\ Len(issued) < MaxRequests
    /\ waiting' = TRUE
    /\ try' = 1
    /\ issued' = Append(issued, RequestOf(phase))
    /\ net' = Recent(Len(issued) + 1)
               \cup {Transmission(RequestOf(phase), Len(issued) + 1, 1)}
    /\ UNCHANGED <<phase, ac>>

TryNotCounted ==               \* mutant of Retransmit
    /\ waiting /\ try < MaxRetransmit
    /\ net' = net \cup {Transmission(issued[Len(issued)], Len(issued), try)}
    /\ UNCHANGED <<wtp, ac>>

OneTryTooMany ==               \* mutant of Retransmit
    /\ waiting /\ try <= MaxRetransmit
    /\ try' = try + 1
    /\ net' = net \cup {Transmission(issued[Len(issued)], Len(issued), try + 1)}
    /\ UNCHANGED <<phase, waiting, issued, ac>>

Retransmit ==
    /\ waiting /\ try < MaxRetransmit
    /\ try' = try + 1
    /\ net' = net \cup {Transmission(issued[Len(issued)], Len(issued), try + 1)}
    /\ UNCHANGED <<phase, waiting, issued, ac>>

\* No answer to the last transmission within the retransmit interval.
GiveUp ==
    /\ waiting /\ try = MaxRetransmit
    /\ waiting' = FALSE
    /\ phase' = Failing(phase)
    /\ UNCHANGED <<try, issued, ac, net>>

\* The AC has shut the DTLS session down: with GnuTLS reading fails, now and
\* later; with OpenSSL nothing more is read, and GiveUp ends the request.
PeerClosed ==
    /\ ~ alive
    /\ waiting \/ phase = "run"
    /\ waiting' = FALSE
    /\ phase' = Failing(phase)
    /\ net' = {}
    /\ UNCHANGED <<try, issued, ac>>

\* The states in which the WTP's tables allow a response.
WtpRules == {<<4, "JOIN">>, <<6, "JOIN">>, <<12, "JOIN">>, <<12, "RUN">>,
             <<10, "JOIN">>, <<14, "RUN">>}

WtpReads(m) ==
    /\ ~ IsRequest(m.type)
    /\ waiting \/ phase = "run"

\* An allowed response ends the wait whatever it answers and whatever its
\* result code is: the callbacks return 0.  Outside of cw_send_request the
\* message loop of run() reads it, to no effect.
TakeResponse ==
    \E m \in net :
        /\ WtpReads(m)
        /\ <<m.type, WtpState>> \in WtpRules
        /\ net' = net \ {m}
        /\ waiting' = FALSE
        /\ phase' = IF waiting THEN Succeeding(phase) ELSE phase
        /\ UNCHANGED <<try, issued, ac>>

\* The responses the tables know of and the WTP is the receiver of.
WtpKnown == {4, 6, 10, 12, 14}

\* A response the tables do not allow in this state is answered with an error
\* response: a message of the next, odd, type with the sequence number as is.
\* One they do not know is discarded.
RefuseResponse ==
    \E m \in net :
        /\ WtpReads(m)
        /\ <<m.type, WtpState>> \notin WtpRules
        /\ net' = (net \ {m}) \cup (IF m.type \in WtpKnown
                                    THEN {Send(ReplyTo(m, FALSE), m.try)} ELSE {})
        /\ UNCHANGED <<phase, waiting, try, issued, ac>>

------------------------------------------------------------------------------
(* The AC: process_message, process_elements and the state machine *)

AcceptsNoWindow(s1, s2) == s2 # s1         \* mutant of Accepts

AcceptsEqual(s1, s2) ==                    \* mutant of Accepts
    LET sd == s2 - s1
    IN  (sd >= 0 /\ sd < Half) \/ sd < - Half \/ s1 < 0

Accepts(s1, s2) ==
    LET sd == s2 - s1
    IN  (sd > 0 /\ sd < Half) \/ (sd < 0 /\ sd < - Half) \/ s1 < 0

\* Request, states in which it is allowed, state the session changes to.
AcRules ==
    {<<JoinReq, "JOIN", "JOIN">>, <<ConfigReq, "JOIN", "CONFIGURE">>,
     <<ChangeReq, "CONFIGURE", "DATA_CHECK">>, <<ChangeReq, "RUN", "RUN">>,
     <<EventReq, "RUN", "RUN">>, <<EchoReq, "RUN", "RUN">>}
    \cup (IF Cisco THEN {<<ConfigReq, "RUN", "RUN">>} ELSE {})

\* The jump of the cisco module's state machine, which runs after a message.
Settle(s) == IF Cisco /\ s = "DATA_CHECK" THEN "RUN" ELSE s

\* A new request.  One that is for the WTP is thrown away; one the tables do
\* not know or do not allow in this state gets an error response; any other
\* is served.
AcProcess ==
    \E m \in net :
        LET next == {r[3] : r \in {x \in AcRules : x[1] = m.type /\ x[2] = acState}}
            ok == next # {}
            answered == m.type # UpdateReq
        IN  /\ alive /\ IsRequest(m.type)
            /\ Accepts(last, WireSeq(m.id))
            /\ last' = WireSeq(m.id)
            /\ log' = Append(log, [type |-> m.type, id |-> m.id,
                                   ok |-> ok, answered |-> answered])
            /\ acState' = IF ok THEN Settle(CHOOSE s \in next : TRUE) ELSE acState
            /\ cache' = IF answered THEN ReplyTo(m, ok) ELSE cache
            /\ net' = (net \ {m}) \cup
                        (IF answered THEN {Send(ReplyTo(m, ok), m.try)} ELSE {})
            /\ UNCHANGED <<wtp, alive>>

\* The number of the last request again, and the cached response is one to
\* its type.
AcResend ==
    \E m \in net :
        /\ alive /\ IsRequest(m.type)
        /\ ~ Accepts(last, WireSeq(m.id))
        /\ WireSeq(m.id) = last /\ cache.type - 1 = m.type
        /\ net' = (net \ {m}) \cup {Send(cache, m.try)}
        /\ UNCHANGED <<wtp, ac>>

AcDiscard ==
    \E m \in net :
        /\ alive /\ IsRequest(m.type)
        /\ ~ Accepts(last, WireSeq(m.id))
        /\ WireSeq(m.id) # last \/ cache.type - 1 # m.type
        /\ net' = net \ {m}
        /\ UNCHANGED <<wtp, ac>>

\* A timer of the session's state machine expires, and wtpman_main removes
\* the session.  When that can happen is the subject of module WtpSession.
AcTimeout ==
    /\ alive
    /\ alive' = FALSE
    /\ UNCHANGED <<wtp, acState, last, cache, log, net>>

------------------------------------------------------------------------------
WtpStep == StartRequest \/ Retransmit \/ GiveUp \/ PeerClosed
           \/ TakeResponse \/ RefuseResponse

AcStep == AcProcess \/ AcResend \/ AcDiscard \/ AcTimeout

Next == WtpStep \/ AcStep

Spec == Init /\ [][Next]_vars

\* cw_send_request returns to its timer at least once a second, whatever it
\* reads.  Nothing else is promised: the network may lose everything.
FairSpec == Spec /\ WF_vars(Retransmit) /\ WF_vars(GiveUp)

------------------------------------------------------------------------------
(* Correctness *)

\* "If a retransmission with the same sequence number is received, the cached
\* response MUST be retransmitted without re-processing": eight bits of a
\* request's number are enough for the AC to process every request at most
\* once, and never one that is older than the last.
AtMostOnceInOrder ==
    \A i, j \in DOMAIN log : i < j => log[i].id < log[j].id

\* What the AC processes as a request is a request the WTP composed, although
\* a WTP that refuses a response sends something that looks like one.
NoGhostRequest ==
    \A i \in DOMAIN log :
        log[i].id <= Len(issued) /\ log[i].type = issued[log[i].id]

\* Every response on its way is the one answer to the request it names, no
\* matter how often it was transmitted.
OneAnswer ==
    \A m \in net : ~ IsRequest(m.type) =>
        /\ \E i \in DOMAIN log : log[i].id = m.id
        /\ \A i \in DOMAIN log :
               log[i].id = m.id => log[i].type = m.type - 1 /\ log[i].ok = m.ok

\* A session leaves JOIN only after a Join Request was served, and is not past
\* CONFIGURE before a Configuration Status Request and then a Change State
\* Event Request were, in this order.
Served(type, i) == log[i].type = type /\ log[i].ok

HandshakeOrder ==
    /\ acState # "JOIN" =>
          \E i, j \in DOMAIN log :
              i < j /\ Served(JoinReq, i) /\ Served(ConfigReq, j)
    /\ acState \in {"DATA_CHECK", "RUN"} =>
          \E i, j \in DOMAIN log :
              i < j /\ Served(ConfigReq, i) /\ Served(ChangeReq, j)

\* The WTP never runs ahead of the AC so far that the comparison of sequence
\* numbers goes wrong, although it takes late responses for success and
\* ignores two failures: stopping after a failed echo is what bounds it.
AcKeepsUp ==
    log # <<>> => Len(issued) - log[Len(log)].id < Half

\* cw_send_request returns, whatever the AC and the network do.
RequestEnds == waiting ~> ~ waiting

==============================================================================
