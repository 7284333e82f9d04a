------------------------------ MODULE WtpSession ------------------------------
(***************************************************************************)
(* The thread of one session at the controller: wtpman_main and            *)
(* cw_run_state_machine (src/ac/wtpman.c), driven by the state machine     *)
(* tables of mod_capwap and mod_cisco and by what cw_read_messages says.   *)
(*                                                                         *)
(* Time is in seconds.  The clock may tick once between any two steps of   *)
(* the thread, so a step takes at most one second: conn_q_get_packet waits *)
(* no longer for a packet.                                                 *)
(***************************************************************************)
EXTENDS Integers

CONSTANTS DiscoveryTime,      \* 10 in wtpman_run_discovery
          WaitJoin,           \* CAPWAP_WAIT_JOIN
          ChangeStatePending, \* CAPWAP_TIMER_CHANGE_STATE_PENDING_TIMER
          DataCheck,          \* CAPWAP_TIMER_DATA_CHECK_TIMER
          EchoInterval,       \* CAPWAP_ECHO_INTERVAL
          MaxMessages,        \* bound: messages the WTP sends
          Patience            \* bound: seconds of silence that are counted

\* Steps of the thread, a second each, between an accepted message and the
\* arming of the timer, and between its expiry and the session's removal.
Slack == 7

ASSUME SessionAssumption ==
    /\ {DiscoveryTime, WaitJoin, ChangeStatePending, DataCheck, EchoInterval}
          \subseteq Nat \ {0}
    /\ MaxMessages \in Nat
    /\ Patience \in Nat
    /\ \A t \in {ChangeStatePending, DataCheck, EchoInterval} : Patience > t + Slack

VARIABLES pc,      \* where the thread is
          dtlsmode,\* wtpman->dtlsmode: created by an encrypted packet
          cisco,   \* the session has the tables of the cisco module
          prev,    \* conn->capwap_prevstate
          state,   \* conn->capwap_state
          rc,      \* the result of the last cw_read_messages
          errno,   \* and its reason, where it is negative
          left,    \* seconds until timer, Expired, or Unset
          ticked,  \* the clock has ticked since the thread's last step
          sent,    \* messages of the WTP so far
          quiet    \* history: seconds since the last accepted message

vars == <<pc, dtlsmode, cisco, prev, state, rc, errno, left, ticked, sent, quiet>>

Expired == -1              \* time(NULL) > timer
Unset == -2                \* the local variable before it is first assigned
NoTimer == 0               \* timer_key is NULL

States == {"NONE", "DISCOVERY", "DTLS_SETUP", "JOIN", "CONFIGURE",
           "DATA_CHECK", "RUN", "TIMEOUT"}
TypeOK ==
    /\ pc \in {"start", "discovery", "accept", "machine", "timer", "read",
               "decide", "removed"}
    /\ dtlsmode \in BOOLEAN /\ cisco \in BOOLEAN
    /\ prev \in States /\ state \in States
    /\ rc \in {-1, 0}
    /\ errno \in {"none", "EAGAIN", "ECONNRESET"}
    /\ left \in {Unset, Expired} \cup Nat
    /\ ticked \in BOOLEAN
    /\ sent \in 0 .. MaxMessages
    /\ quiet \in 0 .. Patience

Init ==
    /\ pc = "start" /\ dtlsmode \in BOOLEAN /\ cisco \in BOOLEAN
    /\ prev = "NONE" /\ state = "NONE"
    /\ rc = 0 /\ errno = "none"
    /\ left = Unset /\ ticked = FALSE /\ sent = 0 /\ quiet = 0

------------------------------------------------------------------------------
(* The tables *)

Entry(p, s, timer, retval) ==
    [prev |-> p, state |-> s, timer |-> timer, retval |-> retval]

\* statemachine_states of mod_capwap
BaseMachine ==
    {Entry("DTLS_SETUP", "JOIN", WaitJoin, 1),
     Entry("JOIN", "TIMEOUT", NoTimer, 0),
     Entry("JOIN", "JOIN", NoTimer, 1),
     Entry("JOIN", "CONFIGURE", ChangeStatePending, 1),
     Entry("CONFIGURE", "TIMEOUT", NoTimer, 0),
     Entry("CONFIGURE", "DATA_CHECK", DataCheck, 1),
     Entry("DATA_CHECK", "TIMEOUT", NoTimer, 0),
     Entry("DATA_CHECK", "RUN", EchoInterval, 1),
     Entry("RUN", "RUN", EchoInterval, 1),
     Entry("RUN", "TIMEOUT", NoTimer, 0)}

\* statemachine_states of mod_cisco, which replace those of mod_capwap: the
\* transition jumps to another.
Jumps(p, s) == cisco /\ <<p, s>> = <<"CONFIGURE", "DATA_CHECK">>

\* mavl_get(conn->msgset->statemachine_states, ...)
Lookup(p, s) == {e \in BaseMachine : e.prev = p /\ e.state = s}

\* The requests and the state they are allowed in, with the next one.
Requests ==
    {<<"JOIN", "JOIN">>,                \* Join Request
     <<"JOIN", "CONFIGURE">>,           \* Configuration Status Request
     <<"CONFIGURE", "DATA_CHECK">>,     \* Change State Event Request
     <<"RUN", "RUN">>}                  \* Echo, Change State, WTP Event Request

------------------------------------------------------------------------------
(* Before the state machine *)

Started(where) == pc' = where /\ ticked' = FALSE

RunDiscovery ==
    /\ pc = "start" /\ ~ dtlsmode
    /\ left' = DiscoveryTime
    /\ state' = "DISCOVERY"
    /\ Started("discovery")
    /\ UNCHANGED <<dtlsmode, cisco, prev, rc, errno, sent, quiet>>

\* An accepted Discovery Request ends the loop: its next state is not used,
\* wtpman_run_discovery sets JOIN and remembers the modules in the cache.
Discover ==
    /\ pc = "discovery" /\ left # Expired /\ state = "DISCOVERY"
    /\ sent < MaxMessages
    /\ sent' = sent + 1
    /\ rc' = 0 /\ errno' = "none"
    /\ state' = "JOIN"
    /\ Started("discovery")
    /\ UNCHANGED <<dtlsmode, cisco, prev, left, quiet>>

DiscoverNothing ==
    /\ pc = "discovery" /\ left # Expired /\ state = "DISCOVERY"
    /\ rc' = -1 /\ errno' = "EAGAIN"
    /\ Started("discovery")
    /\ UNCHANGED <<dtlsmode, cisco, prev, state, left, sent, quiet>>

DiscoveryEnds ==
    /\ pc = "discovery"
    /\ left = Expired \/ state # "DISCOVERY"
    /\ Started("removed")
    /\ UNCHANGED <<dtlsmode, cisco, prev, state, rc, errno, left, sent, quiet>>

\* "reject connections to our multi- or broadcast sockets": what is looked at
\* is the type of the first socket, wtpman->socklistindex is never set.
RejectMulti ==
    /\ pc = "start" /\ dtlsmode
    /\ Started("removed")
    /\ UNCHANGED <<dtlsmode, cisco, prev, state, rc, errno, left, sent, quiet>>

DtlsSetup ==
    /\ pc = "start" /\ dtlsmode
    /\ state' = "DTLS_SETUP"
    /\ Started("accept")
    /\ UNCHANGED <<dtlsmode, cisco, prev, rc, errno, left, sent, quiet>>

Accepted ==
    /\ pc = "accept"
    /\ prev' = "DTLS_SETUP" /\ state' = "JOIN"
    /\ rc' = 0 /\ quiet' = 0
    /\ Started("machine")
    /\ UNCHANGED <<dtlsmode, cisco, errno, left, sent>>

AcceptFails ==
    /\ pc = "accept"
    /\ Started("removed")
    /\ UNCHANGED <<dtlsmode, cisco, prev, state, rc, errno, left, sent, quiet>>

------------------------------------------------------------------------------
(* The loop of wtpman_main *)

Jump ==
    /\ pc = "machine" /\ Jumps(prev, state)
    /\ prev' = "DATA_CHECK" /\ state' = "RUN"
    /\ Started("machine")
    /\ UNCHANGED <<dtlsmode, cisco, rc, errno, left, sent, quiet>>

\* cw_run_state_machine, from the entry that is no jump: without an entry it
\* returns 0 like the entries of a timeout, and the session is removed.
RunStateMachine ==
    /\ pc = "machine" /\ ~ Jumps(prev, state)
    /\ LET entries == Lookup(prev, state)
       IN  /\ left' = IF \E e \in entries : e.timer # NoTimer
                      THEN (CHOOSE e \in entries : TRUE).timer
                      ELSE left
           /\ Started(IF \E e \in entries : e.retval = 1 THEN "timer"
                      ELSE "removed")
    /\ UNCHANGED <<dtlsmode, cisco, prev, state, rc, errno, sent, quiet>>

CheckTimer ==
    /\ pc = "timer"
    /\ Started(IF left = Expired THEN "decide" ELSE "read")
    /\ UNCHANGED <<dtlsmode, cisco, prev, state, rc, errno, left, sent, quiet>>

ReadNothingBreaks ==           \* mutant of ReadNothing
    /\ pc = "read"
    /\ rc' = -1 /\ errno' = "EAGAIN"
    /\ Started("decide")
    /\ UNCHANGED <<dtlsmode, cisco, prev, state, left, sent, quiet>>

ReadNothingKeepsRc ==          \* mutant of ReadNothing
    /\ pc = "read"
    /\ Started("timer")
    /\ UNCHANGED <<dtlsmode, cisco, prev, state, rc, errno, left, sent, quiet>>

\* Nothing came within the second, or what came was a fragment, a
\* retransmission, not for the controller or refused in this state.
ReadNothing ==
    /\ pc = "read"
    /\ rc' = -1 /\ errno' = "EAGAIN"
    /\ Started("timer")
    /\ UNCHANGED <<dtlsmode, cisco, prev, state, left, sent, quiet>>

ReadRequest ==
    /\ pc = "read"
    /\ sent < MaxMessages
    /\ \E r \in Requests :
          /\ r[1] = state
          /\ prev' = state /\ state' = r[2]
    /\ sent' = sent + 1 /\ quiet' = 0
    /\ rc' = 0 /\ errno' = "none"
    /\ Started("decide")
    /\ UNCHANGED <<dtlsmode, cisco, left>>

\* A Configuration Update Response has no next state.
ReadResponse ==
    /\ pc = "read" /\ state = "RUN"
    /\ sent < MaxMessages
    /\ sent' = sent + 1 /\ quiet' = 0
    /\ rc' = 0 /\ errno' = "none"
    /\ Started("decide")
    /\ UNCHANGED <<dtlsmode, cisco, prev, state, left>>

ReadFails ==
    /\ pc = "read"
    /\ rc' = -1 /\ errno' = "ECONNRESET"
    /\ Started("decide")
    /\ UNCHANGED <<dtlsmode, cisco, prev, state, left, sent, quiet>>

DecideKeepsPrev ==             \* mutant of Decide
    /\ pc = "decide"
    /\ state' = IF rc < 0 THEN "TIMEOUT" ELSE state
    /\ Started("machine")
    /\ UNCHANGED <<dtlsmode, cisco, prev, rc, errno, left, sent, quiet>>

\* rc is that of the last read: a timer that has expired before the first
\* read since a message finds it 0.
Decide ==
    /\ pc = "decide"
    /\ prev' = IF rc < 0 THEN state ELSE prev
    /\ state' = IF rc < 0 THEN "TIMEOUT" ELSE state
    /\ Started("machine")
    /\ UNCHANGED <<dtlsmode, cisco, rc, errno, left, sent, quiet>>

------------------------------------------------------------------------------
TickPastZero ==                \* mutant of Tick
    /\ pc # "removed" /\ ~ ticked
    /\ ticked' = TRUE
    /\ left' = left - 1
    /\ quiet' = IF quiet < Patience THEN quiet + 1 ELSE quiet
    /\ UNCHANGED <<pc, dtlsmode, cisco, prev, state, rc, errno, sent>>

Tick ==
    /\ pc # "removed" /\ ~ ticked
    /\ ticked' = TRUE
    /\ left' = IF left \in {Unset, Expired} THEN left ELSE left - 1
    /\ quiet' = IF quiet < Patience THEN quiet + 1 ELSE quiet
    /\ UNCHANGED <<pc, dtlsmode, cisco, prev, state, rc, errno, sent>>

Loop == Jump \/ RunStateMachine \/ CheckTimer \/ Decide
        \/ ReadNothing \/ ReadRequest \/ ReadResponse \/ ReadFails

Thread == RunDiscovery \/ Discover \/ DiscoverNothing \/ DiscoveryEnds
          \/ RejectMulti \/ DtlsSetup \/ Accepted \/ AcceptFails \/ Loop

Next == Thread \/ Tick

Spec == Init /\ [][Next]_vars

\* The thread runs, and time passes.
FairSpec == Spec /\ WF_vars(Thread) /\ WF_vars(Tick)

------------------------------------------------------------------------------
(* Correctness *)

\* "State not found" is never the reason a session ends: whatever messages,
\* timeouts and jumps led to it, the tables have an entry for the transition.
StateFound ==
    pc = "machine" => Jumps(prev, state) \/ Lookup(prev, state) # {}

\* wtpman_main never compares the clock with a timer nobody has started.
TimerArmed == pc \in {"timer", "read", "decide"} => left # Unset

PastJoin == state \in {"CONFIGURE", "DATA_CHECK", "RUN"}

Limit(s) == CASE s = "CONFIGURE" -> ChangeStatePending
              [] s = "DATA_CHECK" -> DataCheck
              [] OTHER -> EchoInterval

\* The controller does not time a WTP out from which it accepted a message
\* within the time it promised to wait for the next.
NoEarlyTimeout ==
    pc = "decide" /\ PastJoin /\ rc < 0 /\ errno = "EAGAIN"
        => quiet > Limit(state)

\* Nor does it keep a session longer than that when the WTP has gone silent,
\* but for the seconds its last steps take.
SilenceBounded ==
    LET s == IF state = "TIMEOUT" THEN prev ELSE state
    IN  pc # "removed" /\ s \in {"CONFIGURE", "DATA_CHECK", "RUN"}
            => quiet <= Limit(s) + Slack

\* Once the WTP has stopped sending, a session past JOIN is removed.
PastJoinEnds == PastJoin ~> pc = "removed"

------------------------------------------------------------------------------
(* Statement of the RFC and of the table, which the code contradicts *)

\* "This transition occurs either if the WaitJoin timer expires", "WTP Join
\* timeout": a session whose WTP does not go on is removed.
SessionEnds == <>(pc = "removed")
==============================================================================
