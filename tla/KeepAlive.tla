------------------------------ MODULE KeepAlive ------------------------------
(***************************************************************************)
(* A session in RUN, at both ends: run (src/wtp/run.c) sends an Echo       *)
(* Request when its timer expires, wtpman_main (src/ac/wtpman.c) removes   *)
(* the session when nothing has been accepted for the time of its own.     *)
(* Each interval is a configuration value of its end, 30 by default.       *)
(*                                                                         *)
(* The clocks run equally fast and count whole seconds; one ticks at some  *)
(* moment between two ticks of the other.  A thread does nothing but wait  *)
(* in a read that returns with a packet or after a second, so its clock    *)
(* ticks at most once from one step to the next.  With OpenSSL, which is   *)
(* what is built, a session that was shut down reads like a silent one.    *)
(*                                                                         *)
(* Of a sequence number one bit is left: ControlChannel shows that the     *)
(* controller tells a new request from a repeated one.                     *)
(***************************************************************************)
EXTENDS Integers

CONSTANTS WtpEcho,        \* capwap-timers/echo-interval of the WTP
          AcEcho,         \* capwap-timers/echo-interval of the controller
          Retransmit,     \* conn->retransmit_interval (3)
          MaxRetransmit,  \* conn->max_retransmit (5)
          MaxDelay,       \* assumption: ticks a packet is on its way, at most
          MaxLosses       \* assumption: packets lost from one request the
                          \* controller accepts to the next, at most

\* From one transmission to the next.
Try == Retransmit + 1

\* No packet of one exchange is left when the next begins, and of the
\* transmissions of a request those that are not lost, nor their answers, have
\* the time to be answered.
ASSUME KeepAliveAssumption ==
    /\ {WtpEcho, AcEcho, Retransmit, MaxRetransmit} \subseteq Nat \ {0}
    /\ {MaxDelay, MaxLosses} \subseteq Nat
    /\ 2 * MaxLosses < MaxRetransmit
    /\ 2 * MaxDelay + 1 < (MaxRetransmit - 2 * MaxLosses) * Try
    /\ 2 * MaxDelay + 1 < WtpEcho

VARIABLES
    pc,       \* WTP: listening, waiting for an answer, ended (it has given
              \* the controller up) or stopped (crashed, switched off)
    left,     \* WTP: seconds left on its timer, Expired below 0
    try,      \* WTP: transmissions of its request
    bit,      \* WTP: sequence number of its last request
    ac,       \* controller: the session runs, timed out or has crashed
    acLeft,   \* controller: seconds left on the timer of the session
    last,     \* controller: sequence number of the last accepted request
    net,      \* packets on their way
    lost,     \* packets lost since the last accepted request
    turn,     \* whose clock ticks next
    ticked,   \* whose clocks have ticked since their last step
    gone      \* seconds on the clock of one end since the other is gone

wtp == <<pc, left, try, bit>>
controller == <<ac, acLeft, last>>
vars == <<pc, left, try, bit, ac, acLeft, last, net, lost, turn, ticked, gone>>

WtpRuns == pc \in {"listen", "wait"}
AcRuns == ac = "run"

\* cw_timer_timeout
Expired(timer) == timer < 0

\* A transmission, or its answer.
Packet(to, b, n) == [to |-> to, bit |-> b, try |-> n, age |-> 0]

------------------------------------------------------------------------------
(* The WTP *)

EchoTimerLong == WtpEcho                    \* mutant of EchoTimer
EchoTimer == WtpEcho - 1

\* cw_send_msg and the timer cw_send_request starts.
Transmit(b, n) ==
    /\ net' = net \cup {Packet("AC", b, n)}
    /\ left' = Retransmit

WtpStepped == ticked' = [ticked EXCEPT !.wtp = FALSE]

\* A read that returns nothing while the timer runs.
WtpReadsNothing ==
    /\ WtpRuns /\ ~ Expired(left)
    /\ WtpStepped
    /\ UNCHANGED <<wtp, controller, net, lost, turn, gone>>

\* rc < 0 && errno == EAGAIN when the loop of run ends.
SendEchoRarely ==                           \* mutant of SendEcho
    /\ pc = "listen" /\ Expired(left)
    /\ left' = EchoTimer
    /\ WtpStepped
    /\ UNCHANGED <<pc, try, bit, net, controller, lost, turn, gone>>

SendEcho ==
    /\ pc = "listen" /\ Expired(left)
    /\ pc' = "wait" /\ try' = 1 /\ bit' = 1 - bit
    /\ Transmit(bit', 1)
    /\ WtpStepped
    /\ UNCHANGED <<controller, lost, turn, gone>>

OneTryMore ==                               \* mutant of SendAgain
    /\ pc = "wait" /\ Expired(left) /\ try <= MaxRetransmit
    /\ try' = try + 1
    /\ Transmit(bit, try')
    /\ WtpStepped
    /\ UNCHANGED <<pc, bit, controller, lost, turn, gone>>

SendAgain ==
    /\ pc = "wait" /\ Expired(left) /\ try < MaxRetransmit
    /\ try' = try + 1
    /\ Transmit(bit, try')
    /\ WtpStepped
    /\ UNCHANGED <<pc, bit, controller, lost, turn, gone>>

\* run breaks out of its loop, and main ends.
WtpGivesUp ==
    /\ pc = "wait" /\ Expired(left) /\ try = MaxRetransmit
    /\ pc' = "ended"
    /\ WtpStepped
    /\ UNCHANGED <<left, try, bit, controller, net, lost, turn, gone>>

\* Any answer ends cw_send_request; run starts its timer again.
TakeAnswer ==
    \E p \in net :
        /\ pc = "wait" /\ p.to = "WTP"
        /\ pc' = "listen" /\ left' = EchoTimer
        /\ net' = net \ {p}
        /\ WtpStepped
        /\ UNCHANGED <<try, bit, controller, lost, turn, gone>>

\* The second copy of an answer is read by run itself.  If the timer expires
\* at that, rc is not negative and run goes round its loop without an echo:
\* KeepAliveAssumption says that no answer is that late.
TakeSecondAnswer ==
    \E p \in net :
        /\ pc = "listen" /\ p.to = "WTP"
        /\ left' = IF Expired(left) THEN EchoTimer ELSE left
        /\ net' = net \ {p}
        /\ WtpStepped
        /\ UNCHANGED <<pc, try, bit, controller, lost, turn, gone>>

WtpStops ==
    /\ WtpRuns
    /\ pc' = "stopped"
    /\ UNCHANGED <<left, try, bit, controller, net, lost, turn, ticked, gone>>

------------------------------------------------------------------------------
(* The session at the controller *)

AcStepped == ticked' = [ticked EXCEPT !.ac = FALSE]

\* The loop over cw_read_messages goes on after a read that returns nothing,
\* or ends: the last result is negative then, and the session timed out.
ReadOn == ac' = IF Expired(acLeft) THEN "timedout" ELSE ac

AcReadsNothing ==
    /\ AcRuns
    /\ ReadOn
    /\ AcStepped
    /\ UNCHANGED <<wtp, acLeft, last, net, lost, turn, gone>>

\* An accepted request ends the loop, and [RUN -> RUN] starts the timer.
AcAnswers ==
    \E p \in net :
        /\ AcRuns /\ p.to = "AC" /\ p.bit # last
        /\ last' = p.bit /\ acLeft' = AcEcho /\ lost' = 0
        /\ net' = (net \ {p}) \cup {Packet("WTP", p.bit, p.try)}
        /\ AcStepped
        /\ UNCHANGED <<wtp, ac, turn, gone>>

\* A repeated one gets the cached response, and counts as a read of nothing.
AcAnswersAgain ==
    \E p \in net :
        /\ AcRuns /\ p.to = "AC" /\ p.bit = last
        /\ net' = (net \ {p}) \cup {Packet("WTP", p.bit, p.try)}
        /\ ReadOn
        /\ AcStepped
        /\ UNCHANGED <<wtp, acLeft, last, lost, turn, gone>>

\* Another session, or a handler that calls stop().
AcCrashes ==
    /\ AcRuns
    /\ ac' = "crashed"
    /\ UNCHANGED <<wtp, acLeft, last, net, lost, turn, ticked, gone>>

------------------------------------------------------------------------------
(* The network and the clocks *)

Reads(p) == IF p.to = "WTP" THEN WtpRuns ELSE AcRuns

Lose ==
    \E p \in net :
        /\ lost < MaxLosses \/ ~ Reads(p)
        /\ net' = net \ {p}
        /\ lost' = IF Reads(p) THEN lost + 1 ELSE lost
        /\ UNCHANGED <<wtp, controller, turn, ticked, gone>>

\* When the WTP must have noticed that the controller is gone: an interval
\* without an answer, and an echo that gets none; and the other way round.
WtpPatience == WtpEcho + MaxRetransmit * Try + MaxDelay
AcPatience == AcEcho + MaxDelay + 2

\* Bound: the seconds that are counted.
Cap == IF WtpPatience > AcPatience THEN WtpPatience + 1 ELSE AcPatience + 1
Count == gone' = IF gone < Cap THEN gone + 1 ELSE gone

Older(p) == [p EXCEPT !.age = @ + 1]

WtpTick ==
    /\ turn = "wtp"
    /\ WtpRuns => ~ ticked.wtp
    /\ \A p \in net : p.age < MaxDelay
    /\ net' = {Older(p) : p \in net}
    /\ left' = IF Expired(left) THEN left ELSE left - 1
    /\ ticked' = [ticked EXCEPT !.wtp = TRUE]
    /\ turn' = "ac"
    /\ IF AcRuns THEN UNCHANGED gone ELSE Count
    /\ UNCHANGED <<pc, try, bit, controller, lost>>

AcTick ==
    /\ turn = "ac"
    /\ AcRuns => ~ ticked.ac
    /\ acLeft' = IF Expired(acLeft) THEN acLeft ELSE acLeft - 1
    /\ ticked' = [ticked EXCEPT !.ac = TRUE]
    /\ turn' = "wtp"
    /\ IF AcRuns /\ ~ WtpRuns THEN Count ELSE UNCHANGED gone
    /\ UNCHANGED <<wtp, ac, last, net, lost>>

------------------------------------------------------------------------------
\* From the acceptance of a request to the first answer that arrives, when n
\* answers or repetitions of the request are lost on the way: ticks of the WTP.
AnswerTakes(n) == n * Try + (IF n = 0 THEN MaxDelay ELSE 2 * MaxDelay)

\* run begins: the controller has accepted the Change State Event Request, from
\* which the tables of cisco jump to RUN, and its answer has taken its time.
Init ==
    /\ pc = "listen" /\ left = EchoTimer /\ try = 1 /\ bit = 0
    /\ ac = "run" /\ last = 0
    /\ lost \in 0 .. MaxLosses
    /\ turn \in {"wtp", "ac"}
    /\ \E ticks \in 0 .. AnswerTakes(lost) :
           acLeft \in AcEcho - ticks - (IF turn = "wtp" THEN 1 ELSE 0) .. AcEcho
    /\ acLeft >= 0
    /\ net = {}
    /\ ticked = [wtp |-> FALSE, ac |-> FALSE]
    /\ gone = 0

Next ==
    \/ WtpReadsNothing \/ SendEcho \/ SendAgain \/ WtpGivesUp
    \/ TakeAnswer \/ TakeSecondAnswer \/ WtpStops
    \/ AcReadsNothing \/ AcAnswers \/ AcAnswersAgain \/ AcCrashes
    \/ Lose \/ WtpTick \/ AcTick

Spec == Init /\ [][Next]_vars

------------------------------------------------------------------------------
(* Correctness *)

Packets == [to : {"WTP", "AC"}, bit : {0, 1},
            try : 1 .. MaxRetransmit, age : 0 .. MaxDelay]

\* Type correctness of both ends and of the packets between them.
TypeOK ==
    /\ pc \in {"listen", "wait", "ended", "stopped"}
    /\ left \in Int /\ left >= -1
    /\ try \in 1 .. MaxRetransmit
    /\ bit \in {0, 1} /\ last \in {0, 1}
    /\ ac \in {"run", "timedout", "crashed"}
    /\ acLeft \in Int /\ acLeft >= -1
    /\ net \subseteq Packets
    /\ lost \in 0 .. MaxLosses
    /\ turn \in {"wtp", "ac"}
    /\ ticked \in [wtp : BOOLEAN, ac : BOOLEAN]
    /\ gone \in 0 .. Cap

\* What the interval of the controller must be longer by: the answer to one
\* request and the way of the next may each be late, and the lost packets are
\* found missing one after the other.  The default of both intervals is 30.
Enough == AcEcho >= WtpEcho + 3 * MaxDelay + 1 + MaxLosses * Try

\* Then neither end gives the other up while it is there: a session ends only
\* with one of the two programs, whatever is lost or late.
SessionSurvives ==
    Enough => /\ ac = "timedout" => pc = "stopped"
              /\ pc = "ended" => ac = "crashed"

\* And if one is gone the other notices in time, although nobody tells it: the
\* WTP by an echo without an answer, the controller by its timer.
EndNoticed ==
    /\ WtpRuns /\ ~ AcRuns => gone <= WtpPatience
    /\ AcRuns /\ ~ WtpRuns => gone <= AcPatience
==============================================================================
