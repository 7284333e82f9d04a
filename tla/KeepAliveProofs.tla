--------------------------- MODULE KeepAliveProofs ---------------------------
(***************************************************************************)
(* Proofs about KeepAlive.                                                 *)
(*                                                                         *)
(* EndInv bounds the seconds that one end has been alone by what is left   *)
(* on its timer and the transmissions it has made.  StayInv says, for what *)
(* is in flight and what the controller has accepted, how much must be     *)
(* left on the timer of the controller until the next request is: the      *)
(* delays to come and a repetition for every packet that may still be      *)
(* lost.  Repetitions overtake answers, so any number of packets of a      *)
(* request can be under way.  Each belongs to a transmission of its own;   *)
(* the transmissions that have none are those that were lost (Missing),    *)
(* which bounds how old a request can be (InTime).                         *)
(***************************************************************************)
EXTENDS KeepAlive, FiniteSetTheorems, TLAPS

\* Multiplication, which the provers do not do by themselves.
LEMMA TimesMinus ==
    \A a, b, c \in Nat : (a - b) * c = a * c - b * c /\ (a - (b + 1)) * c + c = (a - b) * c
OBVIOUS

\* The same: a product of numbers is a number.
LEMMA TimesNat == \A a, b \in Nat : a * b \in Nat
OBVIOUS

\* What KeepAliveAssumption says of the constants, one by one.
LEMMA Consts ==
    /\ WtpEcho \in Nat /\ WtpEcho >= 1
    /\ AcEcho \in Nat /\ AcEcho >= 1
    /\ Retransmit \in Nat /\ Retransmit >= 1
    /\ MaxRetransmit \in Nat /\ MaxRetransmit >= 1
    /\ MaxDelay \in Nat
    /\ MaxLosses \in Nat
    /\ 2 * MaxLosses < MaxRetransmit
    /\ Try \in Nat /\ Try = Retransmit + 1
    /\ EchoTimer \in Nat /\ EchoTimer = WtpEcho - 1
    /\ Cap \in Nat
<1>1. /\ WtpEcho \in Nat /\ WtpEcho >= 1
      /\ AcEcho \in Nat /\ AcEcho >= 1
      /\ Retransmit \in Nat /\ Retransmit >= 1
      /\ MaxRetransmit \in Nat /\ MaxRetransmit >= 1
      /\ MaxDelay \in Nat /\ MaxLosses \in Nat
      /\ 2 * MaxLosses < MaxRetransmit
  BY KeepAliveAssumption
<1>2. Try \in Nat /\ Try = Retransmit + 1
  BY <1>1 DEF Try
<1>3. MaxRetransmit * Try \in Nat
  BY <1>1, <1>2, TimesNat
<1>4. WtpPatience \in Nat /\ AcPatience \in Nat
  BY <1>1, <1>3 DEF WtpPatience, AcPatience
<1>5. Cap \in Nat
  BY <1>4 DEF Cap
<1> QED
  BY <1>1, <1>2, <1>5 DEF EchoTimer

------------------------------------------------------------------------------
(* Types *)

\* The seconds counted stay below their bound.
LEMMA CountType ==
    ASSUME gone \in 0 .. Cap, Count PROVE gone' \in 0 .. Cap
BY Consts DEF Count

\* A packet that is sent is one.
LEMMA PacketType ==
    ASSUME NEW to \in {"WTP", "AC"}, NEW b \in {0, 1}, NEW n \in 1 .. MaxRetransmit
    PROVE  Packet(to, b, n) \in Packets
<1>1. 0 \in 0 .. MaxDelay
  BY Consts
<1> QED
  BY <1>1, Zenon DEF Packet, Packets

\* A packet that has waited a second is one, and only older.
LEMMA OlderType ==
    ASSUME NEW p \in Packets, p.age < MaxDelay
    PROVE  /\ Older(p) \in Packets
           /\ Older(p).to = p.to /\ Older(p).bit = p.bit
           /\ Older(p).try = p.try /\ Older(p).age = p.age + 1
<1>1. p.age \in 0 .. MaxDelay
  BY DEF Packets
<1>2. p.age + 1 \in 0 .. MaxDelay
  BY <1>1, Consts
<1>3. p = [to |-> p.to, bit |-> p.bit, try |-> p.try, age |-> p.age]
  BY DEF Packets
<1>4. Older(p) = [to |-> p.to, bit |-> p.bit, try |-> p.try, age |-> p.age + 1]
  BY <1>3 DEF Older, Packets
<1> QED
  BY <1>2, <1>4 DEF Packets

\* The record of the clocks that have ticked keeps its fields.
LEMMA SteppedType ==
    ASSUME ticked \in [wtp : BOOLEAN, ac : BOOLEAN]
    PROVE  /\ WtpStepped => ticked' \in [wtp : BOOLEAN, ac : BOOLEAN]
           /\ AcStepped => ticked' \in [wtp : BOOLEAN, ac : BOOLEAN]
BY DEF WtpStepped, AcStepped

\* The first state has its types.
LEMMA TypeInit == Init => TypeOK
BY Consts DEF Init, TypeOK

\* Every step keeps the types.
LEMMA TypeStep == TypeOK /\ [Next]_vars => TypeOK'
<1> SUFFICES ASSUME TypeOK, [Next]_vars PROVE TypeOK'
  OBVIOUS
<1> USE Consts
<1>0. net \subseteq Packets
  BY DEF TypeOK
<1>s. /\ WtpStepped => ticked' \in [wtp : BOOLEAN, ac : BOOLEAN]
      /\ AcStepped => ticked' \in [wtp : BOOLEAN, ac : BOOLEAN]
  BY SteppedType DEF TypeOK
<1>1. CASE WtpReadsNothing
  BY <1>s, <1>1 DEF TypeOK, WtpReadsNothing, wtp, controller
<1>2. CASE SendEcho
  <2>1. bit' \in {0, 1} /\ 1 \in 1 .. MaxRetransmit
    BY <1>2 DEF TypeOK, SendEcho
  <2>3. Packet("AC", bit', 1) \in Packets
    BY <2>1, PacketType
  <2>2. net' \subseteq Packets
    BY <1>2, <2>3, <1>0 DEF SendEcho, Transmit
  <2> QED
    BY <1>s, <1>2, <2>1, <2>2 DEF TypeOK, SendEcho, Transmit, controller
<1>3. CASE SendAgain
  <2>1. bit \in {0, 1} /\ try' \in 1 .. MaxRetransmit
    BY <1>3 DEF TypeOK, SendAgain
  <2>3. Packet("AC", bit, try') \in Packets
    BY <2>1, PacketType
  <2>2. net' \subseteq Packets
    BY <1>3, <2>3, <1>0 DEF SendAgain, Transmit
  <2> QED
    BY <1>s, <1>3, <2>1, <2>2 DEF TypeOK, SendAgain, Transmit, controller
<1>4. CASE WtpGivesUp
  BY <1>s, <1>4 DEF TypeOK, WtpGivesUp, controller
<1>5. CASE TakeAnswer
  <2>1. net' \subseteq Packets
    BY <1>5, <1>0 DEF TakeAnswer
  <2>2. pc' = "listen" /\ left' \in Int /\ left' >= -1
    BY <1>5 DEF TakeAnswer
  <2> QED
    BY <1>s, <1>5, <2>1, <2>2 DEF TypeOK, TakeAnswer, controller
<1>6. CASE TakeSecondAnswer
  <2>1. net' \subseteq Packets
    BY <1>6, <1>0 DEF TakeSecondAnswer
  <2>2. left' \in Int /\ left' >= -1
    BY <1>6 DEF TypeOK, TakeSecondAnswer
  <2> QED
    BY <1>s, <1>6, <2>1, <2>2 DEF TypeOK, TakeSecondAnswer, controller
<1>7. CASE WtpStops
  BY <1>7 DEF TypeOK, WtpStops, controller
<1>8. CASE AcReadsNothing
  BY <1>s, <1>8 DEF TypeOK, AcReadsNothing, ReadOn, wtp
<1>9. CASE AcAnswers
  <2>1. PICK p \in net :
            /\ last' = p.bit /\ acLeft' = AcEcho /\ lost' = 0
            /\ net' = (net \ {p}) \cup {Packet("WTP", p.bit, p.try)}
            /\ AcStepped
            /\ UNCHANGED <<wtp, ac, turn, gone>>
    BY <1>9 DEF AcAnswers
  <2>2. p.bit \in {0, 1} /\ p.try \in 1 .. MaxRetransmit
    BY <1>0 DEF Packets
  <2>4. Packet("WTP", p.bit, p.try) \in Packets
    BY <2>2, PacketType
  <2>3. net' \subseteq Packets
    BY <2>1, <2>4, <1>0
  <2> QED
    BY <1>s, <2>1, <2>2, <2>3 DEF TypeOK, wtp
<1>10. CASE AcAnswersAgain
  <2>1. PICK p \in net :
            /\ net' = (net \ {p}) \cup {Packet("WTP", p.bit, p.try)}
            /\ ReadOn
            /\ AcStepped
            /\ UNCHANGED <<wtp, acLeft, last, lost, turn, gone>>
    BY <1>10 DEF AcAnswersAgain
  <2>2. p.bit \in {0, 1} /\ p.try \in 1 .. MaxRetransmit
    BY <1>0 DEF Packets
  <2>4. Packet("WTP", p.bit, p.try) \in Packets
    BY <2>2, PacketType
  <2>3. net' \subseteq Packets
    BY <2>1, <2>4, <1>0
  <2> QED
    BY <1>s, <2>1, <2>3 DEF TypeOK, ReadOn, wtp
<1>11. CASE AcCrashes
  BY <1>11 DEF TypeOK, AcCrashes, wtp
<1>12. CASE Lose
  BY <1>12 DEF TypeOK, Lose, wtp, controller
<1>13. CASE WtpTick
  <2>1. \A p \in net : Older(p) \in Packets
    BY <1>13, <1>0, OlderType DEF WtpTick
  <2>2. net' \subseteq Packets
    BY <1>13, <2>1 DEF WtpTick
  <2>3. gone' \in 0 .. Cap
    BY <1>13, CountType DEF TypeOK, WtpTick
  <2>4. left' \in Int /\ left' >= -1
    BY <1>13 DEF TypeOK, WtpTick, Expired
  <2> QED
    BY <1>13, <2>2, <2>3, <2>4 DEF TypeOK, WtpTick, controller
<1>14. CASE AcTick
  <2>1. gone' \in 0 .. Cap
    BY <1>14, CountType DEF TypeOK, AcTick
  <2>2. acLeft' \in Int /\ acLeft' >= -1
    BY <1>14 DEF TypeOK, AcTick, Expired
  <2> QED
    BY <1>14, <2>1, <2>2 DEF TypeOK, AcTick, wtp
<1>15. CASE UNCHANGED vars
  BY <1>15 DEF TypeOK, vars
<1> QED
  BY <1>1, <1>2, <1>3, <1>4, <1>5, <1>6, <1>7, <1>8, <1>9, <1>10, <1>11,
     <1>12, <1>13, <1>14, <1>15 DEF Next

\* TypeOK: both ends and the packets between them keep their types for every
\* choice of the intervals, delays and losses.
THEOREM TypeCorrect == Spec => []TypeOK
BY TypeInit, TypeStep, PTL DEF Spec

------------------------------------------------------------------------------
(* The end of one is noticed *)

Behind == IF turn = "wtp" THEN 1 ELSE 0

\* A timer that expired was looked at since the clock last ticked.
TimersSeen ==
    /\ WtpRuns /\ Expired(left) => ticked.wtp
    /\ AcRuns /\ Expired(acLeft) => ticked.ac
    /\ pc = "listen" => left <= EchoTimer
    /\ pc = "wait" => left <= Retransmit
    /\ acLeft <= AcEcho
    /\ WtpRuns /\ AcRuns => gone = 0

\* The WTP alone: what is on its way was sent before, and every transmission
\* has had its time.
WtpAlone ==
    WtpRuns /\ ~ AcRuns =>
        /\ \A p \in net : p.to = "WTP" => gone <= p.age
        /\ pc = "listen" => gone + left < MaxDelay + WtpEcho
        /\ pc = "wait" => gone + left < MaxDelay + WtpEcho + try * Try

\* The controller alone: the clocks may differ by one.
AcAlone ==
    AcRuns /\ ~ WtpRuns =>
        /\ \A p \in net : p.to = "AC" => gone <= p.age + Behind
        /\ gone + acLeft <= AcEcho + MaxDelay + 1

EndInv == TypeOK /\ TimersSeen /\ WtpAlone /\ AcAlone

\* The transmissions of a request, one more at a time.
LEMMA Trys ==
    ASSUME TypeOK
    PROVE  /\ try * Try \in Nat /\ Try <= try * Try
           /\ (try + 1) * Try = try * Try + Try
           /\ 1 * Try = Try
<1>1. try \in Nat /\ try >= 1 /\ Try \in Nat
  BY Consts DEF TypeOK
<1>2. try * Try \in Nat
  BY <1>1, TimesNat
<1>3. (try + 1) * Try = try * Try + Try /\ 1 * Try = Try
  BY <1>1
<1>4. (try - 1) * Try \in Nat
  <2>1. try - 1 \in Nat
    BY <1>1
  <2> QED
    BY <2>1, <1>1, TimesNat
<1>5. (try - 1) * Try = try * Try - Try
  BY <1>1
<1> QED
  BY <1>1, <1>2, <1>3, <1>4, <1>5

\* While one clock goes on a second is taken from the timer and one is counted.
LEMMA SumKept ==
    \A l1, l2, g1, g2 \in Int : l2 = l1 - 1 /\ g2 <= g1 + 1 => g2 + l2 <= g1 + l1
OBVIOUS

\* The bound on the seconds alone holds at first.
LEMMA EndInit == Init => EndInv
<1> SUFFICES ASSUME Init PROVE EndInv
  OBVIOUS
<1>1. TypeOK
  BY TypeInit
<1> QED
  BY <1>1, Consts DEF Init, EndInv, TypeOK, TimersSeen, WtpAlone, AcAlone, WtpRuns, AcRuns, Expired

\* Every step keeps the bound on the seconds alone.
LEMMA EndStep == EndInv /\ [Next]_vars => EndInv'
<1> SUFFICES ASSUME EndInv, [Next]_vars PROVE EndInv'
  OBVIOUS
<1> USE Consts
<1>t. TypeOK /\ TypeOK'
  BY TypeStep DEF EndInv
<1>i. TimersSeen /\ WtpAlone /\ AcAlone
  BY DEF EndInv
<1>v. /\ left \in Int /\ left >= -1 /\ left' \in Int
      /\ acLeft \in Int /\ acLeft >= -1 /\ acLeft' \in Int
      /\ gone \in Nat /\ gone' \in Nat
      /\ \A p \in net : p.age \in 0 .. MaxDelay
      /\ turn \in {"wtp", "ac"}
      /\ ticked.wtp \in BOOLEAN /\ ticked.ac \in BOOLEAN
  BY <1>t DEF TypeOK, Packets
<1>m. /\ try * Try \in Nat /\ Try <= try * Try
      /\ (try + 1) * Try = try * Try + Try
      /\ 1 * Try = Try
  BY <1>t, Trys
<1> SUFFICES TimersSeen' /\ WtpAlone' /\ AcAlone'
  BY <1>t DEF EndInv
<1> USE DEF WtpRuns, AcRuns, Expired
<1>1. CASE WtpReadsNothing
  <2>1. /\ ticked'.ac = ticked.ac
        /\ ~ Expired(left) /\ WtpRuns
        /\ UNCHANGED <<pc, left, try, bit, ac, acLeft, last, net, lost, turn, gone>>
    BY <1>1, <1>t DEF WtpReadsNothing, WtpStepped, TypeOK, wtp, controller
  <2> QED
    BY <2>1, <1>i, <1>v DEF TimersSeen, WtpAlone, AcAlone, Behind
<1>2. CASE SendEcho
  <2>1. /\ ticked'.ac = ticked.ac
        /\ pc = "listen" /\ pc' = "wait" /\ left < 0 /\ left' = Retransmit /\ try' = 1
        /\ net' = net \cup {Packet("AC", bit', 1)}
        /\ UNCHANGED <<ac, acLeft, turn, gone>>
    BY <1>2, <1>t DEF SendEcho, Transmit, WtpStepped, TypeOK, controller
  <2>2. \A p \in net' : p.to = "WTP" => p \in net
    BY <2>1 DEF Packet
  <2> QED
    BY <2>1, <2>2, <1>i, <1>v, <1>m DEF TimersSeen, WtpAlone, AcAlone
<1>3. CASE SendAgain
  <2>1. /\ ticked'.ac = ticked.ac
        /\ pc = "wait" /\ pc' = "wait" /\ left < 0 /\ left' = Retransmit /\ try' = try + 1
        /\ net' = net \cup {Packet("AC", bit, try')}
        /\ UNCHANGED <<ac, acLeft, turn, gone>>
    BY <1>3, <1>t DEF SendAgain, Transmit, WtpStepped, TypeOK, controller
  <2>2. \A p \in net' : p.to = "WTP" => p \in net
    BY <2>1 DEF Packet
  <2>3. try' * Try = try * Try + Try
    BY <2>1, <1>m
  <2> QED
    BY <2>1, <2>2, <2>3, <1>i, <1>v, <1>m DEF TimersSeen, WtpAlone, AcAlone
<1>4. CASE WtpGivesUp
  <2>1. /\ ticked'.ac = ticked.ac
        /\ pc = "wait" /\ pc' = "ended"
        /\ UNCHANGED <<left, try, ac, acLeft, net, turn, gone>>
    BY <1>4, <1>t DEF WtpGivesUp, WtpStepped, TypeOK, controller
  <2> QED
    BY <2>1, <1>i, <1>v DEF TimersSeen, WtpAlone, AcAlone, Behind
<1>5. CASE TakeAnswer
  <2>1. PICK p \in net :
            /\ p.to = "WTP" /\ pc = "wait"
            /\ pc' = "listen" /\ left' = EchoTimer
            /\ net' = net \ {p} /\ ticked'.ac = ticked.ac
            /\ UNCHANGED <<try, ac, acLeft, turn, gone>>
    BY <1>5, <1>t DEF TakeAnswer, WtpStepped, TypeOK, controller
  <2> QED
    BY <2>1, <1>i, <1>v DEF TimersSeen, WtpAlone, AcAlone
<1>6. CASE TakeSecondAnswer
  <2>1. PICK p \in net :
            /\ p.to = "WTP" /\ pc = "listen"
            /\ left' = IF left < 0 THEN EchoTimer ELSE left
            /\ net' = net \ {p} /\ ticked'.ac = ticked.ac
            /\ UNCHANGED <<pc, try, ac, acLeft, turn, gone>>
    BY <1>6, <1>t DEF TakeSecondAnswer, WtpStepped, TypeOK, controller
  <2> QED
    BY <2>1, <1>i, <1>v DEF TimersSeen, WtpAlone, AcAlone
<1>7. CASE WtpStops
  BY <1>7, <1>i, <1>v DEF WtpStops, TimersSeen, WtpAlone, AcAlone, Behind, controller
<1>8. CASE AcReadsNothing
  <2>1. /\ ticked'.wtp = ticked.wtp
        /\ ac = "run" /\ ac' = IF acLeft < 0 THEN "timedout" ELSE ac
        /\ UNCHANGED <<pc, left, try, acLeft, net, turn, gone>>
    BY <1>8, <1>t DEF AcReadsNothing, ReadOn, AcStepped, TypeOK, wtp
  <2> QED
    BY <2>1, <1>i, <1>v, <1>m DEF TimersSeen, WtpAlone, AcAlone, Behind
<1>9. CASE AcAnswers
  <2>1. PICK p \in net :
            /\ ac = "run" /\ p.to = "AC"
            /\ acLeft' = AcEcho
            /\ net' = (net \ {p}) \cup {Packet("WTP", p.bit, p.try)}
            /\ ticked'.wtp = ticked.wtp
            /\ UNCHANGED <<pc, left, try, ac, turn, gone>>
    BY <1>9, <1>t DEF AcAnswers, AcStepped, TypeOK, wtp
  <2>2. \A q \in net' : q.to = "AC" => q \in net
    BY <2>1 DEF Packet
  <2> QED
    BY <2>1, <2>2, <1>i, <1>v DEF TimersSeen, WtpAlone, AcAlone, Behind
<1>10. CASE AcAnswersAgain
  <2>1. PICK p \in net :
            /\ ac = "run" /\ p.to = "AC"
            /\ ac' = IF acLeft < 0 THEN "timedout" ELSE ac
            /\ net' = (net \ {p}) \cup {Packet("WTP", p.bit, p.try)}
            /\ ticked'.wtp = ticked.wtp
            /\ UNCHANGED <<pc, left, try, acLeft, turn, gone>>
    BY <1>10, <1>t DEF AcAnswersAgain, ReadOn, AcStepped, TypeOK, wtp
  <2>2. \A q \in net' : q.to = "AC" => q \in net
    BY <2>1 DEF Packet
  <2>3. \A q \in net' : q.age \in Nat
    BY <1>t DEF TypeOK, Packets
  <2> QED
    BY <2>1, <2>2, <2>3, <1>i, <1>v, <1>m DEF TimersSeen, WtpAlone, AcAlone, Behind
<1>11. CASE AcCrashes
  BY <1>11, <1>i, <1>v, <1>m DEF AcCrashes, TimersSeen, WtpAlone, AcAlone, wtp
<1>12. CASE Lose
  <2>1. net' \subseteq net /\ UNCHANGED <<wtp, controller, turn, ticked, gone>>
    BY <1>12 DEF Lose
  <2> QED
    BY <2>1, <1>i, <1>v DEF TimersSeen, WtpAlone, AcAlone, Behind, wtp, controller
<1>13. CASE WtpTick
  <2>1. /\ turn = "wtp" /\ turn' = "ac" /\ (WtpRuns => ~ ticked.wtp)
        /\ left' = IF left < 0 THEN left ELSE left - 1
        /\ ticked'.wtp = TRUE /\ ticked'.ac = ticked.ac
        /\ UNCHANGED <<pc, try, ac, acLeft>>
        /\ ac = "run" => gone' = gone
        /\ ac # "run" => gone' <= gone + 1
    BY <1>13, <1>t, <1>v DEF WtpTick, Count, TypeOK, controller
  <2>2. \A q \in net' : \E p \in net : q.to = p.to /\ q.age = p.age + 1
    BY <1>13, <1>t, OlderType DEF WtpTick, TypeOK
  <2>3. WtpRuns => left >= 0
    BY <2>1, <1>i, <1>v DEF TimersSeen
  <2>4. TimersSeen'
    BY <2>1, <2>3, <1>i, <1>v DEF TimersSeen
  <2>5. WtpAlone'
    <3> SUFFICES ASSUME WtpRuns', ~ AcRuns' 
                 PROVE  /\ \A q \in net' : q.to = "WTP" => gone' <= q.age
                        /\ pc' = "listen" => gone' + left' < MaxDelay + WtpEcho
                        /\ pc' = "wait" => gone' + left' < MaxDelay + WtpEcho + try' * Try
      BY DEF WtpAlone
    <3>1. /\ WtpRuns /\ ~ AcRuns /\ pc' = pc
          /\ left' = left - 1 /\ gone' <= gone + 1
      BY <2>1, <2>3, <1>v
    <3>0. try' * Try = try * Try
      BY <2>1
    <3>2. /\ \A p \in net : p.to = "WTP" => gone <= p.age
          /\ pc = "listen" => gone + left < MaxDelay + WtpEcho
          /\ pc = "wait" => gone + left < MaxDelay + WtpEcho + try * Try
      BY <3>1, <1>i DEF WtpAlone
    <3>3. \A q \in net' : q.to = "WTP" => gone' <= q.age
      BY <2>2, <3>1, <3>2, <1>v
    <3>7. /\ left \in Int /\ left' \in Int /\ gone \in Int /\ gone' \in Int
          /\ left' = left - 1 /\ gone' <= gone + 1
      BY <3>1, <1>v
    <3>4. (gone' + left') <= (gone + left)
      BY <3>7, SumKept
    <3>8. gone' + left' \in Int /\ gone + left \in Int
      BY <1>v
    <3>5. pc' = "listen" => gone' + left' < MaxDelay + WtpEcho
      BY <2>1, <3>2, <3>4, <3>8
    <3>6. pc' = "wait" => gone' + left' < MaxDelay + WtpEcho + try' * Try
      BY <2>1, <3>0, <3>2, <3>4, <3>8, <1>m
    <3> QED
      BY <3>3, <3>5, <3>6
  <2>6. AcAlone'
    BY <2>1, <2>2, <1>i, <1>v DEF AcAlone, Behind
  <2> QED
    BY <2>4, <2>5, <2>6
<1>14. CASE AcTick
  <2>1. /\ turn = "ac" /\ turn' = "wtp" /\ (AcRuns => ~ ticked.ac)
        /\ acLeft' = IF acLeft < 0 THEN acLeft ELSE acLeft - 1
        /\ ticked'.ac = TRUE /\ ticked'.wtp = ticked.wtp
        /\ UNCHANGED <<pc, left, try, ac, net>>
        /\ ~ (AcRuns /\ ~ WtpRuns) => gone' = gone
        /\ gone' <= gone + 1
    BY <1>14, <1>t, <1>v DEF AcTick, Count, TypeOK, wtp
  <2>3. AcRuns => acLeft >= 0
    BY <2>1, <1>i, <1>v DEF TimersSeen
  <2>4. TimersSeen'
    BY <2>1, <2>3, <1>i, <1>v DEF TimersSeen
  <2>5. WtpAlone'
    <3>1. CASE AcRuns
      BY <2>1, <3>1 DEF WtpAlone
    <3>2. CASE ~ AcRuns
      <4>1. gone' = gone /\ try' * Try = try * Try
        BY <2>1, <3>2
      <4> QED
        BY <2>1, <4>1, <3>2, <1>i DEF WtpAlone
    <3> QED
      BY <3>1, <3>2
  <2>6. AcAlone'
    <3> SUFFICES ASSUME AcRuns', ~ WtpRuns'
                 PROVE  /\ \A p \in net' : p.to = "AC" => gone' <= p.age + Behind'
                        /\ gone' + acLeft' <= AcEcho + MaxDelay + 1
      BY DEF AcAlone
    <3>1. /\ AcRuns /\ ~ WtpRuns /\ net' = net
          /\ Behind = 0 /\ Behind' = 1
      BY <2>1 DEF Behind
    <3>2. /\ acLeft \in Int /\ acLeft' \in Int /\ gone \in Int /\ gone' \in Int
          /\ acLeft' = acLeft - 1 /\ gone' <= gone + 1
      BY <2>1, <2>3, <3>1, <1>v
    <3>3. gone' + acLeft' <= gone + acLeft
      BY <3>2, SumKept
    <3>4. /\ \A p \in net : p.to = "AC" => gone <= p.age + Behind
          /\ gone + acLeft <= AcEcho + MaxDelay + 1
      BY <3>1, <1>i DEF AcAlone
    <3>5. \A p \in net' : p.to = "AC" => gone' <= p.age + Behind'
      BY <3>1, <3>2, <3>4, <1>v
    <3>6. gone' + acLeft' \in Int /\ gone + acLeft \in Int
      BY <1>v
    <3> QED
      BY <3>3, <3>4, <3>5, <3>6
  <2> QED
    BY <2>4, <2>5, <2>6
<1>15. CASE UNCHANGED vars
  BY <1>15, <1>i DEF TimersSeen, WtpAlone, AcAlone, Behind, vars
<1> QED
  BY <1>1, <1>2, <1>3, <1>4, <1>5, <1>6, <1>7, <1>8, <1>9, <1>10, <1>11,
     <1>12, <1>13, <1>14, <1>15 DEF Next

\* EndNoticed: an end that is left alone gives up in the time its timers and
\* its transmissions take, whatever is still on its way to it.
THEOREM EndIsNoticed == Spec => []EndNoticed
<1>1. EndInv => EndNoticed
  <2> SUFFICES ASSUME EndInv PROVE EndNoticed
    OBVIOUS
  <2>1. TypeOK /\ WtpAlone /\ AcAlone
    BY DEF EndInv
  <2>2. /\ left \in Int /\ left >= -1 /\ acLeft \in Int /\ acLeft >= -1
        /\ gone \in Nat /\ try \in Nat /\ try <= MaxRetransmit
    BY <2>1, Consts DEF TypeOK
  <2>3. try * Try \in Nat /\ try * Try <= MaxRetransmit * Try
    <3>1. MaxRetransmit - try \in Nat /\ Try \in Nat
      BY <2>2, Consts
    <3>2. (MaxRetransmit - try) * Try \in Nat /\ try * Try \in Nat
      BY <3>1, <2>2, TimesNat
    <3>3. (MaxRetransmit - try) * Try = MaxRetransmit * Try - try * Try
      BY <2>2, Consts
    <3>4. MaxRetransmit * Try \in Nat
      BY Consts, TimesNat
    <3> QED
      BY <3>2, <3>3, <3>4
  <2>4. ASSUME WtpRuns, ~ AcRuns PROVE gone <= WtpPatience
    <3>1. CASE pc = "listen"
      BY <2>1, <2>2, <2>3, <2>4, <3>1, Consts DEF WtpAlone, WtpPatience
    <3>2. CASE pc = "wait"
      BY <2>1, <2>2, <2>3, <2>4, <3>2, Consts DEF WtpAlone, WtpPatience
    <3> QED
      BY <2>4, <3>1, <3>2 DEF WtpRuns
  <2>5. ASSUME AcRuns, ~ WtpRuns PROVE gone <= AcPatience
    BY <2>1, <2>2, <2>5, Consts DEF AcAlone, AcPatience
  <2> QED
    BY <2>4, <2>5 DEF EndNoticed
<1> QED
  BY <1>1, EndInit, EndStep, PTL DEF Spec

------------------------------------------------------------------------------
(* Nobody is given up *)

\* Seconds until the timer of the controller expires, on the clock of the WTP.
Spare == acLeft + Behind

\* Seconds since the last transmission, and since the first of the request.
Since == Retransmit - left
Elapsed == (try - 1) * Try + Since

\* Seconds since the transmission that a packet is, or answers.
SentAgo(p) == Since + (try - p.try) * Try

\* The transmissions that packets belong to, each to one of its own.
Tries(packets) == {p.try : p \in packets}
Apart(packets, n) ==
    /\ \A p \in packets : p.try \in 1 .. n
    /\ \A p, q \in packets : p.try = q.try => p = q

\* How many of n transmissions were lost, themselves or their answers.
LostOf(packets, n) == n - Cardinality(Tries(packets))
Missing == LostOf(net, try)

\* What the packets that may still be lost take; and with those of this request
\* that were.
Repeats == (MaxLosses - lost) * Try
AllRepeats == (MaxLosses - lost + Missing) * Try

\* The packets that are left when the WTP has its answer are as old as that, so
\* none is left when its timer expires.
Listening ==
    pc = "listen" =>
        /\ bit = last
        /\ \A p \in net : /\ p.bit = bit
                          /\ p.to = "AC" => p.age >= EchoTimer - left
                          /\ p.to = "WTP" => p.age + MaxDelay >= EchoTimer - left
        /\ Spare > left + 1 + MaxDelay + Repeats

Asking ==
    pc = "wait" /\ bit # last =>
        /\ Apart(net, try)
        /\ \A p \in net : p.to = "AC" /\ p.bit = bit /\ p.age = SentAgo(p)
        /\ Missing <= lost
        /\ Spare + Elapsed > MaxDelay + AllRepeats

Answered ==
    pc = "wait" /\ bit = last =>
        /\ Apart(net, try)
        /\ \A p \in net : /\ p.bit = bit
                          /\ p.to = "AC" => p.age = SentAgo(p)
                          /\ p.to = "WTP" => p.age + MaxDelay >= SentAgo(p)
        /\ Missing <= MaxLosses + lost
        /\ Spare + Elapsed > 3 * MaxDelay + WtpEcho + AllRepeats

Together == WtpRuns /\ AcRuns /\ Listening /\ Asking /\ Answered

StayInv == pc = "stopped" \/ ac = "crashed" \/ Together

\* A product of a larger number.
LEMMA TimesLeq == \A a, b, c \in Nat : a <= b => a * c <= b * c
<1> SUFFICES ASSUME NEW a \in Nat, NEW b \in Nat, NEW c \in Nat, a <= b
             PROVE  a * c <= b * c
  OBVIOUS
<1>1. b - a \in Nat
  OBVIOUS
<1>2. (b - a) * c \in Nat /\ a * c \in Nat /\ b * c \in Nat
  BY <1>1, TimesNat
<1>3. (b - a) * c = b * c - a * c
  OBVIOUS
<1> QED
  BY <1>2, <1>3

\* A product of a sum.
LEMMA TimesPlus == \A a, b, c \in Int : (a + b) * c = a * c + b * c
OBVIOUS

\* The packets in flight are no more than the transmissions, and the one of an
\* early transmission has at most the lost ones before it.
LEMMA LostType ==
    ASSUME NEW packets, NEW n \in Nat, Apart(packets, n)
    PROVE  /\ IsFiniteSet(Tries(packets)) /\ Cardinality(Tries(packets)) \in Nat
           /\ LostOf(packets, n) \in 0 .. n
           /\ packets = {} => LostOf(packets, n) = n
           /\ packets # {} => \E p \in packets : p.try - 1 <= LostOf(packets, n)
<1> DEFINE T == Tries(packets)
           l == LostOf(packets, n)
<1>1. T \in SUBSET (1 .. n)
  BY DEF Apart, Tries
<1>2. IsFiniteSet(1 .. n) /\ Cardinality(1 .. n) = n
  BY FS_Interval
<1>3. IsFiniteSet(T) /\ Cardinality(T) \in Nat /\ Cardinality(T) <= n
  BY <1>1, <1>2, FS_Subset, FS_CardinalityType
<1>4. l = n - Cardinality(T) /\ l \in 0 .. n
  BY <1>3 DEF LostOf
<1>5. ASSUME packets = {} PROVE l = n
  <2>1. T = {}
    BY <1>5 DEF Tries
  <2> QED
    BY <2>1, <1>4, FS_EmptySet
<1>6. ASSUME packets # {}, \A p \in packets : ~(p.try - 1 <= l) PROVE FALSE
  <2> HIDE DEF l, T
  <2>1. T # {}
    BY <1>6 DEF T, Tries
  <2>2. T \in SUBSET (l + 2 .. n)
    <3>1. \A t \in T : \E p \in packets : t = p.try
      BY DEF T, Tries
    <3>2. \A t \in T : t \in 1 .. n /\ ~(t - 1 <= l)
      BY <1>1, <1>6, <3>1
    <3> QED
      BY <3>2, <1>4
  <2>3. l + 2 \in Int /\ n \in Int
    BY <1>4
  <2>4. IsFiniteSet(l + 2 .. n)
        /\ Cardinality(l + 2 .. n) = IF l + 2 > n THEN 0 ELSE n - (l + 2) + 1
    BY <2>3, FS_Interval
  <2>5. Cardinality(T) <= Cardinality(l + 2 .. n)
    BY <2>2, <2>4, FS_Subset
  <2>6. Cardinality(T) # 0
    BY <2>1, <1>3, FS_EmptySet
  <2> QED
    BY <2>4, <2>5, <2>6, <1>3, <1>4
<1> QED
  BY <1>3, <1>4, <1>5, <1>6

\* One transmission more, whose packet is in flight.
LEMMA LostSending ==
    ASSUME NEW packets, NEW n \in Nat, Apart(packets, n), NEW p, p.try = n + 1
    PROVE  /\ Apart(packets \cup {p}, n + 1)
           /\ LostOf(packets \cup {p}, n + 1) = LostOf(packets, n)
<1>1. Apart(packets \cup {p}, n + 1)
  <2>1. \A q \in packets : q.try \in 1 .. n + 1 /\ q.try # p.try
    BY DEF Apart
  <2> QED
    BY <2>1 DEF Apart
<1>2. Tries(packets \cup {p}) = Tries(packets) \cup {n + 1} /\ n + 1 \notin Tries(packets)
  BY DEF Tries, Apart
<1>3. IsFiniteSet(Tries(packets)) /\ Cardinality(Tries(packets)) \in Nat
  BY LostType
<1>4. Cardinality(Tries(packets) \cup {n + 1}) = Cardinality(Tries(packets)) + 1
  BY <1>2, <1>3, FS_AddElement
<1>5. Cardinality(Tries(packets \cup {p})) = Cardinality(Tries(packets)) + 1
  BY <1>2, <1>4
<1>6. LostOf(packets \cup {p}, n + 1) = LostOf(packets, n)
  BY <1>3, <1>5 DEF LostOf
<1> QED
  BY <1>1, <1>6

\* A packet that is lost.
LEMMA LostOne ==
    ASSUME NEW packets, NEW n \in Nat, Apart(packets, n), NEW p \in packets
    PROVE  /\ Apart(packets \ {p}, n)
           /\ LostOf(packets \ {p}, n) = LostOf(packets, n) + 1
<1>1. Apart(packets \ {p}, n)
  BY DEF Apart
<1>2. Tries(packets \ {p}) = Tries(packets) \ {p.try} /\ p.try \in Tries(packets)
  BY DEF Tries, Apart
<1>3. IsFiniteSet(Tries(packets)) /\ Cardinality(Tries(packets)) \in Nat
  BY LostType
<1>4. Cardinality(Tries(packets) \ {p.try}) = Cardinality(Tries(packets)) - 1
  BY <1>2, <1>3, FS_RemoveElement
<1>5. Cardinality(Tries(packets \ {p})) = Cardinality(Tries(packets)) - 1
  BY <1>2, <1>4
<1>6. LostOf(packets \ {p}, n) = LostOf(packets, n) + 1
  BY <1>3, <1>5 DEF LostOf
<1> QED
  BY <1>1, <1>6

\* A request that is answered: the packet goes back.
LEMMA LostNone ==
    ASSUME NEW packets, NEW n \in Nat, Apart(packets, n), NEW p \in packets, NEW q, q.try = p.try
    PROVE  /\ Apart((packets \ {p}) \cup {q}, n)
           /\ LostOf((packets \ {p}) \cup {q}, n) = LostOf(packets, n)
<1>1. Apart((packets \ {p}) \cup {q}, n)
  BY DEF Apart
<1>2. Tries((packets \ {p}) \cup {q}) = Tries(packets)
  BY DEF Tries, Apart
<1> QED
  BY <1>1, <1>2 DEF LostOf

\* The values of the variables, and what is made of them.
LEMMA Values ==
    ASSUME EndInv
    PROVE  /\ left \in Int /\ left >= -1 /\ acLeft \in Int /\ Behind \in {0, 1} /\ Spare \in Int
           /\ Since \in Int /\ Since <= Try
           /\ try \in Nat /\ try >= 1 /\ try <= MaxRetransmit
           /\ lost \in Nat /\ lost <= MaxLosses
           /\ Elapsed \in Int /\ Repeats \in Nat
           /\ bit \in {0, 1} /\ last \in {0, 1}
           /\ pc = "wait" => Since >= 0
           /\ pc = "listen" => left <= EchoTimer
           /\ net \subseteq Packets
           /\ \A p \in net : /\ p.age \in Nat /\ p.age <= MaxDelay /\ p.to \in {"WTP", "AC"}
                             /\ p.try \in Nat /\ p.try >= 1 /\ SentAgo(p) \in Int
<1>1. TypeOK /\ TimersSeen
  BY DEF EndInv
<1>2. /\ left \in Int /\ left >= -1 /\ acLeft \in Int
      /\ try \in Nat /\ try >= 1 /\ try <= MaxRetransmit
      /\ lost \in Nat /\ lost <= MaxLosses
      /\ bit \in {0, 1} /\ last \in {0, 1} /\ net \subseteq Packets
  BY <1>1, Consts DEF TypeOK
<1>3. \A p \in net : /\ p.age \in Nat /\ p.age <= MaxDelay /\ p.to \in {"WTP", "AC"}
                     /\ p.try \in Nat /\ p.try >= 1
  BY <1>2, Consts DEF Packets
<1>4. Repeats \in Nat
  <2>1. MaxLosses - lost \in Nat
    BY <1>2, Consts
  <2> QED
    BY <2>1, Consts, TimesNat DEF Repeats
<1>5. Since \in Int /\ Since <= Try
  BY <1>2, Consts DEF Since
<1>6. (try - 1) * Try \in Int /\ \A p \in net : (try - p.try) * Try \in Int
  BY <1>2, <1>3, Consts
<1>7. Elapsed \in Int /\ \A p \in net : SentAgo(p) \in Int
  BY <1>5, <1>6 DEF Elapsed, SentAgo
<1>8. /\ pc = "wait" => Since >= 0
      /\ pc = "listen" => left <= EchoTimer
  BY <1>1, <1>2, Consts DEF TimersSeen, Since
<1> QED
  BY <1>2, <1>3, <1>4, <1>5, <1>7, <1>8 DEF Behind, Spare

\* A request whose packets are at most d seconds old is as old as that and the
\* repetitions that were lost.
LEMMA InTime ==
    ASSUME EndInv, Apart(net, try), NEW d \in Nat, \A p \in net : SentAgo(p) <= d
    PROVE  /\ Missing \in Nat /\ Missing * Try \in Nat
           /\ Elapsed <= d + Missing * Try
<1>v. /\ try \in Nat /\ try >= 1 /\ Since \in Int /\ Since <= Try /\ Elapsed \in Int
      /\ \A p \in net : p.try \in Nat /\ p.try >= 1 /\ SentAgo(p) \in Int
  BY Values
<1>1. /\ Missing \in Nat
      /\ net = {} => Missing = try
      /\ net # {} => \E p \in net : p.try - 1 <= Missing
  BY <1>v, LostType DEF Missing
<1>2. Missing * Try \in Nat /\ Try \in Nat
  BY <1>1, Consts, TimesNat
<1>3. ASSUME net = {} PROVE Elapsed <= d + Missing * Try
  <2>1. (try - 1) * Try = try * Try - Try /\ try * Try \in Nat
    BY <1>v, <1>2, TimesMinus, TimesNat
  <2>2. Elapsed <= try * Try
    BY <2>1, <1>v, <1>2 DEF Elapsed
  <2> QED
    BY <2>1, <2>2, <1>1, <1>3, <1>v
<1>4. ASSUME net # {} PROVE Elapsed <= d + Missing * Try
  <2>1. PICK p \in net : p.try - 1 <= Missing
    BY <1>1, <1>4
  <2>2. p.try - 1 \in Nat
    BY <1>v
  <2>3. (p.try - 1) * Try <= Missing * Try /\ (p.try - 1) * Try \in Nat
    BY <2>1, <2>2, <1>1, <1>2, TimesLeq, TimesNat
  <2>4. (try - 1) * Try = (try - p.try) * Try + (p.try - 1) * Try
    <3>1. try - 1 = (try - p.try) + (p.try - 1) /\ try - p.try \in Int /\ p.try - 1 \in Int
      BY <1>v
    <3> QED
      BY <3>1, <1>2, TimesPlus
  <2>5. (try - p.try) * Try \in Int
    BY <1>v, <1>2
  <2>6. Elapsed = SentAgo(p) + (p.try - 1) * Try
    BY <2>3, <2>4, <2>5, <1>v DEF Elapsed, SentAgo
  <2>7. SentAgo(p) <= d /\ SentAgo(p) \in Int
    BY <1>v
  <2> QED
    BY <2>3, <2>6, <2>7, <1>2, <1>v
<1> QED
  BY <1>1, <1>2, <1>3, <1>4

\* The lost packets of a request, and those that may still be.
LEMMA MayLose ==
    ASSUME EndInv, Missing \in Nat
    PROVE  AllRepeats \in Nat /\ AllRepeats = Repeats + Missing * Try
<1>1. MaxLosses - lost \in Nat /\ Try \in Nat
  BY Values, Consts
<1>2. Repeats \in Nat /\ Missing * Try \in Nat
  BY <1>1, TimesNat DEF Repeats
<1>3. (MaxLosses - lost + Missing) * Try = (MaxLosses - lost) * Try + Missing * Try
  BY <1>1, TimesPlus
<1> QED
  BY <1>2, <1>3 DEF AllRepeats, Repeats

\* A request that waits: how long it has, and that its answer leaves enough.
LEMMA Waiting ==
    ASSUME EndInv, Together, pc = "wait"
    PROVE  /\ Apart(net, try)
           /\ Spare > 0
           /\ Missing \in Nat /\ AllRepeats \in Nat
           /\ bit # last => Elapsed <= MaxDelay + lost * Try
           /\ bit = last => Elapsed <= 2 * MaxDelay + (MaxLosses + lost) * Try
           /\ bit = last => Spare > MaxDelay + WtpEcho + Repeats
<1>v. /\ lost \in Nat /\ lost <= MaxLosses /\ Spare \in Int /\ Elapsed \in Int /\ Repeats \in Nat
      /\ \A p \in net : p.age \in Nat /\ p.age <= MaxDelay /\ p.to \in {"WTP", "AC"} /\ SentAgo(p) \in Int
  BY Values
<1>c. MaxDelay \in Nat /\ 2 * MaxDelay \in Nat /\ Try \in Nat /\ MaxLosses \in Nat /\ WtpEcho \in Nat
  BY Consts
<1>1. CASE bit # last
  <2>1. /\ Apart(net, try) /\ Missing <= lost /\ Spare + Elapsed > MaxDelay + AllRepeats
        /\ \A p \in net : SentAgo(p) <= MaxDelay
    BY <1>1, <1>v DEF Together, Asking
  <2>2. Missing \in Nat /\ Missing * Try \in Nat /\ Elapsed <= MaxDelay + Missing * Try
    BY <2>1, <1>c, InTime
  <2>3. AllRepeats \in Nat /\ AllRepeats = Repeats + Missing * Try
    BY <2>2, MayLose
  <2>4. Missing * Try <= lost * Try /\ lost * Try \in Nat
    BY <2>1, <2>2, <1>v, <1>c, TimesLeq, TimesNat
  <2>5. Spare > 0 /\ Elapsed <= MaxDelay + lost * Try
    BY <2>1, <2>2, <2>3, <2>4, <1>v, <1>c
  <2> QED
    BY <1>1, <2>1, <2>2, <2>3, <2>5
<1>2. CASE bit = last
  <2>1. /\ Apart(net, try) /\ Missing <= MaxLosses + lost
        /\ Spare + Elapsed > 3 * MaxDelay + WtpEcho + AllRepeats
    BY <1>2 DEF Together, Answered
  <2>2. ASSUME NEW p \in net PROVE SentAgo(p) <= 2 * MaxDelay
    <3>1. /\ p.to = "AC" => p.age = SentAgo(p)
          /\ p.to = "WTP" => p.age + MaxDelay >= SentAgo(p)
      BY <1>2 DEF Together, Answered
    <3> QED
      BY <3>1, <1>v, <1>c
  <2>3. Missing \in Nat /\ Missing * Try \in Nat /\ Elapsed <= 2 * MaxDelay + Missing * Try
    BY <2>1, <2>2, <1>c, InTime
  <2>4. AllRepeats \in Nat /\ AllRepeats = Repeats + Missing * Try
    BY <2>3, MayLose
  <2>5. Missing * Try <= (MaxLosses + lost) * Try /\ (MaxLosses + lost) * Try \in Nat
    <3>1. MaxLosses + lost \in Nat
      BY <1>v, <1>c
    <3> QED
      BY <2>1, <2>3, <3>1, <1>c, TimesLeq, TimesNat
  <2>6. Spare > MaxDelay + WtpEcho + Repeats
    BY <2>1, <2>3, <2>4, <1>v, <1>c
  <2>7. Spare > 0 /\ Elapsed <= 2 * MaxDelay + (MaxLosses + lost) * Try
    BY <2>3, <2>5, <2>6, <1>v, <1>c
  <2> QED
    BY <1>2, <2>1, <2>3, <2>4, <2>6, <2>7
<1> QED
  BY <1>1, <1>2

\* What is spared is more than nothing, so the session has not timed out.
LEMMA TimerRuns ==
    ASSUME EndInv, Together PROVE ~ Expired(acLeft)
<1>1. Spare > 0
  <2>1. CASE pc = "listen"
    BY <2>1, Values, Consts DEF Together, Listening
  <2> QED
    BY <2>1, Waiting DEF Together, WtpRuns
<1> QED
  BY <1>1, Values DEF Spare, Expired

\* No packet is left when the timer of run expires, and the last repetition has
\* had its time when that of cw_send_request does.
LEMMA NothingLeft ==
    ASSUME EndInv, Together, pc = "listen", net # {} PROVE ~ Expired(left)
<1>1. PICK p \in net : TRUE
  OBVIOUS
<1>2. EchoTimer - left <= 2 * MaxDelay
  BY <1>1, Values, Consts DEF Together, Listening
<1>3. 2 * MaxDelay + 1 < WtpEcho
  BY KeepAliveAssumption
<1> QED
  BY <1>2, <1>3, Values, Consts DEF Expired

\* The timer of the last transmission does not expire: too few can have been lost.
LEMMA Unanswered ==
    ASSUME EndInv, Together, pc = "wait", Expired(left) PROVE try # MaxRetransmit
<1> SUFFICES ASSUME try = MaxRetransmit PROVE FALSE
  OBVIOUS
<1>v. left \in Int /\ left >= -1 /\ lost \in Nat /\ lost <= MaxLosses /\ Elapsed \in Int
  BY Values
<1>c. /\ MaxDelay \in Nat /\ Try \in Nat /\ MaxLosses \in Nat /\ MaxRetransmit \in Nat
      /\ MaxRetransmit >= 1 /\ Try = Retransmit + 1 /\ Retransmit \in Nat
  BY Consts
<1>1. Since = Try
  BY <1>v, <1>c DEF Expired, Since
<1>2. MaxRetransmit * Try \in Nat /\ (MaxRetransmit - 1) * Try = MaxRetransmit * Try - Try
  BY <1>c, TimesMinus, TimesNat
<1>3. Elapsed = MaxRetransmit * Try
  BY <1>1, <1>2, <1>c DEF Elapsed
<1>4. /\ lost * Try \in Nat /\ lost * Try <= MaxLosses * Try /\ MaxLosses * Try \in Nat
      /\ (MaxLosses + lost) * Try = MaxLosses * Try + lost * Try
  BY <1>v, <1>c, TimesLeq, TimesNat, TimesPlus
<1>5. Elapsed <= 2 * MaxDelay + 2 * (MaxLosses * Try)
  BY <1>4, <1>v, <1>c, Waiting
<1>6. 2 * MaxDelay + 1 < (MaxRetransmit - 2 * MaxLosses) * Try
  BY KeepAliveAssumption
<1>7. (MaxRetransmit - 2 * MaxLosses) * Try = MaxRetransmit * Try - 2 * (MaxLosses * Try)
  <2>1. /\ 2 * MaxLosses \in Nat
        /\ \A a, b, c \in Nat : (2 * b) * c = 2 * (b * c)
    BY <1>c
  <2> QED
    BY <2>1, <1>c, TimesMinus
<1> QED
  BY <1>2, <1>3, <1>4, <1>5, <1>6, <1>7, <1>c

\* At first the controller has its whole interval, less the answer of the join.
LEMMA StayInit == Init /\ Enough => StayInv
<1> SUFFICES ASSUME Init, Enough PROVE Together
  BY DEF StayInv
<1>1. EndInv
  BY EndInit
<1>2. /\ pc = "listen" /\ left = EchoTimer /\ net = {} /\ bit = last /\ ac = "run"
  BY DEF Init
<1>3. lost * Try \in Nat /\ Repeats = MaxLosses * Try - lost * Try
  <2>1. lost \in Nat
    BY <1>1, Values
  <2> QED
    BY <2>1, Consts, TimesNat, TimesMinus DEF Repeats
<1>4. Spare >= AcEcho - lost * Try - 2 * MaxDelay
  <2>1. PICK n \in 0 .. AnswerTakes(lost) : acLeft >= AcEcho - n - Behind
    <3>1. PICK n \in 0 .. AnswerTakes(lost) :
             acLeft \in (AcEcho - n - (IF turn = "wtp" THEN 1 ELSE 0)) .. AcEcho
      BY DEF Init
    <3> QED
      BY <3>1, <1>1, Values, Consts DEF Behind
  <2>2. AnswerTakes(lost) \in Nat /\ AnswerTakes(lost) <= lost * Try + 2 * MaxDelay
    <3>1. MaxDelay \in Nat /\ 2 * MaxDelay \in Nat /\ MaxDelay <= 2 * MaxDelay
      BY Consts
    <3>2. \/ AnswerTakes(lost) = lost * Try + MaxDelay
          \/ AnswerTakes(lost) = lost * Try + 2 * MaxDelay
      BY DEF AnswerTakes
    <3> QED
      BY <3>1, <3>2, <1>3
  <2> QED
    BY <2>1, <2>2, <1>1, <1>3, Values, Consts DEF Spare
<1>5. AcEcho >= WtpEcho + 3 * MaxDelay + 1 + MaxLosses * Try /\ MaxLosses * Try \in Nat
  BY Consts, TimesNat DEF Enough
<1>6. Spare > left + 1 + MaxDelay + Repeats
  BY <1>1, <1>2, <1>3, <1>4, <1>5, Values, Consts
<1> QED
  BY <1>2, <1>6 DEF Together, WtpRuns, AcRuns, Listening, Asking, Answered

\* The next state's transmissions are those of its packets.
LEMMA NextTries ==
    /\ Missing' = LostOf(net', try')
    /\ Apart(net, try)' <=> Apart(net', try')
    /\ \A p : SentAgo(p)' = Since' + (try' - p.try) * Try
BY DEF Missing, LostOf, Tries, Apart, SentAgo

\* A new request, sent when the timer of run expires.
LEMMA StaySendEcho ==
    ASSUME EndInv, Together, SendEcho PROVE Together'
<1>1. /\ pc = "listen" /\ pc' = "wait" /\ Expired(left) /\ left' = Retransmit
      /\ try' = 1 /\ bit' = 1 - bit
      /\ net' = net \cup {Packet("AC", bit', 1)}
      /\ UNCHANGED <<ac, acLeft, last, lost, turn>>
  BY DEF SendEcho, Transmit, controller
<1>2. net = {} /\ bit = last /\ Spare > left + 1 + MaxDelay + Repeats
  BY <1>1, NothingLeft DEF Together, Listening
<1> DEFINE p == Packet("AC", bit', 1)
<1>3. p.to = "AC" /\ p.bit = bit' /\ p.try = 1 /\ p.age = 0
  BY DEF Packet
<1> HIDE DEF p
<1>4. net' = {p} /\ bit' # last'
  <2>1. net' = {p}
    BY <1>1, <1>2 DEF p
  <2> QED
    BY <2>1, <1>1, <1>2, Values
<1>5. Since' = 0 /\ Spare' = Spare /\ Elapsed' = 0 /\ Repeats' = Repeats
  <2>1. Since' = 0
    BY <1>1, Consts DEF Since
  <2>2. (1 - 1) * Try = 0
    BY Consts
  <2>3. Elapsed' = 0
    BY <1>1, <2>1, <2>2 DEF Elapsed
  <2> QED
    BY <1>1, <2>1, <2>3 DEF Spare, Behind, Repeats
<1>a. ASSUME NEW q, q.try = 1 PROVE SentAgo(q)' = 0
  <2>1. (1 - 1) * Try = 0
    BY Consts
  <2>2. SentAgo(q)' = Since' + (try' - q.try) * Try
    BY DEF SentAgo
  <2> QED
    BY <2>1, <2>2, <1>1, <1>5, <1>a
<1>6. Apart({p}, 1) /\ LostOf({p}, 1) = 0
  <2>1. Tries({p}) = {1} /\ Apart({p}, 1)
    BY <1>3 DEF Tries, Apart
  <2>2. Cardinality({1}) = 1
    BY FS_Singleton
  <2> QED
    BY <2>1, <2>2 DEF LostOf
<1>7. Apart(net, try)' /\ Missing' = 0
  BY <1>1, <1>4, <1>6 DEF Missing, LostOf, Tries, Apart
<1>8. AllRepeats' = Repeats
  <2>1. MaxLosses - lost + 0 = MaxLosses - lost
    BY Values, Consts
  <2> QED
    BY <2>1, <1>1, <1>7 DEF AllRepeats, Repeats
<1>9. Spare' + Elapsed' > MaxDelay + AllRepeats'
  <2>1. left = -1
    BY <1>1, Values DEF Expired
  <2> QED
    BY <2>1, <1>2, <1>5, <1>8, Values, Consts
<1>10. Asking'
  <2>1. ASSUME NEW q \in net'
        PROVE  q.to = "AC" /\ q.bit = bit' /\ q.age = SentAgo(q)'
    BY <1>3, <1>4, <1>a
  <2>2. Missing' <= lost'
    BY <1>1, <1>7, Values
  <2> QED
    BY <2>1, <2>2, <1>7, <1>9 DEF Asking
<1> QED
  BY <1>1, <1>4, <1>10 DEF Together, Listening, Answered, WtpRuns, AcRuns

\* The request once more: every packet is older by what the timer ran.
LEMMA StaySendAgain ==
    ASSUME EndInv, Together, SendAgain PROVE Together'
<1>1. /\ pc = "wait" /\ pc' = "wait" /\ Expired(left) /\ left' = Retransmit
      /\ try' = try + 1 /\ net' = net \cup {Packet("AC", bit, try + 1)}
      /\ UNCHANGED <<bit, ac, acLeft, last, lost, turn>>
  BY DEF SendAgain, Transmit, controller
<1> DEFINE p == Packet("AC", bit, try + 1)
<1>2. p.to = "AC" /\ p.bit = bit /\ p.try = try + 1 /\ p.age = 0
  BY DEF Packet
<1> HIDE DEF p
<1>3. net' = net \cup {p}
  BY <1>1 DEF p
<1>v. /\ try \in Nat /\ Try \in Nat
      /\ \A q \in net : q.try \in Nat /\ SentAgo(q) \in Int
  BY Values, Consts
<1>4. Since = Try /\ Since' = 0
  BY <1>1, Values, Consts DEF Since, Expired
<1>5. Elapsed' = Elapsed
  <2>1. (try + 1 - 1) * Try = (try - 1) * Try + Try /\ (try + 1 - 1) * Try \in Nat
    <3>1. try + 1 - 1 = (try - 1) + 1 /\ try - 1 \in Int /\ try + 1 - 1 = try
      BY <1>v
    <3>2. ((try - 1) + 1) * Try = (try - 1) * Try + 1 * Try /\ 1 * Try = Try
      BY <3>1, <1>v, TimesPlus
    <3> QED
      BY <3>1, <3>2, <1>v, TimesNat
  <2> QED
    BY <2>1, <1>1, <1>4, <1>v DEF Elapsed
<1>6. ASSUME NEW q \in net PROVE SentAgo(q)' = SentAgo(q)
  <2>1. (try' - q.try) * Try = (try - q.try) * Try + Try
    <3>1. try' - q.try = (try - q.try) + 1 /\ try - q.try \in Int
      BY <1>1, <1>v
    <3>2. ((try - q.try) + 1) * Try = (try - q.try) * Try + 1 * Try /\ 1 * Try = Try
      BY <3>1, <1>v, TimesPlus
    <3> QED
      BY <3>1, <3>2
  <2>2. (try - q.try) * Try \in Int
    BY <1>v
  <2> QED
    BY <2>1, <2>2, <1>4, <1>v DEF SentAgo
<1>7. ASSUME NEW q, q = p PROVE SentAgo(q)' = 0
  <2>1. (try' - q.try) * Try = 0
    <3>1. try' - q.try = 0
      BY <1>1, <1>2, <1>7, <1>v
    <3> QED
      BY <3>1, <1>v
  <2> QED
    BY <2>1, <1>4 DEF SentAgo
<1>8. Apart(net, try)
  BY <1>1, Waiting
<1>9. Apart(net, try)' /\ Missing' = Missing
  <2>1. Apart(net \cup {p}, try + 1) /\ LostOf(net \cup {p}, try + 1) = LostOf(net, try)
    BY <1>2, <1>8, <1>v, LostSending
  <2> QED
    BY <2>1, <1>1, <1>3, NextTries DEF Missing
<1>10. UNCHANGED <<Spare, AllRepeats>>
  BY <1>1, <1>9 DEF Spare, Behind, AllRepeats
<1>11. Asking'
  <2> SUFFICES ASSUME bit # last PROVE Asking'
    BY <1>1 DEF Asking
  <2>1. /\ Missing <= lost /\ Spare + Elapsed > MaxDelay + AllRepeats
        /\ \A q \in net : q.to = "AC" /\ q.bit = bit /\ q.age = SentAgo(q)
    BY <1>1 DEF Together, Asking
  <2>2. ASSUME NEW q \in net'
        PROVE  q.to = "AC" /\ q.bit = bit' /\ q.age = SentAgo(q)'
    BY <2>1, <1>1, <1>2, <1>3, <1>6, <1>7
  <2> QED
    BY <2>1, <2>2, <1>1, <1>5, <1>9, <1>10 DEF Asking
<1>12. Answered'
  <2> SUFFICES ASSUME bit = last PROVE Answered'
    BY <1>1 DEF Answered
  <2>1. /\ Missing <= MaxLosses + lost /\ Spare + Elapsed > 3 * MaxDelay + WtpEcho + AllRepeats
        /\ \A q \in net : /\ q.bit = bit
                          /\ q.to = "AC" => q.age = SentAgo(q)
                          /\ q.to = "WTP" => q.age + MaxDelay >= SentAgo(q)
    BY <1>1 DEF Together, Answered
  <2>2. ASSUME NEW q \in net'
        PROVE  /\ q.bit = bit'
               /\ q.to = "AC" => q.age = SentAgo(q)'
               /\ q.to = "WTP" => q.age + MaxDelay >= SentAgo(q)'
    BY <2>1, <1>1, <1>2, <1>3, <1>6, <1>7
  <2> QED
    BY <2>1, <2>2, <1>1, <1>5, <1>9, <1>10 DEF Answered
<1> QED
  BY <1>1, <1>11, <1>12 DEF Together, Listening, WtpRuns, AcRuns

\* The first answer: what was lost is no longer missed.
LEMMA StayTakeAnswer ==
    ASSUME EndInv, Together, TakeAnswer PROVE Together'
<1>1. PICK p \in net :
          /\ p.to = "WTP" /\ pc = "wait"
          /\ pc' = "listen" /\ left' = EchoTimer
          /\ net' = net \ {p}
          /\ UNCHANGED <<try, bit, ac, acLeft, last, lost, turn>>
  BY DEF TakeAnswer, controller
<1>2. bit = last
  BY <1>1 DEF Together, Asking
<1>3. Spare > MaxDelay + WtpEcho + Repeats
  BY <1>1, <1>2, Waiting
<1>4. UNCHANGED <<Spare, Repeats>>
  BY <1>1 DEF Spare, Repeats, Behind
<1>5. Spare' > left' + 1 + MaxDelay + Repeats'
  BY <1>1, <1>3, <1>4, Values, Consts
<1>6. \A q \in net' : q.bit = bit /\ q.age >= 0 /\ q.age + MaxDelay >= 0
  BY <1>1, <1>2, Values, Consts DEF Together, Answered
<1>7. Listening'
  <2>1. EchoTimer - left' = 0
    BY <1>1, Consts
  <2> QED
    BY <2>1, <1>1, <1>2, <1>5, <1>6 DEF Listening
<1> QED
  BY <1>1, <1>7 DEF Together, Asking, Answered, WtpRuns, AcRuns

\* Another answer, which comes while the timer of run has time left.
LEMMA StayTakeSecondAnswer ==
    ASSUME EndInv, Together, TakeSecondAnswer PROVE Together'
<1>1. PICK p \in net :
          /\ pc = "listen"
          /\ left' = IF Expired(left) THEN EchoTimer ELSE left
          /\ net' = net \ {p}
          /\ UNCHANGED <<pc, try, bit, ac, acLeft, last, lost, turn>>
  BY DEF TakeSecondAnswer, controller
<1>2. left' = left
  BY <1>1, NothingLeft
<1>3. UNCHANGED <<Spare, Repeats>>
  BY <1>1 DEF Spare, Repeats, Behind
<1> QED
  BY <1>1, <1>2, <1>3 DEF Together, Listening, Asking, Answered, WtpRuns, AcRuns

\* A new request at the controller, whose timer starts anew.
LEMMA StayAcAnswers ==
    ASSUME EndInv, Enough, Together, AcAnswers PROVE Together'
<1>1. PICK p \in net :
          /\ p.to = "AC" /\ p.bit # last
          /\ last' = p.bit /\ acLeft' = AcEcho /\ lost' = 0
          /\ net' = (net \ {p}) \cup {Packet("WTP", p.bit, p.try)}
          /\ UNCHANGED <<pc, left, try, bit, ac, turn>>
  BY DEF AcAnswers, wtp
<1>2. pc = "wait" /\ bit # last /\ p.bit = bit
  BY <1>1, Values DEF Together, Listening, Asking, Answered, WtpRuns
<1> DEFINE q == Packet("WTP", p.bit, p.try)
<1>3. q.to = "WTP" /\ q.bit = bit /\ q.try = p.try /\ q.age = 0
  BY <1>2 DEF Packet
<1> HIDE DEF q
<1>4. net' = (net \ {p}) \cup {q}
  BY <1>1 DEF q
<1>v. /\ Since \in Int /\ lost \in Nat /\ lost <= MaxLosses /\ try \in Nat /\ Elapsed \in Int
      /\ p.age \in Nat /\ p.age <= MaxDelay /\ p.try \in Nat
      /\ \A r \in net : SentAgo(r) \in Int /\ r.age \in Nat
  BY Values
<1>c. /\ Try \in Nat /\ MaxDelay \in Nat /\ MaxLosses \in Nat /\ WtpEcho \in Nat /\ AcEcho \in Nat
  BY Consts
<1>5. /\ Apart(net, try) /\ Missing <= lost
      /\ \A r \in net : r.to = "AC" /\ r.bit = bit /\ r.age = SentAgo(r)
  BY <1>2 DEF Together, Asking
<1>6. Apart(net, try)' /\ Missing' = Missing /\ Missing \in Nat
  <2>1. Missing \in Nat
    BY <1>2, Waiting
  <2> QED
    <3>1. /\ Apart((net \ {p}) \cup {q}, try)
          /\ LostOf((net \ {p}) \cup {q}, try) = LostOf(net, try)
      BY <1>3, <1>5, <1>v, LostNone
    <3> QED
      BY <2>1, <3>1, <1>1, <1>4, NextTries DEF Missing
<1>7. /\ UNCHANGED <<Since, Elapsed>> /\ \A r : SentAgo(r)' = SentAgo(r)
      /\ SentAgo(q) = SentAgo(p)
  BY <1>1, <1>3 DEF Since, Elapsed, SentAgo
<1>8. Missing * Try <= Elapsed /\ Missing * Try \in Nat
  <2>1. Missing <= try - 1 /\ try - 1 \in Nat
    <3>1. IsFiniteSet(Tries(net)) /\ Cardinality(Tries(net)) \in Nat
      BY <1>5, <1>v, LostType
    <3>2. p.try \in Tries(net) /\ Tries(net) # {}
      BY DEF Tries
    <3>3. Cardinality(Tries(net)) # 0
      BY <3>1, <3>2, FS_EmptySet
    <3>4. p.try \in 1 .. try
      BY <1>5 DEF Apart
    <3> QED
      BY <3>1, <3>3, <3>4, <1>v DEF Missing, LostOf
  <2>2. Missing * Try <= (try - 1) * Try /\ Missing * Try \in Nat /\ (try - 1) * Try \in Nat
    BY <2>1, <1>6, <1>c, TimesLeq, TimesNat
  <2>3. Since >= 0
    BY <1>2, Values
  <2> QED
    BY <2>2, <2>3, <1>v DEF Elapsed
<1>9. /\ AllRepeats' = MaxLosses * Try + Missing * Try
      /\ MaxLosses * Try \in Nat
  <2>1. MaxLosses - 0 + Missing = MaxLosses + Missing
    BY <1>6, <1>c
  <2> QED
    BY <2>1, <1>1, <1>6, <1>c, TimesPlus, TimesNat DEF AllRepeats
<1>10. Spare' >= AcEcho /\ Spare' \in Int
  BY <1>1, <1>c DEF Spare, Behind
<1>11. AcEcho >= WtpEcho + 3 * MaxDelay + 1 + MaxLosses * Try
  BY DEF Enough
<1>12. Spare' + Elapsed' > 3 * MaxDelay + WtpEcho + AllRepeats'
  BY <1>7, <1>8, <1>9, <1>10, <1>11, <1>v, <1>c
<1>13. Missing' <= MaxLosses + lost'
  BY <1>1, <1>5, <1>6, <1>v, <1>c
<1>14. ASSUME NEW r \in net'
       PROVE  /\ r.bit = bit'
              /\ r.to = "AC" => r.age = SentAgo(r)'
              /\ r.to = "WTP" => r.age + MaxDelay >= SentAgo(r)'
  <2>1. CASE r = q
    BY <2>1, <1>1, <1>3, <1>5, <1>7, <1>v, <1>c
  <2>2. CASE r \in net
    BY <2>2, <1>1, <1>5, <1>7
  <2> QED
    BY <2>1, <2>2, <1>4
<1>15. Answered'
  BY <1>6, <1>12, <1>13, <1>14 DEF Answered
<1> QED
  BY <1>1, <1>2, <1>15 DEF Together, Asking, Listening, WtpRuns, AcRuns

\* A repeated request, which is answered and starts no timer.
LEMMA StayAcAnswersAgain ==
    ASSUME EndInv, Together, AcAnswersAgain PROVE Together'
<1>1. PICK p \in net :
          /\ p.to = "AC" /\ p.bit = last
          /\ net' = (net \ {p}) \cup {Packet("WTP", p.bit, p.try)}
          /\ ReadOn
          /\ UNCHANGED <<pc, left, try, bit, acLeft, last, lost, turn>>
  BY DEF AcAnswersAgain, wtp
<1>2. bit = last
  BY <1>1 DEF Together, Listening, Asking, WtpRuns
<1> DEFINE q == Packet("WTP", p.bit, p.try)
<1>3. q.to = "WTP" /\ q.bit = bit /\ q.try = p.try /\ q.age = 0
  BY <1>1, <1>2 DEF Packet
<1> HIDE DEF q
<1>4. net' = (net \ {p}) \cup {q}
  BY <1>1 DEF q
<1>v. /\ p.age \in Nat /\ p.age <= MaxDelay /\ left \in Int /\ try \in Nat
      /\ \A r \in net : SentAgo(r) \in Int /\ r.age \in Nat
  BY Values
<1>c. MaxDelay \in Nat /\ EchoTimer \in Nat
  BY Consts
<1>5. ac' = ac /\ UNCHANGED <<Spare, Repeats, Since, Elapsed>>
      /\ (\A r : SentAgo(r)' = SentAgo(r)) /\ SentAgo(q) = SentAgo(p)
  BY <1>1, <1>3, TimerRuns DEF ReadOn, Spare, Behind, Repeats, Since, Elapsed, SentAgo
<1>6. CASE pc = "listen"
  <2>1. /\ Spare > left + 1 + MaxDelay + Repeats
        /\ \A r \in net : /\ r.bit = bit
                          /\ r.to = "AC" => r.age >= EchoTimer - left
                          /\ r.to = "WTP" => r.age + MaxDelay >= EchoTimer - left
    BY <1>6 DEF Together, Listening
  <2>2. 0 + MaxDelay >= EchoTimer - left
    BY <2>1, <1>1, <1>v, <1>c
  <2>3. Listening'
    BY <2>1, <2>2, <1>1, <1>2, <1>3, <1>4, <1>5 DEF Listening
  <2> QED
    BY <2>3, <1>1, <1>5, <1>6 DEF Together, Asking, Answered, WtpRuns, AcRuns
<1>7. CASE pc = "wait"
  <2>1. /\ Apart(net, try) /\ Missing <= MaxLosses + lost
        /\ Spare + Elapsed > 3 * MaxDelay + WtpEcho + AllRepeats
        /\ \A r \in net : /\ r.bit = bit
                          /\ r.to = "AC" => r.age = SentAgo(r)
                          /\ r.to = "WTP" => r.age + MaxDelay >= SentAgo(r)
    BY <1>2, <1>7 DEF Together, Answered
  <2>2. Apart(net, try)' /\ Missing' = Missing
    <3>1. /\ Apart((net \ {p}) \cup {q}, try)
          /\ LostOf((net \ {p}) \cup {q}, try) = LostOf(net, try)
      BY <2>1, <1>3, <1>v, LostNone
    <3> QED
      BY <3>1, <1>1, <1>4, NextTries DEF Missing
  <2>3. AllRepeats' = AllRepeats
    BY <2>2, <1>1 DEF AllRepeats
  <2>4. 0 + MaxDelay >= SentAgo(p)
    BY <2>1, <1>1, <1>v, <1>c
  <2>5. Answered'
    BY <2>1, <2>2, <2>3, <2>4, <1>1, <1>3, <1>4, <1>5 DEF Answered
  <2> QED
    BY <2>5, <1>1, <1>2, <1>5, <1>7 DEF Together, Asking, Listening, WtpRuns, AcRuns
<1> QED
  BY <1>6, <1>7 DEF Together, WtpRuns

\* A packet more that is missing is a packet less that may be lost.
LEMMA StayLose ==
    ASSUME EndInv, EndInv', Together, Lose PROVE Together'
<1>1. PICK p \in net :
          /\ net' = net \ {p} /\ lost' = IF Reads(p) THEN lost + 1 ELSE lost
          /\ UNCHANGED <<pc, left, try, bit, ac, acLeft, last, turn>>
  BY DEF Lose, wtp, controller
<1>2. lost' = lost + 1
  BY <1>1, Values DEF Reads, Together
<1>v. /\ lost \in Nat /\ lost + 1 <= MaxLosses /\ left \in Int /\ Spare \in Int /\ try \in Nat
      /\ Try \in Nat /\ MaxDelay \in Nat /\ MaxLosses \in Nat
  <2>1. lost' <= MaxLosses
    BY Consts DEF EndInv, TypeOK
  <2> QED
    BY <2>1, <1>2, Values, Consts
<1>3. UNCHANGED <<Spare, Since, Elapsed>> /\ \A r : SentAgo(r)' = SentAgo(r)
  BY <1>1 DEF Spare, Behind, Since, Elapsed, SentAgo
<1>4. CASE pc = "listen"
  <2>1. Repeats' \in Nat /\ Repeats' <= Repeats /\ Repeats \in Nat
    <3>1. MaxLosses - (lost + 1) \in Nat /\ MaxLosses - lost \in Nat
          /\ MaxLosses - (lost + 1) <= MaxLosses - lost
      BY <1>v
    <3> QED
      BY <3>1, <1>2, <1>v, TimesLeq, TimesNat DEF Repeats
  <2>2. Spare > left + 1 + MaxDelay + Repeats
    BY <1>4 DEF Together, Listening
  <2>3. Spare' > left' + 1 + MaxDelay + Repeats'
    <3>1. \A x, y, z, r \in Int : x > y + 1 + z + r => \A t \in Int : t <= r => x > y + 1 + z + t
      OBVIOUS
    <3>2. /\ Spare \in Int /\ left \in Int /\ MaxDelay \in Int /\ Repeats \in Int /\ Repeats' \in Int
          /\ Spare' = Spare /\ left' = left
      BY <2>1, <1>1, <1>3, <1>v
    <3> QED
      BY <3>1, <3>2, <2>1, <2>2
  <2>4. Listening'
    BY <2>3, <1>1 DEF Together, Listening
  <2> QED
    BY <2>4, <1>1, <1>4 DEF Together, Asking, Answered, WtpRuns, AcRuns
<1>5. CASE pc = "wait"
  <2>1. Apart(net, try) /\ Missing \in Nat
    BY <1>5, Waiting
  <2>2. Apart(net, try)' /\ Missing' = Missing + 1
    <3>1. /\ Apart(net \ {p}, try)
          /\ LostOf(net \ {p}, try) = LostOf(net, try) + 1
      BY <2>1, <1>v, LostOne
    <3> QED
      BY <3>1, <1>1, NextTries DEF Missing
  <2>3. AllRepeats' = AllRepeats
    <3>1. MaxLosses - (lost + 1) + (Missing + 1) = MaxLosses - lost + Missing
      BY <2>1, <1>v
    <3> QED
      BY <3>1, <2>2, <1>2 DEF AllRepeats
  <2>4. Missing <= lost => Missing' <= lost'
    BY <2>1, <2>2, <1>2, <1>v
  <2>5. Missing <= MaxLosses + lost => Missing' <= MaxLosses + lost'
    BY <2>1, <2>2, <1>2, <1>v
  <2>6. Asking'
    BY <2>2, <2>3, <2>4, <1>1, <1>3, <1>5 DEF Together, Asking
  <2>7. Answered'
    BY <2>2, <2>3, <2>5, <1>1, <1>3, <1>5 DEF Together, Answered
  <2> QED
    BY <2>6, <2>7, <1>1, <1>5 DEF Together, Listening, WtpRuns, AcRuns
<1> QED
  BY <1>4, <1>5 DEF Together, WtpRuns

\* A second at the WTP, for its timer and all that is in flight.
LEMMA StayWtpTick ==
    ASSUME EndInv, EndInv', Together, WtpTick PROVE Together'
<1>1. /\ turn = "wtp" /\ turn' = "ac" /\ ~ ticked.wtp
      /\ net' = {Older(p) : p \in net}
      /\ \A p \in net : p.age < MaxDelay
      /\ left' = IF Expired(left) THEN left ELSE left - 1
      /\ UNCHANGED <<pc, try, bit, ac, acLeft, last, lost>>
  BY DEF WtpTick, controller, Together
<1>v. /\ left \in Int /\ left >= -1 /\ Spare \in Int /\ Since \in Int /\ Elapsed \in Int
      /\ acLeft \in Int /\ Repeats \in Nat /\ try \in Nat
      /\ MaxDelay \in Nat /\ EchoTimer \in Nat /\ Retransmit \in Nat /\ Try \in Nat
      /\ \A p \in net : p.age \in Nat /\ p.try \in Nat /\ SentAgo(p) \in Int
      /\ net \subseteq Packets
  BY Values, Consts
<1>2. left' = left - 1
  BY <1>1, <1>v DEF EndInv, TimersSeen, Together
<1>3. Spare' = Spare - 1 /\ Since' = Since + 1 /\ Elapsed' = Elapsed + 1
  <2>1. (try - 1) * Try \in Int
    BY <1>v
  <2>2. Since' = Since + 1
    BY <1>1, <1>2, <1>v DEF Since
  <2> QED
    BY <2>1, <2>2, <1>1, <1>v DEF Spare, Behind, Elapsed
<1>4. \A q \in net' : \E p \in net :
          /\ q.to = p.to /\ q.bit = p.bit /\ q.try = p.try /\ q.age = p.age + 1
          /\ q = Older(p)
  BY <1>1, <1>v, OlderType
<1>5. ASSUME NEW p \in net, NEW q, q.try = p.try PROVE SentAgo(q)' = SentAgo(p) + 1
  <2>1. (try - p.try) * Try \in Int
    BY <1>v
  <2> QED
    BY <2>1, <1>1, <1>3, <1>5, <1>v DEF SentAgo
<1>6. UNCHANGED Repeats /\ Spare' + Elapsed' = Spare + Elapsed
  BY <1>1, <1>3, <1>v DEF Repeats
<1>7. CASE pc = "listen"
  <2>1. /\ bit = last /\ Spare > left + 1 + MaxDelay + Repeats
        /\ \A p \in net : /\ p.bit = bit
                          /\ p.to = "AC" => p.age >= EchoTimer - left
                          /\ p.to = "WTP" => p.age + MaxDelay >= EchoTimer - left
    BY <1>7 DEF Together, Listening
  <2>2. Spare' > left' + 1 + MaxDelay + Repeats'
    BY <2>1, <1>2, <1>3, <1>6, <1>v
  <2>3. ASSUME NEW q \in net'
        PROVE  /\ q.bit = bit'
               /\ q.to = "AC" => q.age >= EchoTimer - left'
               /\ q.to = "WTP" => q.age + MaxDelay >= EchoTimer - left'
    <3>1. PICK p \in net : q.to = p.to /\ q.bit = p.bit /\ q.age = p.age + 1
      BY <1>4
    <3> QED
      BY <3>1, <2>1, <1>1, <1>2, <1>v
  <2>4. Listening'
    BY <2>1, <2>2, <2>3, <1>1 DEF Listening
  <2> QED
    BY <2>4, <1>1, <1>7 DEF Together, Asking, Answered, WtpRuns, AcRuns
<1>8. CASE pc = "wait"
  <2>1. Apart(net, try)
    BY <1>8, Waiting
  <2>2. Tries(net') = Tries(net)
    <3>1. \A p \in net : Older(p) \in net' /\ Older(p).try = p.try
      BY <1>1, <1>v, OlderType
    <3> QED
      BY <3>1, <1>4 DEF Tries
  <2>3. Apart(net', try)
    <3>1. \A q \in net' : q.try \in 1 .. try
      BY <2>1, <1>4 DEF Apart
    <3>2. ASSUME NEW q \in net', NEW r \in net', q.try = r.try PROVE q = r
      <4>1. PICK p \in net : q.try = p.try /\ q = Older(p)
        BY <1>4
      <4>2. PICK o \in net : r.try = o.try /\ r = Older(o)
        BY <1>4
      <4>3. p = o
        BY <3>2, <4>1, <4>2, <2>1 DEF Apart
      <4> QED
        BY <4>1, <4>2, <4>3
    <3> QED
      BY <3>1, <3>2 DEF Apart
  <2>4. Apart(net, try)' /\ Missing' = Missing
    BY <2>2, <2>3, <1>1 DEF Missing, LostOf, Apart, Tries
  <2>5. UNCHANGED AllRepeats
    BY <2>4, <1>1 DEF AllRepeats
  <2>6. Asking'
    <3> SUFFICES ASSUME bit # last PROVE Asking'
      BY <1>1 DEF Asking
    <3>1. /\ Missing <= lost /\ Spare + Elapsed > MaxDelay + AllRepeats
          /\ \A p \in net : p.to = "AC" /\ p.bit = bit /\ p.age = SentAgo(p)
      BY <1>8 DEF Together, Asking
    <3>2. ASSUME NEW q \in net'
          PROVE  q.to = "AC" /\ q.bit = bit' /\ q.age = SentAgo(q)'
      <4>1. PICK p \in net : q.to = p.to /\ q.bit = p.bit /\ q.try = p.try /\ q.age = p.age + 1
        BY <1>4
      <4> QED
        BY <4>1, <3>1, <1>1, <1>5
    <3> QED
      BY <3>1, <3>2, <2>4, <2>5, <1>1, <1>6 DEF Asking
  <2>7. Answered'
    <3> SUFFICES ASSUME bit = last PROVE Answered'
      BY <1>1 DEF Answered
    <3>1. /\ Missing <= MaxLosses + lost /\ Spare + Elapsed > 3 * MaxDelay + WtpEcho + AllRepeats
          /\ \A p \in net : /\ p.bit = bit
                            /\ p.to = "AC" => p.age = SentAgo(p)
                            /\ p.to = "WTP" => p.age + MaxDelay >= SentAgo(p)
      BY <1>8 DEF Together, Answered
    <3>2. ASSUME NEW q \in net'
          PROVE  /\ q.bit = bit'
                 /\ q.to = "AC" => q.age = SentAgo(q)'
                 /\ q.to = "WTP" => q.age + MaxDelay >= SentAgo(q)'
      <4>1. PICK p \in net : q.to = p.to /\ q.bit = p.bit /\ q.try = p.try /\ q.age = p.age + 1
        BY <1>4
      <4>2. SentAgo(q)' = SentAgo(p) + 1
        BY <4>1, <1>5
      <4> QED
        BY <4>1, <4>2, <3>1, <1>1, <1>v
    <3> QED
      BY <3>1, <3>2, <2>4, <2>5, <1>1, <1>6 DEF Answered
  <2> QED
    BY <2>6, <2>7, <1>1, <1>8 DEF Together, Listening, WtpRuns, AcRuns
<1> QED
  BY <1>7, <1>8 DEF Together, WtpRuns

\* A step that changes none of these, nor what is spared.
LEMMA StaySame ==
    ASSUME Together, UNCHANGED <<pc, left, try, bit, ac, last, net, lost, Spare>>
    PROVE  Together'
<1>1. /\ UNCHANGED <<Since, Elapsed, Repeats, Missing, AllRepeats>>
      /\ Apart(net, try)' <=> Apart(net, try)
      /\ \A p : SentAgo(p)' = SentAgo(p)
  BY DEF Since, Elapsed, Repeats, Missing, AllRepeats, SentAgo, Apart, LostOf, Tries
<1> QED
  BY <1>1 DEF Together, Listening, Asking, Answered, WtpRuns, AcRuns

\* A second at the controller, which its WTP is ahead of by then.
LEMMA StayAcTick ==
    ASSUME EndInv, Together, AcTick PROVE Together'
<1>1. /\ turn = "ac" /\ turn' = "wtp"
      /\ acLeft' = IF Expired(acLeft) THEN acLeft ELSE acLeft - 1
      /\ UNCHANGED <<pc, left, try, bit, ac, last, net, lost>>
  BY DEF AcTick, wtp
<1>2. Spare' = Spare
  BY <1>1, TimerRuns, Values DEF Spare, Behind
<1> QED
  BY <1>1, <1>2, StaySame

\* Every step keeps StayInv.
LEMMA StayStep ==
    ASSUME EndInv, Enough, StayInv, [Next]_vars PROVE StayInv'
<1>e. EndInv'
  BY EndStep
<1>0. CASE pc = "stopped" \/ ac = "crashed"
  <2>1. pc = "stopped" => pc' = "stopped"
    BY DEF Next, vars, wtp, WtpReadsNothing, SendEcho, SendAgain, WtpGivesUp, TakeAnswer,
           TakeSecondAnswer, WtpStops, AcReadsNothing, AcAnswers, AcAnswersAgain,
           AcCrashes, Lose, WtpTick, AcTick, WtpRuns
  <2>2. ac = "crashed" => ac' = "crashed"
    BY DEF Next, vars, controller, WtpReadsNothing, SendEcho, SendAgain, WtpGivesUp, TakeAnswer,
           TakeSecondAnswer, WtpStops, AcReadsNothing, AcAnswers, AcAnswersAgain,
           AcCrashes, Lose, WtpTick, AcTick, AcRuns
  <2> QED
    BY <1>0, <2>1, <2>2 DEF StayInv
<1> SUFFICES ASSUME Together PROVE StayInv'
  BY <1>0 DEF StayInv
<1>u. ASSUME UNCHANGED <<pc, left, try, bit, ac, acLeft, last, net, lost, turn>>
      PROVE  StayInv'
  BY <1>u, StaySame DEF StayInv, Spare, Behind
<1>1. CASE WtpReadsNothing
  BY <1>1, <1>u DEF WtpReadsNothing, wtp, controller
<1>2. CASE SendEcho
  BY <1>2, StaySendEcho DEF StayInv
<1>3. CASE SendAgain
  BY <1>3, StaySendAgain DEF StayInv
<1>4. CASE WtpGivesUp
  BY <1>4, Unanswered DEF WtpGivesUp
<1>5. CASE TakeAnswer
  BY <1>5, StayTakeAnswer DEF StayInv
<1>6. CASE TakeSecondAnswer
  BY <1>6, StayTakeSecondAnswer DEF StayInv
<1>7. CASE WtpStops
  BY <1>7 DEF WtpStops, StayInv
<1>8. CASE AcReadsNothing
  BY <1>8, <1>u, TimerRuns DEF AcReadsNothing, ReadOn, wtp
<1>9. CASE AcAnswers
  BY <1>9, StayAcAnswers DEF StayInv
<1>10. CASE AcAnswersAgain
  BY <1>10, StayAcAnswersAgain DEF StayInv
<1>11. CASE AcCrashes
  BY <1>11 DEF AcCrashes, StayInv
<1>12. CASE Lose
  BY <1>12, <1>e, StayLose DEF StayInv
<1>13. CASE WtpTick
  BY <1>13, <1>e, StayWtpTick DEF StayInv
<1>14. CASE AcTick
  BY <1>14, StayAcTick DEF StayInv
<1>15. CASE UNCHANGED vars
  BY <1>15, <1>u DEF vars
<1> QED
  BY <1>1, <1>2, <1>3, <1>4, <1>5, <1>6, <1>7, <1>8, <1>9, <1>10, <1>11,
     <1>12, <1>13, <1>14, <1>15 DEF Next

\* SessionSurvives: an interval of the controller that is longer by what delays
\* and losses take keeps both ends together, for all values of the timers, any
\* number of packets of a request under way at a time, and answers that are
\* overtaken or come twice (run of wtp/run.c, wtpman_main of ac/wtpman.c).
THEOREM Survival == Spec => []SessionSurvives
<1> DEFINE Stays == Enough => StayInv
<1>1. Init => Stays
  BY StayInit
<1>2. EndInv /\ Stays /\ [Next]_vars => Stays'
  <2>1. Enough' <=> Enough
    BY DEF Enough
  <2> QED
    BY <2>1, StayStep
<1>3. Stays => SessionSurvives
  BY DEF StayInv, Together, WtpRuns, AcRuns, SessionSurvives
<1> HIDE DEF Stays
<1> QED
  BY <1>1, <1>2, <1>3, EndInit, EndStep, PTL DEF Spec
==============================================================================
