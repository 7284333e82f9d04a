---------------------------- MODULE WtpSessionProofs ----------------------------
(***************************************************************************)
(* Proofs about WtpSession: the tables cover every transition, and past    *)
(* JOIN the session's timer is exactly as patient as it promises.          *)
(*                                                                         *)
(* The inductive invariant says, for every place the thread can be in,     *)
(* which transition <<prev, state>> it holds and how the seconds of        *)
(* silence relate to the seconds left.  That a timer which expired is      *)
(* always seen with a negative rc past JOIN, the heart of the matter,      *)
(* rests on Fresh: between the arming and the first read at most one       *)
(* second passes.                                                          *)
(***************************************************************************)
EXTENDS WtpSession, TLAPS

\* The transitions in which the thread serves the WTP, and those that end it.
Live == {<<"DTLS_SETUP", "JOIN">>, <<"JOIN", "JOIN">>, <<"JOIN", "CONFIGURE">>,
         <<"CONFIGURE", "DATA_CHECK">>, <<"DATA_CHECK", "RUN">>, <<"RUN", "RUN">>}

Dying == {<<"JOIN", "TIMEOUT">>, <<"CONFIGURE", "TIMEOUT">>,
          <<"DATA_CHECK", "TIMEOUT">>, <<"RUN", "TIMEOUT">>}

TransitionInv ==
    /\ pc \in {"start", "discovery", "accept"} =>
          state \in {"NONE", "DISCOVERY", "DTLS_SETUP", "JOIN"}
    /\ pc \in {"timer", "read"} =>
          <<prev, state>> \in Live /\ ~ Jumps(prev, state)
    /\ pc = "decide" => <<prev, state>> \in Live
    /\ pc = "machine" =>
          \/ <<prev, state>> \in Live /\ rc = 0
          \/ <<prev, state>> \in Dying /\ rc = -1
    /\ pc = "machine" /\ left = Unset => <<prev, state>> = <<"DTLS_SETUP", "JOIN">>

Step == IF ticked THEN 1 ELSE 0

\* The timer is armed at most three seconds after the message.
Patient ==
    /\ left <= Limit(state)
    /\ Limit(state) - left <= quiet

Fresh == rc = 0 => Limit(state) - Step <= left

TimeInv ==
    /\ pc = "machine" /\ PastJoin =>
          quiet <= (IF Jumps(prev, state) THEN 1 ELSE 2) + Step
    /\ pc = "timer" /\ PastJoin =>
          /\ Patient /\ Fresh
          /\ rc = -1 => errno = "EAGAIN"
          /\ quiet <= 3 + (Limit(state) - left) + (IF left = Expired THEN Step ELSE 0)
    /\ pc = "read" /\ PastJoin =>
          /\ Patient
          /\ quiet <= 3 + (Limit(state) - left)
          /\ left = Expired => ticked
    /\ pc = "decide" /\ PastJoin /\ rc = 0 => quiet <= Step
    /\ pc = "decide" /\ PastJoin /\ rc = -1 =>
          /\ quiet <= 5 + Limit(state) + Step
          /\ errno = "EAGAIN" => Limit(state) < quiet
    /\ pc = "machine" /\ state = "TIMEOUT" /\ prev # "JOIN" =>
          quiet <= 6 + Limit(prev) + Step

Inv == TypeOK /\ TimerArmed /\ TransitionInv /\ TimeInv

------------------------------------------------------------------------------
LEMMA Limits ==
    ASSUME NEW s
    PROVE  /\ Limit(s) \in Nat \ {0}
           /\ Limit(s) + Slack < Patience
<1>1. Limit(s) \in {ChangeStatePending, DataCheck, EchoInterval}
  BY DEF Limit
<1> QED
  BY <1>1, SessionAssumption, SMT DEF Slack

LEMMA Bounds ==
    /\ Patience \in Nat /\ MaxMessages \in Nat
    /\ WaitJoin \in Nat \ {0} /\ DiscoveryTime \in Nat \ {0}
BY SessionAssumption

LEMMA InitInv == Init => Inv
<1> SUFFICES ASSUME Init PROVE Inv
  OBVIOUS
<1>1. TypeOK
  <2>1. quiet \in 0 .. Patience /\ sent \in 0 .. MaxMessages /\ rc \in {-1, 0}
    BY Bounds DEF Init
  <2>2. left \in {Unset, Expired} \cup Nat
    BY DEF Init
  <2>3. ticked \in BOOLEAN /\ dtlsmode \in BOOLEAN /\ cisco \in BOOLEAN
    BY DEF Init
  <2> QED
    BY <2>1, <2>2, <2>3 DEF Init, TypeOK, States
<1>2. TimerArmed /\ TransitionInv /\ TimeInv
  BY DEF Init, TimerArmed, TransitionInv, TimeInv
<1> QED
  BY <1>1, <1>2 DEF Inv

\* Before the state machine nothing but the types and the state matters.
LEMMA EarlyStep ==
    ASSUME Inv,
           RunDiscovery \/ Discover \/ DiscoverNothing \/ DiscoveryEnds
             \/ RejectMulti \/ DtlsSetup \/ Accepted \/ AcceptFails
    PROVE  Inv'
<1> USE DEF RunDiscovery, Discover, DiscoverNothing, DiscoveryEnds,
            RejectMulti, DtlsSetup, Accepted, AcceptFails, Started
<1>1. TypeOK'
  <2>1. quiet' \in 0 .. Patience /\ sent' \in 0 .. MaxMessages
    BY Bounds DEF Inv, TypeOK
  <2>2. left' \in {Unset, Expired} \cup Nat
    BY Bounds DEF Inv, TypeOK
  <2>3. /\ ticked' \in BOOLEAN /\ dtlsmode' \in BOOLEAN /\ cisco' \in BOOLEAN
        /\ rc' \in {-1, 0}
    BY DEF Inv, TypeOK
  <2>4. prev' \in States /\ state' \in States
    BY DEF Inv, TypeOK, States
  <2> QED
    BY <2>1, <2>2, <2>3, <2>4 DEF Inv, TypeOK
<1>2. pc' \in {"discovery", "accept", "machine", "removed"}
  OBVIOUS
<1>3. TimerArmed'
  BY <1>2 DEF TimerArmed
<1>4. TransitionInv'
  BY DEF Inv, TransitionInv, Live
<1>5. TimeInv'
  BY DEF TimeInv, PastJoin
<1> QED
  BY <1>1, <1>3, <1>4, <1>5 DEF Inv

\* The types of the loop's steps.
LEMMA LoopTypes == ASSUME Inv, Loop \/ Tick PROVE TypeOK'
<1> USE DEF Loop, Jump, RunStateMachine, CheckTimer, Decide, ReadNothing,
            ReadRequest, ReadResponse, ReadFails, Tick, Started
<1>1. quiet' \in 0 .. Patience /\ sent' \in 0 .. MaxMessages
  BY Bounds DEF Inv, TypeOK
<1>2. left' \in {Unset, Expired} \cup Nat
  <2>1. \A e \in BaseMachine : e.timer \in Nat
    BY SessionAssumption DEF BaseMachine, Entry, NoTimer
  <2>2. CASE RunStateMachine
    <3> DEFINE entries == Lookup(prev, state)
    <3>1. CASE \E e \in entries : e.timer # NoTimer
      <4>1. (CHOOSE e \in entries : TRUE) \in entries
        BY <3>1
      <4> QED
        BY <4>1, <3>1, <2>1, <2>2 DEF Lookup
    <3>2. CASE ~ \E e \in entries : e.timer # NoTimer
      BY <3>2, <2>2 DEF Inv, TypeOK
    <3> QED
      BY <3>1, <3>2
  <2>3. CASE Tick
    BY <2>3 DEF Inv, TypeOK, Expired, Unset
  <2>4. CASE left' = left
    BY <2>4 DEF Inv, TypeOK
  <2> QED
    BY <2>2, <2>3, <2>4
<1>3. /\ ticked' \in BOOLEAN /\ dtlsmode' \in BOOLEAN /\ cisco' \in BOOLEAN
      /\ rc' \in {-1, 0} /\ errno' \in {"none", "EAGAIN", "ECONNRESET"}
  BY DEF Inv, TypeOK
<1>4. prev' \in States /\ state' \in States
  BY DEF Inv, TypeOK, States, Requests
<1>5. pc' \in {"start", "discovery", "accept", "machine", "timer", "read",
               "decide", "removed"}
  BY DEF Inv, TypeOK
<1> QED
  BY <1>1, <1>2, <1>3, <1>4, <1>5 DEF TypeOK

------------------------------------------------------------------------------
(* What the tables say *)

\* The entry of a transition and its two values, when there is only one.
OnlyEntry(p, s, timer, retval) == Lookup(p, s) = {Entry(p, s, timer, retval)}

LEMMA TheTables ==
    /\ OnlyEntry("DTLS_SETUP", "JOIN", WaitJoin, 1)
    /\ OnlyEntry("JOIN", "JOIN", NoTimer, 1)
    /\ OnlyEntry("JOIN", "CONFIGURE", ChangeStatePending, 1)
    /\ OnlyEntry("CONFIGURE", "DATA_CHECK", DataCheck, 1)
    /\ OnlyEntry("DATA_CHECK", "RUN", EchoInterval, 1)
    /\ OnlyEntry("RUN", "RUN", EchoInterval, 1)
    /\ OnlyEntry("JOIN", "TIMEOUT", NoTimer, 0)
    /\ OnlyEntry("CONFIGURE", "TIMEOUT", NoTimer, 0)
    /\ OnlyEntry("DATA_CHECK", "TIMEOUT", NoTimer, 0)
    /\ OnlyEntry("RUN", "TIMEOUT", NoTimer, 0)
BY DEF OnlyEntry, Lookup, BaseMachine, Entry

\* What RunStateMachine does with it.
LEMMA RunEntry ==
    ASSUME RunStateMachine
    PROVE  /\ ticked' = FALSE
           /\ UNCHANGED <<dtlsmode, cisco, prev, state, rc, errno, sent, quiet>>
           /\ \A timer, retval : OnlyEntry(prev, state, timer, retval) =>
                 /\ left' = IF timer # NoTimer THEN timer ELSE left
                 /\ pc' = IF retval = 1 THEN "timer" ELSE "removed"
<1>1. /\ ticked' = FALSE
      /\ UNCHANGED <<dtlsmode, cisco, prev, state, rc, errno, sent, quiet>>
  BY DEF RunStateMachine, Started
<1>2. ASSUME NEW timer, NEW retval, OnlyEntry(prev, state, timer, retval)
      PROVE  /\ left' = IF timer # NoTimer THEN timer ELSE left
             /\ pc' = IF retval = 1 THEN "timer" ELSE "removed"
  <2> DEFINE e0 == Entry(prev, state, timer, retval)
  <2>1. Lookup(prev, state) = {e0}
    BY <1>2 DEF OnlyEntry
  <2>2. e0.timer = timer /\ e0.retval = retval
    BY DEF Entry
  <2>3. (CHOOSE e \in Lookup(prev, state) : TRUE) = e0
    BY <2>1
  <2> QED
    BY <2>1, <2>2, <2>3 DEF RunStateMachine, Started
<1> QED
  BY <1>1, <1>2

LEMMA RunStateMachineStep ==
    ASSUME Inv, RunStateMachine PROVE TimerArmed' /\ TransitionInv' /\ TimeInv'
<1>0. pc = "machine" /\ ~ Jumps(prev, state)
  BY DEF RunStateMachine
<1>1. CASE <<prev, state>> \in Dying
  <2>1. OnlyEntry(prev, state, NoTimer, 0)
    BY <1>1, TheTables DEF Dying
  <2>2. pc' = "removed"
    BY <2>1, RunEntry
  <2> QED
    BY <2>2 DEF TimerArmed, TransitionInv, TimeInv
<1>2. CASE <<prev, state>> \in Live
  <2>1. ~ Jumps(prev, state)'
    BY <1>0 DEF Jumps, RunStateMachine
  <2>2. CASE state = "JOIN"
    <3>1. PICK timer \in {WaitJoin, NoTimer} :
            /\ OnlyEntry(prev, state, timer, 1)
            /\ prev # "JOIN" => timer = WaitJoin
      BY <1>2, <2>2, TheTables DEF Live
    <3>2. /\ left' = IF timer # NoTimer THEN timer ELSE left
          /\ pc' = "timer"
          /\ UNCHANGED <<prev, state>>
      BY <3>1, RunEntry
    <3>3. left' # Unset
      BY <3>1, <3>2, <1>0, Bounds DEF Inv, TransitionInv, NoTimer, Unset
    <3>4. ~ PastJoin'
      BY <3>2, <2>2 DEF PastJoin
    <3>5. TimerArmed' /\ TransitionInv'
      BY <3>2, <3>3, <2>1, <1>2 DEF TimerArmed, TransitionInv
    <3>6. TimeInv'
      BY <3>2, <3>4 DEF TimeInv
    <3> QED
      BY <3>5, <3>6
  <2>3. CASE state # "JOIN"
    <3>1. PastJoin /\ OnlyEntry(prev, state, Limit(state), 1)
      BY <1>2, <2>3, TheTables DEF Live, PastJoin, Limit
    <3>2. Limit(state) \in Nat \ {0}
      BY Limits
    <3>3. /\ left' = Limit(state) /\ pc' = "timer" /\ ~ ticked'
          /\ UNCHANGED <<cisco, prev, state, rc, errno, quiet>>
      BY <3>1, <3>2, RunEntry DEF NoTimer
    <3>4. quiet <= 3 /\ quiet \in Nat /\ rc = 0
      BY <1>0, <3>1, <1>2 DEF Inv, TimeInv, TransitionInv, TypeOK, Step, Dying, PastJoin
    <3>5. TimerArmed' /\ TransitionInv'
      BY <3>2, <3>3, <1>2, <1>0 DEF TimerArmed, TransitionInv, Jumps, Unset
    <3>6. Limit(state)' = Limit(state)
      BY <3>3
    <3>7. TimeInv'
      BY <3>2, <3>3, <3>4, <3>6 DEF TimeInv, Patient, Fresh, Step
    <3> QED
      BY <3>5, <3>7
  <2> QED
    BY <2>2, <2>3
<1> QED
  BY <1>0, <1>1, <1>2 DEF Inv, TransitionInv

LEMMA JumpStep == ASSUME Inv, Jump PROVE TimerArmed' /\ TransitionInv' /\ TimeInv'
<1>1. /\ pc = "machine" /\ pc' = "machine" /\ ~ ticked'
      /\ <<prev', state'>> = <<"DATA_CHECK", "RUN">>
      /\ <<prev, state>> = <<"CONFIGURE", "DATA_CHECK">>
      /\ UNCHANGED <<rc, left, quiet>>
  BY DEF Jump, Started, Jumps
<1>2. rc = 0 /\ left # Unset
  BY <1>1 DEF Inv, TransitionInv, Dying
<1>3. quiet <= 2 /\ quiet \in Nat
  BY <1>1 DEF Inv, TimeInv, PastJoin, Jump, Step, TypeOK
<1>4. TimerArmed' /\ TransitionInv'
  BY <1>1, <1>2 DEF TimerArmed, TransitionInv, Live
<1>5. ~ Jumps(prev, state)'
  BY <1>1 DEF Jumps
<1>6. TimeInv'
  BY <1>1, <1>3, <1>5 DEF TimeInv, Step
<1> QED
  BY <1>4, <1>6

------------------------------------------------------------------------------
(* The steps of the inner loop *)

LEMMA CheckTimerStep ==
    ASSUME Inv, CheckTimer PROVE TimerArmed' /\ TransitionInv' /\ TimeInv'
<1>1. /\ pc = "timer" /\ ~ ticked'
      /\ pc' = IF left = Expired THEN "decide" ELSE "read"
      /\ UNCHANGED <<cisco, prev, state, rc, errno, left, quiet>>
  BY DEF CheckTimer, Started
<1>2. TimerArmed' /\ TransitionInv'
  BY <1>1 DEF Inv, TimerArmed, TransitionInv, Jumps
<1>3. TimeInv'
  <2>1. CASE ~ PastJoin
    BY <2>1, <1>1 DEF TimeInv, PastJoin
  <2>2. CASE PastJoin
    <3>1. /\ Limit(state) \in Nat \ {0} /\ Limit(state)' = Limit(state)
          /\ PastJoin'
      BY <1>1, <2>2, Limits DEF PastJoin
    <3>2. /\ Patient /\ Fresh
          /\ rc = -1 => errno = "EAGAIN"
          /\ quiet <= 3 + (Limit(state) - left) + (IF left = Expired THEN Step ELSE 0)
      BY <1>1, <2>2 DEF Inv, TimeInv
    <3>3. left \in {Unset, Expired} \cup Nat /\ quiet \in Nat
      BY DEF Inv, TypeOK
    <3> DEFINE T == Limit(state)
    <3>a. Step \in {0, 1} /\ Step' = 0
      BY <1>1 DEF Step
    <3>b. pc' # "timer" /\ pc' # "machine"
      BY <1>1
    <3>4. CASE left = Expired
      <4>1. pc' = "decide" /\ left = -1
        BY <1>1, <3>4 DEF Expired
      <4>2. ~ (T - Step <= left)
        <5> HIDE DEF T
        <5>1. T \in Nat \ {0}
          BY <3>1 DEF T
        <5> QED
          BY <5>1, <3>a, <4>1
      <4>3. rc # 0 /\ rc' # 0
        BY <4>2, <3>2, <1>1 DEF Fresh
      <4>4. T - left <= quiet /\ quiet <= 3 + (T - left) + Step
        BY <3>2, <3>4 DEF Patient
      <4>5. quiet <= 5 + T /\ T < quiet
        <5> HIDE DEF T
        <5>1. T \in Nat \ {0}
          BY <3>1 DEF T
        <5> QED
          BY <5>1, <3>a, <3>3, <4>1, <4>4
      <4> QED
        BY <4>1, <4>3, <4>5, <3>a, <3>b, <3>1, <1>1 DEF TimeInv
    <3>5. CASE left # Expired
      <4>1. pc' = "read"
        BY <1>1, <3>5
      <4>2. Patient /\ quiet <= 3 + (T - left)
        <5> HIDE DEF T
        <5>1. T \in Nat \ {0}
          BY <3>1 DEF T
        <5>2. quiet <= 3 + (T - left) + 0
          BY <3>2, <3>5 DEF T
        <5> QED
          BY <5>1, <5>2, <3>2, <3>3 DEF Unset, Expired
      <4>3. Patient'
        BY <4>2, <3>1, <1>1 DEF Patient
      <4> QED
        BY <4>1, <4>2, <4>3, <3>1, <3>5, <1>1 DEF TimeInv
    <3> QED
      BY <3>4, <3>5
  <2> QED
    BY <2>1, <2>2
<1> QED
  BY <1>2, <1>3

LEMMA ReadNothingStep ==
    ASSUME Inv, ReadNothing PROVE TimerArmed' /\ TransitionInv' /\ TimeInv'
<1>1. /\ pc = "read" /\ pc' = "timer" /\ ~ ticked' /\ rc' = -1 /\ errno' = "EAGAIN"
      /\ UNCHANGED <<cisco, prev, state, left, quiet>>
  BY DEF ReadNothing, Started
<1>2. TimerArmed' /\ TransitionInv'
  BY <1>1 DEF Inv, TimerArmed, TransitionInv, Jumps
<1>3. TimeInv'
  <2>1. CASE ~ PastJoin
    BY <2>1, <1>1 DEF TimeInv, PastJoin
  <2>2. CASE PastJoin
    <3>1. Limit(state)' = Limit(state) /\ PastJoin'
      BY <1>1, <2>2 DEF PastJoin
    <3>2. Patient /\ quiet <= 3 + (Limit(state) - left)
      BY <1>1, <2>2 DEF Inv, TimeInv
    <3>3. Patient' /\ Fresh' /\ Step' = 0
      BY <1>1, <3>1, <3>2 DEF Patient, Fresh, Step
    <3>4. 3 + (Limit(state) - left) + 0 = 3 + (Limit(state) - left)
      BY Limits DEF Inv, TypeOK, Unset, Expired
    <3> QED
      BY <1>1, <3>1, <3>2, <3>3, <3>4 DEF TimeInv
  <2> QED
    BY <2>1, <2>2
<1> QED
  BY <1>2, <1>3

LEMMA ReadMessageStep ==
    ASSUME Inv, ReadRequest \/ ReadResponse
    PROVE  TimerArmed' /\ TransitionInv' /\ TimeInv'
<1>1. /\ pc = "read" /\ pc' = "decide" /\ ~ ticked' /\ rc' = 0 /\ quiet' = 0
      /\ UNCHANGED <<cisco, left>>
  BY DEF ReadRequest, ReadResponse, Started
<1>2. <<prev', state'>> \in Live
  <2>1. CASE ReadRequest
    BY <2>1 DEF ReadRequest, Requests, Live
  <2>2. CASE ReadResponse
    BY <2>2 DEF ReadResponse, Inv, TransitionInv
  <2> QED
    BY <2>1, <2>2
<1> QED
  BY <1>1, <1>2 DEF Inv, TimerArmed, TransitionInv, TimeInv, Step

LEMMA ReadFailsStep ==
    ASSUME Inv, ReadFails PROVE TimerArmed' /\ TransitionInv' /\ TimeInv'
<1>1. /\ pc = "read" /\ pc' = "decide" /\ ~ ticked'
      /\ rc' = -1 /\ errno' = "ECONNRESET"
      /\ UNCHANGED <<cisco, prev, state, left, quiet>>
  BY DEF ReadFails, Started
<1>2. TimerArmed' /\ TransitionInv'
  BY <1>1 DEF Inv, TimerArmed, TransitionInv
<1>3. PastJoin => quiet <= 5 + Limit(state)
  BY <1>1, Limits DEF Inv, TimeInv, TypeOK, Expired, Unset, TimerArmed
<1>4. TimeInv'
  BY <1>1, <1>3, Limits DEF Inv, TimeInv, PastJoin, Step, TypeOK
<1> QED
  BY <1>2, <1>4

LEMMA DecideStep ==
    ASSUME Inv, Decide PROVE TimerArmed' /\ TransitionInv' /\ TimeInv'
<1>1. /\ pc = "decide" /\ pc' = "machine" /\ ~ ticked'
      /\ UNCHANGED <<cisco, rc, left, quiet>>
  BY DEF Decide, Started
<1>2. <<prev, state>> \in Live /\ left # Unset /\ rc \in {-1, 0} /\ quiet \in Nat
  BY <1>1 DEF Inv, TransitionInv, TimerArmed, TypeOK
<1>3. CASE rc = 0
  <2>1. UNCHANGED <<prev, state>>
    BY <1>3 DEF Decide
  <2>2. TimerArmed' /\ TransitionInv'
    BY <1>1, <1>2, <1>3, <2>1 DEF TimerArmed, TransitionInv
  <2>3. PastJoin => quiet <= 1
    BY <1>1, <1>2, <1>3 DEF Inv, TimeInv, Step
  <2>4. state # "TIMEOUT"
    BY <1>2 DEF Live
  <2>5. TimeInv'
    BY <1>1, <1>2, <2>1, <2>3, <2>4 DEF TimeInv, PastJoin, Step
  <2> QED
    BY <2>2, <2>5
<1>4. CASE rc = -1
  <2>1. prev' = state /\ state' = "TIMEOUT"
    BY <1>4 DEF Decide
  <2>2. <<prev', state'>> \in Dying
    BY <2>1, <1>2 DEF Live, Dying
  <2>3. TimerArmed' /\ TransitionInv'
    BY <1>1, <1>2, <1>4, <2>2 DEF TimerArmed, TransitionInv
  <2>4. state # "JOIN" => quiet <= 6 + Limit(state)
    BY <1>1, <1>2, <1>4, Limits DEF Inv, TimeInv, PastJoin, Live, Step
  <2>5. TimeInv'
    BY <1>1, <1>2, <2>1, <2>4, Limits DEF TimeInv, PastJoin, Step
  <2> QED
    BY <2>3, <2>5
<1> QED
  BY <1>2, <1>3, <1>4

------------------------------------------------------------------------------
(* A second passes *)

LEMMA TickStep == ASSUME Inv, Tick PROVE TimerArmed' /\ TransitionInv' /\ TimeInv'
<1>1. /\ ~ ticked /\ ticked'
      /\ left' = IF left \in {Unset, Expired} THEN left ELSE left - 1
      /\ quiet' = IF quiet < Patience THEN quiet + 1 ELSE quiet
      /\ UNCHANGED <<pc, cisco, prev, state, rc, errno>>
  BY DEF Tick, Inv, TypeOK
<1>2. /\ Step = 0 /\ Step' = 1
      /\ left \in {-2, -1} \cup Nat /\ quiet \in Nat
      /\ UNCHANGED <<PastJoin, Limit(state), Limit(prev), Jumps(prev, state)>>
  BY <1>1 DEF Step, Inv, TypeOK, Unset, Expired, PastJoin, Jumps
<1>3. TimerArmed' /\ TransitionInv'
  BY <1>1, <1>2 DEF Inv, TimerArmed, TransitionInv, Jumps, Unset, Expired
<1>4. quiet' <= quiet + 1 /\ quiet <= quiet'
  BY <1>1, <1>2 DEF Inv, TypeOK
<1>5. ASSUME pc = "machine", PastJoin
      PROVE  quiet' <= (IF Jumps(prev, state) THEN 1 ELSE 2) + Step'
  BY <1>5, <1>1, <1>2, <1>4 DEF Inv, TimeInv, TypeOK
<1>6. ASSUME pc \in {"timer", "read"}, PastJoin
      PROVE  /\ left \in {-1} \cup Nat
             /\ Limit(state) \in Nat /\ Limit(state) + 7 < Patience
             /\ left <= Limit(state) /\ Limit(state) - left <= quiet
             /\ quiet <= 3 + (Limit(state) - left)
             /\ quiet' = quiet + 1
             /\ left' = IF left = -1 THEN -1 ELSE left - 1
  <2>1. left \in {-1} \cup Nat
    BY <1>6, <1>2 DEF Inv, TimerArmed, Unset
  <2>2. Limit(state) \in Nat /\ Limit(state) + 7 < Patience /\ Patience \in Nat
    BY Limits, Bounds DEF Slack
  <2>3. left <= Limit(state) /\ Limit(state) - left <= quiet
    BY <1>6 DEF Inv, TimeInv, Patient
  <2>4. quiet <= 3 + (Limit(state) - left)
    BY <1>6, <1>2, <2>1, <2>2 DEF Inv, TimeInv
  <2>5. left' = IF left = -1 THEN -1 ELSE left - 1
    BY <1>1, <2>1 DEF Unset, Expired
  <2>6. quiet < Patience
    BY <1>2, <2>1, <2>2, <2>4
  <2> QED
    BY <1>1, <2>1, <2>2, <2>3, <2>4, <2>5, <2>6
<1>7. ASSUME pc \in {"timer", "read"}, PastJoin
      PROVE  /\ left' <= Limit(state) /\ Limit(state) - left' <= quiet'
             /\ quiet' <= 3 + (Limit(state) - left') + (IF left' = -1 THEN 1 ELSE 0)
             /\ pc = "read" => quiet' <= 3 + (Limit(state) - left')
  <2>1. pc = "read" => left # -1
    BY <1>7, <1>1 DEF Inv, TimeInv, Expired
  <2> QED
    BY <1>6, <1>7, <1>2, <2>1
<1>8. ASSUME pc = "timer", PastJoin PROVE Limit(state) - 1 <= left' \/ rc # 0
  <2>1. rc = 0 => Limit(state) - 0 <= left
    BY <1>8, <1>2 DEF Inv, TimeInv, Fresh
  <2>2. Limit(state) >= 1
    BY Limits
  <2> QED
    BY <1>6, <1>8, <2>1, <2>2
<1>9. ASSUME pc = "decide", PastJoin, rc = 0 PROVE quiet' <= 1
  BY <1>9, <1>2, <1>4 DEF Inv, TimeInv
<1>10. ASSUME pc = "decide", PastJoin, rc = -1
       PROVE  /\ quiet' <= 5 + Limit(state) + 1
              /\ errno = "EAGAIN" => Limit(state) < quiet'
  <2>1. /\ quiet <= 5 + Limit(state) + 0
        /\ errno = "EAGAIN" => Limit(state) < quiet
    BY <1>10, <1>2 DEF Inv, TimeInv
  <2>2. Limit(state) \in Nat /\ quiet' \in Nat
    BY <1>1, <1>2, Limits
  <2> QED
    BY <2>1, <2>2, <1>2, <1>4
<1>11. ASSUME pc = "machine", state = "TIMEOUT", prev # "JOIN"
       PROVE  quiet' <= 6 + Limit(prev) + 1
  <2>1. quiet <= 6 + Limit(prev) + 0
    BY <1>11, <1>2 DEF Inv, TimeInv
  <2>2. Limit(prev) \in Nat /\ quiet' \in Nat
    BY <1>1, <1>2, Limits
  <2> QED
    BY <2>1, <2>2, <1>2, <1>4
<1>12. TimeInv'
  <2>1. pc' = "machine" /\ PastJoin' =>
          quiet' <= (IF Jumps(prev, state)' THEN 1 ELSE 2) + Step'
    BY <1>1, <1>2, <1>5
  <2>2. pc' = "timer" /\ PastJoin' =>
          /\ Patient' /\ Fresh'
          /\ rc' = -1 => errno' = "EAGAIN"
          /\ quiet' <= 3 + (Limit(state)' - left')
                         + (IF left' = Expired THEN Step' ELSE 0)
    BY <1>1, <1>2, <1>7, <1>8 DEF Inv, TimeInv, Patient, Fresh, Expired
  <2>3. pc' = "read" /\ PastJoin' =>
          /\ Patient'
          /\ quiet' <= 3 + (Limit(state)' - left')
          /\ left' = Expired => ticked'
    BY <1>1, <1>2, <1>7 DEF Patient
  <2>4. pc' = "decide" /\ PastJoin' /\ rc' = 0 => quiet' <= Step'
    BY <1>1, <1>2, <1>9
  <2>5. pc' = "decide" /\ PastJoin' /\ rc' = -1 =>
          /\ quiet' <= 5 + Limit(state)' + Step'
          /\ errno' = "EAGAIN" => Limit(state)' < quiet'
    BY <1>1, <1>2, <1>10
  <2>6. pc' = "machine" /\ state' = "TIMEOUT" /\ prev' # "JOIN" =>
          quiet' <= 6 + Limit(prev)' + Step'
    BY <1>1, <1>2, <1>11
  <2> QED
    BY <2>1, <2>2, <2>3, <2>4, <2>5, <2>6, Zenon DEF TimeInv
<1> QED
  BY <1>3, <1>12

------------------------------------------------------------------------------
(* The invariant, and what follows from it *)

LEMMA NextInv == Inv /\ [Next]_vars => Inv'
<1> SUFFICES ASSUME Inv, [Next]_vars PROVE Inv'
  OBVIOUS
<1>1. CASE RunDiscovery \/ Discover \/ DiscoverNothing \/ DiscoveryEnds
             \/ RejectMulti \/ DtlsSetup \/ Accepted \/ AcceptFails
  BY <1>1, EarlyStep
<1>2. CASE Loop \/ Tick
  <2>1. TimerArmed' /\ TransitionInv' /\ TimeInv'
    BY <1>2, JumpStep, RunStateMachineStep, CheckTimerStep, DecideStep,
       ReadNothingStep, ReadMessageStep, ReadFailsStep, TickStep DEF Loop
  <2> QED
    BY <1>2, <2>1, LoopTypes DEF Inv
<1>3. CASE UNCHANGED vars
  BY <1>3 DEF vars, Inv, TypeOK, TimerArmed, TransitionInv, TimeInv, Patient,
     Fresh, Step, PastJoin, Limit, Jumps
<1> QED
  BY <1>1, <1>2, <1>3 DEF Next, Thread

\* The invariant holds in every reachable state.
THEOREM Invariance == Spec => []Inv
BY InitInv, NextInv, PTL DEF Spec

\* The variables of a session keep their types (TypeOK).
THEOREM TypeCorrect == Spec => []TypeOK
<1>1. Inv => TypeOK
  BY DEF Inv
<1> QED
  BY <1>1, Invariance, PTL

\* cw_run_state_machine never says "State not found" (StateFound).
THEOREM TablesCover == Spec => []StateFound
<1>1. Inv => StateFound
  <2> SUFFICES ASSUME Inv, pc = "machine" PROVE Lookup(prev, state) # {}
    BY DEF StateFound
  <2>1. <<prev, state>> \in Live \cup Dying
    BY DEF Inv, TransitionInv
  <2> QED
    BY <2>1, TheTables DEF Live, Dying, OnlyEntry
<1> QED
  BY <1>1, Invariance, PTL

\* The loop of wtpman_main never looks at a timer that was not started
\* (TimerArmed).
THEOREM TimerStarted == Spec => []TimerArmed
<1>1. Inv => TimerArmed
  BY DEF Inv
<1> QED
  BY <1>1, Invariance, PTL

\* Past JOIN no WTP is timed out that was heard within the timer's time
\* (NoEarlyTimeout), whatever the timers' values.
THEOREM NotTooEarly == Spec => []NoEarlyTimeout
<1>1. Inv => NoEarlyTimeout
  <2> SUFFICES ASSUME Inv, pc = "decide", PastJoin, rc < 0, errno = "EAGAIN"
               PROVE  quiet > Limit(state)
    BY DEF NoEarlyTimeout
  <2>1. rc = -1
    BY DEF Inv, TypeOK
  <2>2. Limit(state) < quiet
    BY <2>1 DEF Inv, TimeInv
  <2>3. Limit(state) \in Nat /\ quiet \in Nat
    BY Limits DEF Inv, TypeOK
  <2> QED
    BY <2>2, <2>3
<1> QED
  BY <1>1, Invariance, PTL

\* Past JOIN a silent WTP's session is gone within the timer's time and seven
\* seconds (SilenceBounded), whatever the timers' values.
THEOREM NotTooLate == Spec => []SilenceBounded
<1>1. Inv => SilenceBounded
  <2> DEFINE s == IF state = "TIMEOUT" THEN prev ELSE state
  <2> SUFFICES ASSUME Inv, pc # "removed",
                      s \in {"CONFIGURE", "DATA_CHECK", "RUN"}
               PROVE  quiet <= Limit(s) + Slack
    BY DEF SilenceBounded
  <2>1. /\ quiet \in Nat /\ Limit(s) \in Nat /\ Step \in {0, 1}
        /\ left \in {-2, -1} \cup Nat
    BY Limits DEF Inv, TypeOK, Step, Unset, Expired
  <2>2. pc \in {"machine", "timer", "read", "decide"}
    BY DEF Inv, TypeOK, TransitionInv
  <2>3. CASE pc = "machine" /\ state = "TIMEOUT"
    <3>1. s = prev /\ prev # "JOIN"
      BY <2>3
    <3>2. quiet <= 6 + Limit(s) + Step
      BY <2>3, <3>1 DEF Inv, TimeInv
    <3> QED
      BY <2>1, <3>2 DEF Slack
  <2>4. CASE ~ (pc = "machine" /\ state = "TIMEOUT")
    <3>1. state # "TIMEOUT"
      BY <2>2, <2>4 DEF Inv, TransitionInv, Live
    <3>2. PastJoin /\ s = state
      BY <3>1 DEF PastJoin
    <3>3. CASE pc = "machine"
      <4>1. quiet <= 2 + Step
        BY <3>2, <3>3, <2>1 DEF Inv, TimeInv
      <4> QED
        BY <2>1, <4>1 DEF Slack
    <3>4. CASE pc \in {"timer", "read"}
      <4>1. left \in {-1} \cup Nat
        BY <3>4, <2>1 DEF Inv, TimerArmed, Unset
      <4>2. quiet <= 3 + (Limit(s) - left) + 1
        BY <2>1, <3>2, <3>4, <4>1 DEF Inv, TimeInv
      <4> QED
        BY <2>1, <4>1, <4>2 DEF Slack
    <3>5. CASE pc = "decide"
      <4>1. rc = 0 => quiet <= Step
        BY <3>2, <3>5 DEF Inv, TimeInv
      <4>2. rc = -1 => quiet <= 5 + Limit(s) + Step
        BY <3>2, <3>5 DEF Inv, TimeInv
      <4>3. rc \in {-1, 0}
        BY DEF Inv, TypeOK
      <4> QED
        BY <2>1, <4>1, <4>2, <4>3 DEF Slack
    <3> QED
      BY <2>2, <3>3, <3>4, <3>5
  <2> QED
    BY <2>3, <2>4
<1> QED
  BY <1>1, Invariance, PTL
==============================================================================
