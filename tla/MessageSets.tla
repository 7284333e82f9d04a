----------------------------- MODULE MessageSets -----------------------------
(***************************************************************************)
(* How a WTP and a controller come to speak the same language, and whether *)
(* they do.  Each end builds its message set from the tables of the        *)
(* modules it loads (cw_msgset_add): the WTP from all of its -m options,   *)
(* the controller for each connection from what the first message looks    *)
(* like, and again when a WTP tells its version.  The messages of a        *)
(* session are then written and read with those two sets.                  *)
(*                                                                         *)
(* Values are left out: an element stands in a message with every length   *)
(* it can be written with.  Loss, retransmission and time are left to      *)
(* ControlChannel and WtpSession; here an answer arrives or there is none. *)
(***************************************************************************)
EXTENDS Elements, Sequences, FiniteSets

CONSTANTS WtpLists,    \* the -m options a WTP may be started with
          AcLists,     \* the modules a controller may be configured with
          Versions     \* software versions of the WTP, times ten: 70, 73, 75

Modules == {"capwap", "capwap80211", "cisco"}

\* capwap must not follow cisco at the WTP: it would put its own header on
\* the elements of LWAPP, which then carry the numbers of other elements.
ASSUME ListsAssumption ==
    /\ \A l \in WtpLists \cup AcLists : l \in Seq(Modules) /\ l # <<>>
    /\ \A l \in WtpLists : \A i, j \in DOMAIN l :
           i < j => ~(l[i] = "cisco" /\ l[j] = "capwap")
    /\ \A l \in WtpLists \cup AcLists : \E i \in DOMAIN l : l[i] # "capwap80211"
    /\ Versions \subseteq {70, 73, 75}

VARIABLES
    setup,    \* what the two were started with, fixed in a behaviour
    loaded,   \* how many modules of its list the WTP has registered
    sets,     \* the message set of each end
    pc,       \* where the main function of the WTP is
    awaits,   \* it has sent a request and waits for the answer
    msg,      \* the message on its way, if any
    acstate,  \* capwap_state of the controller's connection, "gone" without one
    mods,     \* the modules the controller has detected, for the two modes
    up        \* the controller runs

vars == <<setup, loaded, sets, pc, awaits, msg, acstate, mods, up>>

-----------------------------------------------------------------------------
(* Message sets. *)

\* cw_msgset_create: handlers maps an element to the table its handler is in.
EmptySet == [handlers |-> <<>>, msgs |-> <<>>, toRun |-> FALSE]

NewMessage == [receiver |-> "-", states |-> {}, mandatory |-> {}, optional |-> {},
               allowed |-> {}]

Row(set, e) == handlers[set.handlers[e]][e]

\* The elements of a list that an update neither lists anew nor deletes.
Appended(list, anew, deleted) == list \ deleted              \* mutant of Kept
Kept(list, anew, deleted) == list \ (anew \cup deleted)

StatesOf(m, def) == IF def.states = {} THEN m.states ELSE def.states

\* The list keeps what is sent, the tree what is allowed: an ignored element
\* enters the tree alone.
UpdateMessage(m, def, known) ==
    LET mandatory == def.elems.mandatory \cap known
        optional  == def.elems.optional \cap known
        ignored   == def.elems.ignored \cap known
        deleted   == def.elems.deleted \cap known
        listed    == mandatory \cup optional
    IN  [receiver  |-> def.receiver,
         states    |-> StatesOf(m, def),
         mandatory |-> Kept(m.mandatory, listed, deleted) \cup mandatory,
         optional  |-> Kept(m.optional, listed, deleted) \cup optional,
         allowed   |-> Kept(m.allowed, listed, deleted) \cup listed \cup ignored]

\* One map over another.
Onto(upper, lower) ==
    [x \in DOMAIN upper \cup DOMAIN lower |->
        IF x \in DOMAIN upper THEN upper[x] ELSE lower[x]]

Named(table) == [e \in DOMAIN handlers[table] |-> table]

\* The handler of a later table replaces that of an earlier one.
FirstHandlerWins(set, table) == Onto(set.handlers, Named(table))  \* mutant of ById
ById(set, table) == Onto(Named(table), set.handlers)

Known(set, type) == IF type \in DOMAIN set.msgs THEN set.msgs[type] ELSE NewMessage

Add(set, table) ==
    LET defs == messages[table]
        byId == ById(set, table)
    IN  [handlers |-> byId,
         msgs |-> [type \in DOMAIN set.msgs \cup DOMAIN defs |->
                     IF type \in DOMAIN defs
                     THEN UpdateMessage(Known(set, type), defs[type], DOMAIN byId)
                     ELSE set.msgs[type]],
         toRun |-> set.toRun]

\* register_messages of a module.  toRun is the cisco entry of the state
\* machine, which replaces that of capwap: from DATA_CHECK straight to RUN.
FirstStatesWin(set, mod, mode) ==                            \* mutant of Register
    CASE mod = "capwap" /\ mode = "capwap" -> Add(set, "capwap")
      [] mod = "capwap80211" /\ mode = "bindings" -> Add(set, "capwap80211")
      [] mod = "cisco" /\ mode = "capwap" ->
             Add(Add(Add(set, "capwap"), "capwap80211"), "cisco70")
      [] OTHER -> set
Register(set, mod, mode) ==
    CASE mod = "capwap" /\ mode = "capwap" ->
             [Add(set, "capwap") EXCEPT !.toRun = FALSE]
      [] mod = "capwap80211" /\ mode = "bindings" -> Add(set, "capwap80211")
      [] mod = "cisco" /\ mode = "capwap" ->
             [Add(Add(Add(set, "capwap"), "capwap80211"), "cisco70")
                 EXCEPT !.toRun = TRUE]
      [] OTHER -> set

-----------------------------------------------------------------------------
(* Writing a message. *)

\* What a WTP without cisco keys in its configuration knows all the same.
UnderCapwapKeys ==
    Cisco({"RAD_NAME", "LOCATION_DATA", "STATISTICS_TIMER", "AC_NAME_WITH_INDEX",
           "CAPWAP_TIMERS", "TX_POWER"})

HasValue(end, e) ==
    end = "AC" \/ setup.known \/ e[1] = "plain" \/ e \in UnderCapwapKeys

\* Of the two elements for the address of the socket one is written.
OtherFamily == Plain(IF setup.ipv6
                     THEN {"CAPWAP_LOCAL_IPV4_ADDRESS", "WTP_IPV4_IP_ADDRESS"}
                     ELSE {"CAPWAP_LOCAL_IPV6_ADDRESS", "WTP_IPV6_IP_ADDRESS"})

\* The first configuration, which decides on the optional elements, is empty
\* but for the Configuration Status Request; there cw_cfg_base_exists finds a
\* key only if something is below it.
ChosenOptional(end, set, type) ==
    {e \in set.msgs[type].optional :
        /\ type = "CONFIGURATION_STATUS_REQUEST"
        /\ HasValue(end, e)
        /\ Row(set, e).shape # "scalar"
        /\ ~Row(set, e).radio}

Chosen(end, set, type) ==
    {e \in set.msgs[type].mandatory \cup ChosenOptional(end, set, type) :
        Row(set, e).put # "none"}

\* A structure is written whatever is known of it, another value if it is known.
Written(end, set, type) ==
    {e \in Chosen(end, set, type) \ OtherFamily :
        HasValue(end, e) \/ Row(set, e).shape = "struct"}

ComposeExits(end, set, type) ==
    \E e \in Chosen(end, set, type) :
        \/ Row(set, e).put = "exits"
        \/ Row(set, e).put = "needs" /\ ~HasValue(end, e)

Message(end, to, set, type) ==
    [to |-> to, type |-> type,
     elems |-> UNION {{<<e, n>> : n \in Row(set, e).sizes} : e \in Written(end, set, type)},
     descriptor |-> IF Plain({"AC_DESCRIPTOR"}) \subseteq Written(end, set, type)
                    THEN set.handlers[<<"plain", "AC_DESCRIPTOR">>] ELSE "-"]

None == [to |-> "-", type |-> "-", elems |-> {}, descriptor |-> "-"]

-----------------------------------------------------------------------------
(* Reading one. *)

Fits(row, n) == n >= row.lo /\ (row.hi = 0 \/ n <= row.hi)

\* An element without a handler, not allowed or of a wrong length is skipped.
Taken(set, m) ==
    {x \in m.elems : /\ x[1] \in DOMAIN set.handlers
                     /\ x[1] \in set.msgs[m.type].allowed
                     /\ Fits(Row(set, x[1]), x[2])}

DecodeExits(set, m) == \E x \in Taken(set, m) : Row(set, x[1]).get = "exits"

\* What process_elements does with a message before it looks at its elements.
Judge(end, set, state, type) ==
    IF type \notin DOMAIN set.msgs THEN "refused"
    ELSE IF set.msgs[type].receiver # end THEN "discarded"
    ELSE IF \A s \in set.msgs[type].states : s[1] # state THEN "refused"
    ELSE "accepted"

\* The state a message leads to.
NextState(set, state, type) ==
    LET s == CHOOSE s \in set.msgs[type].states : s[1] = state
    IN  IF s[2] = "-" THEN state ELSE s[2]

ResponseTo == [DISCOVERY_REQUEST |-> "DISCOVERY_RESPONSE",
               JOIN_REQUEST |-> "JOIN_RESPONSE",
               CONFIGURATION_STATUS_REQUEST |-> "CONFIGURATION_STATUS_RESPONSE",
               CHANGE_STATE_EVENT_REQUEST |-> "CHANGE_STATE_EVENT_RESPONSE",
               ECHO_REQUEST |-> "ECHO_RESPONSE"]

ErrorResponse(type) ==
    [to |-> "WTP", type |-> ResponseTo[type], descriptor |-> "-",
     elems |-> {<<<<"plain", "RESULT_CODE">>, 4>>}]

-----------------------------------------------------------------------------
(* The WTP. *)

Init ==
    /\ setup \in [wtp : WtpLists, ac : AcLists, version : Versions,
                  bare : BOOLEAN,    \* the controller has ac-descriptor/security
                  known : BOOLEAN,   \* the WTP has values for the keys of cisco
                  ipv6 : BOOLEAN,    \* the family of the WTP's socket
                  lossy : BOOLEAN]   \* a request may get no answer for its loss
    /\ loaded = 0
    /\ sets = [WTP |-> EmptySet, AC |-> EmptySet]
    /\ pc = "register"
    /\ awaits = FALSE
    /\ msg = None
    /\ acstate = "gone"
    /\ mods = [capwap |-> "none", bindings |-> "none"]
    /\ up = TRUE

\* main: every module of the list, in both modes.
RegisterNext ==
    /\ pc = "register"
    /\ LET mod == setup.wtp[loaded + 1]
       IN  sets' = [sets EXCEPT
                       !.WTP = Register(Register(@, mod, "capwap"), mod, "bindings")]
    /\ loaded' = loaded + 1
    /\ pc' = IF loaded' = Len(setup.wtp) THEN "discovery" ELSE pc
    /\ UNCHANGED <<setup, awaits, msg, acstate, mods, up>>

RequestOf == [discovery |-> "DISCOVERY_REQUEST", join |-> "JOIN_REQUEST",
              configure |-> "CONFIGURATION_STATUS_REQUEST",
              changestate |-> "CHANGE_STATE_EVENT_REQUEST", run |-> "ECHO_REQUEST"]

\* capwap_state of the WTP, which configure and changestate leave alone.
WtpState == CASE pc = "discovery" -> "DISCOVERY"
              [] pc = "run"       -> "RUN"
              [] OTHER            -> "JOIN"

\* main has returned, or stop() was called.
Over == pc \in {"ended", "exited"}

\* main goes on after configure and changestate, whatever became of them.
AfterSuccess == [discovery |-> "connect", join |-> "configure",
                 configure |-> "changestate", changestate |-> "run", run |-> "run"]
AfterFailure == [discovery |-> "ended", join |-> "ended",
                 configure |-> "changestate", changestate |-> "run", run |-> "ended"]

\* cw_send_request, or the broadcast of run_discovery.
Ask ==
    /\ pc \in DOMAIN RequestOf
    /\ ~awaits
    /\ LET type == RequestOf[pc]
       IN  IF ComposeExits("WTP", sets.WTP, type)
           THEN pc' = "exited" /\ UNCHANGED <<msg, awaits>>
           ELSE /\ msg' = Message("WTP", "AC", sets.WTP, type)
                /\ awaits' = TRUE
                /\ UNCHANGED pc
    /\ UNCHANGED <<setup, loaded, sets, acstate, mods, up>>

\* run_join_d: the security the controller advertises.  The descriptor of
\* cisco looks for it under a key without the prefix capwap/.
AnySecurity == msg.descriptor # "-"                          \* mutant of SharesSecurity
SharesSecurity == msg.descriptor = "capwap" \/ (msg.descriptor = "cisco70" /\ setup.bare)

\* An answer counts as success whatever its result code is: a message that
\* is accepted ends cw_send_request with the result 0 of process_elements.
TakeAnswer ==
    /\ msg.to = "WTP"
    /\ Judge("WTP", sets.WTP, WtpState, msg.type) = "accepted"
    /\ pc' = IF DecodeExits(sets.WTP, msg) THEN "exited"
             ELSE IF pc = "discovery" /\ ~SharesSecurity THEN "ended"
             ELSE AfterSuccess[pc]
    /\ msg' = None
    /\ awaits' = FALSE
    /\ UNCHANGED <<setup, loaded, sets, acstate, mods, up>>

DiscardAnswer ==
    /\ msg.to = "WTP"
    /\ Judge("WTP", sets.WTP, WtpState, msg.type) = "discarded"
    /\ msg' = None
    /\ UNCHANGED <<setup, loaded, sets, pc, awaits, acstate, mods, up>>

\* All transmissions of a message are lost.
Lose ==
    /\ setup.lossy
    /\ msg # None
    /\ msg' = None
    /\ UNCHANGED <<setup, loaded, sets, pc, awaits, acstate, mods, up>>

\* Its retransmissions have got no answer either.
GiveUp ==
    /\ awaits
    /\ msg = None
    /\ pc' = AfterFailure[pc]
    /\ awaits' = FALSE
    /\ UNCHANGED <<setup, loaded, sets, msg, acstate, mods, up>>

-----------------------------------------------------------------------------
(* The controller. *)

\* cw_mod_detect: the first module of the list that says yes.
Detects(mod, mode, m) ==
    CASE mod = "cisco"       -> \E x \in m.elems : x[1][1] \in {"cisco", "lwapp"}
      [] mod = "capwap"      -> mode = "capwap"
      [] mod = "capwap80211" -> mode = "bindings"

Detect(mode, m) ==
    LET yes == {i \in DOMAIN setup.ac : Detects(setup.ac[i], mode, m)}
    IN  IF yes = {} THEN "none"
        ELSE setup.ac[CHOOSE i \in yes : \A j \in yes : i <= j]

\* cw_mod_get_msg_set
MsgSetOf(m) == Register(Register(EmptySet, m.capwap, "capwap"), m.bindings, "bindings")

\* set_ac_version, once the descriptor of the WTP has been read.
Upgraded(set, version) ==
    LET for73 == IF version >= 73 THEN Add(set, "cisco73") ELSE set
    IN  IF version >= 75 THEN Add(for73, "cisco75") ELSE for73

\* The postprocess function of cisco for Discovery and Join Requests.
Postprocessed(set, m) ==
    IF /\ "cisco70" \in {set.handlers[e] : e \in DOMAIN set.handlers}
       /\ m.type \in {"DISCOVERY_REQUEST", "JOIN_REQUEST"}
       /\ \E x \in Taken(set, m) : x[1] = <<"plain", "WTP_DESCRIPTOR">>
    THEN Upgraded(set, setup.version)
    ELSE set

\* The first message of a connection decides on its set, unless the discovery
\* cache has the modules of an earlier connection.
Detected(m) == [capwap |-> Detect("capwap", m), bindings |-> Detect("bindings", m)]

SetFor(m) == IF m.type = "DISCOVERY_REQUEST" THEN MsgSetOf(Detected(m)) ELSE sets.AC

AcHears ==
    /\ up
    /\ msg.to = "AC"
    /\ acstate # "gone" \/ msg.type = "DISCOVERY_REQUEST"

StateFor(m) == IF m.type = "DISCOVERY_REQUEST" THEN "DISCOVERY" ELSE acstate

\* process_elements, for a message that is accepted.
AcAnswers ==
    /\ AcHears
    /\ LET before == SetFor(msg)
           set    == Postprocessed(before, msg)
           type   == ResponseTo[msg.type]
           next   == NextState(before, StateFor(msg), msg.type)
       IN  /\ Judge("AC", before, StateFor(msg), msg.type) = "accepted"
           /\ sets' = [sets EXCEPT !.AC = set]
           /\ IF DecodeExits(before, msg) \/ ComposeExits("AC", set, type)
              THEN /\ up' = FALSE
                   /\ msg' = None
                   /\ UNCHANGED acstate
              ELSE /\ msg' = Message("AC", "WTP", set, type)
                   /\ acstate' = IF next = "DATA_CHECK" /\ set.toRun THEN "RUN" ELSE next
                   /\ UNCHANGED up
    /\ mods' = IF msg.type = "DISCOVERY_REQUEST" THEN Detected(msg) ELSE mods
    /\ UNCHANGED <<setup, loaded, pc, awaits>>

\* ... and for one its state does not allow.
AcRefuses ==
    /\ AcHears
    /\ Judge("AC", SetFor(msg), StateFor(msg), msg.type) = "refused"
    /\ msg' = ErrorResponse(msg.type)
    /\ UNCHANGED <<setup, loaded, sets, pc, awaits, acstate, mods, up>>

\* Nobody is there to hear it.
Unheard ==
    /\ msg.to = "AC"
    /\ ~AcHears
    /\ msg' = None
    /\ UNCHANGED <<setup, loaded, sets, pc, awaits, acstate, mods, up>>

\* The DTLS session is set up; the modules come from the discovery cache.
Connect ==
    /\ pc = "connect"
    /\ sets' = [sets EXCEPT !.AC = MsgSetOf(mods)]
    /\ acstate' = "JOIN"
    /\ pc' = "join"
    /\ UNCHANGED <<setup, loaded, awaits, msg, mods, up>>

\* The timer of a state expires.  A WTP in run asks for nothing that leads
\* from JOIN, CONFIGURE or DATA_CHECK to RUN.
AcTimesOut ==
    /\ up
    /\ acstate # "gone"
    /\ Over \/ (pc = "run" /\ acstate # "RUN")
    /\ acstate' = "gone"
    /\ UNCHANGED <<setup, loaded, sets, pc, awaits, msg, mods, up>>

\* Both have come to an end.
Done ==
    /\ Over
    /\ ~up \/ acstate = "gone"
    /\ UNCHANGED vars

Next ==
    \/ RegisterNext
    \/ Ask
    \/ TakeAnswer
    \/ DiscardAnswer
    \/ Lose
    \/ GiveUp
    \/ AcAnswers
    \/ AcRefuses
    \/ Unheard
    \/ Connect
    \/ AcTimesOut
    \/ Done

\* The two programs run, and unless a message is lost a retransmission gets
\* through in the end.  WF_vars(Next) says the same, since the model has no
\* deadlock; but to find out whether Next is enabled TLC would build every
\* message set again.
Fairness == <>[]Over \/ []<><<Next>>_vars

Spec == Init /\ [][Next]_vars /\ Fairness

-----------------------------------------------------------------------------
(* Properties. *)

\* Type correctness: what the variables of the two ends may hold.
TypeOK ==
    /\ loaded \in 0 .. Len(setup.wtp)
    /\ pc \in {"register", "connect", "ended", "exited"} \cup DOMAIN RequestOf
    /\ awaits \in BOOLEAN /\ up \in BOOLEAN
    /\ acstate \in {"gone", "JOIN", "CONFIGURE", "DATA_CHECK", "RUN", "DISCOVERY"}
    /\ mods.capwap \in Modules \cup {"none"} /\ mods.bindings \in Modules \cup {"none"}
    /\ msg.to \in {"-", "WTP", "AC"}
    /\ \A end \in {"WTP", "AC"} : \A type \in DOMAIN sets[end].msgs :
           sets[end].msgs[type].mandatory \cap sets[end].msgs[type].optional = {}

Last(list) == list[Len(list)]

\* Elements that one end writes and the other, with the very same tables,
\* does not take: their handlers accept another length than they write.
Misfits ==
    Plain({"CAPWAP_LOCAL_IPV6_ADDRESS", "WTP_IPV6_IP_ADDRESS"})
    \cup Lwapp({"RADIO_MODULE_INFO"})

\* With the same set at both ends every element that is written is taken,
\* but for the result code of a refusal, which not every response may have.
Understood ==
    \A end \in {"WTP", "AC"} :
        /\ msg.to = end /\ sets.WTP = sets.AC
        /\ \A type \in DOMAIN ResponseTo : msg # ErrorResponse(type)
        =>
            {x[1] : x \in msg.elems \ Taken(sets[end], msg)} \subseteq Misfits

\* What it takes for a session to come to RUN.
Serviceable ==
    /\ Last(setup.wtp) = "cisco"
    /\ \E i \in DOMAIN setup.ac : /\ setup.ac[i] = "cisco"
                                  /\ \A j \in 1 .. i - 1 : setup.ac[j] # "capwap"
    /\ setup.version < 73
    /\ setup.bare
    /\ setup.known

\* No handler stops one of the two programs in a session that can work.
NobodyExits == Serviceable => up /\ pc # "exited"

\* The controller takes a session to RUN in no other case: not with the
\* tables of capwap alone, nor with a version of the WTP that has its own.
RunsOnlyIf == acstate = "RUN" => Serviceable

\* And in this one it always does, and the WTP stays with it, unless a
\* message never arrives.
ServiceableRuns ==
    Serviceable /\ ~setup.lossy => <>[](pc = "run" /\ acstate = "RUN" /\ up)

\* RFC 5415: "The Join Response message is sent by the AC to indicate to a
\* WTP that it is capable and willing to provide service to the WTP."  What a
\* WTP makes of one that arrives is to go on to configure.
JoinResponseHeard ==
    [][pc = "join" /\ msg.to = "WTP" /\ msg' # msg /\ ~setup.lossy
       => pc' = "configure"]_vars
=============================================================================
