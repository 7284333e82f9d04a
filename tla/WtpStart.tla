------------------------------- MODULE WtpStart -------------------------------
(***************************************************************************)
(* The main program of the WTP (wtp/wtp_main.c) from the moment it is      *)
(* started: it loads its configuration file, discovers controllers         *)
(* (wtp/discovery.c, cw/discovery.c), joins one (wtp/join.c) and saves     *)
(* what that one tells it (wtp/configure.c, wtp/run.c), until it ends or   *)
(* the power fails, perhaps while it is saving; and then it is started     *)
(* again.                                                                  *)
(*                                                                         *)
(* A controller answers the discovery with a list of its addresses and of  *)
(* the number of WTPs at each (capwap_out_capwap_control_ip_address.c).    *)
(***************************************************************************)
EXTENDS Cfg, FiniteSets

CONSTANTS
    Controllers,        \* their names, which are letters
    Offer,              \* of each: the addresses configured, with their load
    Insecure,           \* those that have no security in common with the WTP
    Loads,              \* numbers of WTPs that an answer may show
    Factory,            \* the file the WTP is delivered with
    Messages,           \* settings a controller may make: names to octets
    MaxAnswers,         \* bound on the answers to one discovery
    MaxOctets           \* bound on the octets of all settings, one more for each

\* The number of WTPs that ends a list.
NoLoad == 65535

Addresses == UNION {{Offer[c][i].address : i \in DOMAIN Offer[c]} : c \in Controllers}

ASSUME WtpStartAssumption ==
    /\ Controllers \subseteq Letters /\ Insecure \subseteq Controllers
    /\ NoLoad \in Loads /\ Loads \subseteq 0 .. NoLoad
    /\ \A c \in Controllers : Offer[c] \in Seq([address : Addresses, load : Loads])
    /\ Factory \in Seq(Chars)
    /\ \A m \in Messages :
           /\ IsFiniteSet(DOMAIN m) /\ DOMAIN m \subseteq Seq(Chars)
           /\ \A n \in DOMAIN m : m[n] \in Seq(Octets)
    /\ MaxAnswers \in Nat /\ MaxOctets \in Nat

VARIABLES
    main,               \* where the program is
    cfg,                \* conn->global_cfg
    file,               \* the text of the configuration file
    results,            \* dis->list, the tree of candidates
    left,               \* those join has not come to
    list,               \* the answer being added: what is left of its addresses
    from,               \* and the controller that sent it
    answers,            \* answers taken in this discovery
    dtls,               \* conn->dtls_data: the controller it was made for
    ac,                 \* the controller joined
    announced,          \* history: addresses that should become candidates
    told,               \* history: settings made that cfg should hold
    saved,              \* history: cfg and told when the file was last opened
    whole,              \* history: whether it was then written to the end;
                        \* not the file the WTP is delivered with
    octets              \* history: the sum that MaxOctets bounds

joinVars == <<results, left, list, from, answers, dtls, ac, announced>>
history == <<told, saved, whole, octets>>
vars == <<main, cfg, file, joinVars, history>>

None == "none"

\* Running, and not yet joined.
Searching == {"discovery", "join"}
Joined == {"configure", "change", "run"}
\* While cw_cfg_save writes, and where the program goes on after it.
Saving == {"save in configure", "save in run"}
Running == Searching \cup Joined \cup Saving \cup {"hung"}
After(saving) == IF saving = "save in configure" THEN "change" ELSE "run"

------------------------------------------------------------------------------
(* Starting *)

NoJoin ==
    /\ results' = {} /\ left' = {} /\ list' = <<>> /\ from' = None
    /\ answers' = 0 /\ dtls' = None /\ ac' = None /\ announced' = {}

\* An error in the file ends the program.  The settings of before should be there
\* if their save came to its end, with a store that a file can hold.
Start ==
    LET loaded == Load(file)
    IN  /\ main = "off"
        /\ cfg' = loaded.cfg
        /\ main' = IF loaded.ok THEN "discovery" ELSE "refused"
        /\ told' = IF whole /\ Holdable(saved.cfg) THEN saved.told ELSE EmptyCfg
        /\ UNCHANGED <<file, joinVars, saved, whole, octets>>

\* The process is gone; only the file is left.
Gone == main' = "off" /\ NoJoin /\ cfg' = EmptyCfg /\ told' = EmptyCfg

------------------------------------------------------------------------------
(* Discovery *)

\* The key of the priority of a controller in the WTP's own configuration.
PrioKey(c) == <<"capwap/ac-name-with-priority/", c>>

\* The count of each address of a list goes to the place of that of the first,
\* and the places of the others hold what was in the buffer.
Wire(offer) ==
    {[i \in 1 .. Len(offer) |-> [address |-> offer[i].address, load |-> loads[i]]] :
        loads \in {l \in [1 .. Len(offer) -> Loads] :
                       offer # <<>> => l[1] = offer[Len(offer)].load}}

\* The addresses before the first that has no load.
Usable(wire) ==
    {wire[i].address : i \in {k \in DOMAIN wire : \A j \in 1 .. k : wire[j].load # NoLoad}}

\* Discovery Responses come in one by one, also twice from one controller.
Answer(c) ==
    \E wire \in Wire(Offer[c]) :
        /\ main = "discovery" /\ list = <<>>
        /\ answers < MaxAnswers
        /\ answers' = answers + 1
        /\ list' = wire /\ from' = c
        /\ announced' = announced \cup Usable(wire)
        /\ UNCHANGED <<main, cfg, file, results, left, dtls, ac, history>>

SameRankNoCtr(e, f) == e.prio = f.prio /\ e.wtps = f.wtps       \* mutant of SameRank
\* cmp of cw/discovery.c: the order of the tree.
SameRank(e, f) == e.prio = f.prio /\ e.wtps = f.wtps /\ e.ctr = f.ctr
Before(e, f) ==
    \/ e.prio < f.prio
    \/ e.prio = f.prio /\ (e.wtps < f.wtps \/ (e.wtps = f.wtps /\ e.ctr < f.ctr))

\* mavl_insert leaves the tree as it is if it has one of the same rank.
Insert(tree, e) == IF \E f \in tree : SameRank(e, f) THEN tree ELSE tree \cup {e}

\* One round of the loop of cw_discovery_results_add.
AddAddress ==
    /\ main = "discovery" /\ list # <<>>
    /\ IF Head(list).load = NoLoad
       THEN list' = <<>> /\ UNCHANGED results
       ELSE /\ list' = Tail(list)
            /\ results' = Insert(results,
                   [prio |-> GetByte(cfg, PrioKey(from), 255), wtps |-> Head(list).load,
                    ctr |-> Cardinality(results), ac |-> from, address |-> Head(list).address])
    /\ UNCHANGED <<main, cfg, file, left, from, answers, dtls, ac, announced, history>>

\* The discovery interval is over.
EndDiscovery ==
    /\ main = "discovery" /\ list = <<>>
    /\ main' = "join" /\ left' = results
    /\ UNCHANGED <<cfg, file, results, list, from, answers, dtls, ac, announced, history>>

------------------------------------------------------------------------------
(* Joining: the candidates one after the other *)

\* The candidate join has come to.
Candidate == CHOOSE e \in left : \A f \in left \ {e} : Before(e, f)

\* The result of run_join_d is 0: on to the next.
NextCandidate ==
    /\ left' = left \ {Candidate}
    /\ UNCHANGED <<main, cfg, file, results, list, from, answers, ac, announced, history>>

NoCommonSecurity ==
    /\ main = "join" /\ left # {} /\ Candidate.ac \in Insecure
    /\ NextCandidate
    /\ UNCHANGED dtls

\* socket fails: run_join_d returns -1, which join takes for success, and the
\* program reads for ever from a socket that is closed.
NoSocket ==
    /\ main = "join" /\ left # {} /\ Candidate.ac \notin Insecure
    /\ main' = "hung"
    /\ UNCHANGED <<cfg, file, joinVars, history>>

\* dtls_connect fails: dtls_shutdown.
HandshakeFails ==
    /\ main = "join" /\ left # {} /\ Candidate.ac \notin Insecure
    /\ dtls = None
    /\ dtls' = None
    /\ NextCandidate

\* With an object of an earlier candidate SSL_connect does nothing, and the
\* Join Request goes out under the keys of that one.
Connection == IF dtls = None THEN Candidate.ac ELSE dtls

\* The answer to the Join Request is a refusal, or there is none: the
\* connection is left as it is.
JoinFails ==
    /\ main = "join" /\ left # {} /\ Candidate.ac \notin Insecure
    /\ dtls' = Connection
    /\ NextCandidate

\* Only the controller that has the keys can answer.  The results are not used
\* again.
JoinSucceeds ==
    /\ main = "join" /\ left # {} /\ Candidate.ac \notin Insecure
    /\ dtls = None
    /\ main' = "configure" /\ ac' = Candidate.ac /\ dtls' = Candidate.ac
    /\ results' = {} /\ left' = {} /\ announced' = {} /\ from' = None /\ answers' = 0
    /\ UNCHANGED <<cfg, file, list, history>>

\* join has tried them all.
JoinedNobody ==
    /\ main = "join" /\ left = {}
    /\ Gone
    /\ UNCHANGED <<file, saved, whole, octets>>

------------------------------------------------------------------------------
(* Being told settings *)

\* Its octets, and one for each setting.
Cost(m) == Cardinality(UNION {{n} \X (0 .. Len(m[n])) : n \in DOMAIN m})

\* config_cb and update_cb, up to the save.
Tell(m) ==
    /\ octets + Cost(m) <= MaxOctets
    /\ octets' = octets + Cost(m)
    /\ cfg' = Copy([n \in DOMAIN m |-> Stored(m[n])], cfg)
    /\ told' = Copy(m, told)
    /\ UNCHANGED <<file, joinVars, saved, whole>>

Configured(m) ==
    /\ main = "configure"
    /\ main' = "save in configure"
    /\ Tell(m)

\* main does not look at what configure and changestate return.
ConfigureFails ==
    /\ main = "configure"
    /\ main' = "change"
    /\ UNCHANGED <<cfg, file, joinVars, history>>

ChangeState ==
    /\ main = "change"
    /\ main' = "run"
    /\ UNCHANGED <<cfg, file, joinVars, history>>

Updated(m) ==
    /\ main = "run"
    /\ main' = "save in run"
    /\ Tell(m)

------------------------------------------------------------------------------
(* Saving *)

WrittenOver(n) ==                           \* mutant of Written
    SubSeq(Text(cfg), 1, n) \o SubSeq(file, n + 1, Len(file))

\* The file when n characters have been written: fopen has emptied it.
Written(n) == SubSeq(Text(cfg), 1, n)

WriteFile(n) ==
    /\ file' = Written(n)
    /\ saved' = [cfg |-> cfg, told |-> told]
    /\ whole' = (n = Len(Text(cfg)))
    /\ UNCHANGED octets

\* All of it, or as much as there is room for: no error is looked at.
Save ==
    /\ main \in Saving
    /\ \E n \in 0 .. Len(Text(cfg)) : WriteFile(n)
    /\ main' = After(main)
    /\ UNCHANGED <<cfg, joinVars, told>>

\* fopen fails.
SaveNothing ==
    /\ main \in Saving
    /\ main' = After(main)
    /\ UNCHANGED <<cfg, file, joinVars, history>>

------------------------------------------------------------------------------
(* The end of the process: its own, or of the power *)

FailWhileSaving ==
    /\ main \in Saving
    /\ \E n \in 0 .. Len(Text(cfg)) : WriteFile(n)
    /\ Gone

End ==
    /\ main \in Running
    /\ Gone
    /\ UNCHANGED <<file, saved, whole, octets>>

------------------------------------------------------------------------------
Init ==
    /\ main = "off" /\ cfg = EmptyCfg
    /\ file = Factory
    /\ results = {} /\ left = {} /\ list = <<>> /\ from = None
    /\ answers = 0 /\ dtls = None /\ ac = None /\ announced = {}
    /\ told = EmptyCfg
    /\ saved = [cfg |-> Load(Factory).cfg, told |-> EmptyCfg]
    /\ whole = FALSE
    /\ octets = 0

Next ==
    \/ Start
    \/ \E c \in Controllers : Answer(c)
    \/ AddAddress \/ EndDiscovery
    \/ NoCommonSecurity \/ NoSocket \/ HandshakeFails \/ JoinFails
    \/ JoinSucceeds \/ JoinedNobody
    \/ \E m \in Messages : Configured(m) \/ Updated(m)
    \/ ConfigureFails \/ ChangeState
    \/ Save \/ SaveNothing \/ FailWhileSaving \/ End

Spec == Init /\ [][Next]_vars

------------------------------------------------------------------------------
(* Correctness *)

CandidateType ==
    [prio : 0 .. 255, wtps : Loads \ {NoLoad}, ctr : Nat, ac : Controllers, address : Addresses]
IsCfg(c) == DOMAIN c \subseteq Seq(Chars) /\ \A n \in DOMAIN c : c[n] \in Seq(Chars)

\* Every variable has its type, and only a program that searches has
\* candidates left.
TypeOK ==
    /\ main \in Running \cup {"off", "refused"}
    /\ IsCfg(cfg) /\ IsCfg(saved.cfg) /\ IsCfg(told) /\ IsCfg(saved.told)
    /\ file \in Seq(Chars)
    /\ results \subseteq CandidateType /\ left \subseteq results
    /\ from \in Controllers \cup {None} /\ answers \in 0 .. MaxAnswers
    /\ list \in Seq([address : Addresses, load : Loads])
    /\ dtls \in Controllers \cup {None} /\ ac \in Controllers \cup {None}
    /\ announced \subseteq Addresses
    /\ whole \in BOOLEAN /\ octets \in 0 .. MaxOctets
    /\ main = "discovery" => left = {}

\* Every address that a controller shows before the first without a load is a
\* candidate, or about to be added, until the WTP has joined: two controllers
\* with the same priority and load do not push each other out of the tree
\* (cw/discovery.c).
Considered ==
    main \in Searching =>
        announced \subseteq {e.address : e \in results} \cup Usable(list)

\* A WTP that is started again after a save that came to its end has the store
\* it saved, if that is one a file can hold, and it reports a setting in the
\* octets it was told exactly if these are not taken for another encoding
\* (cw/cfg.c, cw_type_bstr16.c).
Remembered ==
    main \in {"discovery", "refused"} /\ whole /\ Holdable(saved.cfg) =>
        /\ main = "discovery" /\ cfg = saved.cfg
        /\ \A n \in DOMAIN saved.told :
               Faithful(saved.told[n]) <=> Sent(cfg[n]) = saved.told[n]

\* What a WTP has after a save that was cut off is a beginning of what it saved:
\* the first keys with their values, of which only the last may be shortened.
\* No setting comes from an older file or from two of them (cw_cfg_save).
NothingInvented ==
    main \in Searching /\ Holdable(saved.cfg) =>
        /\ DOMAIN cfg \subseteq DOMAIN saved.cfg
        /\ \A n \in DOMAIN cfg : IsPrefix(cfg[n], saved.cfg[n])
        /\ \A n \in DOMAIN cfg : \A m \in DOMAIN saved.cfg :
               KeyBefore(n, m) /\ m \in DOMAIN cfg => cfg[n] = saved.cfg[n]
        /\ \A n \in DOMAIN cfg : \A m \in DOMAIN saved.cfg :
               KeyBefore(m, n) => m \in DOMAIN cfg
=============================================================================
