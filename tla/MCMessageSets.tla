---------------------------- MODULE MCMessageSets ----------------------------
(* The lists of modules the programs are started with. *)
EXTENDS MessageSets

\* wtp_main.c has the first as its default.
MCDefault == {<<"capwap", "capwap80211">>}

MCWtpLists ==
    MCDefault \cup
    {<<"capwap">>, <<"cisco">>, <<"capwap80211", "capwap">>, <<"capwap", "cisco">>,
     <<"cisco", "capwap80211">>, <<"capwap80211", "capwap", "cisco">>}

\* The first is that of ac/config.ckv; the last detects capwap before cisco.
MCShipped == {<<"cisco", "capwap", "capwap80211">>}
MCAcLists ==
    MCShipped \cup
    {<<"capwap", "capwap80211">>, <<"capwap", "cisco", "capwap80211">>}
=============================================================================
