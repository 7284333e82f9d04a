----------------------------- MODULE MCWtpStart -----------------------------
(* A WTP with hand-written priorities, two controllers and the settings they  *)
(* make.                                                                       *)
EXTENDS WtpStart

MCControllers == {"acA", "acB"}
MCLetters ==
    {"n", "x", "capwap/ac-name-with-priority/", "capwap/location-data", "capwap/wtp-name"}
    \cup MCControllers

\* Two addresses, and one with the same load as the first of them may get.
MCOffer ==
    [c \in MCControllers |->
        IF c = "acA" THEN <<[address |-> "a1", load |-> 1], [address |-> "a2", load |-> 1]>>
        ELSE <<[address |-> "b1", load |-> 1]>>]

\* The WTP's name, and a priority for one controller that a byte cannot hold.
MCFactory ==
    Header \o <<Newline, Hash, "x", Newline, "capwap/wtp-name", Blank, Colon, "x", Blank, Newline>>
    \o Line(PrioKey("acB"), <<"2", "7", "0">>)

Name == <<"capwap/wtp-name">>
Location == <<"capwap/location-data">>

Texts(S, n) == UNION {[1 .. l -> S] : l \in 0 .. n}
MCMessages ==
    {[k \in {Location} |-> t] :
        t \in Texts(Octets, 1) \cup Texts({Newline, Blank, Quote, Backslash}, 2) \cup Texts({Blank, Quote, Dot, "x"}, 3)
               \cup {<<Quote, Quote, Colon>>, <<Blank, Backslash, "n">>, <<Blank, "n", Backslash>>,
                     <<Newline, Blank, Dot>>, <<"n", Backslash, "n">>}}
    \cup {[k \in {Name} |-> t] : t \in Texts({Blank, Quote, Newline}, 1)}
    \cup {[k \in {Name, Location} |-> <<t>>] : t \in {Blank, Quote}}

\* Holdable asks for no more than it must: of the stores with one name, and of
\* those with two and short values, a file gives back exactly the holdable ones.
Marks == {Newline, Blank, Quote, Hash, Colon, Backslash, "n", "x"}
Values == Texts({Newline, Blank, Quote, Colon, Backslash, "n"}, 4) \cup {[i \in 1 .. l |-> "x"] : l \in 5 .. 9}
Pairs == UNION {[{Name, m} -> Texts({Newline, Blank, Quote, Backslash, "n"}, 2)] :
                    m \in {<<>>, <<"x">>, <<Hash>>, <<"x", Blank>>, <<Quote, "n">>}}
ASSUME HoldableIsExact ==
    \A c \in [{Name} -> Values] \cup UNION {[{n} -> Texts(Marks, 2)] : n \in Texts(Marks, 2)} \cup Pairs :
        Holdable(c) <=> Load(Text(c)) = [cfg |-> c, ok |-> TRUE]
=============================================================================
