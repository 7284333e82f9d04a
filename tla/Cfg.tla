--------------------------------- MODULE Cfg ---------------------------------
(***************************************************************************)
(* The key-value store of cw/cfg.c, its text in a configuration file, and  *)
(* the octets of a message element in it (cw/cw_type_bstr16.c).            *)
(*                                                                         *)
(* A store is a function from names to values, a text is a sequence of     *)
(* characters.  A character that the reader or the writer treats in a way  *)
(* of its own is one character; a key of the element tables ("capwap/..."), *)
(* which the reader takes whole, is one character too.  All white space on *)
(* a line is Blank.                                                        *)
(***************************************************************************)
EXTENDS Integers, Sequences, FiniteSetsExt, SequencesExt

CONSTANTS
    Letters,            \* letters, and the keys of the element tables
    MaxValue            \* the longest value read: CW_CFG_MAX_KEY_LEN

Newline == "newline"
Blank == "blank"
Quote == "quote"
Hash == "#"
Dot == "."
Colon == ":"
Backslash == "backslash"
EOF == "EOF"

ASSUME CfgAssumption ==
    /\ IsFiniteSet(Letters) /\ {"n", "x"} \subseteq Letters /\ EOF \notin Letters
    /\ MaxValue \in Nat \ {0}

Digits == <<"0", "1", "2", "3", "4", "5", "6", "7", "8", "9">>

\* The characters in the order of strcmp, which is left open between letters.
Alphabet ==
    <<Newline, Blank, Quote, Hash, Dot>> \o Digits
    \o <<Colon, "A", "B", "C", "D", "E", "F", Backslash>> \o SetToSeq(Letters)
Chars == Range(Alphabet)
Code == [c \in Chars |-> CHOOSE i \in DOMAIN Alphabet : Alphabet[i] = c]

\* isalnum(c) or one of ._/-()@#|{}[]\ in read_key.
KeyChars == Chars \ {Newline, Blank, Quote, Colon}

------------------------------------------------------------------------------
(* The store *)

EmptyCfg == [n \in {} |-> <<>>]

\* cw_cfg_copy: what is in src replaces what dst has.
Copy(src, dst) ==
    [n \in DOMAIN src \cup DOMAIN dst |-> IF n \in DOMAIN src THEN src[n] ELSE dst[n]]

\* cw_cfg_set
Set(cfg, name, value) == Copy([n \in {name} |-> value], cfg)

\* cmp: the order of the tree; no key here has a number to compare as one.
KeyBefore(n, m) ==
    \/ IsStrictPrefix(n, m)
    \/ \E i \in 1 .. Len(n) :
           /\ i <= Len(m) /\ Code[n[i]] < Code[m[i]]
           /\ SubSeq(n, 1, i - 1) = SubSeq(m, 1, i - 1)

\* The names of a store one after the other, as the tree has them.
InOrder(names) ==
    CHOOSE s \in [1 .. Cardinality(names) -> names] :
        \A i, j \in DOMAIN s : i < j => KeyBefore(s[i], s[j])

\* atoi: the digits a value begins with.
Atoi(value) ==
    LET Digit(c) == (CHOOSE i \in DOMAIN Digits : Digits[i] = c) - 1
        After[i \in 0 .. Len(value)] ==         \* <<number, goes on>> after i characters
            IF i = 0 THEN <<0, TRUE>>
            ELSE IF After[i - 1][2] /\ value[i] \in Range(Digits)
                 THEN <<10 * After[i - 1][1] + Digit(value[i]), TRUE>>
                 ELSE <<After[i - 1][1], FALSE>>
    IN  After[Len(value)][1]

AtoiByteUncut(value) == Atoi(value)         \* mutant of AtoiByte
\* cw_type_byte: a number is cut to eight bits.
AtoiByte(value) == Atoi(value) % 256

\* cw_cfg_get_byte
GetByte(cfg, name, default) ==
    IF name \in DOMAIN cfg THEN AtoiByte(cfg[name]) ELSE default

------------------------------------------------------------------------------
(* Writing *)

\* A value that begins or ends with white space.
White == {Blank, Newline}
Spaced(value) == value # <<>> /\ (Head(value) \in White \/ Last(value) \in White)

\* cw_cfg_write_to_file: a spaced value is put between quotes; nothing in it is
\* escaped.
Line(name, value) ==
    LET quotes == IF Spaced(value) THEN <<Quote>> ELSE <<>>
    IN  name \o <<Colon, Blank>> \o quotes \o value \o quotes \o <<Newline>>

\* The comment cw_cfg_save is given, then a line for each key.
Header == <<Hash, Newline>>
Text(cfg) ==
    LET names == InOrder(DOMAIN cfg)
    IN  Header \o FlattenSeq([i \in DOMAIN names |-> Line(names[i], cfg[names[i]])])

------------------------------------------------------------------------------
(* Reading: cw_cfg_read_from_file, one character at a time *)

\* The reader before the first character.  quote is p->quote, which outlives
\* the line; a name has no bound here: those of the tables are short.
Reader == [in |-> "line", quote |-> FALSE, name |-> <<>>, value |-> <<>>, cfg |-> EmptyCfg]

\* read_val is done with a value; cw_cfg_set.
Assign(r, value) ==
    [r EXCEPT !.in = "line", !.cfg = Set(@, r.name, value)]

\* The white space at the end of a value without quotes is dropped.
Trim(value) ==
    SubSeq(value, 1, Max({0} \cup {i \in DOMAIN value : value[i] # Blank}))

Escapes == {"n", Backslash, Quote}
Escaped(c) == IF c = "n" THEN Newline ELSE c

\* Reading ends: the name is empty, or there is no colon after it.
Finish(r) == [r EXCEPT !.in = IF r.name = <<>> THEN "end" ELSE "error"]

\* skip_to_colon
ReadColon(r, c) ==
    CASE c = Blank -> [r EXCEPT !.in = "colon"]
      [] c = Colon -> [r EXCEPT !.in = "value", !.value = <<>>]
      [] OTHER     -> [r EXCEPT !.in = "error"]

\* get_char_q and the loop of read_key.
ReadName(r, c) ==
    IF c = EOF THEN Finish(r)
    ELSE IF c = Quote THEN [r EXCEPT !.quote = ~ @]
    ELSE IF r.quote /\ c = Backslash THEN [r EXCEPT !.in = "name escape"]
    ELSE IF r.quote \/ c \in KeyChars THEN [r EXCEPT !.name = Append(@, c)]
    ELSE IF r.name = <<>> THEN Finish(r)
    ELSE ReadColon(r, c)

ReadNameEscape(r, c) ==
    LET name == [r EXCEPT !.in = "name"]
    IN  CASE c = EOF         -> Finish(r)
          [] c \in Escapes   -> [name EXCEPT !.name = Append(@, Escaped(c))]
          [] OTHER           -> ReadName([name EXCEPT !.name = Append(@, Backslash)], c)

\* The beginning of read_key.
ReadLine(r, c) ==
    LET line == [r EXCEPT !.name = <<>>]
    IN  CASE c \in {Blank, Newline} -> line
          [] c = Hash              -> [line EXCEPT !.in = "comment"]
          [] c = EOF               -> Finish(line)
          [] OTHER                 -> ReadName([line EXCEPT !.in = "name"], c)

ReadComment(r, c) ==
    CASE c = Newline -> [r EXCEPT !.in = "line"]
      [] c = EOF     -> Finish(r)
      [] OTHER       -> r

\* The rest of read_val.  At the limit the character that ends the loop is
\* lost, whatever it is.
Full(r) == Len(r.value) = MaxValue

ReadText(r, c) ==
    IF c \in {Newline, EOF} \/ Full(r) THEN Assign(r, Trim(r.value))
    ELSE [r EXCEPT !.in = "text", !.value = Append(@, c)]

ReadQuoted(r, c) ==
    IF c \in {Quote, Newline, EOF} \/ Full(r) THEN Assign(r, r.value)
    ELSE IF c = Backslash THEN [r EXCEPT !.in = "escape"]
    ELSE [r EXCEPT !.in = "quoted", !.value = Append(@, c)]

ReadEscape(r, c) ==
    LET quoted == [r EXCEPT !.in = "quoted"]
    IN  IF c \in Escapes THEN [quoted EXCEPT !.value = Append(@, Escaped(c))]
        ELSE ReadQuoted([quoted EXCEPT !.value = Append(@, Backslash)], c)

ReadValue(r, c) ==
    CASE c = Blank -> r
      [] c = Quote -> [r EXCEPT !.in = "quoted"]
      [] OTHER     -> ReadText(r, c)

Read(r, c) ==
    CASE r.in = "line"        -> ReadLine(r, c)
      [] r.in = "comment"     -> ReadComment(r, c)
      [] r.in = "name"        -> ReadName(r, c)
      [] r.in = "name escape" -> ReadNameEscape(r, c)
      [] r.in = "colon"       -> ReadColon(r, c)
      [] r.in = "value"       -> ReadValue(r, c)
      [] r.in = "text"        -> ReadText(r, c)
      [] r.in = "quoted"      -> ReadQuoted(r, c)
      [] r.in = "escape"      -> ReadEscape(r, c)
      [] OTHER                -> r

\* The loop of cw_cfg_read_from_file: the reader after a piece of the input.
ReadOn(r, input) ==
    LET After[i \in 0 .. Len(input)] ==
            IF i = 0 THEN r ELSE Read(After[i - 1], input[i])
    IN  After[Len(input)]

\* cw_cfg_load: the store that was read, and whether there was no error.
Load(text) ==
    LET last == ReadOn(Reader, Append(text, EOF))
    IN  [cfg |-> last.cfg, ok |-> last.in # "error"]

------------------------------------------------------------------------------
(* The octets of a message element *)

\* format_hex: two digits for each octet.  Only the first is below 0x20.
Hex ==
    [o \in {Newline, Blank, Quote, Dot, Colon, Backslash, "n", "x"} |->
        CASE o = Newline   -> <<"0", "A">>
          [] o = Blank     -> <<"2", "0">>
          [] o = Quote     -> <<"2", "2">>
          [] o = Dot       -> <<"2", "E">>
          [] o = Colon     -> <<"3", "A">>
          [] o = Backslash -> <<"5", "C">>
          [] o = "n"       -> <<"6", "E">>
          [] o = "x"       -> <<"7", "8">>]
Octets == DOMAIN Hex

\* format_is_utf8
Printable(octets) == Newline \notin Range(octets)

\* bread of CW_TYPE_BSTR16: what cannot be printed is kept in hexadecimal.
Stored(octets) ==
    IF Printable(octets) THEN octets
    ELSE <<Dot, "x">> \o FlattenSeq([i \in DOMAIN octets |-> Hex[octets[i]]])

\* cw_format_scan_hex_bytes: digits taken from the end in pairs, an odd one
\* alone.  Another octet stands for all those that are not in Hex.
FromHex(digits) ==
    LET padded == IF Len(digits) % 2 = 0 THEN digits ELSE <<"0">> \o digits
        OctetOf(pair) == IF \E o \in Octets : Hex[o] = pair
                         THEN CHOOSE o \in Octets : Hex[o] = pair ELSE "other"
    IN  [i \in 1 .. Len(padded) \div 2 |-> OctetOf(SubSeq(padded, 2 * i - 1, 2 * i))]

SentUndecoded(value) == value               \* mutant of Sent
\* xput, the octets written into an element for a value.
Sent(value) ==
    IF Len(value) <= 2 \/ value[1] # Dot THEN value
    ELSE IF value[2] = Dot THEN Tail(value)
    ELSE IF value[2] = "x" THEN FromHex(SubSeq(value, 3, Len(value)))
    ELSE value

------------------------------------------------------------------------------
(* What a file can hold, said without the reader *)

\* A value that is read from its line as it was written.
Plain(value) ==
    LET escapes == \E i \in 1 .. Len(value) - 1 :
                       value[i] = Backslash /\ value[i + 1] \in Escapes
    IN  /\ Len(value) <= MaxValue
        /\ Newline \notin Range(value)
        /\ IF Spaced(value)
           THEN Quote \notin Range(value) /\ ~ escapes /\ Last(value) # Backslash
           ELSE value = <<>> \/ Head(value) # Quote

\* A store that is read from its text as it was written.
Holdable(cfg) ==
    \A n \in DOMAIN cfg :
        n # <<>> /\ Head(n) # Hash /\ Range(n) \subseteq KeyChars /\ Plain(cfg[n])

\* Octets that are sent again as they were received: those that can be printed
\* must make a plain value that is not taken for another encoding, and those
\* that cannot must fit when each takes two digits.
Faithful(octets) ==
    IF Printable(octets)
    THEN Plain(octets) /\ (Len(octets) > 2 /\ octets[1] = Dot => octets[2] \notin {Dot, "x"})
    ELSE 2 + 2 * Len(octets) <= MaxValue
=============================================================================
