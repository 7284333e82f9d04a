---------------------------- MODULE WtpStartProofs ----------------------------
(***************************************************************************)
(* The settings of a WTP survive a restart, and no controller that answers *)
(* is left out, for any letters, lengths, messages, controllers and        *)
(* addresses.                                                              *)
(*                                                                         *)
(* Induction over data is done by hand: a set of numbers that is closed    *)
(* under the next one holds all of them (NatInd), and the state of a loop  *)
(* after each of its rounds is a function that is determined by them       *)
(* (Recursion), so the recursive functions of Cfg are equal to it.         *)
(*                                                                         *)
(* The reader: Leads(r, s, q, O) says that the text s takes the reader     *)
(* from r to q, and that a file which ends inside s leaves something of O. *)
(* Texts in a row are read in a row (LeadsConcat), so the text of a store  *)
(* follows from its lines, and these from name, colon and value.  O is     *)
(* what a cut may leave: an error, or a beginning of the store.            *)
(*                                                                         *)
(* The invariants: StoreInv relates the store, the file, what it was       *)
(* written from and what controllers told the WTP.  IInv: the counter in   *)
(* the rank of a candidate is the number of elements at the time, so every *)
(* element has a counter below that number, and a new one never has the    *)
(* rank of one before.  JoinInv: the places of the program, and what the   *)
(* search holds in each.                                                   *)
(***************************************************************************)
EXTENDS WtpStart, FiniteSetTheorems, SequenceTheorems, TLAPS

------------------------------------------------------------------------------
(* Numbers and recursive functions *)

\* Induction over the numbers, for a set: the least number that is not in it
\* cannot be.
LEMMA NatInd ==
    ASSUME NEW S, 0 \in S, \A n \in Nat : n \in S => n + 1 \in S
    PROVE  Nat \subseteq S
<1> DEFINE T == Nat \ S
<1> SUFFICES ASSUME T # {} PROVE FALSE
  OBVIOUS
<1>1. PICK x \in T : \A y \in T : ~ (<<y, x>> \in OpToRel(<, Nat))
  <2>1. IsWellFoundedOn(OpToRel(<, Nat), Nat)
    BY NatLessThanWellFounded
  <2>2. T \subseteq Nat
    OBVIOUS
  <2> HIDE DEF T
  <2> QED BY <2>1, <2>2, WFMin
<1>2. \A y \in T : ~ (y < x)
  BY <1>1 DEF OpToRel
<1>3. x - 1 \in Nat /\ x - 1 < x
  OBVIOUS
<1> QED BY <1>2, <1>3

\* A set of numbers that is not empty has a least one.
LEMMA NatMin ==
    ASSUME NEW S, NEW n \in Nat, n \in S
    PROVE  \E m \in Nat \cap S : \A k \in Nat \cap S : m <= k
<1> DEFINE T == Nat \cap S
<1>1. PICK x \in T : \A y \in T : ~ (<<y, x>> \in OpToRel(<, Nat))
  <2>1. IsWellFoundedOn(OpToRel(<, Nat), Nat)
    BY NatLessThanWellFounded
  <2>2. T \subseteq Nat /\ T # {}
    OBVIOUS
  <2> HIDE DEF T
  <2> QED BY <2>1, <2>2, WFMin
<1>2. \A y \in T : ~ (y < x)
  BY <1>1 DEF OpToRel
<1> QED BY <1>2

\* f gives the i-th value of S from the one before it.
Steps(f, n, S) == f \in [(1 .. n) \X S -> S]
Run(g, f, s, n, S) ==
    /\ g \in [0 .. n -> S] /\ g[0] = s
    /\ \A i \in 1 .. n : g[i] = f[<<i, g[i - 1]>>]

\* A function with f[i, x] for the step from i - 1 to i has a run of any length.
LEMMA Recursion ==
    ASSUME NEW S, NEW n \in Nat, NEW f, Steps(f, n, S), NEW s \in S
    PROVE  \E g : Run(g, f, s, n, S)
<1> DEFINE First(k, g) ==
               /\ g \in [0 .. k -> S] /\ g[0] = s
               /\ \A i \in 1 .. k : g[i] = f[<<i, g[i - 1]>>]
           Done == {k \in Nat : k <= n => \E g : First(k, g)}
<1>1. 0 \in Done
  <2> DEFINE g == [i \in 0 .. 0 |-> s]
  <2>1. First(0, g)
    OBVIOUS
  <2> QED BY <2>1
<1>2. \A k \in Nat : k \in Done => k + 1 \in Done
  <2> HIDE DEF First
  <2> SUFFICES ASSUME NEW k \in Nat, k \in Done, k + 1 <= n
               PROVE  \E g : First(k + 1, g)
    OBVIOUS
  <2>1. PICK h : First(k, h)
    OBVIOUS
  <2> USE DEF First
  <2>2. h[k] \in S /\ k + 1 \in 1 .. n
    BY <2>1
  <2> DEFINE new == f[<<k + 1, h[k]>>]
             g == [i \in 0 .. k + 1 |-> IF i = k + 1 THEN new ELSE h[i]]
  <2>3. new \in S
    BY <2>2 DEF Steps
  <2>4. g \in [0 .. k + 1 -> S] /\ g[0] = s
    BY <2>1, <2>3
  <2>5. \A i \in 1 .. k + 1 : g[i] = f[<<i, g[i - 1]>>]
    <3> SUFFICES ASSUME NEW i \in 1 .. k + 1 PROVE g[i] = f[<<i, g[i - 1]>>]
      OBVIOUS
    <3>1. CASE i = k + 1
      <4>1. g[k + 1] = new /\ g[k] = h[k] /\ i - 1 = k
        BY <3>1
      <4> QED BY <4>1, <3>1
    <3>2. CASE i \in 1 .. k
      <4>1. g[i] = h[i] /\ g[i - 1] = h[i - 1]
        BY <3>2
      <4> QED BY <4>1, <3>2, <2>1
    <3> QED BY <3>1, <3>2
  <2> QED BY <2>4, <2>5
<1>3. n \in Done
  <2> HIDE DEF Done
  <2> QED BY <1>1, <1>2, NatInd
<1> QED BY <1>3 DEF Run

\* What FlattenSeq makes of a sequence, piece by piece.
Pieces(g, seqs, C) ==
    /\ g \in [0 .. Len(seqs) -> Seq(C)] /\ g[0] = <<>>
    /\ \A i \in 1 .. Len(seqs) : g[i] = g[i - 1] \o seqs[i]

\* The flattening of a list of lists has such a function.
LEMMA HasPieces ==
    ASSUME NEW C, NEW seqs \in Seq(Seq(C))
    PROVE  \E g : Pieces(g, seqs, C)
<1> DEFINE n == Len(seqs)
           S == Seq(C)
           f == [x \in (1 .. n) \X S |-> x[2] \o seqs[x[1]]]
<1>1. n \in Nat /\ \A i \in 1 .. n : seqs[i] \in Seq(C)
  BY LenProperties
<1>2. Steps(f, n, S)
  <2> SUFFICES ASSUME NEW i \in 1 .. n, NEW x \in S PROVE x \o seqs[i] \in S
    BY DEF Steps
  <2>1. seqs[i] \in Seq(C)
    BY <1>1
  <2> QED BY <2>1, ConcatProperties
<1>3. PICK g : Run(g, f, <<>>, n, S)
  <2>1. <<>> \in S
    BY EmptySeq
  <2> HIDE DEF n, f, S
  <2> QED BY <1>1, <1>2, <2>1, Recursion
<1> HIDE DEF n
<1>4. \A i \in 1 .. n : g[i] = g[i - 1] \o seqs[i]
  <2> SUFFICES ASSUME NEW i \in 1 .. n PROVE g[i] = g[i - 1] \o seqs[i]
    OBVIOUS
  <2> HIDE DEF S
  <2>1. i - 1 \in 0 .. n
    BY <1>1
  <2>2. g[i - 1] \in S
    BY <1>3, <2>1 DEF Run
  <2>3. g[i] = f[<<i, g[i - 1]>>]
    BY <1>3 DEF Run
  <2> QED BY <2>2, <2>3
<1> QED BY <1>3, <1>4 DEF Run, Pieces, n

\* And it is what FlattenSeq of the community modules gives.
LEMMA FlattenPieces ==
    ASSUME NEW C, NEW seqs \in Seq(Seq(C)), NEW g, Pieces(g, seqs, C)
    PROVE  FlattenSeq(seqs) = g[Len(seqs)]
<1> DEFINE n == Len(seqs)
<1>1. n \in Nat /\ \A i \in 1 .. n : seqs[i] \in Seq(C)
  BY LenProperties
<1>2. CASE n = 0
  BY <1>2, <1>1, EmptySeq DEF FlattenSeq, Pieces
<1>3. CASE n # 0
  <2> DEFINE Body(h) == [i \in 1 .. n |-> IF i = 1 THEN seqs[i] ELSE h[i - 1] \o seqs[i]]
             flat == CHOOSE h : h = Body(h)
             sums == [i \in 1 .. n |-> g[i]]
  <2>1. FlattenSeq(seqs) = flat[n]
    BY <1>3 DEF FlattenSeq
  <2> HIDE DEF n
  <2>2. \A i \in 1 .. n : g[i] = g[i - 1] \o seqs[i]
    BY DEF Pieces, n
  <2>3. 1 \in 1 .. n /\ g[1] = seqs[1]
    <3>1. 1 \in 1 .. n /\ 1 - 1 = 0
      BY <1>1, <1>3
    <3>2. g[1] = <<>> \o seqs[1]
      <4>1. g[1] = g[1 - 1] \o seqs[1]
        BY <2>2, <3>1
      <4> QED BY <4>1, <3>1 DEF Pieces
    <3>3. seqs[1] \in Seq(C)
      BY <3>1, <1>1
    <3> QED BY <3>1, <3>2, <3>3, ConcatEmptySeq
  <2>4. sums = Body(sums)
    <3>1. ASSUME NEW i \in 1 .. n
          PROVE  g[i] = IF i = 1 THEN seqs[i] ELSE sums[i - 1] \o seqs[i]
      <4>1. CASE i = 1
        BY <4>1, <2>3
      <4>2. CASE i # 1
        <5>1. i - 1 \in 1 .. n
          BY <4>2, <1>1
        <5> QED BY <5>1, <4>2, <2>2
      <4> QED BY <4>1, <4>2
    <3> QED BY <3>1
  <2>5. flat = Body(flat)
    <3> HIDE DEF sums, Body
    <3> QED BY <2>4
  <2>6. \A i \in 1 .. n : flat[i] = IF i = 1 THEN seqs[i] ELSE flat[i - 1] \o seqs[i]
    <3> HIDE DEF flat
    <3> QED BY <2>5
  <2> DEFINE Same == {i \in Nat : i + 1 \in 1 .. n => flat[i + 1] = g[i + 1]}
  <2> HIDE DEF flat
  <2>7. 0 \in Same
    BY <2>3, <2>6
  <2>8. \A i \in Nat : i \in Same => i + 1 \in Same
    <3> SUFFICES ASSUME NEW i \in Nat, i \in Same, i + 2 \in 1 .. n
                 PROVE  flat[i + 2] = g[i + 2]
      OBVIOUS
    <3>1. i + 1 \in 1 .. n /\ (i + 2) - 1 = i + 1 /\ i + 2 # 1
      BY <1>1
    <3>2. flat[i + 2] = flat[i + 1] \o seqs[i + 2]
      BY <2>6, <3>1
    <3>3. g[i + 2] = g[i + 1] \o seqs[i + 2]
      BY <2>2, <3>1
    <3> QED BY <3>1, <3>2, <3>3
  <2>9. n - 1 \in Same
    <3> HIDE DEF Same
    <3>1. Nat \subseteq Same
      BY <2>7, <2>8, NatInd
    <3> QED BY <3>1, <1>1, <1>3
  <2> QED BY <2>1, <2>9, <1>1, <1>3 DEF n
<1> QED BY <1>2, <1>3

------------------------------------------------------------------------------
(* Characters and stores *)

\* What the reader takes, and what it takes them from.
Input == Chars \cup {EOF}
Strings == Seq(Chars)

\* An injection between sets of one size takes every value.
LEMMA InjectionCovers ==
    ASSUME NEW S, IsFiniteSet(S), NEW T, IsFiniteSet(T), Cardinality(S) = Cardinality(T),
           NEW f \in Injection(S, T)
    PROVE  \A t \in T : \E s \in S : f[s] = t
<1> DEFINE U == {f[s] : s \in S}
<1>1. U \in SUBSET T
  BY DEF Injection
<1>2. f \in Surjection(S, U) /\ f \in Injection(S, U)
  BY DEF Surjection, Injection
<1> HIDE DEF U
<1>3. Cardinality(U) = Cardinality(T)
  BY <1>2, FS_Surjection
<1>4. U = T
  BY <1>1, <1>3, FS_Subset
<1> QED BY <1>4 DEF U

\* The letters are listed, in an order that is left open.
LEMMA SeqOfLetters == SetToSeq(Letters) \in Seq(Letters) /\ Range(SetToSeq(Letters)) = Letters
<1> DEFINE n == Cardinality(Letters)
           s == SetToSeq(Letters)
<1>1. IsFiniteSet(Letters)
  BY CfgAssumption
<1>2. n \in Nat /\ Bijection(1 .. n, Letters) # {}
  BY <1>1, FS_CardinalityType DEF ExistsBijection
<1>3. PICK f : f \in Bijection(1 .. n, Letters)
  BY <1>2
<1>4. f \in [1 .. n -> Letters] /\ IsInjective(f)
  BY <1>3 DEF Bijection, Injection
<1>5. s \in [1 .. n -> Letters] /\ IsInjective(s)
  BY <1>4 DEF SetToSeq
<1>6. s \in Seq(Letters) /\ Len(s) = n
  BY <1>2, <1>5
<1>7. Range(s) = Letters
  <2> DEFINE D == 1 .. n
  <2>1. IsFiniteSet(D) /\ Cardinality(D) = Cardinality(Letters)
    BY <1>2, FS_Interval
  <2> HIDE DEF s
  <2>2. s \in Injection(D, Letters)
    BY <1>5 DEF Injection
  <2> HIDE DEF D
  <2>3. \A c \in Letters : \E i \in D : s[i] = c
    BY <1>1, <2>1, <2>2, InjectionCovers
  <2> QED BY <1>5, <2>3 DEF Range, D
<1> QED BY <1>6, <1>7

\* The characters of the alphabet that are not letters.
Signs == {Newline, Blank, Quote, Hash, Dot, Colon, Backslash, "A", "B", "C", "D", "E", "F"} \cup Range(Digits)

\* The ten digits.
LEMMA DigitsList ==
    /\ Digits \in Seq(Range(Digits)) /\ Len(Digits) = 10
    /\ Range(Digits) = {"0", "1", "2", "3", "4", "5", "6", "7", "8", "9"}
BY DEF Digits, Range

\* The characters are those of the alphabet, which is a list.
LEMMA AlphabetList ==
    /\ Alphabet \in Seq(Signs \cup Letters)
    /\ Range(Alphabet) = Signs \cup Letters
<1> DEFINE S == Signs \cup Letters
           a == <<Newline, Blank, Quote, Hash, Dot>>
           b == <<Colon, "A", "B", "C", "D", "E", "F", Backslash>>
           l == SetToSeq(Letters)
<1>1. a \in Seq(S) /\ Range(a) = {Newline, Blank, Quote, Hash, Dot}
  BY DEF Range, Signs
<1>2. b \in Seq(S) /\ Range(b) = {Colon, "A", "B", "C", "D", "E", "F", Backslash}
  BY DEF Range, Signs
<1>3. Digits \in Seq(S)
  BY DigitsList, SeqMonotonic DEF Signs
<1>4. l \in Seq(S) /\ Range(l) = Letters
  BY SeqOfLetters, SeqMonotonic
<1>5. Alphabet = ((a \o Digits) \o b) \o l
  BY DEF Alphabet
<1> HIDE DEF S, a, b, l
<1> DEFINE ad == a \o Digits
           adb == ad \o b
<1>6. a \o Digits \in Seq(S) /\ Range(a \o Digits) = Range(a) \cup Range(Digits)
  BY <1>1, <1>3, ConcatProperties, RangeConcatenation
<1>7. adb \in Seq(S) /\ Range(adb) = Range(a) \cup Range(Digits) \cup Range(b)
  <2>1. ad \in Seq(S) /\ Range(ad) = Range(a) \cup Range(Digits)
    BY <1>6
  <2> HIDE DEF ad
  <2> QED BY <1>2, <2>1, ConcatProperties, RangeConcatenation
<1>8. Alphabet = adb \o l
  BY <1>5
<1> HIDE DEF adb
<1>9. Alphabet \in Seq(S) /\ Range(Alphabet) = Range(adb) \cup Range(l)
  BY <1>4, <1>7, <1>8, ConcatProperties, RangeConcatenation
<1> QED BY <1>1, <1>2, <1>4, <1>7, <1>9 DEF Signs, S

\* Which characters there are; the end of the file is none.
LEMMA CharsAre ==
    /\ Chars = Signs \cup Letters
    /\ Letters \subseteq Chars /\ {"n", "x"} \subseteq Chars
    /\ {Newline, Blank, Quote, Hash, Dot, Colon, Backslash} \subseteq Chars
    /\ EOF \notin Chars
<1>1. Chars = Signs \cup Letters
  BY AlphabetList DEF Chars
<1>2. EOF \notin Signs
  BY DigitsList DEF Signs, EOF, Newline, Blank, Quote, Hash, Dot, Colon, Backslash
<1> QED BY <1>1, <1>2, CfgAssumption DEF Signs

\* The order of two characters is that of two different numbers.
LEMMA CodeIsOrder ==
    /\ \A c \in Chars : Code[c] \in Nat
    /\ \A c, d \in Chars : Code[c] = Code[d] => c = d
<1>1. DOMAIN Alphabet = 1 .. Len(Alphabet) /\ Len(Alphabet) \in Nat
  BY AlphabetList, LenProperties
<1>2. \A c \in Chars : \E i \in DOMAIN Alphabet : Alphabet[i] = c
  BY DEF Chars, Range
<1>3. \A c \in Chars : Code[c] \in DOMAIN Alphabet /\ Alphabet[Code[c]] = c
  BY <1>2 DEF Code
<1> QED BY <1>1, <1>3

\* Every store, and what makes two functions equal.
Stores == UNION {[D -> Strings] : D \in {E \in SUBSET Strings : IsFiniteSet(E)}}
IsMap(c) == c = [n \in DOMAIN c |-> c[n]]

\* What a store is: finitely many names with a value each.
LEMMA StoreIs ==
    ASSUME NEW c \in Stores
    PROVE  /\ DOMAIN c \subseteq Strings /\ IsFiniteSet(DOMAIN c)
           /\ IsMap(c)
           /\ \A n \in DOMAIN c : c[n] \in Strings
BY DEF Stores, IsMap

\* And that is all there is to it.
LEMMA IsStore ==
    ASSUME NEW c, IsMap(c), DOMAIN c \subseteq Strings,
           IsFiniteSet(DOMAIN c), \A n \in DOMAIN c : c[n] \in Strings
    PROVE  c \in Stores
<1>1. c \in [DOMAIN c -> Strings]
  BY DEF IsMap
<1> QED BY <1>1 DEF Stores

\* Two maps with the same values.
LEMMA MapsEqual ==
    ASSUME NEW c, NEW d, IsMap(c), IsMap(d), DOMAIN c = DOMAIN d,
           \A n \in DOMAIN c : c[n] = d[n]
    PROVE  c = d
BY DEF IsMap

\* The store that cw_cfg_create makes.
LEMMA EmptyStore == EmptyCfg \in Stores /\ DOMAIN EmptyCfg = {}
<1>1. DOMAIN EmptyCfg = {} /\ IsMap(EmptyCfg)
  BY DEF EmptyCfg, IsMap
<1>2. IsFiniteSet({})
  BY FS_EmptySet
<1> QED BY <1>1, <1>2, IsStore

\* cw_cfg_copy: the values of the first, and of the second where that has none.
LEMMA CopyIs ==
    ASSUME NEW src, NEW dst
    PROVE  /\ DOMAIN Copy(src, dst) = DOMAIN src \cup DOMAIN dst
           /\ IsMap(Copy(src, dst))
           /\ \A n \in DOMAIN src : Copy(src, dst)[n] = src[n]
           /\ \A n \in DOMAIN dst \ DOMAIN src : Copy(src, dst)[n] = dst[n]
BY DEF Copy, IsMap

\* A copy of stores is one.
LEMMA CopyStore ==
    ASSUME NEW src \in Stores, NEW dst \in Stores
    PROVE  Copy(src, dst) \in Stores
<1> DEFINE c == Copy(src, dst)
<1>1. /\ DOMAIN c = DOMAIN src \cup DOMAIN dst
      /\ IsMap(c)
      /\ \A n \in DOMAIN src : c[n] = src[n]
      /\ \A n \in DOMAIN dst \ DOMAIN src : c[n] = dst[n]
  BY CopyIs
<1> HIDE DEF c
<1>2. IsFiniteSet(DOMAIN src) /\ IsFiniteSet(DOMAIN dst)
  BY StoreIs
<1>3. IsFiniteSet(DOMAIN c)
  BY <1>1, <1>2, FS_Union
<1>4. DOMAIN c \subseteq Strings
  BY <1>1, StoreIs
<1>5. \A n \in DOMAIN c : c[n] \in Strings
  <2> SUFFICES ASSUME NEW n \in DOMAIN c PROVE c[n] \in Strings
    OBVIOUS
  <2>1. CASE n \in DOMAIN src
    BY <2>1, <1>1, StoreIs
  <2>2. CASE n \notin DOMAIN src
    BY <2>2, <1>1, StoreIs
  <2> QED BY <2>1, <2>2
<1>6. c \in Stores
  BY <1>1, <1>3, <1>4, <1>5, IsStore
<1> QED BY <1>6 DEF c

\* cw_cfg_set changes the value of one name.
LEMMA SetIs ==
    ASSUME NEW c \in Stores, NEW name \in Strings, NEW value \in Strings
    PROVE  /\ Set(c, name, value) \in Stores
           /\ DOMAIN Set(c, name, value) = DOMAIN c \cup {name}
           /\ Set(c, name, value)[name] = value
           /\ \A n \in DOMAIN c \ {name} : Set(c, name, value)[n] = c[n]
<1> DEFINE one == [n \in {name} |-> value]
<1>1. IsMap(one) /\ DOMAIN one = {name} /\ one[name] = value
  BY DEF IsMap
<1>2. Set(c, name, value) = Copy(one, c)
  BY DEF Set
<1>3. IsFiniteSet(DOMAIN one)
  BY <1>1, FS_Singleton
<1> HIDE DEF one
<1>4. one \in Stores
  BY <1>1, <1>3, IsStore
<1>5. Copy(one, c) \in Stores
  BY <1>4, CopyStore
<1>6. /\ DOMAIN Copy(one, c) = DOMAIN one \cup DOMAIN c
      /\ \A n \in DOMAIN one : Copy(one, c)[n] = one[n]
      /\ \A n \in DOMAIN c \ DOMAIN one : Copy(one, c)[n] = c[n]
  BY CopyIs
<1> QED BY <1>1, <1>2, <1>5, <1>6

\* Every state of the reader.
Readers ==
    [in : {"line", "comment", "name", "name escape", "colon", "value", "text", "quoted",
           "escape", "end", "error"},
     quote : BOOLEAN, name : Strings, value : Strings, cfg : Stores]

\* The greatest of some numbers up to n is one of them.
LEMMA MaxOf ==
    ASSUME NEW n \in Nat, NEW S \in SUBSET (0 .. n), S # {}
    PROVE  Max(S) \in S /\ \A k \in S : k <= Max(S)
<1> DEFINE T == {n - k : k \in S}
<1>1. PICK k0 : k0 \in S
  OBVIOUS
<1>2. n - k0 \in Nat /\ n - k0 \in T
  BY <1>1
<1>3. PICK m \in Nat \cap T : \A k \in Nat \cap T : m <= k
  <2> HIDE DEF T
  <2> QED BY <1>2, NatMin
<1>4. PICK x \in S : m = n - x
  OBVIOUS
<1>5. \A y \in S : x >= y
  <2> SUFFICES ASSUME NEW y \in S PROVE x >= y
    OBVIOUS
  <2>1. n - y \in Nat \cap T
    OBVIOUS
  <2>2. m <= n - y
    BY <2>1, <1>3
  <2> QED BY <2>2, <1>4
<1>6. Max(S) \in S /\ \A y \in S : Max(S) >= y
  BY <1>5 DEF Max
<1> QED BY <1>6

\* What is left of a value is a beginning of it, and all of it if the last
\* character is no white space.
LEMMA TrimIs ==
    ASSUME NEW v \in Strings
    PROVE  /\ \E k \in 0 .. Len(v) : Trim(v) = SubSeq(v, 1, k)
           /\ v = <<>> \/ v[Len(v)] # Blank => Trim(v) = v
<1> DEFINE S == {0} \cup {i \in DOMAIN v : v[i] # Blank}
<1>1. Len(v) \in Nat /\ DOMAIN v = 1 .. Len(v) /\ SubSeq(v, 1, Len(v)) = v
  BY LenProperties, SubSeqFull DEF Strings
<1>2. S \in SUBSET (0 .. Len(v)) /\ S # {}
  BY <1>1
<1>3. Trim(v) = SubSeq(v, 1, Max(S))
  BY DEF Trim
<1>4. ASSUME v = <<>> \/ v[Len(v)] # Blank PROVE Len(v) \in S
  <2>1. CASE v = <<>>
    BY <2>1
  <2>2. CASE v # <<>>
    <3>1. Len(v) \in DOMAIN v
      BY <1>1, <2>2, EmptySeq DEF Strings
    <3> QED BY <1>4, <2>2, <3>1
  <2> QED BY <2>1, <2>2
<1> HIDE DEF S
<1>5. Max(S) \in 0 .. Len(v) /\ (Len(v) \in S => Max(S) = Len(v))
  <2> DEFINE m == Max(S)
  <2>1. m \in S /\ \A k \in S : k <= m
    BY <1>1, <1>2, MaxOf
  <2> HIDE DEF m
  <2>2. m \in 0 .. Len(v)
    BY <1>2, <2>1
  <2>3. ASSUME Len(v) \in S PROVE m = Len(v)
    <3>1. Len(v) <= m
      BY <2>1, <2>3
    <3> DEFINE l == Len(v)
    <3>2. l \in Nat /\ l <= m /\ m \in 0 .. l
      BY <3>1, <1>1, <2>2
    <3> HIDE DEF l
    <3>3. m = l
      BY <3>2
    <3> QED BY <3>3 DEF l
  <2> QED BY <2>2, <2>3 DEF m
<1> QED BY <1>1, <1>3, <1>4, <1>5

------------------------------------------------------------------------------
(* The reader *)

\* A character more.
LEMMA Appended ==
    ASSUME NEW s \in Strings, NEW c \in Chars
    PROVE  /\ Append(s, c) \in Strings /\ Len(Append(s, c)) = Len(s) + 1
           /\ Append(s, c) # <<>>
BY AppendProperties DEF Strings

\* A beginning of a text.
LEMMA SubSeqIs ==
    ASSUME NEW s \in Strings, NEW k \in 0 .. Len(s)
    PROVE  /\ SubSeq(s, 1, k) \in Strings /\ Len(SubSeq(s, 1, k)) = k
           /\ \A i \in 1 .. k : SubSeq(s, 1, k)[i] = s[i]
<1>1. Len(s) \in Nat /\ \A i \in 1 .. k : s[i] \in Chars
  BY LenProperties, ElementOfSeq DEF Strings
<1> QED BY <1>1, SubSeqProperties DEF Strings

\* The text without a character.
LEMMA EmptyString == <<>> \in Strings /\ Len(<<>>) = 0
BY EmptySeq DEF Strings

\* read_val is done: the value is in the store and the next line follows.
LEMMA AssignIs ==
    ASSUME NEW r \in Readers, NEW v \in Strings
    PROVE  /\ Assign(r, v) \in Readers
           /\ Assign(r, v).in = "line" /\ Assign(r, v).cfg = Set(r.cfg, r.name, v)
           /\ Assign(r, v).quote = r.quote
<1>1. Set(r.cfg, r.name, v) \in Stores
  BY SetIs DEF Readers
<1> QED BY <1>1 DEF Assign, Readers

\* Each part of the reader leaves a reader behind: the end,
LEMMA FinishType == \A r \in Readers : Finish(r) \in Readers
BY DEF Finish, Readers

\* what follows a name,
LEMMA ReadColonType == \A r \in Readers, c \in Input : ReadColon(r, c) \in Readers
BY EmptyString DEF ReadColon, Readers

\* a character of the name,
LEMMA ReadNameType == \A r \in Readers, c \in Input : ReadName(r, c) \in Readers
<1> SUFFICES ASSUME NEW r \in Readers, NEW c \in Input PROVE ReadName(r, c) \in Readers
  OBVIOUS
<1>1. Finish(r) \in Readers /\ ReadColon(r, c) \in Readers
  BY FinishType, ReadColonType
<1>2. [r EXCEPT !.quote = ~ @] \in Readers
  BY DEF Readers
<1>3. [r EXCEPT !.in = "name escape"] \in Readers
  BY DEF Readers
<1>4. c # EOF => [r EXCEPT !.name = Append(@, c)] \in Readers
  BY Appended DEF Readers, Input
<1> QED BY <1>1, <1>2, <1>3, <1>4 DEF ReadName

\* one after a backslash in it,
LEMMA ReadNameEscapeType == \A r \in Readers, c \in Input : ReadNameEscape(r, c) \in Readers
<1> SUFFICES ASSUME NEW r \in Readers, NEW c \in Input PROVE ReadNameEscape(r, c) \in Readers
  OBVIOUS
<1> DEFINE name == [r EXCEPT !.in = "name"]
<1>1. name \in Readers
  BY DEF Readers
<1>2. c \in Escapes => Escaped(c) \in Chars
  BY CharsAre DEF Escapes, Escaped
<1>3. c \in Escapes => [name EXCEPT !.name = Append(@, Escaped(c))] \in Readers
  <2> HIDE DEF name
  <2> QED BY <1>1, <1>2, Appended DEF Readers
<1>4. [name EXCEPT !.name = Append(@, Backslash)] \in Readers
  <2> HIDE DEF name
  <2> QED BY <1>1, CharsAre, Appended DEF Readers
<1>5. ReadName([name EXCEPT !.name = Append(@, Backslash)], c) \in Readers
  <2> HIDE DEF name
  <2> QED BY <1>4, ReadNameType
<1> QED BY <1>3, <1>5, FinishType DEF ReadNameEscape

\* the beginning of a line,
LEMMA ReadLineType == \A r \in Readers, c \in Input : ReadLine(r, c) \in Readers
<1> SUFFICES ASSUME NEW r \in Readers, NEW c \in Input PROVE ReadLine(r, c) \in Readers
  OBVIOUS
<1> DEFINE line == [r EXCEPT !.name = <<>>]
<1>1. line \in Readers
  BY EmptyString DEF Readers
<1> HIDE DEF line
<1>2. [line EXCEPT !.in = "comment"] \in Readers /\ [line EXCEPT !.in = "name"] \in Readers
  BY <1>1 DEF Readers
<1>3. ReadName([line EXCEPT !.in = "name"], c) \in Readers
  BY <1>2, ReadNameType
<1> QED BY <1>1, <1>2, <1>3, FinishType DEF ReadLine, line

\* a value without quotes,
LEMMA ReadTextType == \A r \in Readers, c \in Input : ReadText(r, c) \in Readers
<1> SUFFICES ASSUME NEW r \in Readers, NEW c \in Input PROVE ReadText(r, c) \in Readers
  OBVIOUS
<1>1. Trim(r.value) \in Strings
  BY TrimIs, SubSeqIs DEF Readers
<1>2. c # EOF => [r EXCEPT !.in = "text", !.value = Append(@, c)] \in Readers
  BY Appended DEF Readers, Input
<1> QED BY <1>1, <1>2, AssignIs DEF ReadText

\* one between quotes,
LEMMA ReadQuotedType == \A r \in Readers, c \in Input : ReadQuoted(r, c) \in Readers
<1> SUFFICES ASSUME NEW r \in Readers, NEW c \in Input PROVE ReadQuoted(r, c) \in Readers
  OBVIOUS
<1>1. Assign(r, r.value) \in Readers
  BY AssignIs DEF Readers
<1>2. c # EOF => [r EXCEPT !.in = "quoted", !.value = Append(@, c)] \in Readers
  BY Appended DEF Readers, Input
<1>3. [r EXCEPT !.in = "escape"] \in Readers
  BY DEF Readers
<1> QED BY <1>1, <1>2, <1>3 DEF ReadQuoted

\* and a backslash in it.
LEMMA ReadEscapeType == \A r \in Readers, c \in Input : ReadEscape(r, c) \in Readers
<1> SUFFICES ASSUME NEW r \in Readers, NEW c \in Input PROVE ReadEscape(r, c) \in Readers
  OBVIOUS
<1> DEFINE quoted == [r EXCEPT !.in = "quoted"]
<1>1. quoted \in Readers
  BY DEF Readers
<1> HIDE DEF quoted
<1>2. c \in Escapes => Escaped(c) \in Chars
  BY CharsAre DEF Escapes, Escaped
<1>3. c \in Escapes => [quoted EXCEPT !.value = Append(@, Escaped(c))] \in Readers
  BY <1>1, <1>2, Appended DEF Readers
<1>4. [quoted EXCEPT !.value = Append(@, Backslash)] \in Readers
  BY <1>1, CharsAre, Appended DEF Readers
<1>5. ReadQuoted([quoted EXCEPT !.value = Append(@, Backslash)], c) \in Readers
  BY <1>4, ReadQuotedType
<1> QED BY <1>3, <1>5 DEF ReadEscape, quoted

\* So a character takes a reader to a reader.
LEMMA ReadType == \A r \in Readers, c \in Input : Read(r, c) \in Readers
<1> SUFFICES ASSUME NEW r \in Readers, NEW c \in Input PROVE Read(r, c) \in Readers
  OBVIOUS
<1>1. ReadValue(r, c) \in Readers
  <2>1. [r EXCEPT !.in = "quoted"] \in Readers
    BY DEF Readers
  <2> QED BY <2>1, ReadTextType DEF ReadValue
<1>2. ReadComment(r, c) \in Readers
  <2>1. [r EXCEPT !.in = "line"] \in Readers
    BY DEF Readers
  <2> QED BY <2>1, FinishType DEF ReadComment
<1> QED
  BY <1>1, <1>2, ReadColonType, ReadNameType, ReadNameEscapeType, ReadLineType, ReadTextType,
     ReadQuotedType, ReadEscapeType DEF Read

\* As does none.
LEMMA ReaderType == Reader \in Readers
BY EmptyString, EmptyStore DEF Reader, Readers

(* Reading on *)
\* The reader at the first n places of s.
Follows(g, r, s, n) == g[0] = r /\ \A i \in 1 .. n : g[i] = Read(g[i - 1], s[i])
Trace(g, r, s) == g \in [0 .. Len(s) -> Readers] /\ Follows(g, r, s, Len(s))

\* The reader has a state after every character of the input.
LEMMA HasTrace ==
    ASSUME NEW r \in Readers, NEW s \in Seq(Input)
    PROVE  \E g : Trace(g, r, s)
<1> DEFINE n == Len(s)
           f == [x \in (1 .. n) \X Readers |-> Read(x[2], s[x[1]])]
<1>1. n \in Nat /\ \A i \in 1 .. n : s[i] \in Input
  BY LenProperties, ElementOfSeq
<1> HIDE DEF n
<1>2. Steps(f, n, Readers)
  <2> SUFFICES ASSUME NEW i \in 1 .. n, NEW x \in Readers PROVE Read(x, s[i]) \in Readers
    BY DEF Steps
  <2> QED BY <1>1, ReadType
<1>3. PICK g : Run(g, f, r, n, Readers)
  <2> HIDE DEF f
  <2> QED BY <1>1, <1>2, Recursion
<1>4. \A i \in 1 .. n : g[i] = Read(g[i - 1], s[i])
  <2> SUFFICES ASSUME NEW i \in 1 .. n PROVE g[i] = Read(g[i - 1], s[i])
    OBVIOUS
  <2>1. i - 1 \in 0 .. n
    BY <1>1
  <2>2. g[i - 1] \in Readers
    BY <1>3, <2>1 DEF Run
  <2>3. g[i] = f[<<i, g[i - 1]>>]
    BY <1>3 DEF Run
  <2> QED BY <2>2, <2>3
<1> QED BY <1>3, <1>4 DEF Run, Trace, Follows, n

\* The states are determined by the input.
LEMMA TraceUnique ==
    ASSUME NEW r, NEW n \in Nat, NEW s, NEW g, NEW h,
           Follows(g, r, s, n), Follows(h, r, s, n)
    PROVE  g[n] = h[n]
<1> DEFINE Same == {i \in Nat : i <= n => g[i] = h[i]}
<1>1. 0 \in Same
  BY DEF Follows
<1>2. \A i \in Nat : i \in Same => i + 1 \in Same
  <2> SUFFICES ASSUME NEW i \in Nat, i \in Same, i + 1 <= n PROVE g[i + 1] = h[i + 1]
    OBVIOUS
  <2>1. i + 1 \in 1 .. n /\ (i + 1) - 1 = i /\ g[i] = h[i]
    OBVIOUS
  <2>2. g[i + 1] = Read(g[i], s[i + 1]) /\ h[i + 1] = Read(h[i], s[i + 1])
    BY <2>1 DEF Follows
  <2> QED BY <2>1, <2>2
<1>3. n \in Same
  <2> HIDE DEF Same
  <2> QED BY <1>1, <1>2, NatInd
<1> QED BY <1>3

\* The loop of cw_cfg_read_from_file gives the last of them.
LEMMA ReadOnTrace ==
    ASSUME NEW r \in Readers, NEW s \in Seq(Input), NEW g, Trace(g, r, s)
    PROVE  ReadOn(r, s) = g[Len(s)]
<1> DEFINE n == Len(s)
           Body(h) == [i \in 0 .. n |-> IF i = 0 THEN r ELSE Read(h[i - 1], s[i])]
           after == CHOOSE h : h = Body(h)
<1>1. n \in Nat
  BY LenProperties
<1>2. ReadOn(r, s) = after[n]
  BY DEF ReadOn
<1> HIDE DEF n
<1>3. g = Body(g)
  <2>1. g = [i \in 0 .. n |-> g[i]] /\ g[0] = r /\ \A i \in 1 .. n : g[i] = Read(g[i - 1], s[i])
    BY DEF Trace, Follows, n
  <2>2. \A i \in 0 .. n : g[i] = IF i = 0 THEN r ELSE Read(g[i - 1], s[i])
    BY <1>1, <2>1
  <2> QED BY <2>1, <2>2
<1>4. after = Body(after)
  <2> HIDE DEF Body
  <2> QED BY <1>3
<1> HIDE DEF after
<1>5. after[0] = r /\ \A i \in 1 .. n : after[i] = Read(after[i - 1], s[i])
  BY <1>1, <1>4
<1>6. Follows(g, r, s, n) /\ Follows(after, r, s, n)
  BY <1>5 DEF Trace, Follows, n
<1>7. g[n] = after[n]
  BY <1>1, <1>6, TraceUnique
<1> QED BY <1>2, <1>7 DEF n

\* So the loop takes a reader to a reader,
LEMMA ReadOnType ==
    ASSUME NEW r \in Readers, NEW s \in Seq(Input)
    PROVE  ReadOn(r, s) \in Readers
<1>1. PICK g : Trace(g, r, s)
  BY HasTrace
<1>2. Len(s) \in 0 .. Len(s)
  BY LenProperties
<1> QED BY <1>1, <1>2, ReadOnTrace DEF Trace, Follows

\* stays where it is without input,
LEMMA ReadOnNothing ==
    ASSUME NEW r \in Readers
    PROVE  ReadOn(r, <<>>) = r
<1>1. <<>> \in Seq(Input) /\ Len(<<>>) = 0
  BY EmptySeq
<1>2. PICK g : Trace(g, r, <<>>)
  BY <1>1, HasTrace
<1> QED BY <1>1, <1>2, ReadOnTrace DEF Trace, Follows

\* and goes on by one step with one more character.
LEMMA ReadOnAppend ==
    ASSUME NEW r \in Readers, NEW s \in Seq(Input), NEW c \in Input
    PROVE  ReadOn(r, Append(s, c)) = Read(ReadOn(r, s), c)
<1> DEFINE n == Len(s)
           t == Append(s, c)
<1>1. /\ n \in Nat /\ t \in Seq(Input) /\ Len(t) = n + 1
      /\ (\A i \in 1 .. n : t[i] = s[i]) /\ t[n + 1] = c
  BY LenProperties, AppendProperties
<1> HIDE DEF n, t
<1>2. PICK g : Trace(g, r, t)
  BY <1>1, HasTrace
<1>3. PICK h : Trace(h, r, s)
  BY HasTrace
<1>4. ReadOn(r, t) = g[n + 1] /\ ReadOn(r, s) = h[n]
  BY <1>1, <1>2, <1>3, ReadOnTrace DEF n
<1>5. g[n + 1] = Read(g[n], c)
  <2>1. n + 1 \in 1 .. n + 1 /\ (n + 1) - 1 = n
    BY <1>1
  <2>2. g[n + 1] = Read(g[(n + 1) - 1], t[n + 1])
    BY <1>1, <1>2, <2>1 DEF Trace, Follows
  <2> QED BY <1>1, <2>1, <2>2
<1>6. g[n] = h[n]
  <2>1. Follows(g, r, s, n)
    BY <1>1, <1>2 DEF Trace, Follows
  <2>2. Follows(h, r, s, n)
    BY <1>3 DEF Trace, n
  <2> QED BY <1>1, <2>1, <2>2, TraceUnique
<1> QED BY <1>4, <1>5, <1>6 DEF t

\* A text is read piece by piece.
LEMMA ReadOnConcat ==
    ASSUME NEW r \in Readers, NEW s \in Seq(Input), NEW t \in Seq(Input)
    PROVE  ReadOn(r, s \o t) = ReadOn(ReadOn(r, s), t)
<1> DEFINE q == ReadOn(r, s)
           P(k) == ReadOn(r, s \o SubSeq(t, 1, k)) = ReadOn(q, SubSeq(t, 1, k))
           Good == {k \in Nat : k <= Len(t) => P(k)}
<1>1. Len(t) \in Nat /\ \A i \in 1 .. Len(t) : t[i] \in Input
  BY LenProperties, ElementOfSeq
<1>2. q \in Readers
  BY ReadOnType
<1>3. ASSUME NEW k \in 0 .. Len(t) PROVE SubSeq(t, 1, k) \in Seq(Input)
  BY <1>1, SubSeqProperties
<1>4. 0 \in Good
  <2>1. SubSeq(t, 1, 0) = <<>>
    BY SubSeqEmpty
  <2>2. s \o <<>> = s
    BY ConcatEmptySeq
  <2> HIDE DEF q
  <2>3. ReadOn(q, <<>>) = q
    BY <1>2, ReadOnNothing
  <2> QED BY <2>1, <2>2, <2>3 DEF q
<1>5. \A k \in Nat : k \in Good => k + 1 \in Good
  <2> HIDE DEF P
  <2> SUFFICES ASSUME NEW k \in Nat, P(k), k + 1 <= Len(t) PROVE P(k + 1)
    BY <1>1
  <2> DEFINE u == SubSeq(t, 1, k)
             c == t[k + 1]
  <2>1. u \in Seq(Input) /\ c \in Input
    BY <1>1, <1>3
  <2>2. SubSeq(t, 1, k + 1) = Append(u, c)
    <3>1. 1 \in 1 .. Len(t) /\ k + 1 \in 1 .. Len(t) /\ (k + 1) - 1 = k
      BY <1>1
    <3>2. SubSeq(t, 1, k + 1) = u \o <<c>>
      BY <3>1, SubSeqRecursiveSecond
    <3> HIDE DEF u, c
    <3> QED BY <2>1, <3>2, AppendIsConcat
  <2>3. s \o Append(u, c) = Append(s \o u, c)
    <3> HIDE DEF u, c
    <3>1. <<c>> \in Seq(Input) /\ s \o u \in Seq(Input)
      BY <2>1, ConcatProperties
    <3>2. s \o (u \o <<c>>) = (s \o u) \o <<c>>
      BY <2>1, <3>1, ConcatAssociative
    <3> QED BY <2>1, <3>1, <3>2, AppendIsConcat
  <2>4. ReadOn(r, s \o u) = ReadOn(q, u)
    BY DEF P
  <2> HIDE DEF u, c, q
  <2>5. s \o u \in Seq(Input)
    BY <2>1, ConcatProperties
  <2>6. ReadOn(r, Append(s \o u, c)) = Read(ReadOn(r, s \o u), c)
    BY <2>1, <2>5, ReadOnAppend
  <2>7. ReadOn(q, Append(u, c)) = Read(ReadOn(q, u), c)
    BY <1>2, <2>1, ReadOnAppend
  <2> QED BY <2>2, <2>3, <2>4, <2>6, <2>7 DEF P
<1>6. Len(t) \in Good
  <2> HIDE DEF Good
  <2> QED BY <1>1, <1>4, <1>5, NatInd
<1>7. SubSeq(t, 1, Len(t)) = t
  BY SubSeqFull
<1>8. P(Len(t))
  <2> HIDE DEF P
  <2> QED BY <1>1, <1>6
<1> HIDE DEF q
<1>9. ReadOn(r, s \o t) = ReadOn(q, t)
  BY <1>7, <1>8
<1> QED BY <1>9 DEF q

------------------------------------------------------------------------------
(* The order of the tree *)

\* n is a beginning of m; n and m are the same before i, where n is smaller.
Begins(n, m) == Len(n) < Len(m) /\ \A j \in 1 .. Len(n) : n[j] = m[j]
SmallerAt(n, m, i) ==
    /\ i \in 1 .. Len(n) /\ i <= Len(m) /\ Code[n[i]] < Code[m[i]]
    /\ \A j \in 1 .. i - 1 : n[j] = m[j]

\* Two beginnings are the same when their characters are.
LEMMA SameSubSeq ==
    ASSUME NEW s \in Strings, NEW t \in Strings, NEW k \in Nat, k <= Len(s), k <= Len(t)
    PROVE  SubSeq(s, 1, k) = SubSeq(t, 1, k) <=> \A j \in 1 .. k : s[j] = t[j]
<1>1. Len(s) \in Nat /\ Len(t) \in Nat
  BY LenProperties DEF Strings
<1> DEFINE a == SubSeq(s, 1, k)
           b == SubSeq(t, 1, k)
<1>2. /\ a \in Strings /\ Len(a) = k /\ \A i \in 1 .. k : a[i] = s[i]
      /\ b \in Strings /\ Len(b) = k /\ \A i \in 1 .. k : b[i] = t[i]
  BY <1>1, SubSeqIs
<1> HIDE DEF a, b
<1>3. ASSUME \A j \in 1 .. k : s[j] = t[j] PROVE a = b
  <2>1. \A i \in 1 .. Len(a) : a[i] = b[i]
    BY <1>2, <1>3
  <2> QED BY <1>2, <2>1, SeqEqual DEF Strings
<1>4. ASSUME a = b PROVE \A j \in 1 .. k : s[j] = t[j]
  BY <1>2, <1>4
<1> QED BY <1>3, <1>4 DEF a, b

\* The order of the tree, place by place.
LEMMA KeyBeforeIs ==
    ASSUME NEW n \in Strings, NEW m \in Strings
    PROVE  KeyBefore(n, m) <=> Begins(n, m) \/ \E i \in Nat : SmallerAt(n, m, i)
<1>1. Len(n) \in Nat /\ Len(m) \in Nat
  BY LenProperties DEF Strings
<1>2. IsStrictPrefix(n, m) <=> Begins(n, m)
  <2>1. IsPrefix(n, m) <=> Len(n) <= Len(m) /\ \A j \in 1 .. Len(n) : n[j] = m[j]
    BY <1>1, SameSubSeq DEF IsPrefix
  <2>2. ASSUME Len(n) = Len(m), \A j \in 1 .. Len(n) : n[j] = m[j] PROVE n = m
    BY <2>2, SeqEqual DEF Strings
  <2>3. Len(n) <= Len(m) <=> Len(n) < Len(m) \/ Len(n) = Len(m)
    BY <1>1
  <2>4. Len(n) < Len(m) => n # m
    BY <1>1
  <2> QED BY <2>1, <2>2, <2>3, <2>4 DEF IsStrictPrefix, Begins
<1>3. ASSUME NEW i \in 1 .. Len(n), i <= Len(m)
      PROVE  SubSeq(n, 1, i - 1) = SubSeq(m, 1, i - 1) <=> \A j \in 1 .. i - 1 : n[j] = m[j]
  <2>1. i - 1 \in Nat /\ i - 1 <= Len(n) /\ i - 1 <= Len(m)
    BY <1>1, <1>3
  <2> QED BY <2>1, SameSubSeq
<1>4. \A i \in 1 .. Len(n) : i \in Nat
  BY <1>1
<1> QED BY <1>2, <1>3, <1>4 DEF KeyBefore, SmallerAt

\* No key is before itself,
LEMMA KeyIrreflexive == \A n \in Strings : ~ KeyBefore(n, n)
<1> SUFFICES ASSUME NEW n \in Strings, KeyBefore(n, n) PROVE FALSE
  OBVIOUS
<1>1. Len(n) \in Nat /\ \A i \in 1 .. Len(n) : Code[n[i]] \in Nat
  BY LenProperties, ElementOfSeq, CodeIsOrder DEF Strings
<1>2. ~ Begins(n, n)
  BY <1>1 DEF Begins
<1>3. \A i \in Nat : ~ SmallerAt(n, n, i)
  BY <1>1 DEF SmallerAt
<1> QED BY <1>2, <1>3, KeyBeforeIs

\* a key before another is before those after that,
LEMMA KeyTransitive ==
    ASSUME NEW a \in Strings, NEW b \in Strings, NEW c \in Strings,
           KeyBefore(a, b), KeyBefore(b, c)
    PROVE  KeyBefore(a, c)
<1>1. /\ Len(a) \in Nat /\ Len(b) \in Nat /\ Len(c) \in Nat
      /\ \A i \in 1 .. Len(a) : Code[a[i]] \in Nat
      /\ \A i \in 1 .. Len(b) : Code[b[i]] \in Nat
      /\ \A i \in 1 .. Len(c) : Code[c[i]] \in Nat
  BY LenProperties, ElementOfSeq, CodeIsOrder DEF Strings
<1>2. CASE Begins(a, b) /\ Begins(b, c)
  <2>1. Begins(a, c)
    BY <1>1, <1>2 DEF Begins
  <2> QED BY <2>1, KeyBeforeIs
<1>3. ASSUME NEW i \in Nat, Begins(a, b), SmallerAt(b, c, i) PROVE KeyBefore(a, c)
  <2>1. CASE i <= Len(a)
    <3>1. SmallerAt(a, c, i)
      BY <1>1, <1>3, <2>1 DEF Begins, SmallerAt
    <3> QED BY <3>1, KeyBeforeIs
  <2>2. CASE Len(a) < i
    <3>1. Begins(a, c)
      BY <1>1, <1>3, <2>2 DEF Begins, SmallerAt
    <3> QED BY <3>1, KeyBeforeIs
  <2> QED BY <1>1, <2>1, <2>2
<1>4. ASSUME NEW i \in Nat, SmallerAt(a, b, i), Begins(b, c) PROVE KeyBefore(a, c)
  <2>1. SmallerAt(a, c, i)
    BY <1>1, <1>4 DEF Begins, SmallerAt
  <2> QED BY <2>1, KeyBeforeIs
<1>5. ASSUME NEW i \in Nat, NEW j \in Nat, SmallerAt(a, b, i), SmallerAt(b, c, j)
      PROVE  KeyBefore(a, c)
  <2>1. CASE i < j
    <3>1. SmallerAt(a, c, i)
      BY <1>1, <1>5, <2>1 DEF SmallerAt
    <3> QED BY <3>1, KeyBeforeIs
  <2>2. CASE i = j
    <3>1. SmallerAt(a, c, i)
      BY <1>1, <1>5, <2>2 DEF SmallerAt
    <3> QED BY <3>1, KeyBeforeIs
  <2>3. CASE j < i
    <3>1. SmallerAt(a, c, j)
      BY <1>1, <1>5, <2>3 DEF SmallerAt
    <3> QED BY <3>1, KeyBeforeIs
  <2> QED BY <2>1, <2>2, <2>3
<1> QED BY <1>2, <1>3, <1>4, <1>5, KeyBeforeIs

\* and of two keys one is before the other: the tree keeps every name.
LEMMA KeyTotal ==
    ASSUME NEW n \in Strings, NEW m \in Strings, n # m
    PROVE  KeyBefore(n, m) \/ KeyBefore(m, n)
<1>1. Len(n) \in Nat /\ Len(m) \in Nat
  BY LenProperties DEF Strings
<1> DEFINE D == {j \in Nat : j \in 1 .. Len(n) /\ j <= Len(m) /\ n[j] # m[j]}
<1>2. CASE D = {}
  <2>1. \A j \in 1 .. Len(n) : j <= Len(m) => n[j] = m[j]
    BY <1>1, <1>2
  <2>2. CASE Len(n) < Len(m)
    <3>1. Begins(n, m)
      BY <1>1, <2>1, <2>2 DEF Begins
    <3> QED BY <3>1, KeyBeforeIs
  <2>3. CASE Len(m) < Len(n)
    <3>1. Begins(m, n)
      BY <1>1, <2>1, <2>3 DEF Begins
    <3> QED BY <3>1, KeyBeforeIs
  <2>4. CASE Len(n) = Len(m)
    <3>1. \A j \in 1 .. Len(n) : n[j] = m[j]
      BY <1>1, <2>1, <2>4
    <3> QED BY <2>4, <3>1, SeqEqual DEF Strings
  <2> QED BY <1>1, <2>2, <2>3, <2>4
<1>3. CASE D # {}
  <2>1. PICK k : k \in D
    BY <1>3
  <2>2. PICK i \in Nat \cap D : \A j \in Nat \cap D : i <= j
    <3>1. k \in Nat
      BY <2>1
    <3> HIDE DEF D
    <3> QED BY <2>1, <3>1, NatMin
  <2>3. \A j \in 1 .. i - 1 : n[j] = m[j]
    <3> SUFFICES ASSUME NEW j \in 1 .. i - 1, n[j] # m[j] PROVE FALSE
      OBVIOUS
    <3>1. j \in Nat \cap D
      BY <1>1
    <3> QED BY <2>2, <3>1
  <2>4. n[i] \in Chars /\ m[i] \in Chars /\ n[i] # m[i] /\ i \in 1 .. Len(n) /\ i \in 1 .. Len(m)
    BY <1>1, <2>2, ElementOfSeq DEF Strings
  <2>5. Code[n[i]] < Code[m[i]] \/ Code[m[i]] < Code[n[i]]
    <3>1. Code[n[i]] \in Nat /\ Code[m[i]] \in Nat /\ Code[n[i]] # Code[m[i]]
      BY <2>4, CodeIsOrder
    <3> QED BY <3>1
  <2>6. SmallerAt(n, m, i) \/ SmallerAt(m, n, i)
    <3>1. i <= Len(n) /\ i <= Len(m)
      BY <2>4
    <3> HIDE DEF D
    <3> QED BY <2>3, <2>4, <2>5, <3>1 DEF SmallerAt
  <2> QED BY <2>6, KeyBeforeIs
<1> QED BY <1>2, <1>3

\* The names, each before those after it.
InOrderOf(s, names) ==
    /\ s \in [1 .. Cardinality(names) -> names]
    /\ \A i, j \in 1 .. Cardinality(names) : i < j => KeyBefore(s[i], s[j])

\* Finitely many names can be listed in that order: the least of the sets of
\* names that cannot would lose its last name.
LEMMA CanBeOrdered ==
    ASSUME NEW S \in SUBSET Strings, IsFiniteSet(S)
    PROVE  \E s : InOrderOf(s, S)
<1> DEFINE k == Cardinality(S)
           Below(x) == {y \in S : KeyBefore(y, x)}
           f == [x \in S |-> Cardinality(Below(x)) + 1]
<1>1. k \in Nat
  BY FS_CardinalityType
<1>2. ASSUME NEW x \in S
      PROVE  /\ IsFiniteSet(Below(x)) /\ Cardinality(Below(x)) \in Nat
             /\ Cardinality(Below(x)) < k
  <2> DEFINE B == Below(x)
  <2>1. B \in SUBSET S /\ B # S
    BY KeyIrreflexive
  <2> HIDE DEF B
  <2>2. IsFiniteSet(B) /\ Cardinality(B) <= Cardinality(S) /\ Cardinality(B) # Cardinality(S)
    BY <2>1, FS_Subset
  <2>3. Cardinality(B) \in Nat
    BY <2>2, FS_CardinalityType
  <2>4. Cardinality(B) < k
    BY <1>1, <2>2, <2>3
  <2> QED BY <2>2, <2>3, <2>4 DEF B
<1>3. ASSUME NEW x \in S, NEW y \in S, KeyBefore(x, y)
      PROVE  Cardinality(Below(x)) < Cardinality(Below(y))
  <2> DEFINE A == Below(x)
             B == Below(y)
  <2>1. A \in SUBSET B
    BY <1>3, KeyTransitive
  <2>2. A # B
    <3>1. x \notin A /\ x \in B
      BY <1>3, KeyIrreflexive
    <3> QED BY <3>1
  <2>3. IsFiniteSet(B) /\ Cardinality(A) \in Nat /\ Cardinality(B) \in Nat
    BY <1>2
  <2> HIDE DEF A, B
  <2>4. Cardinality(A) <= Cardinality(B) /\ Cardinality(A) # Cardinality(B)
    BY <2>1, <2>2, <2>3, FS_Subset
  <2>5. Cardinality(A) < Cardinality(B)
    BY <2>3, <2>4
  <2> QED BY <2>5 DEF A, B
<1> HIDE DEF k
<1>4. f \in [S -> 1 .. k]
  <2>1. ASSUME NEW x \in S PROVE Cardinality(Below(x)) + 1 \in 1 .. k
    BY <1>1, <1>2
  <2> HIDE DEF Below
  <2> QED BY <2>1
<1>5. \A x, y \in S : KeyBefore(x, y) => f[x] < f[y]
  <2> SUFFICES ASSUME NEW x \in S, NEW y \in S, KeyBefore(x, y) PROVE f[x] < f[y]
    OBVIOUS
  <2>1. Cardinality(Below(x)) < Cardinality(Below(y))
    BY <1>3
  <2>2. Cardinality(Below(x)) \in Nat /\ Cardinality(Below(y)) \in Nat
    BY <1>2
  <2> HIDE DEF Below
  <2> QED BY <2>1, <2>2
<1> HIDE DEF f, Below
<1>6. IsInjective(f)
  <2> SUFFICES ASSUME NEW x \in S, NEW y \in S, f[x] = f[y], x # y PROVE FALSE
    BY <1>4 DEF IsInjective
  <2>1. f[x] \in 1 .. k /\ f[y] \in 1 .. k
    BY <1>4
  <2>2. KeyBefore(x, y) \/ KeyBefore(y, x)
    BY KeyTotal
  <2>3. f[x] < f[y] \/ f[y] < f[x]
    BY <1>5, <2>2
  <2> QED BY <1>1, <2>1, <2>3
<1>7. \A i \in 1 .. k : \E x \in S : f[x] = i
  <2> DEFINE D == 1 .. k
  <2>1. IsFiniteSet(D) /\ Cardinality(S) = Cardinality(D)
    BY <1>1, FS_Interval DEF k
  <2>2. f \in Injection(S, D)
    BY <1>4, <1>6 DEF Injection
  <2> HIDE DEF D
  <2>3. \A i \in D : \E x \in S : f[x] = i
    BY <2>1, <2>2, InjectionCovers
  <2> QED BY <2>3 DEF D
<1> DEFINE s == [i \in 1 .. k |-> CHOOSE x \in S : f[x] = i]
<1>8. \A i \in 1 .. k : s[i] \in S /\ f[s[i]] = i
  BY <1>7
<1>9. s \in [1 .. k -> S]
  BY <1>8
<1>10. \A i, j \in 1 .. k : i < j => KeyBefore(s[i], s[j])
  <2> SUFFICES ASSUME NEW i \in 1 .. k, NEW j \in 1 .. k, i < j PROVE KeyBefore(s[i], s[j])
    OBVIOUS
  <2> HIDE DEF s
  <2>1. s[i] \in S /\ s[j] \in S /\ f[s[i]] = i /\ f[s[j]] = j
    BY <1>8
  <2>2. s[i] # s[j]
    BY <2>1
  <2>3. ~ KeyBefore(s[j], s[i])
    <3>1. ~ (j < i)
      OBVIOUS
    <3> QED BY <1>5, <2>1, <3>1
  <2> QED BY <2>1, <2>2, <2>3, KeyTotal
<1> HIDE DEF s
<1> QED BY <1>9, <1>10 DEF InOrderOf, k

\* The traversal of the tree (mavliter_foreach in cw_cfg_write_to_file) gives every
\* name of a store once, each before those after it: the order of cmp for keys
\* without a number, strcmp, has no two names of one rank.
THEOREM InOrderIs ==
    ASSUME NEW S \in SUBSET Strings, IsFiniteSet(S)
    PROVE  /\ InOrderOf(InOrder(S), S)
           /\ \A x \in S : \E i \in 1 .. Cardinality(S) : InOrder(S)[i] = x
<1> DEFINE k == Cardinality(S)
           s == InOrder(S)
<1>1. PICK t : InOrderOf(t, S)
  BY CanBeOrdered
<1>2. t \in [1 .. k -> S] /\ \A i, j \in DOMAIN t : i < j => KeyBefore(t[i], t[j])
  BY <1>1 DEF InOrderOf
<1>3. s \in [1 .. k -> S] /\ \A i, j \in DOMAIN s : i < j => KeyBefore(s[i], s[j])
  BY <1>2 DEF InOrder
<1>4. k \in Nat
  BY FS_CardinalityType
<1> HIDE DEF k, s
<1>5. IsInjective(s)
  <2> SUFFICES ASSUME NEW i \in 1 .. k, NEW j \in 1 .. k, s[i] = s[j], i # j PROVE FALSE
    BY <1>3 DEF IsInjective
  <2>1. KeyBefore(s[i], s[j]) \/ KeyBefore(s[j], s[i])
    BY <1>3, <1>4
  <2>2. s[i] \in Strings
    BY <1>3
  <2> QED BY <2>1, <2>2, KeyIrreflexive
<1>6. \A x \in S : \E i \in 1 .. k : s[i] = x
  <2> DEFINE D == 1 .. k
  <2>1. IsFiniteSet(D) /\ Cardinality(D) = Cardinality(S)
    BY <1>4, FS_Interval DEF k
  <2>2. s \in Injection(D, S)
    BY <1>3, <1>5 DEF Injection
  <2> HIDE DEF D
  <2>3. \A x \in S : \E i \in D : s[i] = x
    BY <2>1, <2>2, InjectionCovers
  <2> QED BY <2>3 DEF D
<1>7. InOrderOf(s, S)
  BY <1>3 DEF InOrderOf, k
<1> QED BY <1>6, <1>7 DEF s, k

------------------------------------------------------------------------------
(* One step of the reader *)

\* The reader in a place, with no quote open.
At(in, name, value, c) ==
    [in |-> in, quote |-> FALSE, name |-> name, value |-> value, cfg |-> c]

\* No character with a meaning has two.
LEMMA SignsDiffer ==
    /\ Newline # Blank /\ Newline # Quote /\ Newline # Colon /\ Newline # Backslash
    /\ Newline # Hash /\ Newline # EOF /\ Blank # Quote /\ Blank # Colon /\ Blank # Hash
    /\ Blank # EOF /\ Quote # Colon /\ Quote # Hash /\ Quote # EOF /\ Colon # EOF /\ Colon # Hash
    /\ Backslash # Quote /\ Backslash # EOF /\ Hash # EOF
    /\ Newline \notin Escapes /\ EOF \notin Escapes
BY DEF Newline, Blank, Quote, Colon, Backslash, Hash, EOF, Escapes

\* A place of the reader is a reader.
LEMMA AtType ==
    ASSUME NEW in \in {"line", "comment", "name", "value", "text", "quoted", "escape", "end", "error"},
           NEW n \in Strings, NEW v \in Strings, NEW c \in Stores
    PROVE  At(in, n, v, c) \in Readers
BY DEF At, Readers

\* One step of the reader from the beginning of a line.
LEMMA FromLine ==
    ASSUME NEW n, NEW v, NEW c
    PROVE  /\ \A ch \in KeyChars \ {Hash, EOF} : Read(At("line", n, v, c), ch) = At("name", <<ch>>, v, c)
           /\ \A ch \in {Blank, Newline} : Read(At("line", n, v, c), ch) = At("line", <<>>, v, c)
           /\ Read(At("line", n, v, c), EOF) = At("end", <<>>, v, c)
           /\ Read(At("line", n, v, c), Hash) = At("comment", <<>>, v, c)
<1>1. ASSUME NEW ch \in KeyChars \ {Hash, EOF}
      PROVE  Read(At("line", n, v, c), ch) = At("name", <<ch>>, v, c)
  <2>1. ch \notin {Newline, Blank, Quote, Colon, Hash, EOF}
    BY DEF KeyChars
  <2>2. Append(<<>>, ch) = <<ch>>
    OBVIOUS
  <2> QED BY <2>1, <2>2 DEF Read, ReadLine, ReadName, At
<1>2. \A ch \in {Blank, Newline} : Read(At("line", n, v, c), ch) = At("line", <<>>, v, c)
  BY SignsDiffer DEF Read, ReadLine, At
<1>3. Read(At("line", n, v, c), EOF) = At("end", <<>>, v, c)
  BY SignsDiffer DEF Read, ReadLine, Finish, At
<1>4. Read(At("line", n, v, c), Hash) = At("comment", <<>>, v, c)
  BY SignsDiffer DEF Read, ReadLine, At
<1> QED BY <1>1, <1>2, <1>3, <1>4

\* One step of the reader from a comment.
LEMMA FromComment ==
    ASSUME NEW n, NEW v, NEW c
    PROVE  /\ Read(At("comment", n, v, c), Newline) = At("line", n, v, c)
           /\ n = <<>> => Read(At("comment", n, v, c), EOF) = At("end", n, v, c)
BY SignsDiffer DEF Read, ReadComment, Finish, At

\* One step of the reader from a name.
LEMMA FromName ==
    ASSUME NEW n \in Strings, n # <<>>, NEW v, NEW c
    PROVE  /\ \A ch \in KeyChars \ {EOF} : Read(At("name", n, v, c), ch) = At("name", Append(n, ch), v, c)
           /\ Read(At("name", n, v, c), Colon) = At("value", n, <<>>, c)
           /\ Read(At("name", n, v, c), EOF) = At("error", n, v, c)
<1>1. ASSUME NEW ch \in KeyChars \ {EOF}
      PROVE  Read(At("name", n, v, c), ch) = At("name", Append(n, ch), v, c)
  <2>1. ch \notin {Newline, Blank, Quote, Colon, EOF}
    BY DEF KeyChars
  <2> QED BY <2>1 DEF Read, ReadName, At
<1>2. Read(At("name", n, v, c), Colon) = At("value", n, <<>>, c)
  <2>1. Colon \notin KeyChars
    BY DEF KeyChars
  <2> QED BY <2>1, SignsDiffer DEF Read, ReadName, ReadColon, At
<1>3. Read(At("name", n, v, c), EOF) = At("error", n, v, c)
  BY DEF Read, ReadName, Finish, At
<1> QED BY <1>1, <1>2, <1>3

\* Nothing is cut from nothing.
LEMMA TrimEmpty == Trim(<<>>) = <<>>
BY EmptyString, TrimIs

\* One step of the reader from the beginning of a value.
LEMMA FromValue ==
    ASSUME NEW n, NEW c
    PROVE  /\ Read(At("value", n, <<>>, c), Blank) = At("value", n, <<>>, c)
           /\ Read(At("value", n, <<>>, c), Quote) = At("quoted", n, <<>>, c)
           /\ \A ch \in {Newline, EOF} :
                  Read(At("value", n, <<>>, c), ch) = At("line", n, <<>>, Set(c, n, <<>>))
           /\ \A ch \in Chars \ {Blank, Quote, Newline} :
                  Read(At("value", n, <<>>, c), ch) = At("text", n, <<ch>>, c)
<1>1. Len(<<>>) # MaxValue
  BY CfgAssumption, EmptyString
<1>2. Read(At("value", n, <<>>, c), Blank) = At("value", n, <<>>, c)
  BY SignsDiffer DEF Read, ReadValue, At
<1>3. Read(At("value", n, <<>>, c), Quote) = At("quoted", n, <<>>, c)
  BY SignsDiffer DEF Read, ReadValue, At
<1>4. ASSUME NEW ch \in {Newline, EOF}
      PROVE  Read(At("value", n, <<>>, c), ch) = At("line", n, <<>>, Set(c, n, <<>>))
  BY TrimEmpty, SignsDiffer DEF Read, ReadValue, ReadText, Assign, At
<1>5. ASSUME NEW ch \in Chars \ {Blank, Quote, Newline}
      PROVE  Read(At("value", n, <<>>, c), ch) = At("text", n, <<ch>>, c)
  <2>1. ch \notin {Blank, Quote, Newline, EOF}
    BY CharsAre
  <2>2. Append(<<>>, ch) = <<ch>>
    OBVIOUS
  <2> QED BY <1>1, <2>1, <2>2 DEF Read, ReadValue, ReadText, Full, At
<1> QED BY <1>2, <1>3, <1>4, <1>5

\* One step of the reader from a value without quotes.
LEMMA FromText ==
    ASSUME NEW n, NEW v, NEW c
    PROVE  /\ \A ch \in {Newline, EOF} :
                  Read(At("text", n, v, c), ch) = At("line", n, v, Set(c, n, Trim(v)))
           /\ \A ch \in Chars \ {Newline} :
                  Len(v) # MaxValue => Read(At("text", n, v, c), ch) = At("text", n, Append(v, ch), c)
<1>1. ASSUME NEW ch \in {Newline, EOF}
      PROVE  Read(At("text", n, v, c), ch) = At("line", n, v, Set(c, n, Trim(v)))
  BY DEF Read, ReadText, Assign, At
<1>2. ASSUME NEW ch \in Chars \ {Newline}, Len(v) # MaxValue
      PROVE  Read(At("text", n, v, c), ch) = At("text", n, Append(v, ch), c)
  <2>1. ch \notin {Newline, EOF}
    BY CharsAre
  <2> QED BY <1>2, <2>1 DEF Read, ReadText, Full, At
<1> QED BY <1>1, <1>2

\* One step of the reader from a value between quotes.
LEMMA FromQuoted ==
    ASSUME NEW n, NEW v, NEW c
    PROVE  /\ \A ch \in {Quote, Newline, EOF} :
                  Read(At("quoted", n, v, c), ch) = At("line", n, v, Set(c, n, v))
           /\ Len(v) # MaxValue =>
                  Read(At("quoted", n, v, c), Backslash) = At("escape", n, v, c)
           /\ \A ch \in Chars \ {Quote, Newline, Backslash} :
                  Len(v) # MaxValue => Read(At("quoted", n, v, c), ch) = At("quoted", n, Append(v, ch), c)
<1>1. ASSUME NEW ch \in {Quote, Newline, EOF}
      PROVE  Read(At("quoted", n, v, c), ch) = At("line", n, v, Set(c, n, v))
  BY DEF Read, ReadQuoted, Assign, At
<1>2. ASSUME Len(v) # MaxValue
      PROVE  Read(At("quoted", n, v, c), Backslash) = At("escape", n, v, c)
  BY <1>2, SignsDiffer DEF Read, ReadQuoted, Full, At
<1>3. ASSUME NEW ch \in Chars \ {Quote, Newline, Backslash}, Len(v) # MaxValue
      PROVE  Read(At("quoted", n, v, c), ch) = At("quoted", n, Append(v, ch), c)
  <2>1. ch \notin {Quote, Newline, Backslash, EOF}
    BY CharsAre
  <2> QED BY <1>3, <2>1 DEF Read, ReadQuoted, Full, At
<1> QED BY <1>1, <1>2, <1>3

\* One step of the reader from a backslash between quotes.
LEMMA FromEscape ==
    ASSUME NEW n, NEW v \in Strings, NEW c
    PROVE  /\ Read(At("escape", n, v, c), EOF)
                  = At("line", n, Append(v, Backslash), Set(c, n, Append(v, Backslash)))
           /\ \A ch \in Chars \ (Escapes \cup {Newline}) :
                  Len(v) + 1 # MaxValue =>
                      Read(At("escape", n, v, c), ch)
                          = At("quoted", n, Append(Append(v, Backslash), ch), c)
<1>1. Len(Append(v, Backslash)) = Len(v) + 1
  BY CharsAre, Appended
<1>2. Read(At("escape", n, v, c), EOF)
          = At("line", n, Append(v, Backslash), Set(c, n, Append(v, Backslash)))
  BY SignsDiffer DEF Read, ReadEscape, ReadQuoted, Assign, At
<1>3. ASSUME NEW ch \in Chars \ (Escapes \cup {Newline}), Len(v) + 1 # MaxValue
      PROVE  Read(At("escape", n, v, c), ch) = At("quoted", n, Append(Append(v, Backslash), ch), c)
  <2>1. ch \notin Escapes /\ ch \notin {Quote, Newline, Backslash, EOF}
    BY CharsAre DEF Escapes
  <2>2. Len(Append(v, Backslash)) # MaxValue
    BY <1>1, <1>3
  <2> QED BY <2>1, <2>2 DEF Read, ReadEscape, ReadQuoted, Full, At
<1> QED BY <1>2, <1>3

------------------------------------------------------------------------------
(* What a text leads to *)

\* The reader takes what a text has.
LEMMA StringIsInput == \A s \in Strings : s \in Seq(Input)
<1>1. Chars \subseteq Input
  BY DEF Input
<1> QED BY <1>1, SeqMonotonic DEF Strings

\* From r, s leads to q; a file that ends within s leaves a reader of O.
Leads(r, s, q, O) ==
    /\ r \in Readers /\ s \in Strings /\ q \in Readers
    /\ ReadOn(r, s) = q
    /\ \A p \in 0 .. Len(s) : Read(ReadOn(r, SubSeq(s, 1, p)), EOF) \in O

\* More may come out when the text is cut off.
LEMMA LeadsWider ==
    ASSUME NEW r, NEW s, NEW q, NEW O, NEW P, Leads(r, s, q, O), O \subseteq P
    PROVE  Leads(r, s, q, P)
BY DEF Leads

\* A beginning of two texts lies in the first or goes into the second.
LEMMA CutConcat ==
    ASSUME NEW s \in Strings, NEW t \in Strings, NEW p \in 0 .. Len(s) + Len(t)
    PROVE  /\ p <= Len(s) => SubSeq(s \o t, 1, p) = SubSeq(s, 1, p)
           /\ p > Len(s) => /\ p - Len(s) \in 0 .. Len(t)
                            /\ SubSeq(s \o t, 1, p) = s \o SubSeq(t, 1, p - Len(s))
<1> DEFINE l == Len(s)
           m == Len(t)
           u == s \o t
           a == SubSeq(u, 1, p)
<1>1. l \in Nat /\ m \in Nat
  BY LenProperties DEF Strings
<1>2. u \in Strings /\ Len(u) = l + m /\ \A i \in 1 .. l + m : u[i] = IF i <= l THEN s[i] ELSE t[i - l]
  BY ConcatProperties DEF Strings
<1> HIDE DEF l, m, u
<1>3. p \in 0 .. l + m
  BY DEF l, m
<1>4. a \in Strings /\ Len(a) = p /\ \A i \in 1 .. p : a[i] = u[i]
  BY <1>2, <1>3, SubSeqIs
<1> HIDE DEF a
<1>5. ASSUME p <= l PROVE a = SubSeq(s, 1, p)
  <2> DEFINE b == SubSeq(s, 1, p)
  <2>1. p \in 0 .. Len(s)
    BY <1>1, <1>3, <1>5 DEF l
  <2>2. b \in Strings /\ Len(b) = p /\ \A i \in 1 .. p : b[i] = s[i]
    BY <2>1, SubSeqIs
  <2> HIDE DEF b
  <2>3. \A i \in 1 .. p : a[i] = b[i]
    BY <1>1, <1>2, <1>3, <1>4, <1>5, <2>2
  <2>4. a = b
    BY <1>4, <2>2, <2>3, SeqEqual DEF Strings
  <2> QED BY <2>4 DEF b
<1>6. ASSUME p > l PROVE p - l \in 0 .. m /\ a = s \o SubSeq(t, 1, p - l)
  <2> DEFINE k == p - l
             b == SubSeq(t, 1, k)
             d == s \o b
  <2>1. k \in 0 .. m /\ p = l + k
    BY <1>1, <1>3, <1>6
  <2> HIDE DEF k
  <2>2. b \in Strings /\ Len(b) = k /\ \A i \in 1 .. k : b[i] = t[i]
    BY <2>1, SubSeqIs DEF m
  <2> HIDE DEF b
  <2>3. d \in Strings /\ Len(d) = l + k /\ \A i \in 1 .. l + k : d[i] = IF i <= l THEN s[i] ELSE b[i - l]
    BY <2>2, ConcatProperties DEF Strings, l
  <2> HIDE DEF d
  <2>4. \A i \in 1 .. p : a[i] = d[i]
    <3> SUFFICES ASSUME NEW i \in 1 .. l + k PROVE a[i] = d[i]
      BY <2>1
    <3>1. a[i] = u[i] /\ i \in 1 .. l + m
      BY <1>1, <1>4, <2>1
    <3>2. CASE i <= l
      BY <1>2, <2>3, <3>1, <3>2
    <3>3. CASE i > l
      <4>1. i - l \in 1 .. k /\ ~ (i <= l)
        BY <1>1, <2>1, <3>3
      <4> QED BY <1>2, <2>2, <2>3, <3>1, <4>1
    <3> QED BY <1>1, <2>1, <3>2, <3>3
  <2>5. a = d
    BY <1>4, <2>1, <2>3, <2>4, SeqEqual DEF Strings
  <2> QED BY <2>1, <2>5 DEF d, b, k
<1> QED BY <1>5, <1>6 DEF a, u, l, m

\* Two texts, one after the other.
LEMMA LeadsConcat ==
    ASSUME NEW r, NEW s, NEW q, NEW t, NEW z, NEW O,
           Leads(r, s, q, O), Leads(q, t, z, O)
    PROVE  Leads(r, s \o t, z, O)
<1>1. /\ r \in Readers /\ s \in Strings /\ q \in Readers /\ t \in Strings /\ z \in Readers
      /\ ReadOn(r, s) = q /\ ReadOn(q, t) = z
  BY DEF Leads
<1>2. s \o t \in Strings /\ Len(s \o t) = Len(s) + Len(t) /\ Len(s) \in Nat /\ Len(t) \in Nat
  BY <1>1, ConcatProperties, LenProperties DEF Strings
<1>3. ReadOn(r, s \o t) = z
  BY <1>1, StringIsInput, ReadOnConcat
<1>4. ASSUME NEW p \in 0 .. Len(s) + Len(t)
      PROVE  Read(ReadOn(r, SubSeq(s \o t, 1, p)), EOF) \in O
  <2>1. CASE p <= Len(s)
    <3>1. SubSeq(s \o t, 1, p) = SubSeq(s, 1, p) /\ p \in 0 .. Len(s)
      BY <1>1, <1>2, <2>1, CutConcat
    <3> QED BY <3>1 DEF Leads
  <2>2. CASE p > Len(s)
    <3> DEFINE k == p - Len(s)
               b == SubSeq(t, 1, k)
    <3>1. k \in 0 .. Len(t) /\ SubSeq(s \o t, 1, p) = s \o b
      BY <1>1, <2>2, CutConcat
    <3>2. b \in Strings
      BY <1>1, <3>1, SubSeqIs
    <3>3. Read(ReadOn(q, b), EOF) \in O
      BY <3>1 DEF Leads
    <3> HIDE DEF b
    <3>4. ReadOn(r, s \o b) = ReadOn(q, b)
      BY <1>1, <3>2, StringIsInput, ReadOnConcat
    <3> QED BY <3>1, <3>3, <3>4
  <2> QED BY <1>2, <2>1, <2>2
<1> QED BY <1>1, <1>2, <1>3, <1>4 DEF Leads

\* One state for each place of s.
LEMMA LeadsAlong ==
    ASSUME NEW r \in Readers, NEW s \in Strings, NEW g, NEW O, Trace(g, r, s),
           \A i \in 0 .. Len(s) : Read(g[i], EOF) \in O
    PROVE  Leads(r, s, g[Len(s)], O)
<1> DEFINE n == Len(s)
<1>1. n \in Nat
  BY LenProperties DEF Strings
<1>2. ASSUME NEW p \in 0 .. n PROVE ReadOn(r, SubSeq(s, 1, p)) = g[p]
  <2> DEFINE u == SubSeq(s, 1, p)
             h == [i \in 0 .. p |-> g[i]]
  <2>1. u \in Strings /\ Len(u) = p /\ \A i \in 1 .. p : u[i] = s[i]
    BY SubSeqIs
  <2> HIDE DEF n, u
  <2>2. h \in [0 .. p -> Readers] /\ h[0] = r
    BY <1>1 DEF Trace, Follows, n
  <2>3. \A i \in 1 .. p : h[i] = Read(h[i - 1], u[i])
    <3> SUFFICES ASSUME NEW i \in 1 .. p PROVE h[i] = Read(h[i - 1], u[i])
      OBVIOUS
    <3>1. i \in 1 .. n /\ h[i] = g[i] /\ h[i - 1] = g[i - 1]
      BY <1>1
    <3>2. g[i] = Read(g[i - 1], s[i])
      BY <3>1 DEF Trace, Follows, n
    <3> QED BY <2>1, <3>1, <3>2
  <2>4. h[p] = g[p]
    BY <1>1
  <2> HIDE DEF h
  <2>5. Trace(h, r, u)
    BY <2>1, <2>2, <2>3 DEF Trace, Follows
  <2>6. ReadOn(r, u) = h[p]
    BY <2>1, <2>5, StringIsInput, ReadOnTrace
  <2> QED BY <2>4, <2>6 DEF u
<1>3. SubSeq(s, 1, n) = s
  BY SubSeqFull DEF Strings
<1>4. ReadOn(r, s) = g[n]
  <2>1. n \in 0 .. n
    BY <1>1
  <2> QED BY <1>2, <1>3, <2>1
<1>5. g[n] \in Readers
  BY <1>4, StringIsInput, ReadOnType
<1> QED BY <1>2, <1>4, <1>5 DEF Leads

\* No text at all.
LEMMA LeadsNowhere ==
    ASSUME NEW r \in Readers, NEW O, Read(r, EOF) \in O
    PROVE  Leads(r, <<>>, r, O)
<1> DEFINE s == <<>>
           g == [i \in 0 .. 0 |-> r]
<1>1. s \in Strings /\ Len(s) = 0
  BY EmptyString
<1> HIDE DEF s
<1>2. g \in [0 .. 0 -> Readers] /\ g[0] = r
  OBVIOUS
<1> HIDE DEF g
<1>3. Trace(g, r, s)
  BY <1>1, <1>2 DEF Trace, Follows
<1>4. \A i \in 0 .. Len(s) : Read(g[i], EOF) \in O
  BY <1>1, <1>2
<1>5. Leads(r, s, g[Len(s)], O)
  BY <1>1, <1>3, <1>4, LeadsAlong
<1> QED BY <1>1, <1>2, <1>5 DEF s

\* A text of one character.
LEMMA LeadsByOne ==
    ASSUME NEW r \in Readers, NEW c \in Chars, NEW q, NEW O, Read(r, c) = q,
           Read(r, EOF) \in O, Read(q, EOF) \in O
    PROVE  Leads(r, <<c>>, q, O)
<1> DEFINE s == <<c>>
<1>1. s \in Strings /\ Len(s) = 1 /\ s[1] = c
  BY DEF Strings
<1> DEFINE g == [i \in 0 .. 1 |-> IF i = 0 THEN r ELSE q]
<1>2. q \in Readers
  BY ReadType DEF Input
<1>3. g \in [0 .. 1 -> Readers] /\ g[0] = r /\ g[1] = q
  BY <1>2
<1> HIDE DEF g, s
<1>4. \A i \in 1 .. 1 : g[i] = Read(g[i - 1], s[i])
  BY <1>1, <1>3
<1>5. Trace(g, r, s)
  BY <1>1, <1>3, <1>4 DEF Trace, Follows
<1>6. \A i \in 0 .. Len(s) : Read(g[i], EOF) \in O
  BY <1>1, <1>3
<1>7. Leads(r, s, g[Len(s)], O)
  BY <1>1, <1>5, <1>6, LeadsAlong
<1> QED BY <1>1, <1>3, <1>7 DEF s

------------------------------------------------------------------------------
(* Names *)

\* The beginnings of a text, each with a character more than the one before.
LEMMA SubSeqNext ==
    ASSUME NEW s \in Strings
    PROVE  /\ SubSeq(s, 1, 0) = <<>>
           /\ \A i \in 1 .. Len(s) : SubSeq(s, 1, i) = Append(SubSeq(s, 1, i - 1), s[i])
           /\ SubSeq(s, 1, Len(s)) = s
<1> DEFINE l == Len(s)
<1>1. l \in Nat /\ \A i \in 1 .. l : s[i] \in Chars
  BY LenProperties, ElementOfSeq DEF Strings
<1>2. SubSeq(s, 1, 0) = <<>>
  BY SubSeqEmpty DEF Strings
<1>3. SubSeq(s, 1, l) = s
  BY SubSeqFull DEF Strings
<1>4. ASSUME NEW i \in 1 .. l PROVE SubSeq(s, 1, i) = Append(SubSeq(s, 1, i - 1), s[i])
  <2> DEFINE u == SubSeq(s, 1, i - 1)
             v == SubSeq(s, 1, i)
             w == Append(u, s[i])
             x == s[i]
  <2>1. i \in 0 .. Len(s) /\ i - 1 \in 0 .. Len(s) /\ x \in Chars
    BY <1>1
  <2>2. /\ u \in Strings /\ Len(u) = i - 1 /\ \A j \in 1 .. i - 1 : u[j] = s[j]
        /\ v \in Strings /\ Len(v) = i /\ \A j \in 1 .. i : v[j] = s[j]
    BY <2>1, SubSeqIs
  <2> HIDE DEF u, v, l, x
  <2>3. w \in Strings /\ Len(w) = i /\ \A j \in 1 .. i : w[j] = IF j <= i - 1 THEN u[j] ELSE x
    BY <1>1, <2>1, <2>2, AppendProperties DEF Strings, x
  <2> HIDE DEF w
  <2>4. \A j \in 1 .. i : v[j] = w[j]
    BY <1>1, <2>2, <2>3 DEF x
  <2>5. v = w
    BY <2>2, <2>3, <2>4, SeqEqual DEF Strings
  <2> QED BY <2>5 DEF u, v, w
<1> QED BY <1>2, <1>3, <1>4 DEF l

\* A name that is read from its line as it was written.
GoodName(n) == n \in Strings /\ n # <<>> /\ n[1] # Hash /\ \A i \in 1 .. Len(n) : n[i] \in KeyChars

\* What a file that ends within a line leaves.
Cuts(c, n, v) ==
    {x \in Readers : \/ x.in = "error" \/ x.cfg = c
                     \/ \E k \in 0 .. Len(v) : x.cfg = Set(c, n, SubSeq(v, 1, k))}

\* The end of the file leaves a reader behind.
LEMMA ReadEndType == \A r \in Readers : Read(r, EOF) \in Readers
BY ReadType DEF Input

\* What a file that ends inside a line may leave: an error, the store without
\* the line, or with the beginning of its value.
LEMMA CutsOf ==
    ASSUME NEW c, NEW n, NEW v, NEW r \in Readers
    PROVE  /\ Read(r, EOF).in = "error" => Read(r, EOF) \in Cuts(c, n, v)
           /\ Read(r, EOF).cfg = c => Read(r, EOF) \in Cuts(c, n, v)
           /\ \A k \in 0 .. Len(v) :
                  Read(r, EOF).cfg = Set(c, n, SubSeq(v, 1, k)) => Read(r, EOF) \in Cuts(c, n, v)
BY ReadEndType DEF Cuts

\* A name is read as it was written.
LEMMA NameLeads ==
    ASSUME NEW n, GoodName(n), NEW w \in Strings, NEW u \in Strings, NEW c \in Stores, NEW v
    PROVE  Leads(At("line", w, u, c), n, At("name", n, u, c), Cuts(c, n, v))
<1> DEFINE l == Len(n)
           B(i) == SubSeq(n, 1, i)
           g == [i \in 0 .. l |-> IF i = 0 THEN At("line", w, u, c) ELSE At("name", B(i), u, c)]
<1>1. /\ n \in Strings /\ n # <<>> /\ l \in Nat /\ l # 0 /\ n[1] # Hash
      /\ \A i \in 1 .. l : n[i] \in KeyChars \ {EOF}
  <2>1. n \in Strings /\ n # <<>> /\ n[1] # Hash /\ \A i \in 1 .. Len(n) : n[i] \in KeyChars
    BY DEF GoodName
  <2>2. EOF \notin KeyChars
    BY CharsAre DEF KeyChars
  <2> QED BY <2>1, <2>2, LenProperties, EmptySeq DEF Strings
<1>2. /\ B(0) = <<>>
      /\ \A i \in 1 .. l : B(i) = Append(B(i - 1), n[i])
      /\ B(l) = n
  BY <1>1, SubSeqNext
<1>3. \A i \in 0 .. l : B(i) \in Strings /\ Len(B(i)) = i
  BY <1>1, SubSeqIs
<1>4. <<>> \in Strings
  BY EmptyString
<1> HIDE DEF l, B
<1>5. g \in [0 .. l -> Readers]
  BY <1>3, AtType
<1>6. /\ g[0] = At("line", w, u, c)
      /\ \A i \in 1 .. l : g[i] = At("name", B(i), u, c)
      /\ g[l] = At("name", n, u, c)
  BY <1>1, <1>2
<1> HIDE DEF g
<1>7. ASSUME NEW i \in 1 .. l PROVE g[i] = Read(g[i - 1], n[i])
  <2> DEFINE x == n[i]
  <2>1. x \in KeyChars \ {EOF}
    BY <1>1
  <2>2. CASE i = 1
    <3>1. B(i) = <<x>>
      <4>1. B(1) = Append(B(0), n[1])
        BY <1>2, <2>2
      <4>2. Append(<<>>, n[1]) = <<n[1]>>
        OBVIOUS
      <4>3. B(1) = <<n[1]>>
        BY <1>2, <4>1, <4>2
      <4> QED BY <2>2, <4>3
    <3>2. x # Hash /\ g[i - 1] = At("line", w, u, c)
      BY <1>1, <1>6, <2>2
    <3> HIDE DEF x
    <3>3. Read(At("line", w, u, c), x) = At("name", <<x>>, u, c)
      BY <2>1, <3>2, FromLine
    <3> QED BY <1>6, <3>1, <3>2, <3>3 DEF x
  <2>3. CASE i # 1
    <3>1. i - 1 \in 1 .. l
      BY <1>1, <2>3
    <3>2. B(i - 1) \in Strings /\ B(i - 1) # <<>> /\ B(i) = Append(B(i - 1), x)
      <4>1. B(i - 1) \in Strings /\ Len(B(i - 1)) = i - 1
        BY <1>3, <3>1
      <4> QED BY <1>2, <3>1, <4>1, EmptyString
    <3> DEFINE b == B(i - 1)
    <3>3. g[i - 1] = At("name", b, u, c) /\ g[i] = At("name", Append(b, x), u, c)
      BY <1>6, <3>1, <3>2
    <3> HIDE DEF x, b
    <3>4. Read(At("name", b, u, c), x) = At("name", Append(b, x), u, c)
      BY <2>1, <3>2, FromName DEF b
    <3> QED BY <3>3, <3>4 DEF x
  <2> QED BY <2>2, <2>3
<1>8. Trace(g, At("line", w, u, c), n)
  BY <1>5, <1>6, <1>7 DEF Trace, Follows, l
<1>9. ASSUME NEW i \in 0 .. l PROVE Read(g[i], EOF) \in Cuts(c, n, v)
  <2>0. g[i] \in Readers
    BY <1>5
  <2>1. CASE i = 0
    <3>1. Read(g[i], EOF) = At("end", <<>>, u, c)
      BY <1>6, <2>1, FromLine
    <3>2. Read(g[i], EOF).cfg = c
      BY <3>1 DEF At
    <3> QED BY <2>0, <3>2, CutsOf
  <2>2. CASE i # 0
    <3>1. i \in 1 .. l
      BY <1>1, <2>2
    <3> DEFINE b == B(i)
    <3>2. g[i] = At("name", b, u, c) /\ b \in Strings /\ b # <<>>
      <4>1. B(i) \in Strings /\ Len(B(i)) = i
        BY <1>3
      <4> QED BY <1>6, <3>1, <4>1, EmptyString
    <3> HIDE DEF b
    <3>3. Read(g[i], EOF) = At("error", b, u, c)
      BY <3>2, FromName
    <3>4. Read(g[i], EOF).in = "error"
      BY <3>3 DEF At
    <3> QED BY <2>0, <3>4, CutsOf
  <2> QED BY <2>1, <2>2
<1>10. At("line", w, u, c) \in Readers
  BY AtType
<1>11. Leads(At("line", w, u, c), n, g[Len(n)], Cuts(c, n, v))
  BY <1>1, <1>8, <1>9, <1>10, LeadsAlong DEF l
<1> QED BY <1>6, <1>11 DEF l

\* What Plain asks of a value, place by place.
LEMMA PlainIs ==
    ASSUME NEW v \in Strings, Plain(v)
    PROVE  /\ Len(v) <= MaxValue
           /\ \A i \in 1 .. Len(v) : v[i] # Newline
           /\ ~ Spaced(v) /\ v # <<>> => v[1] \notin {Blank, Quote, Newline} /\ v[Len(v)] # Blank
           /\ Spaced(v) =>
                  /\ v # <<>> /\ v[Len(v)] # Backslash
                  /\ \A i \in 1 .. Len(v) : v[i] # Quote
                  /\ \A i \in 2 .. Len(v) : v[i - 1] = Backslash => v[i] \notin Escapes
<1> DEFINE l == Len(v)
<1>1. l \in Nat /\ DOMAIN v = 1 .. l /\ (v # <<>> => l # 0)
  BY LenProperties, EmptySeq DEF Strings
<1>2. l <= MaxValue
  BY DEF Plain
<1>3. \A i \in 1 .. l : v[i] # Newline
  BY <1>1 DEF Plain, Range
<1>4. ASSUME ~ Spaced(v), v # <<>> PROVE v[1] \notin {Blank, Quote, Newline} /\ v[l] # Blank
  <2>1. Head(v) # Quote
    BY <1>4 DEF Plain
  <2> QED BY <1>4, <2>1 DEF Spaced, White, Last
<1>5. ASSUME Spaced(v)
      PROVE  /\ v # <<>> /\ v[l] # Backslash
             /\ \A i \in 1 .. l : v[i] # Quote
             /\ \A i \in 2 .. l : v[i - 1] = Backslash => v[i] \notin Escapes
  <2>1. v # <<>>
    BY <1>5 DEF Spaced
  <2>2. /\ Quote \notin Range(v)
        /\ ~ \E i \in 1 .. l - 1 : v[i] = Backslash /\ v[i + 1] \in Escapes
        /\ Last(v) # Backslash
    BY <1>5 DEF Plain
  <2>3. \A i \in 1 .. l : v[i] # Quote
    BY <1>1, <2>2 DEF Range
  <2>4. ASSUME NEW i \in 2 .. l, v[i - 1] = Backslash PROVE v[i] \notin Escapes
    <3>1. i - 1 \in 1 .. l - 1 /\ (i - 1) + 1 = i
      BY <1>1
    <3> QED BY <2>2, <2>4, <3>1
  <2> QED BY <2>1, <2>2, <2>3, <2>4 DEF Last
<1> QED BY <1>2, <1>3, <1>4, <1>5 DEF l

------------------------------------------------------------------------------
(* Values *)

\* The beginning of a value without the white space it ends in is one too.
LEMMA CutOfText ==
    ASSUME NEW v \in Strings, NEW k \in 0 .. Len(v)
    PROVE  \E j \in 0 .. Len(v) : Trim(SubSeq(v, 1, k)) = SubSeq(v, 1, j)
<1> DEFINE u == SubSeq(v, 1, k)
<1>1. u \in Strings /\ Len(u) = k /\ Len(v) \in Nat
  BY SubSeqIs, LenProperties DEF Strings
<1>2. PICK j \in 0 .. k : Trim(u) = SubSeq(u, 1, j)
  BY <1>1, TrimIs
<1>3. SubSeq(u, 1, j) = SubSeq(v, 1, j)
  <2>1. j \in Nat /\ j <= k /\ j <= Len(v) /\ j <= Len(u)
    BY <1>1
  <2>2. \A i \in 1 .. j : u[i] = v[i]
    BY <1>1, SubSeqIs
  <2> HIDE DEF u
  <2> QED BY <1>1, <2>1, <2>2, SameSubSeq
<1> QED BY <1>1, <1>2, <1>3

\* A value without quotes.
LEMMA TextLeads ==
    ASSUME NEW v \in Strings, Plain(v), ~ Spaced(v), NEW n \in Strings, NEW c \in Stores
    PROVE  Leads(At("value", n, <<>>, c), v,
                 IF v = <<>> THEN At("value", n, <<>>, c) ELSE At("text", n, v, c), Cuts(c, n, v))
<1> DEFINE l == Len(v)
           B(i) == SubSeq(v, 1, i)
           r == At("value", n, <<>>, c)
           g == [i \in 0 .. l |-> IF i = 0 THEN r ELSE At("text", n, B(i), c)]
<1>1. /\ l \in Nat /\ l <= MaxValue /\ (l = 0 <=> v = <<>>) /\ MaxValue \in Nat
      /\ \A i \in 1 .. l : v[i] \in Chars \ {Newline}
      /\ l # 0 => v[1] \notin {Blank, Quote, Newline}
  <2>1. l \in Nat /\ (l = 0 <=> v = <<>>)
    BY LenProperties, EmptySeq DEF Strings
  <2>2. \A i \in 1 .. l : v[i] \in Chars
    BY ElementOfSeq DEF Strings
  <2> QED BY <2>1, <2>2, PlainIs, CfgAssumption
<1>2. /\ B(0) = <<>>
      /\ \A i \in 1 .. l : B(i) = Append(B(i - 1), v[i])
      /\ B(l) = v
  BY SubSeqNext
<1>3. \A i \in 0 .. l : B(i) \in Strings /\ Len(B(i)) = i
  BY SubSeqIs
<1>4. <<>> \in Strings /\ r \in Readers
  BY EmptyString, AtType
<1> HIDE DEF l, B
<1>5. g \in [0 .. l -> Readers]
  BY <1>3, <1>4, AtType
<1>6. /\ g[0] = r
      /\ \A i \in 1 .. l : g[i] = At("text", n, B(i), c)
      /\ g[l] = IF l = 0 THEN r ELSE At("text", n, v, c)
  BY <1>1, <1>2
<1> HIDE DEF g
<1>7. ASSUME NEW i \in 1 .. l PROVE g[i] = Read(g[i - 1], v[i])
  <2> DEFINE x == v[i]
  <2>1. x \in Chars \ {Newline}
    BY <1>1
  <2>2. CASE i = 1
    <3>1. B(i) = <<x>>
      <4>1. B(1) = Append(B(0), v[1])
        BY <1>2, <2>2
      <4>2. Append(<<>>, v[1]) = <<v[1]>>
        OBVIOUS
      <4>3. B(1) = <<v[1]>>
        BY <1>2, <4>1, <4>2
      <4> QED BY <2>2, <4>3
    <3>2. x \in Chars \ {Blank, Quote, Newline} /\ g[i - 1] = r
      BY <1>1, <1>6, <2>2
    <3> HIDE DEF x
    <3>3. Read(r, x) = At("text", n, <<x>>, c)
      BY <3>2, FromValue
    <3> QED BY <1>6, <3>1, <3>2, <3>3 DEF x
  <2>3. CASE i # 1
    <3>1. i - 1 \in 1 .. l /\ i - 1 # MaxValue
      BY <1>1, <2>3
    <3> DEFINE b == B(i - 1)
    <3>2. b \in Strings /\ Len(b) = i - 1 /\ B(i) = Append(b, x)
      BY <1>2, <1>3, <3>1
    <3>3. g[i - 1] = At("text", n, b, c) /\ g[i] = At("text", n, Append(b, x), c)
      BY <1>6, <3>1, <3>2
    <3> HIDE DEF x, b
    <3>4. Read(At("text", n, b, c), x) = At("text", n, Append(b, x), c)
      BY <2>1, <3>1, <3>2, FromText
    <3> QED BY <3>3, <3>4 DEF x
  <2> QED BY <2>2, <2>3
<1>8. Trace(g, r, v)
  BY <1>5, <1>6, <1>7 DEF Trace, Follows, l
<1>9. ASSUME NEW i \in 0 .. l PROVE Read(g[i], EOF) \in Cuts(c, n, v)
  <2>0. g[i] \in Readers
    BY <1>5
  <2>1. CASE i = 0
    <3>1. Read(g[i], EOF) = At("line", n, <<>>, Set(c, n, <<>>))
      BY <1>6, <2>1, FromValue
    <3>a. Read(g[i], EOF).cfg = Set(c, n, <<>>)
      BY <3>1 DEF At
    <3>2. Read(g[i], EOF).cfg = Set(c, n, SubSeq(v, 1, 0))
      BY <3>a, SubSeqNext
    <3>3. 0 \in 0 .. Len(v)
      BY <1>1 DEF l
    <3> QED BY <2>0, <3>2, <3>3, CutsOf
  <2>2. CASE i # 0
    <3>1. i \in 1 .. l
      BY <1>1, <2>2
    <3> DEFINE b == B(i)
    <3>2. g[i] = At("text", n, b, c)
      BY <1>6, <3>1
    <3>3. PICK j \in 0 .. Len(v) : Trim(b) = SubSeq(v, 1, j)
      BY CutOfText DEF l, B
    <3> HIDE DEF b
    <3>4. Read(g[i], EOF) = At("line", n, b, Set(c, n, Trim(b)))
      BY <3>2, FromText
    <3>5. Read(g[i], EOF).cfg = Set(c, n, SubSeq(v, 1, j))
      BY <3>3, <3>4 DEF At
    <3> QED BY <2>0, <3>5, CutsOf
  <2> QED BY <2>1, <2>2
<1>10. Leads(r, v, g[Len(v)], Cuts(c, n, v))
  <2> HIDE DEF r
  <2> QED BY <1>4, <1>8, <1>9, LeadsAlong DEF l
<1> QED BY <1>1, <1>6, <1>10 DEF l

\* A value in quotes.
LEMMA QuotedLeads ==
    ASSUME NEW v \in Strings, Plain(v), Spaced(v), NEW n \in Strings, NEW c \in Stores
    PROVE  Leads(At("quoted", n, <<>>, c), v, At("quoted", n, v, c), Cuts(c, n, v))
<1> DEFINE l == Len(v)
           B(i) == SubSeq(v, 1, i)
           Esc(i) == i > 0 /\ v[i] = Backslash
           r == At("quoted", n, <<>>, c)
           g == [i \in 0 .. l |-> IF Esc(i) THEN At("escape", n, B(i - 1), c)
                                             ELSE At("quoted", n, B(i), c)]
<1>1. /\ l \in Nat \ {0} /\ l <= MaxValue /\ MaxValue \in Nat
      /\ \A i \in 1 .. l : v[i] \in Chars \ {Newline, Quote}
      /\ \A i \in 2 .. l : v[i - 1] = Backslash => v[i] \notin Escapes
      /\ v[l] # Backslash
  <2>1. l \in Nat /\ (l = 0 <=> v = <<>>)
    BY LenProperties, EmptySeq DEF Strings
  <2>2. \A i \in 1 .. l : v[i] \in Chars
    BY ElementOfSeq DEF Strings
  <2>3. v # <<>>
    BY PlainIs
  <2> QED BY <2>1, <2>2, <2>3, PlainIs, CfgAssumption
<1>2. /\ B(0) = <<>>
      /\ \A i \in 1 .. l : B(i) = Append(B(i - 1), v[i])
      /\ B(l) = v
  BY SubSeqNext
<1>3. \A i \in 0 .. l : B(i) \in Strings /\ Len(B(i)) = i
  BY SubSeqIs
<1>4. <<>> \in Strings /\ r \in Readers
  BY EmptyString, AtType
<1> HIDE DEF l, B
<1>5. g \in [0 .. l -> Readers]
  <2> SUFFICES ASSUME NEW i \in 0 .. l
               PROVE  (IF Esc(i) THEN At("escape", n, B(i - 1), c) ELSE At("quoted", n, B(i), c)) \in Readers
    OBVIOUS
  <2>1. CASE Esc(i)
    <3>1. i - 1 \in 0 .. l
      BY <1>1, <2>1
    <3> QED BY <1>3, <2>1, <3>1, AtType
  <2>2. CASE ~ Esc(i)
    BY <1>3, <2>2, AtType
  <2> QED BY <2>1, <2>2
<1>6. /\ g[0] = r
      /\ \A i \in 0 .. l : /\ Esc(i) => g[i] = At("escape", n, B(i - 1), c)
                           /\ ~ Esc(i) => g[i] = At("quoted", n, B(i), c)
      /\ g[l] = At("quoted", n, v, c)
  <2>1. ~ Esc(0) /\ ~ Esc(l) /\ 0 \in 0 .. l /\ l \in 0 .. l
    BY <1>1
  <2> HIDE DEF Esc
  <2>2. \A i \in 0 .. l : /\ Esc(i) => g[i] = At("escape", n, B(i - 1), c)
                          /\ ~ Esc(i) => g[i] = At("quoted", n, B(i), c)
    OBVIOUS
  <2> HIDE DEF g
  <2> QED BY <1>2, <2>1, <2>2
<1> HIDE DEF g
<1>7. ASSUME NEW i \in 1 .. l PROVE g[i] = Read(g[i - 1], v[i])
  <2> DEFINE x == v[i]
             b == B(i - 1)
  <2>1. x \in Chars \ {Newline, Quote} /\ i - 1 \in 0 .. l /\ i \in 0 .. l /\ (Esc(i) <=> x = Backslash)
    BY <1>1
  <2>2. b \in Strings /\ Len(b) = i - 1 /\ Len(b) # MaxValue /\ B(i) = Append(b, x)
    <3>1. b \in Strings /\ Len(b) = i - 1
      BY <1>3, <2>1
    <3>2. B(i) = Append(b, x)
      BY <1>2
    <3>3. i - 1 # MaxValue
      BY <1>1
    <3> HIDE DEF b, x
    <3> QED BY <3>1, <3>2, <3>3
  <2>3. CASE ~ Esc(i - 1)
    <3>1. g[i - 1] = At("quoted", n, b, c)
      BY <1>6, <2>1, <2>3
    <3>2. CASE x = Backslash
      <4>1. g[i] = At("escape", n, b, c)
        BY <1>6, <2>1, <3>2
      <4> HIDE DEF x, b
      <4>2. Read(At("quoted", n, b, c), x) = At("escape", n, b, c)
        BY <2>2, <3>2, FromQuoted
      <4> QED BY <3>1, <4>1, <4>2 DEF x
    <3>3. CASE x # Backslash
      <4>1. g[i] = At("quoted", n, Append(b, x), c)
        BY <1>6, <2>1, <2>2, <3>3
      <4> HIDE DEF x, b
      <4>2. Read(At("quoted", n, b, c), x) = At("quoted", n, Append(b, x), c)
        BY <2>1, <2>2, <3>3, FromQuoted
      <4> QED BY <3>1, <4>1, <4>2 DEF x
    <3> QED BY <3>2, <3>3
  <2>4. CASE Esc(i - 1)
    <3> DEFINE d == B(i - 2)
    <3>1. i \in 2 .. l /\ i - 1 \in 1 .. l /\ v[i - 1] = Backslash /\ (i - 1) - 1 = i - 2 /\ i - 2 \in 0 .. l
      BY <1>1, <2>4
    <3>2. x \notin Escapes /\ x # Backslash
      BY <1>1, <3>1 DEF Escapes
    <3>3. d \in Strings /\ Len(d) + 1 = i - 1 /\ Len(d) + 1 # MaxValue
      BY <1>1, <1>3, <3>1
    <3>4. b = Append(d, Backslash)
      BY <1>2, <3>1
    <3>5. g[i - 1] = At("escape", n, d, c)
      BY <1>6, <2>1, <2>4, <3>1
    <3>6. g[i] = At("quoted", n, Append(b, x), c)
      BY <1>6, <2>1, <2>2, <3>2
    <3> HIDE DEF x, b, d
    <3>7. Read(At("escape", n, d, c), x) = At("quoted", n, Append(Append(d, Backslash), x), c)
      BY <2>1, <3>2, <3>3, FromEscape
    <3> QED BY <3>4, <3>5, <3>6, <3>7 DEF x
  <2> QED BY <2>3, <2>4
<1>8. Trace(g, r, v)
  BY <1>5, <1>6, <1>7 DEF Trace, Follows, l
<1>9. ASSUME NEW i \in 0 .. l PROVE Read(g[i], EOF) \in Cuts(c, n, v)
  <2>0. g[i] \in Readers
    BY <1>5
  <2>1. i \in 0 .. Len(v)
    BY DEF l
  <2> DEFINE b == B(i)
  <2>2. Read(g[i], EOF).cfg = Set(c, n, b)
    <3>1. CASE Esc(i)
      <4> DEFINE d == B(i - 1)
      <4>1. i \in 1 .. l /\ i - 1 \in 0 .. l /\ v[i] = Backslash
        BY <1>1, <3>1
      <4>2. g[i] = At("escape", n, d, c) /\ d \in Strings /\ b = Append(d, Backslash)
        BY <1>2, <1>3, <1>6, <3>1, <4>1
      <4> HIDE DEF b, d
      <4>3. Read(g[i], EOF) = At("line", n, b, Set(c, n, b))
        BY <4>2, FromEscape
      <4> QED BY <4>3 DEF At
    <3>2. CASE ~ Esc(i)
      <4>1. g[i] = At("quoted", n, b, c)
        BY <1>6, <3>2
      <4> HIDE DEF b
      <4>3. Read(g[i], EOF) = At("line", n, b, Set(c, n, b))
        BY <4>1, FromQuoted
      <4> QED BY <4>3 DEF At
    <3> QED BY <3>1, <3>2
  <2>3. Read(g[i], EOF).cfg = Set(c, n, SubSeq(v, 1, i))
    BY <2>2 DEF B
  <2> QED BY <2>0, <2>1, <2>3, CutsOf
<1>10. Leads(r, v, g[Len(v)], Cuts(c, n, v))
  <2> HIDE DEF r
  <2> QED BY <1>4, <1>8, <1>9, LeadsAlong DEF l
<1> QED BY <1>6, <1>10 DEF l

------------------------------------------------------------------------------
(* Lines *)

\* A reader that has read all lines so far.
Clean(c) == {At("line", n, v, c) : n \in Strings, v \in Strings}

\* Texts of one and two characters.
LEMMA FewSigns ==
    ASSUME NEW a \in Chars, NEW b \in Chars
    PROVE  /\ <<a>> \in Strings /\ <<a, b>> \in Strings
           /\ <<a>> \o <<b>> = <<a, b>>
<1>1. <<a>> \in Strings /\ <<b>> \in Strings /\ <<a, b>> \in Strings
  BY DEF Strings
<1>2. Len(<<a>>) = 1 /\ Len(<<b>>) = 1 /\ Len(<<a, b>>) = 2
  OBVIOUS
<1> DEFINE s == <<a>> \o <<b>>
<1>3. /\ s \in Strings /\ Len(s) = 2
      /\ s[1] = <<a>>[1] /\ s[2] = <<b>>[1]
  <2>1. /\ s \in Strings /\ Len(s) = 1 + 1
        /\ \A i \in 1 .. 1 + 1 : s[i] = IF i <= 1 THEN <<a>>[i] ELSE <<b>>[i - 1]
    BY <1>1, <1>2, ConcatProperties DEF Strings
  <2> HIDE DEF s
  <2> QED BY <2>1
<1> HIDE DEF s
<1>4. s[1] = a /\ s[2] = b /\ <<a, b>>[1] = a /\ <<a, b>>[2] = b
  BY <1>3
<1>5. \A i \in 1 .. 2 : s[i] = <<a, b>>[i]
  BY <1>4
<1>6. s = <<a, b>>
  BY <1>1, <1>2, <1>3, <1>5, SeqEqual DEF Strings
<1> QED BY <1>1, <1>6 DEF s

\* A text that leads somewhere can end before its first and after its last
\* character.
LEMMA LeadsEnds ==
    ASSUME NEW r, NEW s, NEW q, NEW O, Leads(r, s, q, O)
    PROVE  Read(r, EOF) \in O /\ Read(q, EOF) \in O
<1>1. r \in Readers /\ s \in Strings /\ ReadOn(r, s) = q
  BY DEF Leads
<1>2. SubSeq(s, 1, Len(s)) = s /\ SubSeq(s, 1, 0) = <<>> /\ 0 \in 0 .. Len(s) /\ Len(s) \in 0 .. Len(s)
  BY <1>1, SubSeqNext, LenProperties DEF Strings
<1>3. Read(ReadOn(r, SubSeq(s, 1, 0)), EOF) \in O /\ Read(ReadOn(r, SubSeq(s, 1, Len(s))), EOF) \in O
  BY <1>2 DEF Leads
<1> QED BY <1>1, <1>2, <1>3, ReadOnNothing

\* A line is a text.
LEMMA LineIs ==
    ASSUME NEW n \in Strings, NEW v \in Strings
    PROVE  Line(n, v) \in Strings
<1> DEFINE quotes == IF Spaced(v) THEN <<Quote>> ELSE <<>>
           a == n \o <<Colon, Blank>>
           b == a \o quotes
           d == b \o v
           e == d \o quotes
<1>1. <<Colon, Blank>> \in Strings /\ quotes \in Strings /\ <<Newline>> \in Strings
  BY CharsAre, EmptyString, FewSigns
<1> HIDE DEF quotes
<1>2. a \in Strings
  BY <1>1, ConcatProperties DEF Strings
<1> HIDE DEF a
<1>3. b \in Strings
  BY <1>1, <1>2, ConcatProperties DEF Strings
<1> HIDE DEF b
<1>4. d \in Strings
  BY <1>3, ConcatProperties DEF Strings
<1> HIDE DEF d
<1>5. e \in Strings
  BY <1>1, <1>4, ConcatProperties DEF Strings
<1> HIDE DEF e
<1>6. e \o <<Newline>> \in Strings
  BY <1>1, <1>5, ConcatProperties DEF Strings
<1> QED BY <1>6 DEF Line, e, d, b, a, quotes

\* The colon and the blank between name and value.
LEMMA ColonLeads ==
    ASSUME NEW n \in Strings, n # <<>>, NEW u \in Strings, NEW v \in Strings, NEW c \in Stores
    PROVE  Leads(At("name", n, u, c), <<Colon, Blank>>, At("value", n, <<>>, c), Cuts(c, n, v))
<1> DEFINE r == At("name", n, u, c)
           q == At("value", n, <<>>, c)
           O == Cuts(c, n, v)
<1>1. r \in Readers /\ q \in Readers /\ Colon \in Chars /\ Blank \in Chars
  BY AtType, EmptyString, CharsAre
<1>2. Read(r, Colon) = q /\ Read(q, Blank) = q
  BY FromName, FromValue
<1>3. Read(r, EOF) \in O
  <2>1. Read(r, EOF) = At("error", n, u, c)
    BY FromName
  <2>2. Read(r, EOF).in = "error"
    BY <2>1 DEF At
  <2> HIDE DEF r
  <2> QED BY <1>1, <2>2, CutsOf
<1>4. Read(q, EOF) \in O
  <2>1. Read(q, EOF) = At("line", n, <<>>, Set(c, n, <<>>))
    BY FromValue
  <2>2. Read(q, EOF).cfg = Set(c, n, <<>>)
    BY <2>1 DEF At
  <2>3. SubSeq(v, 1, 0) = <<>> /\ 0 \in 0 .. Len(v)
    BY SubSeqNext, LenProperties DEF Strings
  <2>4. Read(q, EOF).cfg = Set(c, n, SubSeq(v, 1, 0))
    BY <2>2, <2>3
  <2> HIDE DEF q
  <2> QED BY <1>1, <2>3, <2>4, CutsOf
<1> HIDE DEF r, q, O
<1>5. Leads(r, <<Colon>>, q, O) /\ Leads(q, <<Blank>>, q, O)
  BY <1>1, <1>2, <1>3, <1>4, LeadsByOne
<1>6. <<Colon>> \o <<Blank>> = <<Colon, Blank>>
  BY <1>1, FewSigns
<1>7. Leads(r, <<Colon>> \o <<Blank>>, q, O)
  BY <1>5, LeadsConcat
<1> QED BY <1>6, <1>7 DEF r, q, O

\* A line is read back.
LEMMA LineLeads ==
    ASSUME NEW c \in Stores, NEW r \in Clean(c), NEW n, GoodName(n), NEW v \in Strings, Plain(v)
    PROVE  \E q \in Clean(Set(c, n, v)) : Leads(r, Line(n, v), q, Cuts(c, n, v))
<1> DEFINE O == Cuts(c, n, v)
           m == Set(c, n, v)
           V == At("value", n, <<>>, c)
<1>1. n \in Strings /\ n # <<>> /\ m \in Stores /\ {Quote, Newline} \subseteq Chars /\ <<>> \in Strings
  BY SetIs, CharsAre, EmptyString DEF GoodName
<1>2. PICK w \in Strings, u \in Strings : r = At("line", w, u, c)
  BY DEF Clean
<1>3. Leads(r, n, At("name", n, u, c), O)
  BY <1>2, NameLeads
<1>4. Leads(At("name", n, u, c), <<Colon, Blank>>, V, O)
  BY <1>1, ColonLeads
<1>5. V \in Readers
  BY <1>1, AtType
<1>6. \A x \in Strings, y \in Strings : At("line", x, y, m) \in Readers /\ Read(At("line", x, y, m), EOF) \in O
  <2> SUFFICES ASSUME NEW x \in Strings, NEW y \in Strings
               PROVE  At("line", x, y, m) \in Readers /\ Read(At("line", x, y, m), EOF) \in O
    OBVIOUS
  <2> DEFINE q == At("line", x, y, m)
  <2>1. q \in Readers
    BY <1>1, AtType
  <2>2. Read(q, EOF) = At("end", <<>>, y, m)
    BY FromLine
  <2>3. Read(q, EOF).cfg = m
    BY <2>2 DEF At
  <2>4. SubSeq(v, 1, Len(v)) = v /\ Len(v) \in 0 .. Len(v)
    BY SubSeqNext, LenProperties DEF Strings
  <2>5. Read(q, EOF).cfg = Set(c, n, SubSeq(v, 1, Len(v)))
    BY <2>3, <2>4
  <2> HIDE DEF q
  <2>6. Read(q, EOF) \in O
    BY <2>1, <2>4, <2>5, CutsOf
  <2> QED BY <2>1, <2>6 DEF q
<1>7. Read(V, EOF) \in O
  BY <1>4, LeadsEnds
<1>8. CASE ~ Spaced(v)
  <2> DEFINE t == IF v = <<>> THEN V ELSE At("text", n, v, c)
             q == At("line", n, v, m)
  <2>1. Leads(V, v, t, O)
    BY <1>1, <1>8, TextLeads
  <2>2. Read(t, Newline) = q
    <3>1. CASE v = <<>>
      BY <3>1, FromValue
    <3>2. CASE v # <<>>
      <4>1. Trim(v) = v
        BY <1>8, <3>2, TrimIs, PlainIs
      <4> QED BY <3>2, <4>1, FromText
    <3> QED BY <3>1, <3>2
  <2>3. q \in Clean(m) /\ Read(q, EOF) \in O
    BY <1>1, <1>6 DEF Clean
  <2>4. t \in Readers
    BY <1>1, <1>5, AtType
  <2>5. Read(t, EOF) \in O
    BY <2>1, LeadsEnds
  <2>6. Line(n, v) = (((n \o <<Colon, Blank>>) \o <<>>) \o v) \o <<>> \o <<Newline>>
    BY <1>8 DEF Line
  <2>7. Leads(V, <<>>, V, O)
    BY <1>5, <1>7, LeadsNowhere
  <2> HIDE DEF q, t, O, m, V
  <2>8. Leads(t, <<>>, t, O)
    BY <2>4, <2>5, LeadsNowhere
  <2>9. Leads(t, <<Newline>>, q, O)
    BY <1>1, <2>2, <2>3, <2>4, <2>5, LeadsByOne
  <2>10. Leads(r, n \o <<Colon, Blank>>, V, O)
    BY <1>3, <1>4, LeadsConcat
  <2>11. Leads(r, (n \o <<Colon, Blank>>) \o <<>>, V, O)
    BY <2>7, <2>10, LeadsConcat
  <2>12. Leads(r, ((n \o <<Colon, Blank>>) \o <<>>) \o v, t, O)
    BY <2>1, <2>11, LeadsConcat
  <2>13. Leads(r, (((n \o <<Colon, Blank>>) \o <<>>) \o v) \o <<>>, t, O)
    BY <2>8, <2>12, LeadsConcat
  <2>14. Leads(r, (((n \o <<Colon, Blank>>) \o <<>>) \o v) \o <<>> \o <<Newline>>, q, O)
    BY <2>9, <2>13, LeadsConcat
  <2> QED BY <2>3, <2>6, <2>14 DEF O, m
<1>9. CASE Spaced(v)
  <2> DEFINE a == At("quoted", n, <<>>, c)
             z == At("quoted", n, v, c)
             p == At("line", n, v, m)
             q == At("line", <<>>, v, m)
             Q == <<Quote>>
  <2>1. Leads(a, v, z, O)
    BY <1>1, <1>9, QuotedLeads
  <2>2. Read(V, Quote) = a /\ Read(z, Quote) = p /\ Read(p, Newline) = q
    BY FromValue, FromQuoted, FromLine
  <2>3. q \in Clean(m) /\ Read(q, EOF) \in O /\ p \in Readers /\ Read(p, EOF) \in O
    BY <1>1, <1>6 DEF Clean
  <2>4. a \in Readers /\ z \in Readers
    BY <1>1, AtType
  <2> HIDE DEF a, z, p, q, O, m, V
  <2>6. Read(z, EOF) \in O /\ Read(a, EOF) \in O
    BY <2>1, LeadsEnds
  <2>8. Leads(V, Q, a, O) /\ Leads(z, Q, p, O) /\ Leads(p, <<Newline>>, q, O)
    BY <1>1, <1>5, <1>7, <2>2, <2>3, <2>4, <2>6, LeadsByOne
  <2>9. Line(n, v) = (((n \o <<Colon, Blank>>) \o Q) \o v) \o Q \o <<Newline>>
    BY <1>9 DEF Line
  <2> HIDE DEF Q
  <2>10. Leads(r, n \o <<Colon, Blank>>, V, O)
    BY <1>3, <1>4, LeadsConcat
  <2>11. Leads(r, (n \o <<Colon, Blank>>) \o Q, a, O)
    BY <2>8, <2>10, LeadsConcat
  <2>12. Leads(r, ((n \o <<Colon, Blank>>) \o Q) \o v, z, O)
    BY <2>1, <2>11, LeadsConcat
  <2>13. Leads(r, (((n \o <<Colon, Blank>>) \o Q) \o v) \o Q, p, O)
    BY <2>8, <2>12, LeadsConcat
  <2>14. Leads(r, (((n \o <<Colon, Blank>>) \o Q) \o v) \o Q \o <<Newline>>, q, O)
    BY <2>8, <2>13, LeadsConcat
  <2> QED BY <2>3, <2>9, <2>14 DEF O, m
<1> QED BY <1>8, <1>9

------------------------------------------------------------------------------
(* The text of a store *)

\* The keys of a store, one after the other, and the lines they make.
Size(c) == Cardinality(DOMAIN c)
Names(c) == InOrder(DOMAIN c)
Lines(c) == [i \in DOMAIN Names(c) |-> Line(Names(c)[i], c[Names(c)[i]])]
\* The store of the first i keys.
FirstKeys(c, i) == [n \in {Names(c)[j] : j \in 1 .. i} |-> c[n]]

\* The names of a store in the order of the tree.
LEMMA NamesAre ==
    ASSUME NEW c \in Stores
    PROVE  /\ Size(c) \in Nat /\ DOMAIN Names(c) = 1 .. Size(c)
           /\ \A i \in 1 .. Size(c) : Names(c)[i] \in DOMAIN c /\ Names(c)[i] \in Strings
           /\ \A i, j \in 1 .. Size(c) : i < j => KeyBefore(Names(c)[i], Names(c)[j])
           /\ \A n \in DOMAIN c : \E i \in 1 .. Size(c) : Names(c)[i] = n
<1> DEFINE D == DOMAIN c
<1>1. D \in SUBSET Strings /\ IsFiniteSet(D)
  BY StoreIs
<1>2. Cardinality(D) \in Nat
  BY <1>1, FS_CardinalityType
<1>3. /\ InOrderOf(InOrder(D), D)
      /\ \A x \in D : \E i \in 1 .. Cardinality(D) : InOrder(D)[i] = x
  BY <1>1, InOrderIs
<1> HIDE DEF D
<1>4. /\ InOrder(D) \in [1 .. Cardinality(D) -> D]
      /\ \A i, j \in 1 .. Cardinality(D) : i < j => KeyBefore(InOrder(D)[i], InOrder(D)[j])
  BY <1>3 DEF InOrderOf
<1> QED BY <1>1, <1>2, <1>3, <1>4 DEF D, Size, Names

\* The text of a store: a comment and its lines.
LEMMA TextIs ==
    ASSUME NEW c \in Stores
    PROVE  /\ Lines(c) \in Seq(Strings) /\ Len(Lines(c)) = Size(c)
           /\ \A i \in 1 .. Size(c) : Lines(c)[i] = Line(Names(c)[i], c[Names(c)[i]])
           /\ Text(c) = Header \o FlattenSeq(Lines(c))
<1> DEFINE f == Lines(c)
<1>1. /\ Size(c) \in Nat /\ DOMAIN Names(c) = 1 .. Size(c)
      /\ \A i \in 1 .. Size(c) : Names(c)[i] \in DOMAIN c /\ Names(c)[i] \in Strings
  BY NamesAre
<1>2. \A i \in 1 .. Size(c) : Line(Names(c)[i], c[Names(c)[i]]) \in Strings
  BY <1>1, LineIs, StoreIs
<1>3. f \in [1 .. Size(c) -> Strings] /\ \A i \in 1 .. Size(c) : f[i] = Line(Names(c)[i], c[Names(c)[i]])
  BY <1>1, <1>2 DEF Lines
<1> HIDE DEF f
<1>4. f \in Seq(Strings) /\ Len(f) = Size(c)
  BY <1>1, <1>3
<1>5. Text(c) = Header \o FlattenSeq(Lines(c))
  BY DEF Text, Lines, Names
<1> QED BY <1>3, <1>4, <1>5 DEF f

\* The comment is a text,
LEMMA HeaderIs == Header \in Strings
BY FewSigns, CharsAre DEF Header

\* and so is all of it.
LEMMA TextType ==
    ASSUME NEW c \in Stores
    PROVE  Text(c) \in Strings
<1> DEFINE f == Lines(c)
<1>1. f \in Seq(Strings) /\ Text(c) = Header \o FlattenSeq(f)
  BY TextIs
<1> HIDE DEF f
<1>2. PICK g : Pieces(g, f, Chars)
  BY <1>1, HasPieces DEF Strings
<1>3. FlattenSeq(f) = g[Len(f)]
  BY <1>1, <1>2, FlattenPieces DEF Strings
<1>4. g[Len(f)] \in Strings
  BY <1>1, <1>2, LenProperties DEF Pieces, Strings
<1> QED BY <1>1, <1>3, <1>4, HeaderIs, ConcatProperties DEF Strings

\* What NothingInvented says of a store and the one that was saved.
Beginning(d, c) ==
    /\ DOMAIN d \subseteq DOMAIN c
    /\ \A n \in DOMAIN d : IsPrefix(d[n], c[n])
    /\ \A n \in DOMAIN d : \A m \in DOMAIN c :
           KeyBefore(n, m) /\ m \in DOMAIN d => d[n] = c[n]
    /\ \A n \in DOMAIN d : \A m \in DOMAIN c :
           KeyBefore(m, n) => m \in DOMAIN d

\* The beginnings of a value, itself among them.
LEMMA PrefixIs ==
    ASSUME NEW s \in Strings
    PROVE  /\ IsPrefix(s, s)
           /\ \A k \in 0 .. Len(s) : IsPrefix(SubSeq(s, 1, k), s)
<1>1. Len(s) \in Nat
  BY LenProperties DEF Strings
<1>2. IsPrefix(s, s)
  BY <1>1 DEF IsPrefix
<1>3. ASSUME NEW k \in 0 .. Len(s) PROVE IsPrefix(SubSeq(s, 1, k), s)
  <2> DEFINE u == SubSeq(s, 1, k)
  <2>1. u \in Strings /\ Len(u) = k
    BY SubSeqIs
  <2>2. SubSeq(u, 1, Len(u)) = u
    BY <2>1, SubSeqNext
  <2>3. SubSeq(s, 1, Len(u)) = u
    BY <2>1
  <2> HIDE DEF u
  <2>4. Len(u) <= Len(s)
    BY <1>1, <2>1
  <2>5. IsPrefix(u, s)
    BY <2>2, <2>3, <2>4 DEF IsPrefix
  <2> QED BY <2>5 DEF u
<1> QED BY <1>2, <1>3

\* The first i keys with their values, of which the last is perhaps shorter.
LEMMA BeginningOf ==
    ASSUME NEW c \in Stores, NEW d, NEW i \in 0 .. Size(c),
           DOMAIN d = {Names(c)[j] : j \in 1 .. i},
           \A j \in 1 .. i : IsPrefix(d[Names(c)[j]], c[Names(c)[j]]),
           \A j \in 1 .. i : j < i => d[Names(c)[j]] = c[Names(c)[j]]
    PROVE  Beginning(d, c)
<1> DEFINE s == Names(c)
           l == Size(c)
<1>1. /\ l \in Nat
      /\ \A k \in 1 .. l : s[k] \in DOMAIN c /\ s[k] \in Strings
      /\ \A k, j \in 1 .. l : k < j => KeyBefore(s[k], s[j])
      /\ \A n \in DOMAIN c : \E k \in 1 .. l : s[k] = n
  BY NamesAre
<1>2. DOMAIN d = {s[j] : j \in 1 .. i} /\ i \in 0 .. l
  OBVIOUS
<1>3. \A j \in 1 .. i : /\ IsPrefix(d[s[j]], c[s[j]])
                        /\ j < i => d[s[j]] = c[s[j]]
  OBVIOUS
<1> HIDE DEF s, l
<1>4. DOMAIN d \subseteq DOMAIN c
  <2>1. \A j \in 1 .. i : j \in 1 .. l
    BY <1>1, <1>2
  <2> QED BY <1>1, <1>2, <2>1
<1>5. \A n \in DOMAIN d : IsPrefix(d[n], c[n])
  BY <1>2, <1>3
<1>6. ASSUME NEW k \in 1 .. l, NEW j \in 1 .. l, KeyBefore(s[k], s[j])
      PROVE  k < j
  <2>1. s[k] \in Strings /\ s[j] \in Strings
    BY <1>1
  <2>2. ASSUME k = j PROVE FALSE
    BY <1>6, <2>1, <2>2, KeyIrreflexive
  <2>3. ASSUME j < k PROVE FALSE
    <3>1. KeyBefore(s[j], s[k])
      BY <1>1, <2>3
    <3>2. KeyBefore(s[j], s[j])
      BY <1>6, <2>1, <3>1, KeyTransitive
    <3> QED BY <2>1, <3>2, KeyIrreflexive
  <2> QED BY <1>1, <2>2, <2>3
<1>7. ASSUME NEW n \in DOMAIN d, NEW m \in DOMAIN d, KeyBefore(n, m)
      PROVE  d[n] = c[n]
  <2>1. PICK k \in 1 .. i : s[k] = n
    BY <1>2
  <2>2. PICK j \in 1 .. i : s[j] = m
    BY <1>2
  <2>3. k \in 1 .. l /\ j \in 1 .. l
    BY <1>1, <1>2
  <2>4. k < i
    BY <1>1, <1>2, <1>6, <1>7, <2>1, <2>2, <2>3
  <2> QED BY <1>3, <2>1, <2>4
<1>8. ASSUME NEW n \in DOMAIN d, NEW m \in DOMAIN c, KeyBefore(m, n)
      PROVE  m \in DOMAIN d
  <2>1. PICK k \in 1 .. i : s[k] = n
    BY <1>2
  <2>2. PICK j \in 1 .. l : s[j] = m
    BY <1>1
  <2>3. k \in 1 .. l
    BY <1>1, <1>2
  <2>4. j \in 1 .. i
    BY <1>1, <1>2, <1>6, <1>8, <2>1, <2>2, <2>3
  <2> QED BY <1>2, <2>2, <2>4
<1> QED BY <1>4, <1>5, <1>7, <1>8 DEF Beginning

\* The store after the first i lines: each sets the value of one name.
LEMMA FirstKeysAre ==
    ASSUME NEW c \in Stores
    PROVE  /\ FirstKeys(c, 0) = EmptyCfg
           /\ FirstKeys(c, Size(c)) = c
           /\ \A i \in 0 .. Size(c) : FirstKeys(c, i) \in Stores /\ Beginning(FirstKeys(c, i), c)
           /\ \A i \in 1 .. Size(c) :
                  FirstKeys(c, i) = Set(FirstKeys(c, i - 1), Names(c)[i], c[Names(c)[i]])
<1> DEFINE s == Names(c)
           l == Size(c)
           F(i) == FirstKeys(c, i)
           R(i) == {s[j] : j \in 1 .. i}
<1>1. /\ l \in Nat
      /\ \A k \in 1 .. l : s[k] \in DOMAIN c /\ s[k] \in Strings
      /\ \A n \in DOMAIN c : \E k \in 1 .. l : s[k] = n
      /\ \A k, j \in 1 .. l : k < j => KeyBefore(s[k], s[j])
  BY NamesAre
<1>2. \A i : DOMAIN F(i) = R(i) /\ (\A n \in R(i) : F(i)[n] = c[n]) /\ IsMap(F(i))
  BY DEF FirstKeys, IsMap
<1> HIDE DEF F
<1>3. \A n \in DOMAIN c : n \in Strings /\ c[n] \in Strings
  BY StoreIs
<1>4. ASSUME NEW i \in 0 .. l PROVE F(i) \in Stores
  <2>1. \A j \in 1 .. i : j \in 1 .. l
    BY <1>1
  <2>2. R(i) \subseteq DOMAIN c
    BY <1>1, <2>1
  <2>3. IsFiniteSet(R(i))
    BY <2>2, StoreIs, FS_Subset
  <2> HIDE DEF R
  <2> QED BY <1>2, <1>3, <2>2, <2>3, IsStore
<1>5. ASSUME NEW i \in 0 .. l PROVE Beginning(F(i), c)
  <2>1. \A j \in 1 .. i : s[j] \in DOMAIN c /\ s[j] \in R(i)
    BY <1>1
  <2>2. \A j \in 1 .. i : F(i)[s[j]] = c[s[j]]
    BY <1>2, <2>1
  <2>3. \A j \in 1 .. i : IsPrefix(F(i)[s[j]], c[s[j]])
    BY <1>3, <2>1, <2>2, PrefixIs
  <2>4. DOMAIN F(i) = {Names(c)[j] : j \in 1 .. i}
    BY <1>2
  <2> QED BY <2>2, <2>3, <2>4, BeginningOf
<1>6. F(0) = EmptyCfg
  <2>1. R(0) = {}
    OBVIOUS
  <2>2. IsMap(EmptyCfg) /\ DOMAIN EmptyCfg = {}
    BY DEF EmptyCfg, IsMap
  <2>3. DOMAIN F(0) = {} /\ IsMap(F(0))
    BY <1>2, <2>1
  <2> QED BY <2>2, <2>3, MapsEqual
<1>7. F(l) = c
  <2>1. R(l) = DOMAIN c
    BY <1>1
  <2>2. IsMap(c)
    BY StoreIs
  <2> HIDE DEF R
  <2> QED BY <1>2, <2>1, <2>2, MapsEqual
<1>8. ASSUME NEW i \in 1 .. l
      PROVE  F(i) = Set(F(i - 1), s[i], c[s[i]])
  <2> DEFINE k == i - 1
             n == s[i]
             v == c[n]
  <2>1. k \in 0 .. l /\ i \in 1 .. i
    BY <1>1
  <2>2. R(i) = R(k) \cup {n}
    <3>1. 1 .. i = (1 .. k) \cup {i}
      BY <1>1
    <3> HIDE DEF k
    <3> QED BY <3>1
  <2>3. n \notin R(k)
    <3> SUFFICES ASSUME NEW j \in 1 .. k, s[j] = n PROVE FALSE
      OBVIOUS
    <3>1. j \in 1 .. l /\ j < i
      BY <1>1
    <3>2. KeyBefore(n, n) /\ n \in Strings
      BY <1>1, <3>1
    <3> QED BY <3>2, KeyIrreflexive
  <2>4. n \in Strings /\ v \in Strings /\ n \in R(i)
    BY <1>1, <1>3, <2>1
  <2>5. F(k) \in Stores /\ DOMAIN F(k) = R(k)
    BY <1>2, <1>4, <2>1
  <2> HIDE DEF k, n, v, R
  <2>6. /\ DOMAIN Set(F(k), n, v) = R(i)
        /\ Set(F(k), n, v)[n] = v
        /\ \A m \in R(k) \ {n} : Set(F(k), n, v)[m] = F(k)[m]
        /\ Set(F(k), n, v) \in Stores
    BY <2>2, <2>4, <2>5, SetIs
  <2>7. IsMap(Set(F(k), n, v))
    BY <2>6, StoreIs
  <2>8. \A m \in R(i) : F(i)[m] = Set(F(k), n, v)[m]
    <3> SUFFICES ASSUME NEW m \in R(i) PROVE F(i)[m] = Set(F(k), n, v)[m]
      OBVIOUS
    <3>1. F(i)[m] = c[m]
      BY <1>2
    <3>2. CASE m = n
      BY <2>6, <3>1, <3>2 DEF v
    <3>3. CASE m # n
      <4>1. m \in R(k) \ {n}
        BY <2>2, <3>3
      <4>2. F(k)[m] = c[m]
        BY <1>2, <4>1
      <4> QED BY <2>6, <3>1, <4>1, <4>2
    <3> QED BY <3>2, <3>3
  <2>9. F(i) = Set(F(k), n, v)
    BY <1>2, <2>6, <2>7, <2>8, MapsEqual
  <2> QED BY <2>9 DEF k, n, v
<1> QED BY <1>4, <1>5, <1>6, <1>7, <1>8 DEF F

------------------------------------------------------------------------------
(* What is read of it *)

\* What Holdable asks of a name and its value.
LEMMA HoldableIs ==
    ASSUME NEW c \in Stores, Holdable(c), NEW n \in DOMAIN c
    PROVE  GoodName(n) /\ c[n] \in Strings /\ Plain(c[n])
<1>1. n \in Strings /\ c[n] \in Strings
  BY StoreIs
<1>2. n # <<>> /\ Head(n) # Hash /\ Range(n) \subseteq KeyChars /\ Plain(c[n])
  BY DEF Holdable
<1>3. n[1] # Hash
  BY <1>1, <1>2 DEF Strings
<1>4. DOMAIN n = 1 .. Len(n)
  BY <1>1, LenProperties DEF Strings
<1>5. \A i \in 1 .. Len(n) : n[i] \in KeyChars
  BY <1>2, <1>4 DEF Range
<1> QED BY <1>1, <1>2, <1>3, <1>5 DEF GoodName

\* What a file that ends early may leave: an error or a beginning of the store.
Begun(c) == {x \in Readers : x.in = "error" \/ Beginning(x.cfg, c)}

\* A file that ends in line i holds a beginning of the store.
LEMMA CutsBegin ==
    ASSUME NEW c \in Stores, NEW i \in 1 .. Size(c)
    PROVE  Cuts(FirstKeys(c, i - 1), Names(c)[i], c[Names(c)[i]]) \subseteq Begun(c)
<1> DEFINE s == Names(c)
           l == Size(c)
           k == i - 1
           F == FirstKeys(c, k)
           n == s[i]
           v == c[n]
<1>1. /\ l \in Nat
      /\ \A j \in 1 .. l : s[j] \in DOMAIN c /\ s[j] \in Strings
      /\ \A a, j \in 1 .. l : a < j => KeyBefore(s[a], s[j])
  BY NamesAre
<1>2. i \in 1 .. l /\ k \in 0 .. l
  BY <1>1
<1>3. F \in Stores /\ Beginning(F, c)
  BY <1>2, FirstKeysAre
<1>4. \A m \in DOMAIN c : m \in Strings /\ c[m] \in Strings
  BY StoreIs
<1>5. n \in Strings /\ v \in Strings
  BY <1>1, <1>2, <1>4
<1>6. DOMAIN F = {s[j] : j \in 1 .. k} /\ \A j \in 1 .. k : F[s[j]] = c[s[j]]
  BY DEF FirstKeys
<1>7. \A j \in 1 .. k : j \in 1 .. l /\ s[j] # n
  <2> SUFFICES ASSUME NEW j \in 1 .. k PROVE j \in 1 .. l /\ s[j] # n
    OBVIOUS
  <2>1. j \in 1 .. l /\ j < i
    BY <1>1, <1>2
  <2>2. KeyBefore(s[j], n)
    BY <1>1, <1>2, <2>1
  <2>3. s[j] # n
    <3> HIDE DEF s, n
    <3> QED BY <1>5, <2>2, KeyIrreflexive
  <2> QED BY <2>1, <2>3
<1>8. 1 .. i = (1 .. k) \cup {i} /\ \A j \in 1 .. i : j < i => j \in 1 .. k
  BY <1>2
<1>9. ASSUME NEW x \in Readers, NEW p \in 0 .. Len(v), x.cfg = Set(F, n, SubSeq(v, 1, p))
      PROVE  Beginning(x.cfg, c)
  <2> DEFINE u == SubSeq(v, 1, p)
             d == Set(F, n, u)
  <2>1. u \in Strings /\ IsPrefix(u, v)
    BY <1>5, SubSeqIs, PrefixIs
  <2> HIDE DEF u, v, n, F
  <2>2. /\ DOMAIN d = DOMAIN F \cup {n}
        /\ d[n] = u
        /\ \A m \in DOMAIN F \ {n} : d[m] = F[m]
    BY <1>3, <1>5, <2>1, SetIs
  <2> HIDE DEF d, k
  <2>3. \A j \in 1 .. k : d[s[j]] = c[s[j]]
    BY <1>6, <1>7, <2>2
  <2>4. d[s[i]] = u /\ c[s[i]] = v
    BY <2>2 DEF n, v
  <2>5. \A j \in 1 .. i : j < i => d[s[j]] = c[s[j]]
    BY <1>8, <2>3
  <2>6. \A j \in 1 .. i : IsPrefix(d[s[j]], c[s[j]])
    <3> SUFFICES ASSUME NEW j \in 1 .. i PROVE IsPrefix(d[s[j]], c[s[j]])
      OBVIOUS
    <3>1. CASE j = i
      BY <2>1, <2>4, <3>1
    <3>2. CASE j # i
      <4>1. j \in 1 .. k /\ s[j] \in DOMAIN c /\ c[s[j]] \in Strings
        BY <1>1, <1>4, <1>7, <1>8, <3>2
      <4>2. IsPrefix(c[s[j]], c[s[j]])
        BY <4>1, PrefixIs
      <4> QED BY <2>3, <4>1, <4>2
    <3> QED BY <3>1, <3>2
  <2>7. DOMAIN d = {s[j] : j \in 1 .. i}
    BY <1>6, <1>8, <2>2 DEF n
  <2>8. i \in 0 .. l
    BY <1>1, <1>2
  <2>9. Beginning(d, c)
    BY <2>5, <2>6, <2>7, <2>8, BeginningOf
  <2> QED BY <1>9, <2>9 DEF d, u
<1>10. SUFFICES ASSUME NEW x \in Cuts(F, n, v) PROVE x \in Begun(c)
  OBVIOUS
<1> HIDE DEF F, n, v
<1>11. /\ x \in Readers
       /\ \/ x.in = "error" \/ x.cfg = F
          \/ \E p \in 0 .. Len(v) : x.cfg = Set(F, n, SubSeq(v, 1, p))
  BY DEF Cuts
<1>12. x.in = "error" \/ Beginning(x.cfg, c)
  BY <1>3, <1>9, <1>11
<1> QED BY <1>11, <1>12 DEF Begun

\* The lines of a text, one after the other.
LEMMA LinesLead ==
    ASSUME NEW c \in Stores, Holdable(c), NEW g, Pieces(g, Lines(c), Chars),
           NEW r \in Clean(EmptyCfg)
    PROVE  \A i \in 0 .. Size(c) :
               \E q \in Clean(FirstKeys(c, i)) : Leads(r, g[i], q, Begun(c))
<1> DEFINE l == Size(c)
           s == Names(c)
           F(i) == FirstKeys(c, i)
           P(i) == \E q \in Clean(F(i)) : Leads(r, g[i], q, Begun(c))
           S == {i \in Nat : i <= l => P(i)}
<1>1. /\ l \in Nat
      /\ \A k \in 1 .. l : s[k] \in DOMAIN c
  BY NamesAre
<1>2. /\ Len(Lines(c)) = l
      /\ \A i \in 1 .. l : Lines(c)[i] = Line(s[i], c[s[i]])
  BY TextIs
<1>3. g[0] = <<>> /\ \A i \in 1 .. l : g[i] = g[i - 1] \o Line(s[i], c[s[i]])
  BY <1>2 DEF Pieces
<1>4. /\ F(0) = EmptyCfg
      /\ \A i \in 0 .. l : F(i) \in Stores /\ Beginning(F(i), c)
      /\ \A i \in 1 .. l : F(i) = Set(F(i - 1), s[i], c[s[i]])
  BY FirstKeysAre
<1>5. \A i \in 1 .. l : Cuts(F(i - 1), s[i], c[s[i]]) \subseteq Begun(c)
  BY CutsBegin
<1>6. 0 \in S
  <2>1. PICK n \in Strings, v \in Strings : r = At("line", n, v, EmptyCfg)
    BY DEF Clean
  <2>2. r \in Readers
    BY <2>1, AtType, EmptyStore
  <2>3. Read(r, EOF) = At("end", <<>>, v, EmptyCfg)
    BY <2>1, FromLine
  <2>4. Read(r, EOF).cfg = F(0) /\ Beginning(F(0), c)
    <3>1. 0 \in 0 .. l
      BY <1>1
    <3>2. Read(r, EOF).cfg = EmptyCfg
      BY <2>3 DEF At
    <3> QED BY <1>4, <3>1, <3>2
  <2>5. Read(r, EOF) \in Begun(c)
    BY <2>2, <2>4, ReadEndType DEF Begun
  <2>6. Leads(r, <<>>, r, Begun(c))
    BY <2>2, <2>5, LeadsNowhere
  <2>7. P(0)
    BY <1>3, <1>4, <2>6
  <2> HIDE DEF P
  <2> QED BY <2>7
<1>7. ASSUME NEW i \in Nat, i \in S PROVE i + 1 \in S
  <2> SUFFICES ASSUME i + 1 <= l PROVE P(i + 1)
    OBVIOUS
  <2> DEFINE j == i + 1
             n == s[j]
             v == c[n]
  <2>1. j \in 1 .. l /\ j - 1 = i /\ i \in 0 .. l
    BY <1>1
  <2>2. P(i)
    BY <1>1, <1>7
  <2>3. PICK q \in Clean(F(i)) : Leads(r, g[i], q, Begun(c))
    BY <2>2
  <2>4. GoodName(n) /\ v \in Strings /\ Plain(v)
    BY <1>1, <2>1, HoldableIs
  <2>5. F(i) \in Stores /\ F(j) = Set(F(i), n, v) /\ Cuts(F(i), n, v) \subseteq Begun(c)
    BY <1>4, <1>5, <2>1
  <2>6. g[j] = g[i] \o Line(n, v)
    BY <1>3, <2>1
  <2> HIDE DEF n, v, j, F, P
  <2>7. PICK z \in Clean(Set(F(i), n, v)) : Leads(q, Line(n, v), z, Cuts(F(i), n, v))
    BY <2>4, <2>5, LineLeads
  <2>8. Leads(q, Line(n, v), z, Begun(c))
    BY <2>5, <2>7, LeadsWider
  <2>9. Leads(r, g[i] \o Line(n, v), z, Begun(c))
    BY <2>3, <2>8, LeadsConcat
  <2>10. P(j)
    BY <2>5, <2>6, <2>9 DEF P
  <2> QED BY <2>10 DEF j
<1> HIDE DEF P
<1>8. Nat \subseteq S
  <2> HIDE DEF S
  <2> QED BY <1>6, <1>7, NatInd
<1>9. \A i \in 0 .. l : P(i)
  BY <1>1, <1>8
<1> QED BY <1>9 DEF P, F, l

\* The text of a store.
LEMMA TextLead ==
    ASSUME NEW c \in Stores, Holdable(c)
    PROVE  \E q \in Clean(c) : Leads(Reader, Text(c), q, Begun(c))
<1> DEFINE O == Begun(c)
           a == At("comment", <<>>, <<>>, EmptyCfg)
           r == At("line", <<>>, <<>>, EmptyCfg)
<1>1. <<>> \in Strings /\ EmptyCfg \in Stores /\ Hash \in Chars /\ Newline \in Chars
  BY EmptyString, EmptyStore, CharsAre
<1>2. Reader = r /\ Read(r, Hash) = a /\ Read(a, Newline) = r
  <2>1. Reader = r
    BY DEF Reader, At
  <2>2. Read(r, Hash) = a
    BY FromLine
  <2>3. Read(a, Newline) = r
    BY FromComment
  <2> QED BY <2>1, <2>2, <2>3
<1>3. r \in Readers /\ a \in Readers /\ r \in Clean(EmptyCfg)
  BY <1>1, AtType DEF Clean
<1>4. Beginning(EmptyCfg, c)
  <2>1. 0 \in 0 .. Size(c)
    BY NamesAre
  <2> QED BY <2>1, FirstKeysAre
<1>5. Read(r, EOF) \in O /\ Read(a, EOF) \in O
  <2>1. Read(r, EOF) = At("end", <<>>, <<>>, EmptyCfg) /\ Read(a, EOF) = At("end", <<>>, <<>>, EmptyCfg)
    BY FromLine, FromComment
  <2>2. At("end", <<>>, <<>>, EmptyCfg) \in Readers
    BY <1>1, AtType
  <2>3. At("end", <<>>, <<>>, EmptyCfg).cfg = EmptyCfg
    BY DEF At
  <2> QED BY <1>4, <2>1, <2>2, <2>3 DEF Begun
<1> HIDE DEF O, a, r
<1>6. Leads(r, <<Hash>>, a, O) /\ Leads(a, <<Newline>>, r, O)
  BY <1>1, <1>2, <1>3, <1>5, LeadsByOne
<1>7. <<Hash>> \o <<Newline>> = Header
  BY <1>1, FewSigns DEF Header
<1>8. Leads(r, Header, r, O)
  <2>1. Leads(r, <<Hash>> \o <<Newline>>, r, O)
    BY <1>6, LeadsConcat
  <2> QED BY <1>7, <2>1
<1> DEFINE f == Lines(c)
<1>9. f \in Seq(Strings) /\ Len(f) = Size(c) /\ Text(c) = Header \o FlattenSeq(f) /\ Size(c) \in Nat
  BY TextIs, NamesAre
<1> HIDE DEF f
<1>10. PICK g : Pieces(g, f, Chars)
  BY <1>9, HasPieces DEF Strings
<1>11. FlattenSeq(f) = g[Size(c)]
  BY <1>9, <1>10, FlattenPieces DEF Strings
<1>12. \E q \in Clean(FirstKeys(c, Size(c))) : Leads(r, g[Size(c)], q, O)
  <2>1. Size(c) \in 0 .. Size(c)
    BY <1>9
  <2>2. Pieces(g, Lines(c), Chars)
    BY <1>10 DEF f
  <2> QED BY <1>3, <2>1, <2>2, LinesLead DEF O
<1>13. PICK q \in Clean(c) : Leads(r, FlattenSeq(f), q, O)
  BY <1>11, <1>12, FirstKeysAre
<1>14. Leads(r, Header \o FlattenSeq(f), q, O)
  BY <1>8, <1>13, LeadsConcat
<1> QED BY <1>2, <1>9, <1>13, <1>14 DEF O

\* cw_cfg_load reads to the end of the file.
LEMMA LoadIs ==
    ASSUME NEW s \in Strings
    PROVE  /\ Load(s) = [cfg |-> Read(ReadOn(Reader, s), EOF).cfg,
                         ok |-> Read(ReadOn(Reader, s), EOF).in # "error"]
           /\ Load(s).cfg = Read(ReadOn(Reader, s), EOF).cfg
           /\ Load(s).ok <=> Read(ReadOn(Reader, s), EOF).in # "error"
           /\ Load(s).cfg \in Stores /\ Load(s).ok \in BOOLEAN
<1>1. s \in Seq(Input) /\ EOF \in Input
  BY StringIsInput DEF Input
<1>2. ReadOn(Reader, Append(s, EOF)) = Read(ReadOn(Reader, s), EOF)
  BY <1>1, ReaderType, ReadOnAppend
<1>3. Read(ReadOn(Reader, s), EOF) \in Readers
  BY <1>1, ReaderType, ReadOnType, ReadEndType
<1> DEFINE x == Read(ReadOn(Reader, s), EOF)
<1>4. Load(s) = [cfg |-> x.cfg, ok |-> x.in # "error"]
  BY <1>2 DEF Load
<1>5. x.cfg \in Stores
  BY <1>3 DEF Readers
<1> HIDE DEF x
<1>6. Load(s).cfg = x.cfg /\ Load(s).ok = (x.in # "error")
  BY <1>4
<1>7. (Load(s).ok <=> x.in # "error") /\ Load(s).ok \in BOOLEAN
  BY <1>6
<1> QED BY <1>4, <1>5, <1>6, <1>7 DEF x

\* A store that is Holdable is read from its file as it was written: Text, the
\* loop of cw_cfg_write_to_file, and Load, that of cw_cfg_read_from_file, are
\* inverse, for any number of keys and any values.
THEOREM RoundTrip ==
    ASSUME NEW c \in Stores, Holdable(c)
    PROVE  Load(Text(c)) = [cfg |-> c, ok |-> TRUE]
<1>1. PICK q \in Clean(c) : Leads(Reader, Text(c), q, Begun(c))
  BY TextLead
<1>2. Text(c) \in Strings /\ ReadOn(Reader, Text(c)) = q
  BY <1>1 DEF Leads
<1>3. PICK n \in Strings, v \in Strings : q = At("line", n, v, c)
  BY DEF Clean
<1>4. Read(q, EOF) = At("end", <<>>, v, c)
  BY <1>3, FromLine
<1>5. Read(q, EOF).cfg = c /\ Read(q, EOF).in = "end"
  BY <1>4 DEF At
<1>6. "end" # "error"
  OBVIOUS
<1> QED BY <1>2, <1>5, <1>6, LoadIs

\* A file that ends early and is read without an error holds a beginning of the
\* store: its first keys, of which the last perhaps with the beginning of its
\* value.  The write of cw_cfg_save may stop after any character.
THEOREM CutTrip ==
    ASSUME NEW c \in Stores, Holdable(c), NEW p \in 0 .. Len(Text(c)),
           Load(SubSeq(Text(c), 1, p)).ok
    PROVE  Beginning(Load(SubSeq(Text(c), 1, p)).cfg, c)
<1> DEFINE u == SubSeq(Text(c), 1, p)
           x == Read(ReadOn(Reader, u), EOF)
<1>1. \E q : Leads(Reader, Text(c), q, Begun(c))
  BY TextLead
<1>2. Text(c) \in Strings /\ x \in Begun(c)
  BY <1>1 DEF Leads
<1>3. u \in Strings
  BY <1>2, SubSeqIs
<1> HIDE DEF u
<1>4. Load(u).cfg = x.cfg /\ (Load(u).ok <=> x.in # "error")
  BY <1>3, LoadIs
<1>5. Load(u).ok
  BY DEF u
<1> QED BY <1>2, <1>4, <1>5 DEF Begun, u

------------------------------------------------------------------------------
(* The octets of an element *)

\* The octets of an element, which are characters too.
LEMMA OctetsAre ==
    /\ Octets = {Newline, Blank, Quote, Dot, Colon, Backslash, "n", "x"}
    /\ Octets \subseteq Chars
    /\ Seq(Octets) \subseteq Strings
<1>1. Octets = {Newline, Blank, Quote, Dot, Colon, Backslash, "n", "x"}
  BY DEF Octets, Hex
<1>2. Octets \subseteq Chars
  BY <1>1, CharsAre
<1> QED BY <1>1, <1>2, SeqMonotonic DEF Strings

\* format_hex: the digits of each octet,
LEMMA HexIs ==
    /\ Hex[Newline] = <<"0", "A">> /\ Hex[Blank] = <<"2", "0">> /\ Hex[Quote] = <<"2", "2">>
    /\ Hex[Dot] = <<"2", "E">> /\ Hex[Colon] = <<"3", "A">> /\ Hex[Backslash] = <<"5", "C">>
    /\ Hex["n"] = <<"6", "E">> /\ Hex["x"] = <<"7", "8">>
BY DEF Hex, Newline, Blank, Quote, Dot, Colon, Backslash

\* which are two,
LEMMA HexPairs ==
    ASSUME NEW o \in Octets
    PROVE  Hex[o] \in Strings /\ Len(Hex[o]) = 2
<1>1. \A ch \in {"0", "2", "3", "5", "6", "7", "8", "A", "C", "E"} : ch \in Chars
  BY CharsAre, DigitsList DEF Signs
<1>2. \A a, b \in {"0", "2", "3", "5", "6", "7", "8", "A", "C", "E"} :
          <<a, b>> \in Strings /\ Len(<<a, b>>) = 2
  BY <1>1, FewSigns
<1> QED BY <1>2, HexIs, OctetsAre

\* and different ones for different octets.
LEMMA HexDiffers ==
    ASSUME NEW o \in Octets, NEW p \in Octets, Hex[o] = Hex[p]
    PROVE  o = p
BY HexIs, OctetsAre DEF Newline, Blank, Quote, Dot, Colon, Backslash

\* The digits of each octet.
HexList(o) == [i \in DOMAIN o |-> Hex[o[i]]]

\* The digits of octets, a list of pairs.
LEMMA HexListIs ==
    ASSUME NEW o \in Seq(Octets)
    PROVE  /\ HexList(o) \in Seq(Strings) /\ Len(HexList(o)) = Len(o)
           /\ \A i \in 1 .. Len(o) : HexList(o)[i] = Hex[o[i]] /\ o[i] \in Octets
<1> DEFINE n == Len(o)
<1>1. n \in Nat /\ DOMAIN o = 1 .. n /\ \A i \in 1 .. n : o[i] \in Octets
  BY LenProperties, ElementOfSeq
<1> HIDE DEF n
<1>2. HexList(o) \in [1 .. n -> Strings] /\ \A i \in 1 .. n : HexList(o)[i] = Hex[o[i]]
  BY <1>1, HexPairs DEF HexList
<1>3. HexList(o) \in Seq(Strings) /\ Len(HexList(o)) = n
  BY <1>1, <1>2
<1> QED BY <1>1, <1>2, <1>3 DEF n

\* The digits of octets: a pair for each.
LEMMA HexDigits ==
    ASSUME NEW o \in Seq(Octets)
    PROVE  /\ FlattenSeq(HexList(o)) \in Strings
           /\ Len(FlattenSeq(HexList(o))) = 2 * Len(o)
           /\ \A i \in 1 .. Len(o) :
                  /\ FlattenSeq(HexList(o))[2 * i - 1] = Hex[o[i]][1]
                  /\ FlattenSeq(HexList(o))[2 * i] = Hex[o[i]][2]
<1> DEFINE f == HexList(o)
           n == Len(o)
<1>1. /\ n \in Nat /\ f \in Seq(Strings) /\ Len(f) = n
      /\ \A i \in 1 .. n : f[i] = Hex[o[i]] /\ f[i] \in Strings /\ Len(f[i]) = 2
  BY HexListIs, HexPairs, LenProperties
<1> HIDE DEF f, n
<1>2. PICK g : Pieces(g, f, Chars)
  BY <1>1, HasPieces DEF Strings
<1>3. /\ g[0] = <<>> /\ \A i \in 1 .. n : g[i] = g[i - 1] \o f[i]
      /\ \A i \in 0 .. n : g[i] \in Strings
  BY <1>1, <1>2 DEF Pieces, Strings
<1> DEFINE P(k) == /\ Len(g[k]) = 2 * k
                   /\ \A i \in 1 .. k : g[k][2 * i - 1] = f[i][1] /\ g[k][2 * i] = f[i][2]
           S == {k \in Nat : k <= n => P(k)}
<1>4. 0 \in S
  BY <1>3, EmptyString
<1>5. ASSUME NEW k \in Nat, k \in S PROVE k + 1 \in S
  <2> SUFFICES ASSUME k + 1 <= n PROVE P(k + 1)
    OBVIOUS
  <2> DEFINE a == g[k]
             b == f[k + 1]
             d == a \o b
  <2>1. k + 1 \in 1 .. n /\ (k + 1) - 1 = k /\ k \in 0 .. n
    BY <1>1
  <2>2. P(k)
    BY <1>1, <1>5
  <2>3. /\ a \in Strings /\ Len(a) = 2 * k
        /\ \A i \in 1 .. k : a[2 * i - 1] = f[i][1] /\ a[2 * i] = f[i][2]
    BY <1>3, <2>1, <2>2
  <2>4. b \in Strings /\ Len(b) = 2
    BY <1>1, <2>1
  <2>5. g[k + 1] = d
    BY <1>3, <2>1
  <2> HIDE DEF a, b
  <2>6. d \in Strings /\ Len(d) = 2 * k + 2 /\ \A j \in 1 .. 2 * k + 2 : d[j] = IF j <= 2 * k THEN a[j] ELSE b[j - 2 * k]
    <3>1. /\ a \o b \in Strings /\ Len(a \o b) = Len(a) + Len(b)
          /\ \A j \in 1 .. Len(a) + Len(b) : (a \o b)[j] = IF j <= Len(a) THEN a[j] ELSE b[j - Len(a)]
      BY <2>3, <2>4, ConcatProperties DEF Strings
    <3>2. Len(a) = 2 * k /\ Len(b) = 2
      BY <2>3, <2>4
    <3> QED BY <3>1, <3>2
  <2> HIDE DEF d, P
  <2>7. ASSUME NEW i \in 1 .. k + 1
        PROVE  d[2 * i - 1] = f[i][1] /\ d[2 * i] = f[i][2]
    <3>1. CASE i \in 1 .. k
      <4>1. 2 * i - 1 \in 1 .. 2 * k + 2 /\ 2 * i \in 1 .. 2 * k + 2 /\ 2 * i - 1 <= 2 * k /\ 2 * i <= 2 * k
        BY <3>1
      <4> QED BY <2>3, <2>6, <3>1, <4>1
    <3>2. CASE i = k + 1
      <4>1. /\ 2 * i - 1 \in 1 .. 2 * k + 2 /\ 2 * i \in 1 .. 2 * k + 2
            /\ ~ (2 * i - 1 <= 2 * k) /\ ~ (2 * i <= 2 * k)
            /\ (2 * i - 1) - 2 * k = 1 /\ 2 * i - 2 * k = 2
        BY <3>2
      <4>2. d[2 * i - 1] = b[1] /\ d[2 * i] = b[2]
        BY <2>6, <4>1
      <4> QED BY <3>2, <4>2 DEF b
    <3> QED BY <3>1, <3>2
  <2>8. Len(d) = 2 * (k + 1)
    BY <2>6
  <2> QED BY <2>5, <2>7, <2>8 DEF P
<1>6. Nat \subseteq S
  <2> HIDE DEF S
  <2> QED BY <1>4, <1>5, NatInd
<1>7. P(n)
  BY <1>1, <1>6
<1>8. FlattenSeq(f) = g[n]
  BY <1>1, <1>2, FlattenPieces DEF Strings
<1>9. g[n] \in Strings
  BY <1>1, <1>3
<1>10. \A i \in 1 .. n : f[i] = Hex[o[i]]
  BY <1>1
<1> QED BY <1>7, <1>8, <1>9, <1>10 DEF f, n

\* The value that an element makes: its octets, or .x and their digits.
LEMMA StoredIs ==
    ASSUME NEW o \in Seq(Octets)
    PROVE  /\ Printable(o) => Stored(o) = o
           /\ ~ Printable(o) =>
                  /\ Stored(o) = <<Dot, "x">> \o FlattenSeq(HexList(o))
                  /\ Len(Stored(o)) = 2 + 2 * Len(o)
           /\ Stored(o) \in Strings
<1>1. Printable(o) => Stored(o) = o /\ Stored(o) \in Strings
  BY OctetsAre DEF Stored
<1>2. ASSUME ~ Printable(o)
      PROVE  /\ Stored(o) = <<Dot, "x">> \o FlattenSeq(HexList(o))
             /\ Len(Stored(o)) = 2 + 2 * Len(o) /\ Stored(o) \in Strings
  <2> DEFINE d == FlattenSeq(HexList(o))
             a == <<Dot, "x">>
  <2>1. Stored(o) = a \o d
    BY <1>2 DEF Stored, HexList
  <2>2. d \in Strings /\ Len(d) = 2 * Len(o)
    BY HexDigits
  <2>3. a \in Strings /\ Len(a) = 2
    BY CharsAre, FewSigns
  <2> HIDE DEF a, d
  <2>a. a \o d \in Strings /\ Len(a \o d) = Len(a) + Len(d)
    BY <2>2, <2>3, ConcatProperties DEF Strings
  <2>4. a \o d \in Strings /\ Len(a \o d) = 2 + 2 * Len(o)
    BY <2>2, <2>3, <2>a
  <2> QED BY <2>1, <2>4 DEF a, d
<1> QED BY <1>1, <1>2

\* The octets of a pair for each.
LEMMA FromHexIs ==
    ASSUME NEW o \in Seq(Octets)
    PROVE  FromHex(FlattenSeq(HexList(o))) = o
<1> DEFINE n == Len(o)
           d == FlattenSeq(HexList(o))
           OctetOf(pair) == IF \E p \in Octets : Hex[p] = pair
                            THEN CHOOSE p \in Octets : Hex[p] = pair ELSE "other"
           r == [i \in 1 .. n |-> OctetOf(SubSeq(d, 2 * i - 1, 2 * i))]
<1>1. n \in Nat /\ DOMAIN o = 1 .. n /\ \A i \in 1 .. n : o[i] \in Octets
  BY LenProperties, ElementOfSeq
<1>2. /\ d \in Strings /\ Len(d) = 2 * n
      /\ \A i \in 1 .. n : d[2 * i - 1] = Hex[o[i]][1] /\ d[2 * i] = Hex[o[i]][2]
  BY HexDigits
<1> HIDE DEF n, d
<1>3. Len(d) % 2 = 0 /\ Len(d) \div 2 = n
  BY <1>1, <1>2
<1>4. FromHex(d) = r
  BY <1>3 DEF FromHex
<1> HIDE DEF OctetOf
<1>5. ASSUME NEW i \in 1 .. n PROVE r[i] = o[i]
  <2> DEFINE u == SubSeq(d, 2 * i - 1, 2 * i)
             h == Hex[o[i]]
  <2>1. h \in Strings /\ Len(h) = 2 /\ o[i] \in Octets
    BY <1>1, HexPairs
  <2>2. u \in Strings /\ Len(u) = 2 /\ u[1] = d[2 * i - 1] /\ u[2] = d[2 * i]
    <3>1. 2 * i - 1 \in Int /\ 2 * i \in Int /\ 2 * i - 1 >= 1 /\ 2 * i <= Len(d) /\ 2 * i - 1 \in 1 .. Len(d) /\ 2 * i \in 1 .. Len(d)
      BY <1>1, <1>2
    <3> DEFINE a == 2 * i - 1
               b == 2 * i
    <3>2. a \in 1 .. Len(d) /\ b \in 1 .. Len(d) /\ b - a + 1 = 2 /\ b = a + 1
      BY <1>1, <3>1
    <3> HIDE DEF a, b
    <3>3. /\ SubSeq(d, a, b) \in Seq(Chars)
          /\ Len(SubSeq(d, a, b)) = IF a <= b THEN b - a + 1 ELSE 0
          /\ \A j \in 1 .. b - a + 1 : SubSeq(d, a, b)[j] = d[a + j - 1]
      BY <1>2, <3>2, SubSeqProperties DEF Strings
    <3>4. a <= b /\ 1 \in 1 .. b - a + 1 /\ 2 \in 1 .. b - a + 1 /\ a + 1 - 1 = a /\ a + 2 - 1 = b
      BY <3>2
    <3>5. SubSeq(d, a, b) \in Strings /\ Len(SubSeq(d, a, b)) = 2 /\ SubSeq(d, a, b)[1] = d[a] /\ SubSeq(d, a, b)[2] = d[b]
      BY <3>2, <3>3, <3>4 DEF Strings
    <3> QED BY <3>5 DEF a, b
  <2>3. d[2 * i - 1] = h[1] /\ d[2 * i] = h[2]
    BY <1>2
  <2> HIDE DEF u, h
  <2>4. u = h
    <3>1. \A j \in 1 .. 2 : u[j] = h[j]
      BY <2>2, <2>3
    <3> QED BY <2>1, <2>2, <3>1, SeqEqual DEF Strings
  <2>5. OctetOf(h) = o[i]
    <3>1. Hex[o[i]] = h
      BY DEF h
    <3>2. \A p \in Octets : Hex[p] = h => p = o[i]
      BY <2>1, <3>1, HexDiffers
    <3> QED BY <2>1, <3>1, <3>2 DEF OctetOf
  <2>6. r[i] = OctetOf(u)
    BY DEF u
  <2> HIDE DEF r
  <2> QED BY <2>4, <2>5, <2>6
<1>6. DOMAIN r = 1 .. n
  OBVIOUS
<1> HIDE DEF r
<1>7. r = o
  <2>1. r = [i \in 1 .. n |-> r[i]]
    BY DEF r
  <2>2. o = [i \in 1 .. n |-> o[i]]
    BY <1>1
  <2> HIDE DEF r
  <2> QED BY <1>5, <2>1, <2>2
<1> QED BY <1>4, <1>7 DEF d

------------------------------------------------------------------------------
(* What is sent of them *)

\* Two intervals from 1 that are the same end at the same number.
LEMMA SameInterval ==
    ASSUME NEW k \in Nat, NEW l \in Nat, 1 .. k = 1 .. l
    PROVE  k = l
<1>1. ASSUME k < l PROVE FALSE
  <2>1. l \in 1 .. l /\ l \notin 1 .. k
    BY <1>1
  <2> QED BY <2>1
<1>2. ASSUME l < k PROVE FALSE
  <2>1. k \in 1 .. k /\ k \notin 1 .. l
    BY <1>2
  <2> QED BY <2>1
<1> QED BY <1>1, <1>2

\* An octet is made of two digits, or of an odd one.
LEMMA FromHexLength ==
    ASSUME NEW d \in Strings
    PROVE  \E k \in Nat : 2 * k <= Len(d) + 1 /\ DOMAIN FromHex(d) = 1 .. k
<1> DEFINE padded == IF Len(d) % 2 = 0 THEN d ELSE <<"0">> \o d
           OctetOf(pair) == IF \E o \in Octets : Hex[o] = pair
                            THEN CHOOSE o \in Octets : Hex[o] = pair ELSE "other"
           r == [i \in 1 .. Len(padded) \div 2 |-> OctetOf(SubSeq(padded, 2 * i - 1, 2 * i))]
<1>1. FromHex(d) = r
  BY DEF FromHex
<1>2. Len(d) \in Nat
  BY LenProperties DEF Strings
<1>3. Len(padded) \in Nat /\ Len(padded) <= Len(d) + 1
  <2>1. "0" \in Chars
    BY CharsAre, DigitsList DEF Signs
  <2>2. Len(<<"0">> \o d) = 1 + Len(d)
    <3>1. <<"0">> \in Strings /\ Len(<<"0">>) = 1
      BY <2>1, FewSigns
    <3>2. Len(<<"0">> \o d) = Len(<<"0">>) + Len(d)
      BY <3>1, ConcatProperties DEF Strings
    <3> QED BY <3>1, <3>2
  <2> QED BY <1>2, <2>2
<1> HIDE DEF padded, OctetOf
<1> DEFINE k == Len(padded) \div 2
<1>4. k \in Nat /\ 2 * k <= Len(d) + 1
  BY <1>2, <1>3
<1>5. DOMAIN r = 1 .. k
  OBVIOUS
<1> HIDE DEF r, k
<1> QED BY <1>1, <1>4, <1>5

\* xput looks at the first two characters.
LEMMA SentCases ==
    ASSUME NEW v
    PROVE  /\ Len(v) <= 2 \/ v[1] # Dot => Sent(v) = v
           /\ ~ (Len(v) <= 2 \/ v[1] # Dot) =>
                  /\ v[2] = Dot => Sent(v) = Tail(v)
                  /\ v[2] = "x" => Sent(v) = FromHex(SubSeq(v, 3, Len(v)))
                  /\ v[2] \notin {Dot, "x"} => Sent(v) = v
<1>1. "x" # Dot
  BY DEF Dot
<1> QED BY <1>1 DEF Sent

\* The octets of an element are sent as they were received exactly if they are
\* Faithful: bread of CW_TYPE_BSTR16 keeps what cannot be printed in hexadecimal,
\* and xput takes any value that begins with .x for that.
THEOREM SentIs ==
    ASSUME NEW o \in Seq(Octets), Plain(Stored(o))
    PROVE  Faithful(o) <=> Sent(Stored(o)) = o
<1> DEFINE n == Len(o)
<1>1. n \in Nat /\ o \in Strings /\ DOMAIN o = 1 .. n
  BY LenProperties, OctetsAre
<1>2. CASE Printable(o)
  <2>1. Stored(o) = o /\ Plain(o)
    BY <1>2, StoredIs
  <2>2. Faithful(o) <=> (n > 2 /\ o[1] = Dot => o[2] \notin {Dot, "x"})
    BY <1>2, <2>1 DEF Faithful
  <2>3. CASE n <= 2 \/ o[1] # Dot
    <3>1. Sent(o) = o
      BY <2>3, SentCases
    <3>2. Faithful(o)
      BY <1>1, <2>2, <2>3
    <3> QED BY <2>1, <3>1, <3>2
  <2>4. CASE n > 2 /\ o[1] = Dot /\ o[2] = Dot
    <3>1. Sent(o) = Tail(o)
      BY <1>1, <2>4, SentCases
    <3>2. Len(Tail(o)) = n - 1
      BY <1>1, <2>4 DEF Strings
    <3>3. Tail(o) # o
      <4> SUFFICES ASSUME Tail(o) = o PROVE FALSE
        OBVIOUS
      <4>1. n = n - 1
        BY <3>2
      <4> HIDE DEF n
      <4> QED BY <1>1, <4>1
    <3> QED BY <2>1, <2>2, <2>4, <3>1, <3>3
  <2>5. CASE n > 2 /\ o[1] = Dot /\ o[2] = "x"
    <3> DEFINE d == SubSeq(o, 3, n)
    <3>1. Sent(o) = FromHex(d)
      BY <1>1, <2>5, SentCases
    <3>2. d \in Strings /\ Len(d) = n - 2
      <4> HIDE DEF n
      <4>1. \A i \in 3 .. n : o[i] \in Chars
        BY <1>1, ElementOfSeq DEF Strings, n
      <4>2. d \in Seq(Chars) /\ Len(d) = IF 3 <= n THEN n - 3 + 1 ELSE 0
        BY <1>1, <4>1, SubSeqProperties
      <4> QED BY <1>1, <2>5, <4>2 DEF Strings
    <3> HIDE DEF d
    <3>3. PICK k \in Nat : 2 * k <= Len(d) + 1 /\ DOMAIN FromHex(d) = 1 .. k
      BY <3>2, FromHexLength
    <3>4. FromHex(d) # o
      <4> SUFFICES ASSUME FromHex(d) = o PROVE FALSE
        OBVIOUS
      <4>1. k = n
        BY <1>1, <3>3, SameInterval
      <4> QED BY <1>1, <2>5, <3>2, <3>3, <4>1
    <3> QED BY <2>1, <2>2, <2>5, <3>1, <3>4
  <2>6. CASE n > 2 /\ o[1] = Dot /\ o[2] \notin {Dot, "x"}
    <3>1. Sent(o) = o
      BY <1>1, <2>6, SentCases
    <3> QED BY <2>1, <2>2, <2>6, <3>1
  <2> QED BY <1>1, <2>3, <2>4, <2>5, <2>6
<1>3. CASE ~ Printable(o)
  <2> DEFINE d == FlattenSeq(HexList(o))
             a == <<Dot, "x">>
             s == a \o d
  <2>1. Stored(o) = s /\ Len(s) = 2 + 2 * n /\ s \in Strings
    BY <1>3, StoredIs
  <2>2. 2 + 2 * n <= MaxValue
    <3>1. Len(s) <= MaxValue
      BY <2>1 DEF Plain
    <3> QED BY <2>1, <3>1
  <2>3. Faithful(o)
    BY <1>3, <2>2 DEF Faithful
  <2>4. n # 0
    <3>1. \E i \in 1 .. n : o[i] = Newline
      BY <1>1, <1>3 DEF Printable, Range
    <3> QED BY <1>1, <3>1
  <2>5. d \in Strings /\ Len(d) = 2 * n /\ FromHex(d) = o
    BY HexDigits, FromHexIs
  <2>6. a \in Strings /\ Len(a) = 2 /\ a[1] = Dot /\ a[2] = "x" /\ "x" # Dot
    BY CharsAre, FewSigns DEF Dot
  <2> HIDE DEF a, d
  <2>7. \A i \in 1 .. Len(a) + Len(d) : s[i] = IF i <= Len(a) THEN a[i] ELSE d[i - Len(a)]
    BY <2>5, <2>6, ConcatProperties DEF Strings
  <2>8. s[1] = Dot /\ s[2] = "x"
    <3> HIDE DEF n, s
    <3>1. 1 \in 1 .. Len(a) + Len(d) /\ 2 \in 1 .. Len(a) + Len(d) /\ 1 <= Len(a) /\ 2 <= Len(a)
      BY <1>1, <2>5, <2>6
    <3>2. s[1] = a[1] /\ s[2] = a[2]
      BY <2>7, <3>1
    <3> QED BY <2>6, <3>2
  <2>9. SubSeq(s, 3, Len(s)) = d
    <3> DEFINE u == SubSeq(s, 3, Len(s))
               l == 2 + 2 * n
    <3> HIDE DEF s
    <3>1. \A i \in 3 .. Len(s) : s[i] \in Chars
      BY <1>1, <2>1, ElementOfSeq DEF Strings
    <3>2. Len(s) \in Nat /\ 3 <= Len(s)
      BY <1>1, <2>1, <2>4
    <3>3. /\ u \in Strings
          /\ Len(u) = Len(s) - 3 + 1
          /\ \A i \in 1 .. Len(s) - 3 + 1 : u[i] = s[3 + i - 1]
      BY <3>1, <3>2, SubSeqProperties DEF Strings
    <3>4. Len(u) = 2 * n
      BY <1>1, <2>1, <3>3
    <3>5. ASSUME NEW i \in 1 .. 2 * n PROVE u[i] = d[i]
      <4>1. i \in 1 .. Len(s) - 3 + 1 /\ 3 + i - 1 = i + 2 /\ i + 2 \in 1 .. 2 + 2 * n
        BY <1>1, <2>1
      <4>2. u[i] = s[i + 2]
        BY <3>3, <4>1
      <4>3. s[i + 2] = d[i]
        <5>1. i + 2 \in 1 .. Len(a) + Len(d) /\ ~ (i + 2 <= Len(a)) /\ (i + 2) - Len(a) = i
          BY <1>1, <2>5, <2>6, <4>1
        <5> QED BY <2>7, <5>1
      <4> QED BY <4>2, <4>3
    <3> HIDE DEF u
    <3>6. u = d
      BY <2>5, <3>3, <3>4, <3>5, SeqEqual DEF Strings
    <3> QED BY <3>6 DEF u
  <2>10. Sent(s) = o
    <3> HIDE DEF s
    <3>1. ~ (Len(s) <= 2 \/ s[1] # Dot) /\ s[2] # Dot /\ s[2] = "x"
      BY <1>1, <2>1, <2>4, <2>6, <2>8
    <3>2. Sent(s) = FromHex(SubSeq(s, 3, Len(s)))
      BY <3>1, SentCases
    <3> QED BY <2>5, <2>9, <3>2
  <2> QED BY <2>1, <2>3, <2>10
<1> QED BY <1>2, <1>3

------------------------------------------------------------------------------
(* Numbers of the model *)

\* A digit is a number.
LEMMA DigitIs ==
    ASSUME NEW c \in Range(Digits)
    PROVE  (CHOOSE i \in DOMAIN Digits : Digits[i] = c) - 1 \in Nat
<1>1. DOMAIN Digits = 1 .. 10
  BY DigitsList, LenProperties
<1>2. \E i \in DOMAIN Digits : Digits[i] = c
  BY DEF Range
<1> DEFINE k == CHOOSE i \in DOMAIN Digits : Digits[i] = c
<1>3. k \in DOMAIN Digits
  BY <1>2
<1> HIDE DEF k
<1>4. k - 1 \in Nat
  BY <1>1, <1>3
<1> QED BY <1>4 DEF k

\* atoi gives a number, whatever the value.
LEMMA AtoiIs ==
    ASSUME NEW v \in Strings
    PROVE  Atoi(v) \in Nat
<1> DEFINE n == Len(v)
           S == Nat \X BOOLEAN
           Digit(c) == (CHOOSE i \in DOMAIN Digits : Digits[i] = c) - 1
           Next1(i, x) == IF x[2] /\ v[i] \in Range(Digits)
                          THEN <<10 * x[1] + Digit(v[i]), TRUE>> ELSE <<x[1], FALSE>>
           f == [y \in (1 .. n) \X S |-> Next1(y[1], y[2])]
           Body(h) == [i \in 0 .. n |->
                          IF i = 0 THEN <<0, TRUE>>
                          ELSE IF h[i - 1][2] /\ v[i] \in Range(Digits)
                               THEN <<10 * h[i - 1][1] + Digit(v[i]), TRUE>>
                               ELSE <<h[i - 1][1], FALSE>>]
           after == CHOOSE h : h = Body(h)
<1>1. n \in Nat
  BY LenProperties DEF Strings
<1>2. Atoi(v) = after[n][1]
  BY DEF Atoi
<1>3. \A c \in Range(Digits) : Digit(c) \in Nat
  BY DigitIs
<1> HIDE DEF n, Digit
<1>4. ASSUME NEW i \in 1 .. n, NEW x \in S PROVE Next1(i, x) \in S
  <2>1. x[1] \in Nat /\ x[2] \in BOOLEAN
    OBVIOUS
  <2>2. CASE x[2] /\ v[i] \in Range(Digits)
    <3>1. 10 * x[1] + Digit(v[i]) \in Nat
      BY <1>3, <2>1, <2>2
    <3> QED BY <2>2, <3>1
  <2>3. CASE ~ (x[2] /\ v[i] \in Range(Digits))
    BY <2>1, <2>3
  <2> QED BY <2>2, <2>3
<1> HIDE DEF Next1
<1>5. Steps(f, n, S)
  BY <1>4 DEF Steps
<1>6. <<0, TRUE>> \in S
  OBVIOUS
<1>7. PICK g : Run(g, f, <<0, TRUE>>, n, S)
  <2> HIDE DEF f, S
  <2> QED BY <1>1, <1>5, <1>6, Recursion
<1>8. /\ g \in [0 .. n -> S] /\ g[0] = <<0, TRUE>>
      /\ \A i \in 1 .. n : g[i] = Next1(i, g[i - 1])
  <2>1. /\ g \in [0 .. n -> S] /\ g[0] = <<0, TRUE>>
        /\ \A i \in 1 .. n : g[i] = f[<<i, g[i - 1]>>]
    BY <1>7 DEF Run
  <2>2. ASSUME NEW i \in 1 .. n PROVE g[i] = Next1(i, g[i - 1])
    <3>1. i - 1 \in 0 .. n
      BY <1>1
    <3> DEFINE x == g[i - 1]
    <3>2. x \in S
      BY <2>1, <3>1
    <3>3. g[i] = f[<<i, x>>]
      BY <2>1
    <3> HIDE DEF x, S
    <3>4. f[<<i, x>>] = Next1(i, x)
      BY <3>2
    <3> QED BY <3>3, <3>4 DEF x
  <2> QED BY <2>1, <2>2
<1> HIDE DEF f
<1>9. g = Body(g)
  <2>1. \A i \in 1 .. n : i # 0
    BY <1>1
  <2>2. 0 .. n = {0} \cup (1 .. n)
    BY <1>1
  <2>3. g = [i \in 0 .. n |-> g[i]]
    BY <1>8
  <2>4. \A i \in 0 .. n : g[i] = IF i = 0 THEN <<0, TRUE>>
                                  ELSE IF g[i - 1][2] /\ v[i] \in Range(Digits)
                                       THEN <<10 * g[i - 1][1] + Digit(v[i]), TRUE>>
                                       ELSE <<g[i - 1][1], FALSE>>
    BY <1>8, <2>1, <2>2 DEF Next1
  <2> QED BY <2>3, <2>4
<1>10. after = Body(after)
  <2> HIDE DEF Body
  <2> QED BY <1>9
<1> HIDE DEF after
<1>11. \A i \in 0 .. n : after[i] = IF i = 0 THEN <<0, TRUE>>
                                  ELSE IF after[i - 1][2] /\ v[i] \in Range(Digits)
                                       THEN <<10 * after[i - 1][1] + Digit(v[i]), TRUE>>
                                       ELSE <<after[i - 1][1], FALSE>>
  BY <1>10
<1> DEFINE Done == {i \in Nat : i <= n => after[i] \in S}
<1>12. 0 \in Done
  <2>1. 0 \in 0 .. n
    BY <1>1
  <2>2. after[0] = <<0, TRUE>>
    BY <1>11, <2>1
  <2> HIDE DEF S
  <2> QED BY <1>6, <2>2
<1>13. ASSUME NEW i \in Nat, i \in Done PROVE i + 1 \in Done
  <2> SUFFICES ASSUME i + 1 <= n PROVE after[i + 1] \in S
    OBVIOUS
  <2> DEFINE x == after[i]
  <2>1. i + 1 \in 0 .. n /\ i + 1 \in 1 .. n /\ i + 1 # 0 /\ (i + 1) - 1 = i
    BY <1>1
  <2>2. x \in S
    BY <1>1, <1>13
  <2>3. after[i + 1] = Next1(i + 1, x)
    BY <1>11, <2>1 DEF Next1
  <2> HIDE DEF x, S
  <2> QED BY <1>4, <2>1, <2>2, <2>3
<1>14. after[n] \in S
  <2> HIDE DEF Done
  <2>1. Nat \subseteq Done
    BY <1>12, <1>13, NatInd
  <2> QED BY <1>1, <2>1 DEF Done
<1> QED BY <1>2, <1>14

\* cw_cfg_get_byte gives eight bits.
LEMMA GetByteIs ==
    ASSUME NEW c \in Stores, NEW n, NEW default \in 0 .. 255
    PROVE  GetByte(c, n, default) \in 0 .. 255
<1>1. CASE n \in DOMAIN c
  <2>1. c[n] \in Strings
    BY <1>1, StoreIs
  <2>2. Atoi(c[n]) \in Nat
    BY <2>1, AtoiIs
  <2>3. AtoiByte(c[n]) \in 0 .. 255
    BY <2>2 DEF AtoiByte
  <2> QED BY <1>1, <2>3 DEF GetByte
<1>2. CASE n \notin DOMAIN c
  BY <1>2 DEF GetByte
<1> QED BY <1>1, <1>2

(* The candidates *)

\* What a controller offers are numbers.
LEMMA LoadsAre == Loads \subseteq Nat
<1>1. Loads \subseteq 0 .. NoLoad
  BY Zenon, WtpStartAssumption
<1>2. 0 .. NoLoad \subseteq Nat
  BY DEF NoLoad
<1> QED BY <1>1, <1>2

\* The first of the tree.
LEMMA CandidateIs ==
    ASSUME left \subseteq CandidateType, left # {},
           \A e, f \in left : e.ctr = f.ctr => e = f
    PROVE  Candidate \in left
<1> DEFINE P == {e.prio : e \in left}
<1>1. \A e \in left : e.prio \in Nat /\ e.wtps \in Nat /\ e.ctr \in Nat
  <2> HIDE DEF P
  <2> SUFFICES ASSUME NEW e \in left PROVE e.prio \in Nat /\ e.wtps \in Nat /\ e.ctr \in Nat
    OBVIOUS
  <2>1. e.prio \in 0 .. 255 /\ e.wtps \in Loads /\ e.ctr \in Nat
    BY DEF CandidateType
  <2>2. e.prio \in Nat
    BY <2>1
  <2> QED BY <2>1, <2>2, LoadsAre
<1>2. PICK e1 \in left : TRUE
  OBVIOUS
<1>3. PICK p \in Nat \cap P : \A k \in Nat \cap P : p <= k
  <2>1. e1.prio \in Nat /\ e1.prio \in P
    BY <1>1
  <2> HIDE DEF P
  <2> QED BY <2>1, NatMin
<1> DEFINE W == {e.wtps : e \in {d \in left : d.prio = p}}
<1>4. PICK w \in Nat \cap W : \A k \in Nat \cap W : w <= k
  <2>1. PICK e2 \in left : e2.prio = p
    BY <1>3
  <2>2. e2.wtps \in Nat /\ e2.wtps \in W
    BY <1>1, <2>1
  <2> HIDE DEF W
  <2> QED BY <2>2, NatMin
<1> DEFINE C == {e.ctr : e \in {d \in left : d.prio = p /\ d.wtps = w}}
<1>5. PICK c \in Nat \cap C : \A k \in Nat \cap C : c <= k
  <2>1. PICK e3 \in left : e3.prio = p /\ e3.wtps = w
    BY <1>4
  <2>2. e3.ctr \in Nat /\ e3.ctr \in C
    BY <1>1, <2>1
  <2> HIDE DEF C
  <2> QED BY <2>2, NatMin
<1>6. PICK e \in left : e.prio = p /\ e.wtps = w /\ e.ctr = c
  BY <1>5
<1>7. ASSUME NEW f \in left \ {e} PROVE Before(e, f)
  <2>1. f.ctr # c
    BY <1>6
  <2>2. f.prio \in Nat /\ f.wtps \in Nat /\ f.ctr \in Nat /\ p \in Nat /\ w \in Nat /\ c \in Nat
    BY <1>1, <1>3, <1>4, <1>5
  <2>3. p <= f.prio
    BY <1>3, <2>2
  <2>4. f.prio = p => w <= f.wtps
    BY <1>4, <2>2
  <2>5. f.prio = p /\ f.wtps = w => c <= f.ctr
    BY <1>5, <2>2
  <2> QED BY <1>6, <2>1, <2>2, <2>3, <2>4, <2>5 DEF Before
<1> QED BY <1>6, <1>7 DEF Candidate

(* The settings of a message *)

\* What a message needs of the memory is a number.
LEMMA CostIs ==
    ASSUME NEW m \in Messages
    PROVE  Cost(m) \in Nat
<1> DEFINE D == DOMAIN m
           A(n) == {n} \X (0 .. Len(m[n]))
           T == {A(n) : n \in D}
           f == [n \in D |-> A(n)]
<1>1. IsFiniteSet(D) /\ \A n \in D : m[n] \in Seq(Octets)
  BY WtpStartAssumption
<1>2. \A n \in D : IsFiniteSet(A(n))
  <2> SUFFICES ASSUME NEW n \in D PROVE IsFiniteSet({n} \X (0 .. Len(m[n])))
    OBVIOUS
  <2> DEFINE b == 0 .. Len(m[n])
             a == {n}
  <2>1. Len(m[n]) \in Int
    BY <1>1, LenProperties
  <2>2. IsFiniteSet(b)
    BY <2>1, FS_Interval
  <2>3. IsFiniteSet(a)
    BY FS_Singleton
  <2> HIDE DEF a, b
  <2>4. IsFiniteSet(a \X b)
    BY <2>2, <2>3, FS_Product
  <2> QED BY <2>4 DEF a, b
<1> HIDE DEF A, D
<1>3. IsFiniteSet(T)
  <2>1. f \in Surjection(D, T)
    BY DEF Surjection
  <2> HIDE DEF f, T
  <2> QED BY <1>1, <2>1, FS_Surjection
<1>4. \A t \in T : IsFiniteSet(t)
  BY <1>2
<1>5. IsFiniteSet(UNION T)
  <2> HIDE DEF T
  <2> QED BY <1>3, <1>4, FS_UNION
<1>6. Cardinality(UNION T) \in Nat
  BY <1>5, FS_CardinalityType
<1> QED BY <1>6 DEF Cost, A, D

------------------------------------------------------------------------------
(* The settings of the WTP *)

\* Settings that were made, in octets.
Settings(t) == t \in Stores /\ \A n \in DOMAIN t : t[n] \in Seq(Octets)

\* A store that holds them.
Holds(c, t) == \A n \in DOMAIN t : n \in DOMAIN c /\ c[n] = Stored(t[n])

\* The file is the one the WTP is delivered with, or a beginning of the text
\* of the store that was saved last.
FileOK ==
    \/ file = Factory /\ whole = FALSE /\ saved.cfg = Load(Factory).cfg
    \/ \E n \in 0 .. Len(Text(saved.cfg)) :
           file = SubSeq(Text(saved.cfg), 1, n) /\ whole = (n = Len(Text(saved.cfg)))

\* A program that searches has what is read of it.
ReadOK ==
    /\ main \in Searching => cfg = Load(file).cfg /\ Load(file).ok
    /\ main = "refused" => ~ Load(file).ok

\* The inductive invariant of the settings.
StoreInv ==
    /\ cfg \in Stores /\ Settings(told) /\ Holds(cfg, told)
    /\ saved.cfg \in Stores /\ Settings(saved.told) /\ Holds(saved.cfg, saved.told)
    /\ FileOK /\ ReadOK

\* At first nothing was told, and any store holds that.
LEMMA NothingTold ==
    /\ EmptyCfg \in Stores /\ Settings(EmptyCfg) /\ \A c : Holds(c, EmptyCfg)
BY EmptyStore DEF Settings, Holds

\* The name the WTP has without a file is a text.
LEMMA FactoryIs == Factory \in Strings
BY Zenon, WtpStartAssumption DEF Strings

\* A message sets finitely many names to octets.
LEMMA MessagesAre ==
    ASSUME NEW m \in Messages
    PROVE  /\ IsFiniteSet(DOMAIN m) /\ DOMAIN m \subseteq Strings
           /\ \A n \in DOMAIN m : m[n] \in Seq(Octets)
BY Zenon, WtpStartAssumption DEF Strings

\* What a message adds to a store leaves a store.
LEMMA CopyType ==
    ASSUME NEW src, NEW dst \in Stores, IsFiniteSet(DOMAIN src), DOMAIN src \subseteq Strings,
           \A n \in DOMAIN src : src[n] \in Strings
    PROVE  Copy(src, dst) \in Stores
<1> DEFINE c == Copy(src, dst)
<1>1. /\ DOMAIN c = DOMAIN src \cup DOMAIN dst /\ IsMap(c)
      /\ \A n \in DOMAIN src : c[n] = src[n]
      /\ \A n \in DOMAIN dst \ DOMAIN src : c[n] = dst[n]
  BY CopyIs
<1>2. DOMAIN dst \subseteq Strings /\ IsFiniteSet(DOMAIN dst) /\ \A n \in DOMAIN dst : dst[n] \in Strings
  BY StoreIs
<1> HIDE DEF c
<1>3. IsFiniteSet(DOMAIN c)
  BY <1>1, <1>2, FS_Union
<1>4. DOMAIN c \subseteq Strings /\ \A n \in DOMAIN c : c[n] \in Strings
  BY <1>1, <1>2
<1>5. c \in Stores
  BY <1>1, <1>3, <1>4, IsStore
<1> QED BY <1>5 DEF c

\* A message makes its settings, and the store holds those made so far.
LEMMA TellHolds ==
    ASSUME NEW m \in Messages, NEW c \in Stores, NEW t, Settings(t), Holds(c, t)
    PROVE  /\ Copy([n \in DOMAIN m |-> Stored(m[n])], c) \in Stores
           /\ Settings(Copy(m, t))
           /\ Holds(Copy([n \in DOMAIN m |-> Stored(m[n])], c), Copy(m, t))
<1> DEFINE s == [n \in DOMAIN m |-> Stored(m[n])]
           d == Copy(s, c)
           u == Copy(m, t)
<1>1. /\ IsFiniteSet(DOMAIN m) /\ DOMAIN m \subseteq Strings
      /\ \A n \in DOMAIN m : m[n] \in Seq(Octets) /\ m[n] \in Strings /\ Stored(m[n]) \in Strings
  BY MessagesAre, OctetsAre, StoredIs
<1>2. DOMAIN s = DOMAIN m /\ \A n \in DOMAIN m : s[n] = Stored(m[n])
  OBVIOUS
<1>3. t \in Stores /\ \A n \in DOMAIN t : t[n] \in Seq(Octets)
  BY DEF Settings
<1> HIDE DEF s
<1>4. d \in Stores
  BY <1>1, <1>2, CopyType
<1>5. u \in Stores
  BY <1>1, <1>3, CopyType
<1>6. /\ DOMAIN d = DOMAIN m \cup DOMAIN c
      /\ \A n \in DOMAIN m : d[n] = Stored(m[n])
      /\ \A n \in DOMAIN c \ DOMAIN m : d[n] = c[n]
  <2>1. /\ DOMAIN d = DOMAIN s \cup DOMAIN c
        /\ \A n \in DOMAIN s : d[n] = s[n]
        /\ \A n \in DOMAIN c \ DOMAIN s : d[n] = c[n]
    BY CopyIs
  <2> HIDE DEF d
  <2> QED BY <1>2, <2>1
<1>7. /\ DOMAIN u = DOMAIN m \cup DOMAIN t
      /\ \A n \in DOMAIN m : u[n] = m[n]
      /\ \A n \in DOMAIN t \ DOMAIN m : u[n] = t[n]
  BY CopyIs
<1> HIDE DEF d, u
<1>8. Settings(u)
  BY <1>1, <1>3, <1>5, <1>7 DEF Settings
<1>9. Holds(d, u)
  <2> SUFFICES ASSUME NEW n \in DOMAIN u PROVE n \in DOMAIN d /\ d[n] = Stored(u[n])
    BY DEF Holds
  <2>1. CASE n \in DOMAIN m
    BY <1>6, <1>7, <2>1
  <2>2. CASE n \notin DOMAIN m
    <3>1. n \in DOMAIN t /\ u[n] = t[n]
      BY <1>7, <2>2
    <3>2. n \in DOMAIN c /\ c[n] = Stored(t[n])
      BY <3>1 DEF Holds
    <3> QED BY <1>6, <2>2, <3>1, <3>2
  <2> QED BY <2>1, <2>2
<1> QED BY <1>4, <1>8, <1>9 DEF d, u, s

\* What is read of a file that was written to its end.
LEMMA WholeFile ==
    ASSUME FileOK, whole, saved.cfg \in Stores, Holdable(saved.cfg)
    PROVE  Load(file).cfg = saved.cfg /\ Load(file).ok
<1>1. PICK n \in 0 .. Len(Text(saved.cfg)) :
          file = SubSeq(Text(saved.cfg), 1, n) /\ whole = (n = Len(Text(saved.cfg)))
  BY DEF FileOK
<1>2. n = Len(Text(saved.cfg))
  BY <1>1
<1>3. file = Text(saved.cfg)
  BY <1>1, <1>2, TextType, SubSeqNext
<1>4. Load(file) = [cfg |-> saved.cfg, ok |-> TRUE]
  BY <1>3, RoundTrip
<1> QED BY <1>4

\* The file is a text.
LEMMA FileType ==
    ASSUME FileOK, saved.cfg \in Stores
    PROVE  file \in Strings /\ whole \in BOOLEAN
<1>1. CASE file = Factory /\ whole = FALSE
  <2>1. file \in Strings
    BY <1>1, FactoryIs
  <2> QED BY <1>1, <2>1
<1>2. ASSUME NEW n \in 0 .. Len(Text(saved.cfg)),
             file = SubSeq(Text(saved.cfg), 1, n), whole = (n = Len(Text(saved.cfg)))
      PROVE  file \in Strings /\ whole \in BOOLEAN
  BY <1>2, TextType, SubSeqIs
<1> QED BY <1>1, <1>2 DEF FileOK

\* At first the file is the one that comes with the program.
LEMMA InitStoreInv == Init => StoreInv
<1> SUFFICES ASSUME Init PROVE StoreInv
  OBVIOUS
<1>1. main = "off" /\ cfg = EmptyCfg /\ told = EmptyCfg /\ file = Factory /\ whole = FALSE
      /\ saved = [cfg |-> Load(Factory).cfg, told |-> EmptyCfg]
  BY DEF Init
<1>2. saved.cfg = Load(Factory).cfg /\ saved.told = EmptyCfg
  BY <1>1
<1>3. Load(Factory).cfg \in Stores
  BY FactoryIs, LoadIs
<1>4. FileOK
  BY <1>1, <1>2 DEF FileOK
<1>5. ReadOK
  BY <1>1 DEF ReadOK, Searching
<1> QED BY <1>1, <1>2, <1>3, <1>4, <1>5, NothingTold DEF StoreInv

\* The file and the store saved are as they were.
LEMMA FileKept ==
    ASSUME StoreInv, UNCHANGED <<file, saved, whole>>
    PROVE  /\ saved.cfg' \in Stores /\ Settings(saved.told)' /\ Holds(saved.cfg, saved.told)'
           /\ FileOK'
BY DEF StoreInv, FileOK, Settings, Holds

\* A program that is gone leaves its file.
LEMMA GoneStoreInv ==
    ASSUME StoreInv, Gone, UNCHANGED <<file, saved, whole>>
    PROVE  StoreInv'
<1>1. main' = "off" /\ cfg' = EmptyCfg /\ told' = EmptyCfg
  BY DEF Gone
<1>2. ReadOK'
  BY <1>1 DEF ReadOK, Searching
<1> QED BY <1>1, <1>2, FileKept, NothingTold DEF StoreInv

\* setup_cfg takes what the file has, all of it or none.
LEMMA StartStoreInv == StoreInv /\ Start => StoreInv'
<1> SUFFICES ASSUME StoreInv, Start PROVE StoreInv'
  OBVIOUS
<1>1. /\ cfg' = Load(file).cfg
      /\ main' = IF Load(file).ok THEN "discovery" ELSE "refused"
      /\ told' = IF whole /\ Holdable(saved.cfg) THEN saved.told ELSE EmptyCfg
      /\ UNCHANGED <<file, saved, whole>>
  BY DEF Start
<1>2. saved.cfg \in Stores /\ FileOK /\ Settings(saved.told) /\ Holds(saved.cfg, saved.told)
  BY DEF StoreInv
<1>3. file \in Strings
  BY <1>2, FileType
<1>4. cfg' \in Stores
  BY <1>1, <1>3, LoadIs
<1>5. Settings(told') /\ Holds(cfg', told')
  <2>1. CASE whole /\ Holdable(saved.cfg)
    <3>1. told' = saved.told /\ cfg' = saved.cfg
      BY <1>1, <1>2, <2>1, WholeFile
    <3> QED BY <1>2, <3>1
  <2>2. CASE ~ (whole /\ Holdable(saved.cfg))
    BY <1>1, <2>2, NothingTold
  <2> QED BY <2>1, <2>2
<1>6. Settings(told)' /\ Holds(cfg, told)'
  BY <1>5 DEF Settings, Holds
<1>7. ReadOK'
  <2>1. Load(file)' = Load(file)
    BY <1>1
  <2> QED BY <1>1, <2>1 DEF ReadOK, Searching
<1> QED BY <1>1, <1>4, <1>6, <1>7, FileKept DEF StoreInv

\* cw_in_check_generic: an element goes into the store.
LEMMA TellStoreInv ==
    ASSUME StoreInv, NEW m \in Messages, Configured(m) \/ Updated(m)
    PROVE  StoreInv'
<1>1. /\ main' \in {"save in configure", "save in run"}
      /\ cfg' = Copy([n \in DOMAIN m |-> Stored(m[n])], cfg)
      /\ told' = Copy(m, told)
      /\ UNCHANGED <<file, saved, whole>>
  BY DEF Configured, Updated, Tell
<1>2. cfg' \in Stores /\ Settings(told') /\ Holds(cfg', told')
  BY <1>1, TellHolds DEF StoreInv
<1>3. Settings(told)' /\ Holds(cfg, told)'
  BY <1>2 DEF Settings, Holds
<1>4. ReadOK'
  BY <1>1 DEF ReadOK, Searching
<1> QED BY <1>1, <1>2, <1>3, <1>4, FileKept DEF StoreInv

\* The file is written, to its end or not.
LEMMA WriteStoreInv ==
    ASSUME StoreInv, NEW n \in 0 .. Len(Text(cfg)), WriteFile(n)
    PROVE  /\ saved.cfg' \in Stores /\ Settings(saved.told)' /\ Holds(saved.cfg, saved.told)'
           /\ FileOK'
<1>1. /\ file' = SubSeq(Text(cfg), 1, n)
      /\ saved' = [cfg |-> cfg, told |-> told]
      /\ whole' = (n = Len(Text(cfg)))
  BY DEF WriteFile, Written
<1>2. saved'.cfg = cfg /\ saved'.told = told
  BY <1>1
<1>3. cfg \in Stores /\ Settings(told) /\ Holds(cfg, told)
  BY DEF StoreInv
<1>4. saved.cfg' \in Stores
  BY <1>2, <1>3
<1>5. Settings(saved.told)' /\ Holds(saved.cfg, saved.told)'
  BY <1>2, <1>3 DEF Settings, Holds
<1>6. FileOK'
  <2>1. \E k \in 0 .. Len(Text(saved'.cfg)) :
           file' = SubSeq(Text(saved'.cfg), 1, k) /\ whole' = (k = Len(Text(saved'.cfg)))
    BY <1>1, <1>2
  <2> QED BY <2>1 DEF FileOK
<1> QED BY <1>4, <1>5, <1>6

\* cw_cfg_save, to its end or not.
LEMMA SaveStoreInv == StoreInv /\ (Save \/ FailWhileSaving) => StoreInv'
<1> SUFFICES ASSUME StoreInv, Save \/ FailWhileSaving PROVE StoreInv'
  OBVIOUS
<1>1. CASE Save
  <2>1. main' \in {"change", "run"} /\ cfg' = cfg /\ told' = told
    BY <1>1 DEF Save, After
  <2>2. PICK n \in 0 .. Len(Text(cfg)) : WriteFile(n)
    BY <1>1 DEF Save
  <2>3. ReadOK'
    BY <2>1 DEF ReadOK, Searching
  <2>4. cfg' \in Stores /\ Settings(told)' /\ Holds(cfg, told)'
    BY <2>1 DEF StoreInv, Settings, Holds
  <2> QED BY <2>2, <2>3, <2>4, WriteStoreInv DEF StoreInv
<1>2. CASE FailWhileSaving
  <2>1. main' = "off" /\ cfg' = EmptyCfg /\ told' = EmptyCfg
    BY <1>2 DEF FailWhileSaving, Gone
  <2>2. PICK n \in 0 .. Len(Text(cfg)) : WriteFile(n)
    BY <1>2 DEF FailWhileSaving
  <2>3. ReadOK'
    BY <2>1 DEF ReadOK, Searching
  <2> QED BY <2>1, <2>2, <2>3, WriteStoreInv, NothingTold DEF StoreInv
<1> QED BY <1>1, <1>2

\* A step that leaves all of it as it is, and does not come back to the search.
LEMMA SameStoreInv ==
    ASSUME StoreInv, UNCHANGED <<cfg, told, file, saved, whole>>,
           main' \in Searching => main \in Searching,
           main' = "refused" => main = "refused"
    PROVE  StoreInv'
<1>1. ReadOK'
  BY DEF StoreInv, ReadOK
<1>2. cfg' \in Stores /\ Settings(told)' /\ Holds(cfg, told)'
  BY DEF StoreInv, Settings, Holds
<1> QED BY <1>1, <1>2, FileKept DEF StoreInv

\* Every step keeps the store, the file and what was told in agreement.
LEMMA NextStoreInv == StoreInv /\ [Next]_vars => StoreInv'
<1> SUFFICES ASSUME StoreInv, [Next]_vars PROVE StoreInv'
  OBVIOUS
<1>1. CASE Start
  BY <1>1, StartStoreInv
<1>2. CASE \E c \in Controllers : Answer(c)
  BY <1>2, SameStoreInv DEF Answer, history
<1>3. CASE AddAddress
  BY <1>3, SameStoreInv DEF AddAddress, history
<1>4. CASE EndDiscovery
  BY <1>4, SameStoreInv DEF EndDiscovery, history, Searching
<1>5. CASE NoCommonSecurity \/ HandshakeFails \/ JoinFails
  BY <1>5, SameStoreInv DEF NoCommonSecurity, HandshakeFails, JoinFails, NextCandidate, history
<1>6. CASE NoSocket
  BY <1>6, SameStoreInv DEF NoSocket, history, Searching
<1>7. CASE JoinSucceeds
  BY <1>7, SameStoreInv DEF JoinSucceeds, history, Searching
<1>8. CASE JoinedNobody
  BY <1>8, GoneStoreInv DEF JoinedNobody
<1>9. CASE \E m \in Messages : Configured(m) \/ Updated(m)
  BY <1>9, TellStoreInv
<1>10. CASE ConfigureFails
  BY <1>10, SameStoreInv DEF ConfigureFails, history, Searching
<1>11. CASE ChangeState
  BY <1>11, SameStoreInv DEF ChangeState, history, Searching
<1>12. CASE Save \/ FailWhileSaving
  BY <1>12, SaveStoreInv
<1>13. CASE SaveNothing
  <2>1. main' \in {"change", "run"}
    BY <1>13 DEF SaveNothing, After
  <2> QED BY <1>13, <2>1, SameStoreInv DEF SaveNothing, history, Searching
<1>14. CASE End
  BY <1>14, GoneStoreInv DEF End
<1>15. CASE UNCHANGED vars
  BY <1>15, SameStoreInv DEF vars, history
<1> QED
  BY <1>1, <1>2, <1>3, <1>4, <1>5, <1>6, <1>7, <1>8, <1>9, <1>10, <1>11, <1>12, <1>13,
     <1>14, <1>15 DEF Next

\* A WTP that starts with a file that was written to its end has the store it was
\* written from, if that is one a file can hold, and xput sends a setting of a
\* controller in the octets that were received exactly if these are Faithful:
\* cw_cfg_save, cw_cfg_load and CW_TYPE_BSTR16, for any letters, any length of a
\* value, any messages and any number of restarts.
THEOREM SettingsSurvive == Spec => []Remembered
<1>1. StoreInv => Remembered
  <2> SUFFICES ASSUME StoreInv, main \in {"discovery", "refused"}, whole, Holdable(saved.cfg)
               PROVE  /\ main = "discovery" /\ cfg = saved.cfg
                      /\ \A n \in DOMAIN saved.told :
                             Faithful(saved.told[n]) <=> Sent(cfg[n]) = saved.told[n]
    BY DEF Remembered
  <2>1. FileOK /\ saved.cfg \in Stores /\ Settings(saved.told) /\ Holds(saved.cfg, saved.told) /\ ReadOK
    BY DEF StoreInv
  <2>2. Load(file).cfg = saved.cfg /\ Load(file).ok
    BY <2>1, WholeFile
  <2>3. main = "discovery" /\ cfg = saved.cfg
    BY <2>1, <2>2 DEF ReadOK, Searching
  <2>4. ASSUME NEW n \in DOMAIN saved.told
        PROVE  Faithful(saved.told[n]) <=> Sent(cfg[n]) = saved.told[n]
    <3>1. saved.told[n] \in Seq(Octets) /\ n \in DOMAIN saved.cfg /\ saved.cfg[n] = Stored(saved.told[n])
      BY <2>1 DEF Settings, Holds
    <3>2. Plain(Stored(saved.told[n]))
      BY <3>1 DEF Holdable
    <3> QED BY <2>3, <3>1, <3>2, SentIs
  <2> QED BY <2>3, <2>4
<1> QED BY <1>1, InitStoreInv, NextStoreInv, PTL DEF Spec

\* What a WTP has after a save that a crash or a failed write cut off is a
\* beginning of the store it wrote, wherever it was cut: cw_cfg_save truncates the
\* file, so nothing of an older one is left in it.
THEOREM NoOldSettings == Spec => []NothingInvented
<1>1. StoreInv => NothingInvented
  <2> SUFFICES ASSUME StoreInv, main \in Searching, Holdable(saved.cfg)
               PROVE  Beginning(cfg, saved.cfg)
    BY DEF NothingInvented, Beginning
  <2>1. FileOK /\ saved.cfg \in Stores /\ cfg = Load(file).cfg /\ Load(file).ok
    BY DEF StoreInv, ReadOK
  <2>2. CASE file = Factory /\ saved.cfg = Load(Factory).cfg
    <3> DEFINE c == saved.cfg
    <3>1. cfg = c /\ c \in Stores
      BY <2>1, <2>2
    <3>2. Size(c) \in 0 .. Size(c)
      BY <3>1, NamesAre
    <3> HIDE DEF c
    <3>3. Beginning(c, c)
      BY <3>1, <3>2, FirstKeysAre
    <3> QED BY <3>1, <3>3 DEF c
  <2>3. CASE \E n \in 0 .. Len(Text(saved.cfg)) : file = SubSeq(Text(saved.cfg), 1, n)
    <3>1. PICK n \in 0 .. Len(Text(saved.cfg)) : file = SubSeq(Text(saved.cfg), 1, n)
      BY <2>3
    <3> QED BY <2>1, <3>1, CutTrip
  <2> QED BY <2>1, <2>2, <2>3 DEF FileOK
<1> QED BY <1>1, InitStoreInv, NextStoreInv, PTL DEF Spec

------------------------------------------------------------------------------
(* The search and the joining *)

\* What join_d is sent: addresses with the load of their controller.
Lists == Seq([address : Addresses, load : Loads])

\* No counter of a rank is as high as the number of elements.
ResultsOK ==
    /\ IsFiniteSet(results)
    /\ \A e \in results : e.ctr \in Nat /\ e.ctr < Cardinality(results)

\* Every address shown is a candidate, or about to be added.
Kept == announced \subseteq {e.address : e \in results} \cup Usable(list)

\* The inductive invariant.  Kept does not ask where the program is: what
\* empties the results empties announced.
IInv == list \in Lists /\ ResultsOK /\ Kept

\* What an address that ends the list hides.
LEMMA UsableNone ==
    ASSUME NEW wire \in Lists, wire # <<>>, Head(wire).load = NoLoad
    PROVE  Usable(wire) = {}
<1>1. wire[1].load = NoLoad
  BY DEF Lists
<1>2. \A k \in DOMAIN wire : 1 \in 1 .. k
  BY DEF Lists
<1> QED BY <1>1, <1>2 DEF Usable

\* The first address, and those of the rest.
LEMMA UsableHead ==
    ASSUME NEW wire \in Lists, wire # <<>>, Head(wire).load # NoLoad
    PROVE  Usable(wire) \subseteq {Head(wire).address} \cup Usable(Tail(wire))
<1> DEFINE Open(w) == {k \in DOMAIN w : \A j \in 1 .. k : w[j].load # NoLoad}
<1> SUFFICES ASSUME NEW i \in Open(wire)
             PROVE  wire[i].address \in {Head(wire).address} \cup Usable(Tail(wire))
  BY DEF Usable
<1>1. CASE i = 1
  BY <1>1 DEF Lists
<1>2. CASE i # 1
  <2>1. /\ i \in 2 .. Len(wire)
        /\ Tail(wire) \in Lists
        /\ Len(Tail(wire)) = Len(wire) - 1
        /\ \A k \in 1 .. Len(wire) - 1 : Tail(wire)[k] = wire[k + 1]
    BY <1>2 DEF Lists
  <2>2. i - 1 \in DOMAIN Tail(wire) /\ Tail(wire)[i - 1] = wire[i]
    BY <2>1 DEF Lists
  <2>3. \A j \in 1 .. i - 1 : Tail(wire)[j].load # NoLoad
    <3> SUFFICES ASSUME NEW j \in 1 .. i - 1
                 PROVE  Tail(wire)[j].load # NoLoad
      OBVIOUS
    <3>1. j + 1 \in 1 .. i /\ Tail(wire)[j] = wire[j + 1]
      BY <2>1
    <3> QED BY <3>1
  <2>4. i - 1 \in Open(Tail(wire))
    BY <2>2, <2>3
  <2> QED BY <2>2, <2>4 DEF Usable
<1> QED BY <1>1, <1>2

\* An empty list has no address.
LEMMA UsableEmpty == Usable(<<>>) = {}
BY DEF Usable

\* An element of a list.
LEMMA ElementOfList ==
    ASSUME NEW S, NEW s \in Seq(S), NEW i \in 1 .. Len(s)
    PROVE  s[i] \in S
OBVIOUS

\* A function from 1 .. n is a list.
LEMMA FunctionIsList ==
    ASSUME NEW S, NEW n \in Nat, NEW f \in [1 .. n -> S]
    PROVE  f \in Seq(S)
OBVIOUS

\* An answer is a list.
LEMMA WireIsList ==
    ASSUME NEW c \in Controllers, NEW wire \in Wire(Offer[c])
    PROVE  wire \in Lists
<1>1. Offer[c] \in Lists
  BY WtpStartAssumption DEF Lists
<1> DEFINE Shown == [address : Addresses, load : Loads]
           len == Len(Offer[c])
<1>2. PICK loads \in [1 .. len -> Loads] :
          wire = [i \in 1 .. len |-> [address |-> Offer[c][i].address, load |-> loads[i]]]
  BY DEF Wire
<1>3. len \in Nat
  BY <1>1 DEF Lists
<1>4. \A i \in 1 .. len : Offer[c][i] \in Shown
  BY <1>1, ElementOfList DEF Lists
<1>5. \A i \in 1 .. len : [address |-> Offer[c][i].address, load |-> loads[i]] \in Shown
  BY <1>4
<1>6. wire \in [1 .. len -> Shown]
  BY <1>2, <1>5
<1> HIDE DEF Shown, len
<1>7. wire \in Seq(Shown)
  BY <1>3, <1>6, FunctionIsList
<1> QED BY <1>7 DEF Lists, Shown

\* The search begins with nothing.
LEMMA InitIInv == Init => IInv
<1> SUFFICES ASSUME Init PROVE IInv
  OBVIOUS
<1>1. results = {} /\ list = <<>> /\ announced = {}
  BY DEF Init
<1>2. IsFiniteSet({})
  BY FS_EmptySet
<1> QED BY <1>1, <1>2 DEF IInv, ResultsOK, Kept, Lists

\* One round of the loop: the new candidate goes into the tree.
LEMMA AddAddressIInv == IInv /\ AddAddress => IInv'
<1> SUFFICES ASSUME IInv, AddAddress PROVE IInv'
  OBVIOUS
<1>0. list \in Lists /\ list # <<>> /\ announced' = announced
  BY DEF IInv, AddAddress
<1>1. CASE Head(list).load = NoLoad
  <2>1. list' = <<>> /\ results' = results
    BY <1>1 DEF AddAddress
  <2>2. Usable(list) = {}
    BY <1>0, <1>1, UsableNone
  <2> QED BY <1>0, <2>1, <2>2 DEF IInv, ResultsOK, Kept, Lists
<1>2. CASE Head(list).load # NoLoad
  <2> DEFINE new == [prio |-> GetByte(cfg, PrioKey(from), 255), wtps |-> Head(list).load,
                     ctr |-> Cardinality(results), ac |-> from, address |-> Head(list).address]
  <2>1. list' = Tail(list) /\ results' = Insert(results, new)
    BY <1>2 DEF AddAddress
  <2>2. IsFiniteSet(results) /\ Cardinality(results) \in Nat
    BY FS_CardinalityType DEF IInv, ResultsOK
  <2>3. new.ctr = Cardinality(results) /\ new.address = Head(list).address
    OBVIOUS
  <2> HIDE DEF new
  <2>4. \A f \in results : f.ctr # new.ctr
    BY <2>2, <2>3 DEF IInv, ResultsOK
  <2>5. results' = results \cup {new}
    BY <2>1, <2>4 DEF Insert, SameRank
  <2>6. new \notin results
    BY <2>4
  <2>7. IsFiniteSet(results') /\ Cardinality(results') = Cardinality(results) + 1
    BY <2>2, <2>5, <2>6, FS_AddElement
  <2>8. ResultsOK'
    BY <2>2, <2>3, <2>5, <2>7 DEF IInv, ResultsOK
  <2>9. list' \in Lists
    BY <1>0, <2>1 DEF Lists
  <2>10. Usable(list) \subseteq {Head(list).address} \cup Usable(list')
    BY <1>0, <1>2, <2>1, UsableHead
  <2>11. Kept'
    BY <1>0, <2>3, <2>5, <2>10 DEF IInv, Kept
  <2> QED BY <2>8, <2>9, <2>11 DEF IInv
<1> QED BY <1>1, <1>2

\* A response is taken when the one before has been added.
LEMMA AnswerIInv ==
    ASSUME NEW c \in Controllers, IInv, Answer(c)
    PROVE  IInv'
<1>1. PICK wire \in Wire(Offer[c]) :
          /\ list = <<>> /\ list' = wire /\ results' = results
          /\ announced' = announced \cup Usable(wire)
  BY DEF Answer
<1>2. wire \in Lists
  BY WireIsList
<1> QED BY <1>1, <1>2, UsableEmpty DEF IInv, ResultsOK, Kept

\* The search begins again.
LEMMA EmptiedIInv ==
    ASSUME results' = {}, announced' = {}, list' \in Lists
    PROVE  IInv'
<1>1. IsFiniteSet({})
  BY FS_EmptySet
<1> QED BY <1>1 DEF IInv, ResultsOK, Kept

\* No step of the WTP leaves a controller out.
LEMMA NextIInv == IInv /\ [Next]_vars => IInv'
<1> SUFFICES ASSUME IInv, [Next]_vars PROVE IInv'
  OBVIOUS
<1> DEFINE Same == results' = results /\ list' = list /\ announced' = announced
<1>1. ASSUME Same PROVE IInv'
  BY <1>1 DEF IInv, ResultsOK, Kept
<1>2. ASSUME Gone PROVE IInv'
  <2>1. results' = {} /\ announced' = {} /\ list' = <<>>
    BY <1>2 DEF Gone, NoJoin
  <2> QED BY <2>1, EmptiedIInv DEF Lists
<1>3. CASE Start
  BY <1>1, <1>3 DEF Start, joinVars
<1>4. CASE \E c \in Controllers : Answer(c)
  BY <1>4, AnswerIInv
<1>5. CASE AddAddress
  BY <1>5, AddAddressIInv
<1>6. CASE EndDiscovery
  BY <1>1, <1>6 DEF EndDiscovery
<1>7. CASE NoCommonSecurity \/ HandshakeFails \/ JoinFails
  BY <1>1, <1>7 DEF NoCommonSecurity, HandshakeFails, JoinFails, NextCandidate
<1>8. CASE NoSocket
  BY <1>1, <1>8 DEF NoSocket, joinVars
<1>9. CASE JoinSucceeds
  BY <1>9, EmptiedIInv DEF JoinSucceeds, IInv
<1>10. CASE JoinedNobody
  BY <1>2, <1>10 DEF JoinedNobody
<1>11. CASE \E m \in Messages : Configured(m) \/ Updated(m)
  BY <1>1, <1>11 DEF Configured, Updated, Tell, joinVars
<1>12. CASE ConfigureFails \/ ChangeState
  BY <1>1, <1>12 DEF ConfigureFails, ChangeState, joinVars
<1>13. CASE Save \/ SaveNothing
  BY <1>1, <1>13 DEF Save, SaveNothing, joinVars
<1>14. CASE FailWhileSaving \/ End
  BY <1>2, <1>14 DEF FailWhileSaving, End
<1>15. CASE UNCHANGED vars
  BY <1>1, <1>15 DEF vars, joinVars
<1> QED
  BY <1>3, <1>4, <1>5, <1>6, <1>7, <1>8, <1>9, <1>10, <1>11, <1>12, <1>13, <1>14,
     <1>15 DEF Next

\* Every address that a controller shows is a candidate until the WTP has
\* joined, whatever priorities and loads it and the others have.
THEOREM NoneLeftOut == Spec => []Considered
<1>1. Init => IInv
  BY InitIInv
<1>2. IInv /\ [Next]_vars => IInv'
  BY NextIInv
<1>3. IInv => Considered
  BY DEF IInv, Kept, Considered
<1> QED BY <1>1, <1>2, <1>3, PTL DEF Spec

\* What each variable of the search holds.
JoinTypes ==
    /\ main \in Running \cup {"off", "refused"}
    /\ results \subseteq CandidateType /\ left \subseteq results
    /\ from \in Controllers \cup {None} /\ answers \in 0 .. MaxAnswers
    /\ dtls \in Controllers \cup {None} /\ ac \in Controllers \cup {None}
    /\ announced \subseteq Addresses
    /\ octets \in 0 .. MaxOctets

\* Where the program is, and what it has of the search; two candidates are
\* never one of the same count.
JoinPlaces ==
    /\ list # <<>> => main = "discovery" /\ from \in Controllers
    /\ main \notin {"join", "hung"} => left = {}
    /\ \A e, f \in results : e.ctr = f.ctr => e = f

\* The inductive invariant of the search.
JoinInv == JoinTypes /\ JoinPlaces

\* The WTP is off at first.
LEMMA InitJoinInv == Init => JoinInv
<1> SUFFICES ASSUME Init PROVE JoinInv
  OBVIOUS
<1>1. MaxAnswers \in Nat /\ MaxOctets \in Nat
  BY Zenon, WtpStartAssumption
<1>2. /\ main = "off" /\ results = {} /\ left = {} /\ list = <<>> /\ from = None
      /\ answers = 0 /\ dtls = None /\ ac = None /\ announced = {} /\ octets = 0
  BY DEF Init
<1>3. JoinTypes
  BY <1>1, <1>2 DEF JoinTypes
<1>4. JoinPlaces
  BY <1>2 DEF JoinPlaces
<1> QED BY <1>3, <1>4 DEF JoinInv

\* A program that is gone has no connection.
LEMMA GoneJoinInv ==
    ASSUME JoinInv, Gone, octets' = octets
    PROVE  JoinInv'
<1>1. MaxAnswers \in Nat
  BY Zenon, WtpStartAssumption
<1>2. /\ main' = "off" /\ results' = {} /\ left' = {} /\ list' = <<>> /\ from' = None
      /\ answers' = 0 /\ dtls' = None /\ ac' = None /\ announced' = {}
  BY DEF Gone, NoJoin
<1>3. JoinTypes'
  BY <1>1, <1>2 DEF JoinInv, JoinTypes
<1>4. JoinPlaces'
  BY <1>2 DEF JoinPlaces
<1> QED BY <1>3, <1>4 DEF JoinInv

\* The program goes on, and the search is as it was, or over.
LEMMA SameJoinInv ==
    ASSUME JoinInv, UNCHANGED joinVars, octets' \in 0 .. MaxOctets,
           main' \in Running \cup {"off", "refused"},
           list # <<>> => main' = "discovery",
           left # {} => main' \in {"join", "hung"}
    PROVE  JoinInv'
<1>1. JoinTypes'
  BY DEF JoinInv, JoinTypes, joinVars
<1>2. JoinPlaces'
  BY DEF JoinInv, JoinPlaces, joinVars
<1> QED BY <1>1, <1>2 DEF JoinInv

\* The addresses that can be used are addresses.
LEMMA UsableType ==
    ASSUME NEW wire \in Lists
    PROVE  Usable(wire) \subseteq Addresses
<1>1. \A i \in DOMAIN wire : wire[i].address \in Addresses
  <2> SUFFICES ASSUME NEW i \in DOMAIN wire PROVE wire[i].address \in Addresses
    OBVIOUS
  <2>1. i \in 1 .. Len(wire)
    BY LenProperties DEF Lists
  <2>2. wire[i] \in [address : Addresses, load : Loads]
    BY <2>1, ElementOfSeq DEF Lists
  <2> QED BY <2>2
<1> QED BY <1>1 DEF Usable

\* A response leaves the list of its addresses.
LEMMA AnswerJoinInv ==
    ASSUME JoinInv, NEW c \in Controllers, Answer(c)
    PROVE  JoinInv'
<1>1. MaxAnswers \in Nat
  BY Zenon, WtpStartAssumption
<1>2. PICK wire \in Wire(Offer[c]) :
          /\ main = "discovery" /\ main' = main /\ answers < MaxAnswers /\ answers' = answers + 1
          /\ list' = wire /\ from' = c /\ announced' = announced \cup Usable(wire)
          /\ results' = results /\ left' = left /\ dtls' = dtls /\ ac' = ac /\ octets' = octets
  BY DEF Answer, history
<1>3. Usable(wire) \subseteq Addresses
  BY WireIsList, UsableType
<1>4. answers' \in 0 .. MaxAnswers
  BY <1>1, <1>2 DEF JoinInv, JoinTypes
<1>5. JoinTypes'
  BY <1>2, <1>3, <1>4 DEF JoinInv, JoinTypes
<1>6. JoinPlaces'
  BY <1>2 DEF JoinInv, JoinPlaces
<1> QED BY <1>5, <1>6 DEF JoinInv

\* The loop takes the first of the list, and begins to join after the last.
LEMMA AddAddressJoinInv ==
    ASSUME JoinInv, IInv, cfg \in Stores, AddAddress
    PROVE  JoinInv'
<1>1. /\ main = "discovery" /\ main' = main /\ list # <<>> /\ list \in Lists /\ from \in Controllers
      /\ left' = left /\ from' = from /\ answers' = answers /\ dtls' = dtls /\ ac' = ac
      /\ announced' = announced /\ octets' = octets
  BY DEF AddAddress, JoinInv, JoinPlaces, IInv, history
<1>2. ASSUME results' \subseteq CandidateType, left \subseteq results',
             \A e, f \in results' : e.ctr = f.ctr => e = f
      PROVE  JoinInv'
  <2>1. JoinTypes'
    BY <1>1, <1>2 DEF JoinInv, JoinTypes
  <2>2. JoinPlaces'
    BY <1>1, <1>2 DEF JoinInv, JoinPlaces
  <2> QED BY <2>1, <2>2 DEF JoinInv
<1>3. CASE Head(list).load = NoLoad
  <2>1. results' = results
    BY <1>3 DEF AddAddress
  <2> QED BY <1>2, <2>1 DEF JoinInv, JoinTypes, JoinPlaces
<1>4. CASE Head(list).load # NoLoad
  <2> DEFINE prio == GetByte(cfg, PrioKey(from), 255)
             new == [prio |-> prio, wtps |-> Head(list).load,
                     ctr |-> Cardinality(results), ac |-> from, address |-> Head(list).address]
  <2>1. results' = Insert(results, new)
    BY <1>4 DEF AddAddress
  <2>2. Head(list) \in [address : Addresses, load : Loads]
    BY <1>1, HeadTailProperties DEF Lists
  <2>3. prio \in 0 .. 255
    BY GetByteIs
  <2>4. IsFiniteSet(results) /\ Cardinality(results) \in Nat
    BY FS_CardinalityType DEF IInv, ResultsOK
  <2> HIDE DEF prio
  <2>5. new \in CandidateType
    <3>1. Head(list).load \in Loads \ {NoLoad} /\ Head(list).address \in Addresses
      BY <1>4, <2>2
    <3> QED BY <1>1, <2>3, <2>4, <3>1 DEF CandidateType
  <2>6. new.ctr = Cardinality(results)
    OBVIOUS
  <2> HIDE DEF new
  <2>7. \A f \in results : f.ctr # new.ctr
    BY <2>4, <2>6 DEF IInv, ResultsOK
  <2>8. results' = results \cup {new}
    BY <2>1, <2>7 DEF Insert, SameRank
  <2>9. /\ results \subseteq CandidateType /\ left \subseteq results
        /\ \A e, f \in results : e.ctr = f.ctr => e = f
    BY DEF JoinInv, JoinTypes, JoinPlaces
  <2> QED BY <1>2, <2>5, <2>7, <2>8, <2>9
<1> QED BY <1>3, <1>4

\* join has a candidate, and it is one of those that are left.
LEMMA NextCandidateJoinInv ==
    ASSUME JoinInv, NoCommonSecurity \/ HandshakeFails \/ JoinFails \/ JoinSucceeds
    PROVE  JoinInv'
<1>1. /\ main \in Running \cup {"off", "refused"} /\ left \subseteq results /\ results \subseteq CandidateType
      /\ \A e, f \in results : e.ctr = f.ctr => e = f
      /\ dtls \in Controllers \cup {None} /\ ac \in Controllers \cup {None}
  BY DEF JoinInv, JoinTypes, JoinPlaces
<1>2. main = "join" /\ left # {}
  BY DEF NoCommonSecurity, HandshakeFails, JoinFails, JoinSucceeds
<1>3. Candidate \in left
  BY <1>1, <1>2, CandidateIs
<1>4. Candidate.ac \in Controllers
  BY <1>1, <1>3 DEF CandidateType
<1>5. list = <<>>
  BY <1>2 DEF JoinInv, JoinPlaces
<1>6. CASE NoCommonSecurity \/ HandshakeFails \/ JoinFails
  <2>1. /\ main' = main /\ left' \subseteq left /\ results' = results /\ list' = list /\ from' = from
        /\ answers' = answers /\ ac' = ac /\ announced' = announced /\ octets' = octets
    BY <1>6 DEF NoCommonSecurity, HandshakeFails, JoinFails, NextCandidate, history
  <2>2. dtls' \in Controllers \cup {None}
    BY <1>1, <1>4, <1>6 DEF NoCommonSecurity, HandshakeFails, JoinFails, Connection
  <2>3. JoinTypes'
    BY <2>1, <2>2 DEF JoinInv, JoinTypes
  <2>4. JoinPlaces'
    BY <1>2, <2>1 DEF JoinInv, JoinPlaces
  <2> QED BY <2>3, <2>4 DEF JoinInv
<1>7. CASE JoinSucceeds
  <2>1. /\ main' = "configure" /\ ac' = Candidate.ac /\ dtls' = Candidate.ac
        /\ results' = {} /\ left' = {} /\ announced' = {} /\ from' = None /\ answers' = 0
        /\ list' = list /\ octets' = octets
    BY <1>7 DEF JoinSucceeds, history
  <2>2. 0 \in 0 .. MaxAnswers
    <3>1. MaxAnswers \in Nat
      BY Zenon, WtpStartAssumption
    <3> QED BY <3>1
  <2>3. JoinTypes'
    BY <1>4, <2>1, <2>2 DEF JoinInv, JoinTypes, Running, Joined
  <2>4. JoinPlaces'
    BY <1>5, <2>1 DEF JoinPlaces
  <2> QED BY <2>3, <2>4 DEF JoinInv
<1> QED BY <1>6, <1>7

\* Every step keeps the search and the joining in their places.
LEMMA NextJoinInv == JoinInv /\ IInv /\ cfg \in Stores /\ [Next]_vars => JoinInv'
<1> SUFFICES ASSUME JoinInv, IInv, cfg \in Stores, [Next]_vars PROVE JoinInv'
  OBVIOUS
<1>1. /\ octets \in 0 .. MaxOctets /\ main \in Running \cup {"off", "refused"}
      /\ list # <<>> => main = "discovery"
      /\ left # {} => main \in {"join", "hung"}
  BY DEF JoinInv, JoinTypes, JoinPlaces
<1>2. CASE Start
  <2>1. main = "off" /\ main' \in {"discovery", "refused"} /\ UNCHANGED joinVars /\ octets' = octets
    BY <1>2 DEF Start
  <2> QED BY <1>1, <2>1, SameJoinInv DEF Running, Searching
<1>3. CASE \E c \in Controllers : Answer(c)
  BY <1>3, AnswerJoinInv
<1>4. CASE AddAddress
  BY <1>4, AddAddressJoinInv
<1>5. CASE EndDiscovery
  <2>1. /\ main' = "join" /\ left' = results /\ results' = results /\ list' = list /\ list = <<>>
        /\ from' = from /\ answers' = answers /\ dtls' = dtls /\ ac' = ac /\ announced' = announced
        /\ octets' = octets
    BY <1>5 DEF EndDiscovery, history
  <2>2. JoinTypes'
    BY <2>1 DEF JoinInv, JoinTypes, Running, Searching
  <2>3. JoinPlaces'
    BY <2>1 DEF JoinInv, JoinPlaces
  <2> QED BY <2>2, <2>3 DEF JoinInv
<1>6. CASE NoCommonSecurity \/ HandshakeFails \/ JoinFails \/ JoinSucceeds
  BY <1>6, NextCandidateJoinInv
<1>7. CASE NoSocket
  <2>1. main = "join" /\ main' = "hung" /\ UNCHANGED joinVars /\ octets' = octets
    BY <1>7 DEF NoSocket, history
  <2> QED BY <1>1, <2>1, SameJoinInv DEF Running
<1>8. CASE JoinedNobody
  BY <1>8, GoneJoinInv DEF JoinedNobody
<1>9. CASE \E m \in Messages : Configured(m) \/ Updated(m)
  <2>1. PICK m \in Messages : Configured(m) \/ Updated(m)
    BY <1>9
  <2>2. /\ main \in {"configure", "run"} /\ main' \in {"save in configure", "save in run"}
        /\ UNCHANGED joinVars
        /\ octets + Cost(m) <= MaxOctets /\ octets' = octets + Cost(m)
    BY <2>1 DEF Configured, Updated, Tell
  <2>3. Cost(m) \in Nat /\ MaxOctets \in Nat
    <3>1. MaxOctets \in Nat
      BY Zenon, WtpStartAssumption
    <3> QED BY <3>1, CostIs
  <2>4. octets' \in 0 .. MaxOctets
    <3> DEFINE k == Cost(m)
    <3> HIDE DEF k
    <3>1. k \in Nat /\ MaxOctets \in Nat /\ octets + k <= MaxOctets /\ octets' = octets + k
      BY <2>2, <2>3 DEF k
    <3>2. octets \in Nat
      BY <1>1, <3>1
    <3> QED BY <3>1, <3>2
  <2> QED BY <1>1, <2>2, <2>4, SameJoinInv DEF Running, Saving
<1>10. CASE ConfigureFails \/ ChangeState \/ Save \/ SaveNothing
  <2>1. /\ main \notin {"discovery", "join", "hung"} /\ main' \in {"change", "run"}
        /\ UNCHANGED joinVars /\ octets' = octets
    BY <1>10 DEF ConfigureFails, ChangeState, Save, SaveNothing, Saving, After, WriteFile, history
  <2> QED BY <1>1, <2>1, SameJoinInv DEF Running, Joined
<1>11. CASE FailWhileSaving \/ End
  <2>1. Gone /\ octets' = octets
    BY <1>11 DEF FailWhileSaving, End, WriteFile
  <2> QED BY <2>1, GoneJoinInv
<1>12. CASE UNCHANGED vars
  <2>1. main' = main /\ UNCHANGED joinVars /\ octets' = octets
    BY <1>12 DEF vars, history
  <2> QED BY <1>1, <2>1, SameJoinInv
<1> QED
  BY <1>2, <1>3, <1>4, <1>5, <1>6, <1>7, <1>8, <1>9, <1>10, <1>11, <1>12 DEF Next

\* A store is what TypeOK takes for one.
LEMMA CfgIs ==
    ASSUME NEW c \in Stores
    PROVE  IsCfg(c)
BY StoreIs DEF IsCfg, Strings

\* Every variable keeps its type, and a program that searches has no candidates
\* left of a search before: what cw_cfg_load reads of a file that was cut off is a
\* store, and no rank in the tree has a counter that is taken.
THEOREM TypeCorrect == Spec => []TypeOK
<1> DEFINE Inv == IInv /\ StoreInv /\ JoinInv
<1>1. Init => Inv
  BY InitIInv, InitStoreInv, InitJoinInv
<1>2. Inv /\ [Next]_vars => Inv'
  <2>1. StoreInv => cfg \in Stores
    BY DEF StoreInv
  <2> QED BY <2>1, NextIInv, NextStoreInv, NextJoinInv
<1>3. Inv => TypeOK
  <2> SUFFICES ASSUME Inv PROVE TypeOK
    OBVIOUS
  <2>1. IsCfg(cfg) /\ IsCfg(saved.cfg) /\ IsCfg(told) /\ IsCfg(saved.told)
    BY CfgIs DEF StoreInv, Settings
  <2>2. file \in Seq(Chars) /\ whole \in BOOLEAN
    BY FileType DEF StoreInv, Strings
  <2>3. list \in Seq([address : Addresses, load : Loads])
    BY DEF IInv, Lists
  <2> QED BY <2>1, <2>2, <2>3 DEF TypeOK, JoinInv, JoinTypes, JoinPlaces
<1> QED BY <1>1, <1>2, <1>3, PTL DEF Spec
=============================================================================
