-------------------- MODULE CentralConfigJsonParserProofs --------------------
(***************************************************************************)
(* Proofs about the parser for every body and every document. They need    *)
(* induction over the body: its induction principle is stated here for a   *)
(* set of numbers, and comes from the well-foundedness of < on Nat. The    *)
(* recursive functions of the parser are shown to exist and to satisfy     *)
(* their equations before anything is said about them.                     *)
(***************************************************************************)
EXTENDS CentralConfigJsonParser, WellFoundedInduction, TLAPS

-----------------------------------------------------------------------------
(* Induction over numbers, stated with sets instead of predicates. *)

Less == {ss \in Nat \X Nat : ss[1] < ss[2]}

\* The order of the numbers, as a relation, is well founded.
LEMMA LessWellFounded == IsWellFoundedOn(Less, Nat)
<1>1. Less = OpToRel(<, Nat)
  BY Zenon DEF OpToRel, Less
<1>. QED
  BY <1>1, NatLessThanWellFounded, Zenon

\* A set of numbers with a member has a least one.
LEMMA Least == ASSUME NEW S, S \subseteq Nat, S # {} PROVE \E m \in S : \A k \in S : m <= k
<1>1. PICK m \in S : \A k \in S : ~ (<<k, m>> \in Less)
  BY LessWellFounded, WFMin, Zenon
<1>2. ASSUME NEW k \in S PROVE m <= k
  <2>1. ~ (<<k, m>> \in Less) /\ k \in Nat /\ m \in Nat
    BY <1>1
  <2>2. ~ (k < m)
    BY <2>1 DEF Less
  <2>. QED
    BY <2>1, <2>2
<1>. QED
  BY <1>2

\* Induction, for a set of numbers.
LEMMA Induction ==
  ASSUME NEW S, 0 \in S, \A n \in Nat : n \in S => n + 1 \in S
  PROVE  Nat \subseteq S
<1> SUFFICES ASSUME Nat \ S # {} PROVE FALSE
  OBVIOUS
<1>1. PICK m \in Nat \ S : \A k \in Nat \ S : m <= k
  BY Least
<1>. QED
  BY <1>1

\* What Min chooses.
LEMMA MinLeast == ASSUME NEW S, S \subseteq Nat, S # {} PROVE Min(S) \in S /\ \A k \in S : Min(S) <= k
<1>1. PICK m \in S : \A k \in S : m <= k
  BY Least
<1>. QED
  BY <1>1 DEF Min

\* Induction from the end of 1..N downwards.
LEMMA Descent ==
  ASSUME NEW N \in Nat, NEW S, S \subseteq 1..N,
         \A i \in 1..N : (\A j \in i + 1..N : j \in S) => i \in S
  PROVE  S = 1..N
<1> SUFFICES ASSUME (1..N) \ S # {} PROVE FALSE
  OBVIOUS
<1> DEFINE T == {n \in Nat : N - n \in (1..N) \ S}
<1>1. T \subseteq Nat /\ T # {}
  <2>1. PICK i \in (1..N) \ S : TRUE
    OBVIOUS
  <2>2. N - i \in Nat /\ N - (N - i) = i
    BY <2>1
  <2>. QED
    BY <2>1, <2>2
<1>2. PICK m \in T : \A k \in T : m <= k
  <2> HIDE DEF T
  <2>. QED
    BY <1>1, Least
<1>3. N - m \in 1..N /\ N - m \notin S /\ m \in Nat
  BY <1>2
<1>4. ASSUME NEW j \in (N - m) + 1..N, j \notin S PROVE FALSE
  <2>1. j \in 1..N /\ N - j \in Nat /\ N - (N - j) = j /\ N - j < m
    BY <1>3
  <2>2. N - j \in T
    BY <2>1, <1>4
  <2>3. m <= N - j
    BY <1>2, <2>2
  <2>. QED
    BY <2>1, <2>3, <1>3
<1>. QED
  BY <1>3, <1>4

-----------------------------------------------------------------------------
(* The two loops of the parser as equations, and what they are confined to. *)

\* One step of the loop of ClosingQuote.
ScanStep(s, f, i) ==
  IF i > Len(s) THEN 0
  ELSE IF s[i] = "backslash" THEN f[i + 2]
  ELSE IF s[i] = "quote" THEN i
  ELSE f[i + 1]

\* The recursion of ClosingQuote defines a function, built from the end of the body.
LEMMA ScanExists ==
  ASSUME NEW s \in Seq(Tokens)
  PROVE  \E f : f = [i \in 1..Len(s) + 2 |-> ScanStep(s, f, i)]
<1> DEFINE L == Len(s) + 2
           S == {m \in Nat : m < L => \E f : f = [i \in L - m..L |-> ScanStep(s, f, i)]}
<1>0. L \in Nat /\ L = Len(s) + 2 /\ Len(s) \in Nat
  OBVIOUS
<1> HIDE DEF L
<1>1. 0 \in S
  <2> DEFINE f == [i \in L..L |-> 0]
  <2>1. f = [i \in L..L |-> ScanStep(s, f, i)]
    BY <1>0 DEF ScanStep
  <2>2. L - 0 = L
    BY <1>0
  <2> HIDE DEF f
  <2>. QED
    BY <2>1, <2>2
<1>2. ASSUME NEW m \in Nat, m \in S PROVE m + 1 \in S
  <2> SUFFICES ASSUME m + 1 < L PROVE \E f : f = [i \in L - (m + 1)..L |-> ScanStep(s, f, i)]
    OBVIOUS
  <2>1. PICK g : g = [i \in L - m..L |-> ScanStep(s, g, i)]
    BY <1>2, <1>0
  <2> DEFINE k == L - (m + 1)
             f == [i \in k..L |-> IF i = k THEN ScanStep(s, g, k) ELSE g[i]]
  <2>2. ASSUME NEW i \in k..L PROVE f[i] = ScanStep(s, f, i)
    <3>0. k \in Nat /\ i \in Nat
      BY <1>0
    <3>1. i <= Len(s) => f[i + 1] = g[i + 1] /\ f[i + 2] = g[i + 2]
      BY <1>0
    <3>2. ScanStep(s, f, i) = ScanStep(s, g, i)
      BY <3>1, <3>0, <1>0 DEF ScanStep
    <3>3. f[i] = ScanStep(s, g, i)
      <4>1. CASE i = k
        BY <4>1
      <4>2. CASE i # k
        <5>1. i \in L - m..L
          BY <4>2, <3>0, <1>0
        <5>2. g[i] = ScanStep(s, g, i)
          BY <2>1, <5>1
        <5>. QED
          BY <4>2, <5>2
      <4>. QED
        BY <4>1, <4>2
    <3>. QED
      BY <3>2, <3>3
  <2>3. f = [i \in k..L |-> ScanStep(s, f, i)]
    BY <2>2
  <2>. QED
    BY <2>3
<1>3. L - 1 \in S
  <2>1. L - 1 \in Nat
    BY <1>0
  <2> HIDE DEF S
  <2>2. Nat \subseteq S
    BY <1>1, <1>2, Induction
  <2>. QED
    BY <2>1, <2>2
<1>4. L - 1 < L /\ L - (L - 1) = 1
  BY <1>0
<1>. QED
  BY <1>0, <1>3, <1>4

\* The recursion of ClosingQuote, unfolded once.
LEMMA ClosingQuoteStep ==
  ASSUME NEW s \in Seq(Tokens), NEW i \in 1..Len(s) + 2
  PROVE  ClosingQuote(s, i) = IF i > Len(s) THEN 0
                              ELSE IF s[i] = "backslash" THEN ClosingQuote(s, i + 2)
                              ELSE IF s[i] = "quote" THEN i
                              ELSE ClosingQuote(s, i + 1)
<1> DEFINE f == CHOOSE f : f = [j \in 1..Len(s) + 2 |-> ScanStep(s, f, j)]
<1>1. f = [j \in 1..Len(s) + 2 |-> ScanStep(s, f, j)]
  BY ScanExists
<1>2. \A j : ClosingQuote(s, j) = f[j]
  BY DEF ClosingQuote, ScanStep
<1> HIDE DEF f
<1>. QED
  BY <1>1, <1>2 DEF ScanStep

\* What ClosingQuote returns is 0 or the position of a quote in the body.
LEMMA ClosingQuoteRange ==
  ASSUME NEW s \in Seq(Tokens), NEW i \in 1..Len(s) + 2
  PROVE  ClosingQuote(s, i) = 0 \/ (ClosingQuote(s, i) \in i..Len(s) /\ s[ClosingQuote(s, i)] = "quote")
<1> DEFINE Q(j) == ClosingQuote(s, j) = 0
                   \/ (ClosingQuote(s, j) \in j..Len(s) /\ s[ClosingQuote(s, j)] = "quote")
           S == {j \in 1..Len(s) + 2 : Q(j)}
<1>0. Len(s) \in Nat /\ Len(s) + 2 \in Nat
  OBVIOUS
<1>1. ASSUME NEW j \in 1..Len(s) + 2, \A k \in j + 1..Len(s) + 2 : k \in S PROVE j \in S
  <2>1. CASE j > Len(s)
    BY <2>1, ClosingQuoteStep
  <2>2. CASE j <= Len(s)
    <3>1. Q(j + 1) /\ Q(j + 2)
      <4>1. j + 1 \in j + 1..Len(s) + 2 /\ j + 2 \in j + 1..Len(s) + 2
        BY <2>2, <1>0
      <4>. QED
        BY <1>1, <4>1
    <3>2. ClosingQuote(s, j) = IF s[j] = "backslash" THEN ClosingQuote(s, j + 2)
                               ELSE IF s[j] = "quote" THEN j ELSE ClosingQuote(s, j + 1)
      BY <2>2, <1>0, ClosingQuoteStep
    <3>3. Q(j)
      BY <3>1, <3>2, <2>2, <1>0
    <3>. QED
      BY <3>3
  <2>. QED
    BY <2>1, <2>2, <1>0
<1> HIDE DEF Q
<1>2. S = 1..Len(s) + 2
  <2>1. S \subseteq 1..Len(s) + 2
    OBVIOUS
  <2> HIDE DEF S
  <2>. QED
    BY <1>0, <1>1, <2>1, Descent
<1>3. Q(i)
  BY <1>2
<1>. QED
  BY <1>3 DEF Q

\* SkipWhitespace stays within the body and passes over blanks only.
LEMMA SkipWhitespaceRange ==
  ASSUME NEW s \in Seq(Tokens), NEW i \in 1..Len(s) + 1
  PROVE  /\ SkipWhitespace(s, i) \in i..Len(s) + 1
         /\ SkipWhitespace(s, i) > Len(s) \/ s[SkipWhitespace(s, i)] # "blank"
         /\ \A k \in i..SkipWhitespace(s, i) - 1 : s[k] = "blank"
<1> DEFINE S == {j \in i..Len(s) + 1 : j > Len(s) \/ s[j] # "blank"}
<1>0. Len(s) \in Nat
  OBVIOUS
<1>1. S \subseteq Nat /\ Len(s) + 1 \in S
  BY <1>0
<1>2. SkipWhitespace(s, i) = Min(S)
  BY DEF SkipWhitespace
<1>3. SkipWhitespace(s, i) \in S /\ \A k \in S : SkipWhitespace(s, i) <= k
  <2> HIDE DEF S
  <2>. QED
    BY <1>1, <1>2, MinLeast
<1>4. ASSUME NEW k \in i..SkipWhitespace(s, i) - 1, s[k] # "blank" PROVE FALSE
  <2>1. k \in S
    BY <1>3, <1>4, <1>0
  <2>2. SkipWhitespace(s, i) <= k
    BY <1>3, <2>1
  <2>. QED
    BY <1>3, <2>2, <1>0
<1>. QED
  BY <1>3, <1>4

\* A piece of white space with something else behind it determines SkipWhitespace.
LEMMA SkipWhitespaceTo ==
  ASSUME NEW s \in Seq(Tokens), NEW i \in 1..Len(s) + 1, NEW j \in i..Len(s) + 1,
         \A k \in i..j - 1 : s[k] = "blank",
         j <= Len(s) => s[j] # "blank"
  PROVE  SkipWhitespace(s, i) = j
<1>0. Len(s) \in Nat
  OBVIOUS
<1> DEFINE w == SkipWhitespace(s, i)
<1>1. w \in i..Len(s) + 1 /\ (w > Len(s) \/ s[w] # "blank") /\ \A k \in i..w - 1 : s[k] = "blank"
  BY SkipWhitespaceRange
<1> HIDE DEF w
<1>2. ~ (w < j)
  BY <1>0, <1>1
<1>3. ~ (j < w)
  BY <1>0, <1>1
<1>4. w = j
  BY <1>0, <1>1, <1>2, <1>3
<1>. QED
  BY <1>4 DEF w

\* Where the property name stands, from position i on.
Names(s, i) == {k \in i..Len(s) : NameAt(s, k)}

\* What follows from the name at k, when f is the answer from every later position.
AfterName(s, f, k) ==
  LET colon == SkipWhitespace(s, k + 3)
  IN IF colon > Len(s) THEN {}
     ELSE IF s[colon] # "colon" THEN f[k + 3]
     ELSE StringAt(s, SkipWhitespace(s, colon + 1))

\* One step of the loop of TryParseLogLevel, and the function its recursion defines.
ParseStep(s, f, i) == IF Names(s, i) = {} THEN {} ELSE AfterName(s, f, Min(Names(s, i)))

Parse(s) == CHOOSE f : f = [i \in 1..Len(s) + 1 |-> ParseStep(s, f, i)]

\* The name found first lies within the body, with room for its three tokens.
LEMMA FirstName ==
  ASSUME NEW s \in Seq(Tokens), NEW i \in 1..Len(s) + 1, Names(s, i) # {}
  PROVE  /\ Min(Names(s, i)) \in Names(s, i)
         /\ \A k \in Names(s, i) : Min(Names(s, i)) <= k
         /\ Min(Names(s, i)) \in i..Len(s) - 2
<1>0. Len(s) \in Nat
  OBVIOUS
<1>1. Names(s, i) \subseteq Nat
  BY <1>0 DEF Names
<1>2. Min(Names(s, i)) \in Names(s, i) /\ \A k \in Names(s, i) : Min(Names(s, i)) <= k
  BY <1>1, MinLeast
<1>3. \A k \in Names(s, i) : k \in i..Len(s) - 2
  BY <1>0 DEF Names, NameAt
<1>. QED
  BY <1>2, <1>3

\* The recursion of TryParseLogLevel defines a function, too.
LEMMA ParseExists ==
  ASSUME NEW s \in Seq(Tokens)
  PROVE  \E f : f = [i \in 1..Len(s) + 1 |-> ParseStep(s, f, i)]
<1> DEFINE L == Len(s) + 1
           S == {m \in Nat : m < L => \E f : f = [i \in L - m..L |-> ParseStep(s, f, i)]}
<1>0. L \in Nat /\ L = Len(s) + 1 /\ Len(s) \in Nat
  OBVIOUS
<1> HIDE DEF L
<1>1. 0 \in S
  <2> DEFINE f == [i \in L..L |-> {}]
  <2>0. Names(s, L) = {}
    BY <1>0 DEF Names
  <2>1. f = [i \in L..L |-> ParseStep(s, f, i)]
    BY <1>0, <2>0 DEF ParseStep
  <2>2. L - 0 = L
    BY <1>0
  <2> HIDE DEF f
  <2>. QED
    BY <2>1, <2>2
<1>2. ASSUME NEW m \in Nat, m \in S PROVE m + 1 \in S
  <2> SUFFICES ASSUME m + 1 < L PROVE \E f : f = [i \in L - (m + 1)..L |-> ParseStep(s, f, i)]
    OBVIOUS
  <2>1. PICK g : g = [i \in L - m..L |-> ParseStep(s, g, i)]
    BY <1>2, <1>0
  <2> DEFINE k == L - (m + 1)
             f == [i \in k..L |-> IF i = k THEN ParseStep(s, g, k) ELSE g[i]]
  <2>2. ASSUME NEW i \in k..L PROVE f[i] = ParseStep(s, f, i)
    <3>0. k \in Nat /\ k > 0 /\ i \in 1..Len(s) + 1
      BY <1>0
    <3>1. Names(s, i) # {} => f[Min(Names(s, i)) + 3] = g[Min(Names(s, i)) + 3]
      <4> SUFFICES ASSUME Names(s, i) # {} PROVE f[Min(Names(s, i)) + 3] = g[Min(Names(s, i)) + 3]
        OBVIOUS
      <4>1. Min(Names(s, i)) \in i..Len(s) - 2
        BY <3>0, FirstName
      <4>2. Min(Names(s, i)) + 3 \in k + 1..L
        BY <4>1, <3>0, <1>0
      <4> HIDE DEF k
      <4>. QED
        BY <4>2, <3>0, <1>0
    <3>2. ParseStep(s, f, i) = ParseStep(s, g, i)
      <4> HIDE DEF f
      <4>. QED
        BY <3>1 DEF ParseStep, AfterName
    <3>3. f[i] = ParseStep(s, g, i)
      <4>1. CASE i = k
        BY <4>1
      <4>2. CASE i # k
        <5>1. i \in L - m..L
          BY <4>2, <3>0, <1>0
        <5>2. g[i] = ParseStep(s, g, i)
          BY <2>1, <5>1
        <5>. QED
          BY <4>2, <5>2
      <4>. QED
        BY <4>1, <4>2
    <3>. QED
      BY <3>2, <3>3
  <2>3. f = [i \in k..L |-> ParseStep(s, f, i)]
    BY <2>2
  <2>. QED
    BY <2>3
<1>3. L - 1 \in S
  <2>1. L - 1 \in Nat
    BY <1>0
  <2> HIDE DEF S
  <2>2. Nat \subseteq S
    BY <1>1, <1>2, Induction
  <2>. QED
    BY <2>1, <2>2
<1>4. L - 1 < L /\ L - (L - 1) = 1
  BY <1>0
<1>. QED
  BY <1>0, <1>3, <1>4

\* The recursion of TryParseLogLevel, unfolded once.
LEMMA ParseUnfold ==
  ASSUME NEW s \in Seq(Tokens)
  PROVE  /\ TryParseLogLevel(s) = Parse(s)[1]
         /\ \A i \in 1..Len(s) + 1 : Parse(s)[i] = ParseStep(s, Parse(s), i)
<1>1. Parse(s) = [i \in 1..Len(s) + 1 |-> ParseStep(s, Parse(s), i)]
  BY ParseExists DEF Parse
<1>2. TryParseLogLevel(s) = Parse(s)[1]
  <2>1. Len(LogLevelPropertyName) = 3
    BY DEF LogLevelPropertyName
  <2>. QED
    BY <2>1 DEF TryParseLogLevel, Parse, ParseStep, AfterName, Names
<1>. QED
  BY <1>1, <1>2

-----------------------------------------------------------------------------
(* Bodies that were cut off. *)

\* Body p is the beginning of body s.
Begins(p, s) ==
  /\ p \in Seq(Tokens) /\ s \in Seq(Tokens)
  /\ Len(p) <= Len(s)
  /\ \A k \in 1..Len(p) : p[k] = s[k]

\* A closing quote found in the beginning is the one of the whole body.
LEMMA ClosingQuotePrefix ==
  ASSUME NEW p, NEW s, Begins(p, s), NEW i \in 1..Len(p) + 2, ClosingQuote(p, i) # 0
  PROVE  ClosingQuote(s, i) = ClosingQuote(p, i)
<1> DEFINE Q(j) == ClosingQuote(p, j) # 0 => ClosingQuote(s, j) = ClosingQuote(p, j)
           S == {j \in 1..Len(p) + 2 : Q(j)}
<1>0. /\ Len(p) \in Nat /\ Len(p) + 2 \in Nat /\ Len(s) \in Nat /\ Len(p) <= Len(s)
      /\ p \in Seq(Tokens) /\ s \in Seq(Tokens)
  BY DEF Begins
<1>1. ASSUME NEW j \in 1..Len(p) + 2, \A k \in j + 1..Len(p) + 2 : k \in S PROVE j \in S
  <2>1. CASE j > Len(p)
    BY <2>1, <1>0, ClosingQuoteStep
  <2>2. CASE j <= Len(p)
    <3>1. Q(j + 1) /\ Q(j + 2)
      <4>1. j + 1 \in j + 1..Len(p) + 2 /\ j + 2 \in j + 1..Len(p) + 2
        BY <2>2, <1>0
      <4>. QED
        BY <1>1, <4>1
    <3>2. ClosingQuote(p, j) = IF p[j] = "backslash" THEN ClosingQuote(p, j + 2)
                               ELSE IF p[j] = "quote" THEN j ELSE ClosingQuote(p, j + 1)
      BY <2>2, <1>0, ClosingQuoteStep
    <3>3. ClosingQuote(s, j) = IF s[j] = "backslash" THEN ClosingQuote(s, j + 2)
                               ELSE IF s[j] = "quote" THEN j ELSE ClosingQuote(s, j + 1)
      BY <2>2, <1>0, ClosingQuoteStep
    <3>4. p[j] = s[j]
      BY <2>2, <1>0 DEF Begins
    <3>5. Q(j)
      BY <3>1, <3>2, <3>3, <3>4
    <3>. QED
      BY <3>5
  <2>. QED
    BY <2>1, <2>2, <1>0
<1> HIDE DEF Q
<1>2. S = 1..Len(p) + 2
  <2>1. S \subseteq 1..Len(p) + 2
    OBVIOUS
  <2> HIDE DEF S
  <2>. QED
    BY <1>0, <1>1, <2>1, Descent
<1>3. Q(i)
  BY <1>2
<1>. QED
  BY <1>3 DEF Q

\* So is the end of white space,
LEMMA SkipWhitespacePrefix ==
  ASSUME NEW p, NEW s, Begins(p, s), NEW i \in 1..Len(p) + 1, SkipWhitespace(p, i) <= Len(p)
  PROVE  SkipWhitespace(s, i) = SkipWhitespace(p, i)
<1>0. /\ Len(p) \in Nat /\ Len(s) \in Nat /\ Len(p) <= Len(s)
      /\ p \in Seq(Tokens) /\ s \in Seq(Tokens)
  BY DEF Begins
<1> DEFINE j == SkipWhitespace(p, i)
<1>1. j \in i..Len(p) + 1 /\ j <= Len(p) /\ p[j] # "blank" /\ \A k \in i..j - 1 : p[k] = "blank"
  BY <1>0, SkipWhitespaceRange
<1> HIDE DEF j
<1>2. i \in 1..Len(s) + 1 /\ j \in i..Len(s) + 1 /\ s[j] # "blank"
  BY <1>0, <1>1 DEF Begins
<1>3. \A k \in i..j - 1 : s[k] = "blank"
  BY <1>0, <1>1 DEF Begins
<1>4. SkipWhitespace(s, i) = j
  BY <1>0, <1>2, <1>3, SkipWhitespaceTo
<1>. QED
  BY <1>4 DEF j

\* a string value,
LEMMA StringAtPrefix ==
  ASSUME NEW p, NEW s, Begins(p, s), NEW i \in 1..Len(p) + 1
  PROVE  StringAt(p, i) \subseteq StringAt(s, i)
<1>0. /\ Len(p) \in Nat /\ Len(s) \in Nat /\ Len(p) <= Len(s)
      /\ p \in Seq(Tokens) /\ s \in Seq(Tokens)
  BY DEF Begins
<1>a. CASE i > Len(p) \/ p[i] # "quote" \/ ClosingQuote(p, i + 1) = 0
  <2>1. StringAt(p, i) = {}
    BY <1>a DEF StringAt
  <2>. QED
    BY <2>1
<1>b. ~ (i > Len(p)) => i <= Len(p)
  BY <1>0
<1> SUFFICES ASSUME i <= Len(p), p[i] = "quote", ClosingQuote(p, i + 1) # 0
             PROVE  StringAt(p, i) = StringAt(s, i)
  BY <1>a, <1>b
<1>1. i + 1 \in 1..Len(p) + 2
  BY <1>0
<1> DEFINE e == ClosingQuote(p, i + 1)
<1>2. ClosingQuote(s, i + 1) = e
  BY <1>1, ClosingQuotePrefix
<1>3. e \in i + 1..Len(p) /\ e # 0
  BY <1>0, <1>1, ClosingQuoteRange
<1>4. SubSeq(p, i + 1, e - 1) = SubSeq(s, i + 1, e - 1)
  <2> HIDE DEF e
  <2>1. /\ i + 1 \in 1..Len(p) + 1 /\ e - 1 \in (i + 1) - 1..Len(p)
        /\ i + 1 \in 1..Len(s) + 1 /\ e - 1 \in (i + 1) - 1..Len(s)
    BY <1>0, <1>3
  <2>2. \A k \in i + 1..e - 1 : p[k] = s[k]
    BY <1>0, <1>3 DEF Begins
  <2>. QED
    BY <1>0, <1>3, <2>1, <2>2
<1>5. i <= Len(s) /\ s[i] = "quote"
  BY <1>0 DEF Begins
<1>6. ~ (i > Len(p)) /\ ~ (i > Len(s))
  BY <1>0, <1>5
<1>7. StringAt(p, i) = {SubSeq(p, i + 1, e - 1)}
  BY <1>3, <1>6 DEF StringAt
<1>8. StringAt(s, i) = {SubSeq(s, i + 1, e - 1)}
  BY <1>2, <1>3, <1>5, <1>6 DEF StringAt
<1>. QED
  BY <1>4, <1>7, <1>8

\* and what is found from any position on.
LEMMA ParsePrefix ==
  ASSUME NEW p, NEW s, Begins(p, s), NEW i \in 1..Len(p) + 1
  PROVE  Parse(p)[i] \subseteq Parse(s)[i]
<1> DEFINE Q(j) == Parse(p)[j] \subseteq Parse(s)[j]
           S == {j \in 1..Len(p) + 1 : Q(j)}
<1>0. /\ Len(p) \in Nat /\ Len(p) + 1 \in Nat /\ Len(s) \in Nat /\ Len(p) <= Len(s)
      /\ p \in Seq(Tokens) /\ s \in Seq(Tokens)
  BY DEF Begins
<1>1. ASSUME NEW j \in 1..Len(p) + 1, \A k \in j + 1..Len(p) + 1 : k \in S PROVE j \in S
  <2>0. Parse(p)[j] = ParseStep(p, Parse(p), j) /\ Parse(s)[j] = ParseStep(s, Parse(s), j) /\ j \in 1..Len(s) + 1
    BY <1>0, ParseUnfold
  <2>1. CASE Names(p, j) = {}
    BY <2>0, <2>1 DEF ParseStep
  <2>2. CASE Names(p, j) # {}
    <3> DEFINE k == Min(Names(p, j))
    <3>1. k \in Names(p, j) /\ (\A l \in Names(p, j) : k <= l) /\ k \in j..Len(p) - 2
      BY <2>2, <1>0, FirstName
    <3>2. \A l \in j..Len(p) - 2 : NameAt(p, l) <=> NameAt(s, l)
      <4> SUFFICES ASSUME NEW l \in j..Len(p) - 2 PROVE NameAt(p, l) <=> NameAt(s, l)
        OBVIOUS
      <4>1. SubSeq(p, l, l + 2) = SubSeq(s, l, l + 2)
        BY <1>0 DEF Begins
      <4>. QED
        BY <4>1, <1>0 DEF NameAt
    <3>3. k \in Names(s, j) /\ \A l \in Names(s, j) : k <= l
      <4> HIDE DEF k
      <4>1. k \in Names(s, j)
        BY <1>0, <3>1, <3>2 DEF Names
      <4>2. ASSUME NEW l \in Names(s, j), l < k PROVE FALSE
        <5>1. l \in j..Len(p) - 2
          BY <1>0, <3>1, <4>2 DEF Names
        <5>2. l \in Names(p, j)
          BY <1>0, <3>2, <4>2, <5>1 DEF Names
        <5>. QED
          BY <3>1, <4>2, <5>1, <5>2
      <4>3. \A l \in Names(s, j) : l \in Int
        BY <1>0 DEF Names
      <4>. QED
        BY <3>1, <4>1, <4>2, <4>3
    <3>4. Min(Names(s, j)) = k
      <4> HIDE DEF k
      <4>1. Min(Names(s, j)) \in Names(s, j) /\ Min(Names(s, j)) <= k /\ Min(Names(s, j)) \in Int
        BY <3>3, <2>0, <1>0, FirstName
      <4>2. k <= Min(Names(s, j)) /\ k \in Int
        BY <3>3, <4>1, <3>1
      <4>. QED
        BY <4>1, <4>2
    <3>5. Parse(p)[j] = AfterName(p, Parse(p), k) /\ Parse(s)[j] = AfterName(s, Parse(s), k)
      BY <2>0, <2>2, <3>3, <3>4 DEF ParseStep
    <3> HIDE DEF k
    <3>6. k + 3 \in j + 1..Len(p) + 1 /\ k + 3 \in 1..Len(p) + 1
      BY <1>0, <3>1
    <3> DEFINE colon == SkipWhitespace(p, k + 3)
    <3>7. colon \in k + 3..Len(p) + 1
      BY <1>0, <3>6, SkipWhitespaceRange
    <3>8. CASE colon > Len(p)
      BY <3>8, <3>5 DEF AfterName
    <3>9. CASE colon <= Len(p)
      <4>1. SkipWhitespace(s, k + 3) = colon
        BY <3>6, <3>9, SkipWhitespacePrefix
      <4> HIDE DEF colon
      <4>2. p[colon] = s[colon] /\ ~ (colon > Len(p)) /\ ~ (colon > Len(s)) /\ colon + 1 \in 1..Len(p) + 1
        BY <1>0, <3>1, <3>7, <3>9 DEF Begins
      <4>3. CASE p[colon] # "colon"
        <5>1. Parse(p)[j] = Parse(p)[k + 3] /\ Parse(s)[j] = Parse(s)[k + 3]
          BY <3>5, <4>1, <4>2, <4>3 DEF AfterName, colon
        <5>2. Q(k + 3)
          BY <1>1, <3>6
        <5>. QED
          BY <5>1, <5>2
      <4>4. CASE p[colon] = "colon"
        <5> DEFINE v == SkipWhitespace(p, colon + 1)
        <5>1. Parse(p)[j] = StringAt(p, v) /\ Parse(s)[j] = StringAt(s, SkipWhitespace(s, colon + 1))
          BY <3>5, <4>1, <4>2, <4>4 DEF AfterName, colon
        <5>2. v \in 1..Len(p) + 1
          <6>1. v \in colon + 1..Len(p) + 1
            BY <1>0, <4>2, SkipWhitespaceRange
          <6> HIDE DEF v
          <6>. QED
            BY <1>0, <4>2, <6>1
        <5>3. CASE v <= Len(p)
          <6>1. SkipWhitespace(s, colon + 1) = v
            BY <4>2, <5>3, SkipWhitespacePrefix
          <6> HIDE DEF v
          <6>. QED
            BY <5>1, <5>2, <6>1, StringAtPrefix
        <5>4. CASE v > Len(p)
          <6>1. StringAt(p, v) = {}
            BY <5>4 DEF StringAt
          <6>. QED
            BY <5>1, <6>1
        <5>. QED
          BY <5>2, <5>3, <5>4, <1>0
      <4>. QED
        BY <4>3, <4>4
    <3>. QED
      BY <3>7, <3>8, <3>9, <1>0
  <2>. QED
    BY <2>1, <2>2
<1> HIDE DEF Q
<1>2. S = 1..Len(p) + 1
  <2>1. S \subseteq 1..Len(p) + 1
    OBVIOUS
  <2> HIDE DEF S
  <2>. QED
    BY <1>0, <1>1, <2>1, Descent
<1>3. Q(i)
  BY <1>2
<1>. QED
  BY <1>3 DEF Q

\* A body cut off anywhere never makes the parser find a level that it does not
\* find in the whole body: TryParseLogLevel answers with a value only after its
\* closing quote.
THEOREM CutBody ==
  ASSUME NEW s \in Seq(Tokens), NEW cut \in 0..Len(s)
  PROVE  TryParseLogLevel(SubSeq(s, 1, cut)) \subseteq TryParseLogLevel(s)
<1> DEFINE p == SubSeq(s, 1, cut)
<1>1. p \in Seq(Tokens) /\ Len(p) = cut /\ \A k \in 1..cut : p[k] = s[k]
  OBVIOUS
<1>2. Begins(p, s) /\ 1 \in 1..Len(p) + 1
  BY <1>1 DEF Begins
<1> HIDE DEF p
<1>3. Parse(p)[1] \subseteq Parse(s)[1]
  BY <1>2, ParsePrefix
<1>4. TryParseLogLevel(p) \subseteq TryParseLogLevel(s)
  BY <1>1, <1>3, ParseUnfold
<1>. QED
  BY <1>4 DEF p

-----------------------------------------------------------------------------
(* Documents. The parser is followed through the body member by member. *)

\* The text u stands at position a of body s.
At(s, a, u) ==
  /\ s \in Seq(Tokens) /\ u \in Seq(Tokens)
  /\ a \in 1..Len(s) + 1
  /\ a + Len(u) <= Len(s) + 1
  /\ \A k \in 1..Len(u) : s[a + k - 1] = u[k]

\* A concatenation stands where its two parts stand.
LEMMA AtConcat ==
  ASSUME NEW s, NEW a, NEW u \in Seq(Tokens), NEW v \in Seq(Tokens), At(s, a, u \o v)
  PROVE  At(s, a, u) /\ At(s, a + Len(u), v)
<1>0. /\ s \in Seq(Tokens) /\ Len(s) \in Nat /\ Len(u) \in Nat /\ Len(v) \in Nat
      /\ Len(u \o v) = Len(u) + Len(v) /\ a \in 1..Len(s) + 1
      /\ a + Len(u \o v) <= Len(s) + 1
  BY DEF At
<1>1. ASSUME NEW k \in 1..Len(u) PROVE s[a + k - 1] = u[k]
  <2>1. k \in 1..Len(u \o v) /\ (u \o v)[k] = u[k]
    BY <1>0
  <2>. QED
    BY <2>1 DEF At
<1>2. ASSUME NEW k \in 1..Len(v) PROVE s[(a + Len(u)) + k - 1] = v[k]
  <2>1. Len(u) + k \in 1..Len(u \o v) /\ (u \o v)[Len(u) + k] = v[k]
    BY <1>0
  <2>2. s[a + (Len(u) + k) - 1] = v[k]
    BY <2>1 DEF At
  <2>3. a + (Len(u) + k) - 1 = (a + Len(u)) + k - 1
    BY <1>0
  <2>. QED
    BY <2>2, <2>3
<1>3. a + Len(u) \in 1..Len(s) + 1 /\ a + Len(u) <= Len(s) + 1 /\ (a + Len(u)) + Len(v) <= Len(s) + 1
  BY <1>0
<1>. QED
  BY <1>0, <1>1, <1>2, <1>3 DEF At

\* NameAt, token by token.
LEMMA NameAtTokens ==
  ASSUME NEW s \in Seq(Tokens), NEW k \in 1..Len(s) + 1
  PROVE  NameAt(s, k) <=> /\ k + 2 <= Len(s)
                          /\ s[k] = "quote" /\ s[k + 1] = "log_level" /\ s[k + 2] = "quote"
<1>0. Len(s) \in Nat
  OBVIOUS
<1>1. CASE ~ (k + 2 <= Len(s))
  BY <1>1 DEF NameAt
<1>2. CASE k + 2 <= Len(s)
  <2> DEFINE u == SubSeq(s, k, k + 2)
  <2>1. u \in Seq(Tokens) /\ Len(u) = 3 /\ u[1] = s[k] /\ u[2] = s[k + 1] /\ u[3] = s[k + 2]
    <3>1. u \in Seq(Tokens)
      BY <1>0, <1>2
    <3>2. Len(u) = 3
      BY <1>0, <1>2
    <3>3. \A j \in 1..3 : u[j] = s[k + j - 1]
      BY <1>0, <1>2
    <3>4. k + 1 - 1 = k /\ k + 2 - 1 = k + 1 /\ k + 3 - 1 = k + 2
      BY <1>0
    <3> HIDE DEF u
    <3>. QED
      BY <3>1, <3>2, <3>3, <3>4
  <2>2. /\ LogLevelPropertyName \in Seq(Tokens) /\ Len(LogLevelPropertyName) = 3
        /\ LogLevelPropertyName[1] = "quote" /\ LogLevelPropertyName[2] = "log_level"
        /\ LogLevelPropertyName[3] = "quote"
    <3>1. LogLevelPropertyName \in Seq(Tokens)
      BY DEF LogLevelPropertyName, Tokens
    <3>2. Len(LogLevelPropertyName) = 3
      BY DEF LogLevelPropertyName
    <3>3. /\ LogLevelPropertyName[1] = "quote" /\ LogLevelPropertyName[2] = "log_level"
          /\ LogLevelPropertyName[3] = "quote"
      BY DEF LogLevelPropertyName
    <3>. QED
      BY <3>1, <3>2, <3>3
  <2> HIDE DEF u
  <2>3. u = LogLevelPropertyName <=> u[1] = "quote" /\ u[2] = "log_level" /\ u[3] = "quote"
    <3>1. ASSUME u[1] = "quote", u[2] = "log_level", u[3] = "quote" PROVE u = LogLevelPropertyName
      <4>1. \A j \in 1..3 : u[j] = LogLevelPropertyName[j]
        BY <2>2, <3>1
      <4>. QED
        BY <2>1, <2>2, <4>1
    <3>. QED
      BY <2>2, <3>1
  <2>. QED
    BY <1>2, <2>1, <2>3 DEF NameAt, u
<1>. QED
  BY <1>1, <1>2

\* Nothing happens on the way to the next position where the name stands.
LEMMA ParseSkip ==
  ASSUME NEW s \in Seq(Tokens), NEW i \in 1..Len(s) + 1, NEW j \in i..Len(s) + 1,
         \A k \in i..j - 1 : ~ NameAt(s, k)
  PROVE  Parse(s)[i] = Parse(s)[j]
<1>0. Len(s) \in Nat /\ j \in 1..Len(s) + 1
  OBVIOUS
<1>1. Names(s, i) = Names(s, j)
  BY <1>0 DEF Names
<1>2. Parse(s)[i] = ParseStep(s, Parse(s), i) /\ Parse(s)[j] = ParseStep(s, Parse(s), j)
  BY <1>0, ParseUnfold
<1>. QED
  BY <1>1, <1>2 DEF ParseStep

\* Where the name stands, what follows it decides.
LEMMA ParseName ==
  ASSUME NEW s \in Seq(Tokens), NEW k \in 1..Len(s), NameAt(s, k)
  PROVE  Parse(s)[k] = AfterName(s, Parse(s), k)
<1>0. Len(s) \in Nat /\ k \in 1..Len(s) + 1
  OBVIOUS
<1>1. k \in Names(s, k)
  BY <1>0 DEF Names
<1>2. Min(Names(s, k)) <= k /\ Min(Names(s, k)) \in k..Len(s) - 2
  BY <1>0, <1>1, FirstName
<1>3. Min(Names(s, k)) = k
  BY <1>0, <1>2
<1>4. Parse(s)[k] = ParseStep(s, Parse(s), k)
  BY <1>0, ParseUnfold
<1>. QED
  BY <1>1, <1>3, <1>4 DEF ParseStep

\* The tokens of a rendered string.
LEMMA StringTokens ==
  ASSUME NEW s, NEW a, NEW t \in Seq(Tokens), At(s, a, RenderString(t))
  PROVE  /\ a + Len(t) + 2 <= Len(s) + 1
         /\ s[a] = "quote" /\ s[a + Len(t) + 1] = "quote"
         /\ \A k \in 1..Len(t) : s[a + k] = t[k]
<1> DEFINE u == RenderString(t)
<1>0. <<"quote">> \in Seq(Tokens) /\ Len(<<"quote">>) = 1 /\ Len(t) \in Nat
  BY DEF Tokens
<1>1. u \in Seq(Tokens) /\ Len(u) = Len(t) + 2
  BY <1>0 DEF RenderString
<1>2. u[1] = "quote" /\ u[Len(t) + 2] = "quote" /\ \A k \in 1..Len(t) : u[k + 1] = t[k]
  BY <1>0 DEF RenderString
<1>3. s \in Seq(Tokens) /\ Len(s) \in Nat /\ a \in 1..Len(s) + 1
  BY DEF At
<1> HIDE DEF u
<1>4. At(s, a, u)
  BY DEF u
<1>5. a + Len(t) + 2 <= Len(s) + 1
  BY <1>0, <1>1, <1>3, <1>4 DEF At
<1>6. s[a] = "quote" /\ s[a + Len(t) + 1] = "quote"
  <2>1. 1 \in 1..Len(u) /\ Len(t) + 2 \in 1..Len(u)
    BY <1>0, <1>1
  <2>2. s[a + 1 - 1] = u[1] /\ s[a + (Len(t) + 2) - 1] = u[Len(t) + 2]
    BY <1>4, <2>1 DEF At
  <2>3. a + 1 - 1 = a /\ a + (Len(t) + 2) - 1 = a + Len(t) + 1
    BY <1>0, <1>3
  <2>. QED
    BY <1>2, <2>2, <2>3
<1>7. ASSUME NEW k \in 1..Len(t) PROVE s[a + k] = t[k]
  <2>1. k + 1 \in 1..Len(u)
    BY <1>0, <1>1
  <2>2. s[a + (k + 1) - 1] = u[k + 1]
    BY <1>4, <2>1 DEF At
  <2>3. a + (k + 1) - 1 = a + k
    BY <1>0, <1>3
  <2>. QED
    BY <1>2, <2>2, <2>3
<1>. QED
  BY <1>5, <1>6, <1>7

\* Inside a rendered string the name can only stand at the end of it.
LEMMA NamesInString ==
  ASSUME NEW s, NEW a, NEW t \in Seq(Tokens), At(s, a, RenderString(t)), IsText(t),
         a + Len(t) + 2 <= Len(s), s[a + Len(t) + 2] # "log_level",
         NEW k \in a..a + Len(t) + 1, NameAt(s, k)
  PROVE  k = a + Len(t) - 1 /\ (t = <<"log_level">> \/ EndsLikeName(t))
<1>0. s \in Seq(Tokens) /\ Len(s) \in Nat /\ a \in 1..Len(s) + 1 /\ Len(t) \in Nat /\ k \in 1..Len(s) + 1
  BY DEF At
<1>1. k + 2 <= Len(s) /\ s[k] = "quote" /\ s[k + 1] = "log_level" /\ s[k + 2] = "quote"
  BY <1>0, NameAtTokens
<1>2. /\ s[a] = "quote" /\ s[a + Len(t) + 1] = "quote"
      /\ \A i \in 1..Len(t) : s[a + i] = t[i]
  BY StringTokens
<1>3. PICK escaped \in SUBSET (2..Len(t)) :
         \A i \in 1..Len(t) : /\ i + 1 \in escaped <=> (t[i] = "backslash" /\ i \notin escaped)
                              /\ t[i] = "quote" => i \in escaped
  BY DEF IsText
<1>4. k # a + Len(t) + 1
  BY <1>0, <1>1
<1>5. k # a + Len(t)
  BY <1>0, <1>1, <1>2
<1> DEFINE i == (k + 1) - a
<1>6. i \in 1..Len(t) /\ a + i = k + 1 /\ t[i] = "log_level"
  <2>1. k \in Int /\ a \in Int /\ k >= a /\ k <= a + Len(t) + 1
    BY <1>0
  <2>2. i \in 1..Len(t) /\ a + i = k + 1
    BY <1>0, <1>4, <1>5, <2>1
  <2> HIDE DEF i
  <2>. QED
    BY <1>1, <1>2, <2>2
<1> HIDE DEF i
<1>7. i = Len(t)
  <2>1. SUFFICES ASSUME i # Len(t) PROVE FALSE
    OBVIOUS
  <2>2. i + 1 \in 1..Len(t) /\ a + (i + 1) = k + 2
    BY <1>0, <1>6, <2>1
  <2>3. t[i + 1] = "quote"
    BY <1>1, <1>2, <2>2
  <2>4. i + 1 \in escaped
    BY <1>3, <2>2, <2>3
  <2>5. t[i] = "backslash"
    BY <1>3, <1>6, <2>4
  <2>. QED
    BY <1>6, <2>5
<1>8. k = a + Len(t) - 1
  BY <1>0, <1>6, <1>7
<1>9. CASE Len(t) = 1
  <2>1. t[1] = "log_level"
    BY <1>6, <1>7, <1>9
  <2>2. t = <<"log_level">>
    BY <1>9, <2>1
  <2>. QED
    BY <1>8, <2>2
<1>10. CASE Len(t) # 1
  <2>1. Len(t) > 1 /\ Len(t) - 1 \in 1..Len(t) /\ a + (Len(t) - 1) = k
    BY <1>0, <1>6, <1>7, <1>8, <1>10
  <2>2. t[Len(t) - 1] = "quote"
    BY <1>1, <1>2, <2>1
  <2>. QED
    BY <1>6, <1>7, <1>8, <2>1, <2>2 DEF EndsLikeName
<1>. QED
  BY <1>9, <1>10

\* A key other than the name is passed over.
LEMMA ParseKey ==
  ASSUME NEW s, NEW a, NEW t \in Seq(Tokens), At(s, a, RenderString(t)), IsText(t),
         a + Len(t) + 2 <= Len(s), s[a + Len(t) + 2] # "log_level",
         t # <<"log_level">>, ~ EndsLikeName(t)
  PROVE  Parse(s)[a] = Parse(s)[a + Len(t) + 2]
<1>0. s \in Seq(Tokens) /\ Len(s) \in Nat /\ a \in 1..Len(s) + 1 /\ Len(t) \in Nat
  BY DEF At
<1>1. \A k \in a..a + Len(t) + 1 : ~ NameAt(s, k)
  BY NamesInString
<1>2. a + Len(t) + 2 \in a..Len(s) + 1 /\ (a + Len(t) + 2) - 1 = a + Len(t) + 1
  BY <1>0
<1>. QED
  BY <1>0, <1>1, <1>2, ParseSkip

\* So is a string value, which may be the name or end like it.
LEMMA ParseValue ==
  ASSUME NEW s, NEW a, NEW t \in Seq(Tokens), At(s, a, RenderString(t)), IsText(t),
         a + Len(t) + 2 <= Len(s), s[a + Len(t) + 2] \notin {"log_level", "blank", "colon"}
  PROVE  Parse(s)[a] = Parse(s)[a + Len(t) + 2]
<1>0. s \in Seq(Tokens) /\ Len(s) \in Nat /\ a \in 1..Len(s) + 1 /\ Len(t) \in Nat
  BY DEF At
<1> DEFINE b == a + Len(t) + 2
           k == a + Len(t) - 1
<1>1. b \in a..Len(s) + 1 /\ b \in 1..Len(s) + 1 /\ b <= Len(s) /\ b = k + 3 /\ k \in Int
  BY <1>0
<1>2. ASSUME NEW l \in a..b - 1, NameAt(s, l) PROVE l = k
  <2>1. s[a + Len(t) + 2] # "log_level"
    OBVIOUS
  <2>2. l \in a..a + Len(t) + 1
    BY <1>0
  <2>. QED
    BY <1>2, <2>1, <2>2, NamesInString
<1>3. s[b] \notin {"log_level", "blank", "colon"}
  OBVIOUS
<1> HIDE DEF b, k
<1>4. CASE k >= a /\ NameAt(s, k)
  <2>1. k \in a..Len(s) + 1 /\ k \in 1..Len(s)
    BY <1>0, <1>1, <1>4
  <2>2. \A l \in a..k - 1 : ~ NameAt(s, l)
    BY <1>0, <1>1, <1>2, <2>1
  <2>3. Parse(s)[a] = Parse(s)[k]
    BY <1>0, <2>1, <2>2, ParseSkip
  <2>4. Parse(s)[k] = AfterName(s, Parse(s), k)
    BY <1>0, <1>4, <2>1, ParseName
  <2>5. SkipWhitespace(s, b) = b
    <3>1. \A l \in b..b - 1 : s[l] = "blank"
      BY <1>0, <1>1
    <3>2. b \in b..Len(s) + 1
      BY <1>0, <1>1
    <3>. QED
      BY <1>0, <1>1, <1>3, <3>1, <3>2, SkipWhitespaceTo
  <2>6. ~ (b > Len(s))
    BY <1>0, <1>1
  <2>7. AfterName(s, Parse(s), k) = Parse(s)[b]
    BY <1>1, <1>3, <2>5, <2>6 DEF AfterName
  <2>. QED
    BY <2>3, <2>4, <2>7 DEF b
<1>5. CASE ~ (k >= a /\ NameAt(s, k))
  <2>1. \A l \in a..b - 1 : ~ NameAt(s, l)
    BY <1>0, <1>1, <1>2, <1>5
  <2>. QED
    BY <1>0, <1>1, <2>1, ParseSkip DEF b
<1>. QED
  BY <1>4, <1>5

\* Passing over tokens among which there is no quote.
LEMMA ParsePlain ==
  ASSUME NEW s \in Seq(Tokens), NEW i \in 1..Len(s) + 1, NEW j \in i..Len(s) + 1,
         \A k \in i..j - 1 : s[k] # "quote"
  PROVE  Parse(s)[i] = Parse(s)[j]
<1>0. Len(s) \in Nat
  OBVIOUS
<1>1. ASSUME NEW k \in i..j - 1 PROVE ~ NameAt(s, k)
  <2>1. k \in 1..Len(s) + 1
    BY <1>0
  <2>. QED
    BY <2>1, NameAtTokens
<1>. QED
  BY <1>1, ParseSkip

\* ClosingQuote finds the end of a rendered string, whatever is escaped in it.
LEMMA ClosingQuoteOfText ==
  ASSUME NEW s, NEW a, NEW t \in Seq(Tokens), At(s, a, RenderString(t)), IsText(t)
  PROVE  ClosingQuote(s, a + 1) = a + Len(t) + 1
<1>0. s \in Seq(Tokens) /\ Len(s) \in Nat /\ a \in 1..Len(s) + 1 /\ Len(t) \in Nat /\ Len(t) + 1 \in Nat
  BY DEF At
<1>1. /\ a + Len(t) + 2 <= Len(s) + 1
      /\ s[a + Len(t) + 1] = "quote"
      /\ \A i \in 1..Len(t) : s[a + i] = t[i]
  BY StringTokens
<1>2. PICK escaped \in SUBSET (2..Len(t)) :
         \A i \in 1..Len(t) : /\ i + 1 \in escaped <=> (t[i] = "backslash" /\ i \notin escaped)
                              /\ t[i] = "quote" => i \in escaped
  BY DEF IsText
<1> DEFINE Q(i) == i \notin escaped => ClosingQuote(s, a + i) = a + Len(t) + 1
           S == {i \in 1..Len(t) + 1 : Q(i)}
<1>3. ASSUME NEW i \in 1..Len(t) + 1, \A j \in i + 1..Len(t) + 1 : j \in S PROVE i \in S
  <2> SUFFICES ASSUME i \notin escaped PROVE ClosingQuote(s, a + i) = a + Len(t) + 1
    OBVIOUS
  <2>1. a + i \in 1..Len(s) + 2 /\ ~ (a + i > Len(s))
    BY <1>0, <1>1
  <2>2. ClosingQuote(s, a + i) = IF s[a + i] = "backslash" THEN ClosingQuote(s, (a + i) + 2)
                                 ELSE IF s[a + i] = "quote" THEN a + i
                                 ELSE ClosingQuote(s, (a + i) + 1)
    BY <1>0, <2>1, ClosingQuoteStep
  <2>3. CASE i = Len(t) + 1
    <3>1. a + i = a + Len(t) + 1
      BY <1>0, <2>3
    <3>. QED
      BY <1>1, <2>2, <3>1
  <2>4. CASE i # Len(t) + 1
    <3>0. i \in 1..Len(t) /\ s[a + i] = t[i] /\ i + 1 \in i + 1..Len(t) + 1
      BY <1>0, <1>1, <2>4
    <3>1. t[i] # "quote"
      BY <1>2, <3>0
    <3>2. CASE t[i] = "backslash"
      <4>1. i + 1 \in escaped /\ i + 1 \in 1..Len(t)
        BY <1>2, <3>0, <3>2
      <4>2. (i + 1) + 1 \notin escaped
        BY <1>2, <4>1
      <4>3. i + 2 \in i + 1..Len(t) + 1 /\ (i + 1) + 1 = i + 2 /\ a + (i + 2) = (a + i) + 2
        BY <1>0, <4>1
      <4>4. Q(i + 2)
        BY <1>3, <4>3
      <4>. QED
        BY <2>2, <3>0, <3>2, <4>2, <4>3, <4>4
    <3>3. CASE t[i] # "backslash"
      <4>1. i + 1 \notin escaped
        BY <1>2, <3>0, <3>3
      <4>2. a + (i + 1) = (a + i) + 1
        BY <1>0
      <4>3. Q(i + 1)
        BY <1>3, <3>0
      <4>. QED
        BY <2>2, <3>0, <3>1, <3>3, <4>1, <4>2, <4>3
    <3>. QED
      BY <3>2, <3>3
  <2>. QED
    BY <2>3, <2>4
<1> HIDE DEF Q
<1>4. S = 1..Len(t) + 1
  <2>1. S \subseteq 1..Len(t) + 1
    OBVIOUS
  <2> HIDE DEF S
  <2>. QED
    BY <1>0, <1>3, <2>1, Descent
<1>5. Q(1) /\ 1 \notin escaped
  BY <1>0, <1>4
<1>. QED
  BY <1>5 DEF Q

\* The string value read is the text that was rendered.
LEMMA StringAtText ==
  ASSUME NEW s, NEW a, NEW t \in Seq(Tokens), At(s, a, RenderString(t)), IsText(t)
  PROVE  StringAt(s, a) = {t}
<1>0. s \in Seq(Tokens) /\ Len(s) \in Nat /\ a \in 1..Len(s) + 1 /\ Len(t) \in Nat
  BY DEF At
<1>1. /\ a + Len(t) + 2 <= Len(s) + 1
      /\ s[a] = "quote"
      /\ \A i \in 1..Len(t) : s[a + i] = t[i]
  BY StringTokens
<1>2. ClosingQuote(s, a + 1) = a + Len(t) + 1 /\ a + Len(t) + 1 # 0 /\ ~ (a > Len(s))
  BY <1>0, <1>1, ClosingQuoteOfText
<1>3. StringAt(s, a) = {SubSeq(s, a + 1, (a + Len(t) + 1) - 1)}
  BY <1>1, <1>2 DEF StringAt
<1>4. SubSeq(s, a + 1, (a + Len(t) + 1) - 1) = t
  <2> DEFINE u == SubSeq(s, a + 1, (a + Len(t) + 1) - 1)
  <2>1. u \in Seq(Tokens) /\ Len(u) = Len(t)
    BY <1>0, <1>1
  <2>2. ASSUME NEW i \in 1..Len(t) PROVE u[i] = t[i]
    <3>1. u[i] = s[(a + 1) + i - 1]
      BY <1>0, <1>1
    <3>2. (a + 1) + i - 1 = a + i
      BY <1>0
    <3>. QED
      BY <1>1, <3>1, <3>2
  <2> HIDE DEF u
  <2>3. u = t
    BY <2>1, <2>2
  <2>. QED
    BY <2>3 DEF u
<1>. QED
  BY <1>3, <1>4

\* A member stands between positions a and e: key, blanks, colon, blanks, value
\* and then nothing but closing braces and commas.
MemberAt(s, a, e, m, n) ==
  LET colon == a + Len(m.key) + 2 + n
      val   == colon + 1 + n
      end   == val + Len(RenderValue(m.value))
  IN /\ At(s, a, RenderString(m.key))
     /\ \A k \in a + Len(m.key) + 2..colon - 1 : s[k] = "blank"
     /\ s[colon] = "colon"
     /\ \A k \in colon + 1..val - 1 : s[k] = "blank"
     /\ At(s, val, RenderValue(m.value))
     /\ end <= e
     /\ \A k \in end..e - 1 : s[k] \in {"close", "comma"}

\* Types and tokens of the parts of a member.
LEMMA RepeatSeq ==
  ASSUME NEW token \in Tokens, NEW n \in Nat
  PROVE  /\ Repeat(token, n) \in Seq(Tokens) /\ Len(Repeat(token, n)) = n
         /\ \A i \in 1..n : Repeat(token, n)[i] = token
BY DEF Repeat

\* What stands in a run of one token.
LEMMA AtRepeat ==
  ASSUME NEW s, NEW a, NEW token \in Tokens, NEW n \in Nat, At(s, a, Repeat(token, n))
  PROVE  \A k \in a..a + n - 1 : s[k] = token
<1>0. Len(s) \in Nat /\ a \in 1..Len(s) + 1
  BY DEF At
<1>1. ASSUME NEW k \in a..a + n - 1 PROVE s[k] = token
  <2>1. (k - a) + 1 \in 1..n /\ a + ((k - a) + 1) - 1 = k
    BY <1>0
  <2>2. s[a + ((k - a) + 1) - 1] = Repeat(token, n)[(k - a) + 1]
    BY <2>1, RepeatSeq DEF At
  <2>. QED
    BY <2>1, <2>2, RepeatSeq
<1>. QED
  BY <1>1

\* What stands in a single token.
LEMMA AtToken ==
  ASSUME NEW s, NEW a, NEW token \in Tokens, At(s, a, <<token>>)
  PROVE  a <= Len(s) /\ s[a] = token
<1>0. Len(s) \in Nat /\ a \in 1..Len(s) + 1 /\ Len(<<token>>) = 1 /\ a + Len(<<token>>) <= Len(s) + 1
  BY DEF At
<1>1. s[a + 1 - 1] = <<token>>[1]
  BY <1>0 DEF At
<1>2. a + 1 - 1 = a
  BY <1>0
<1>. QED
  BY <1>0, <1>1, <1>2

\* A rendered string is a sequence of tokens with two quotes around the text.
LEMMA RenderStringSeq ==
  ASSUME NEW t \in Seq(Tokens)
  PROVE  RenderString(t) \in Seq(Tokens) /\ Len(RenderString(t)) = Len(t) + 2
<1>0. <<"quote">> \in Seq(Tokens) /\ Len(<<"quote">>) = 1 /\ Len(t) \in Nat
  BY DEF Tokens
<1>. QED
  BY <1>0 DEF RenderString

\* A rendered value is a sequence of tokens, and not empty.
LEMMA RenderValueSeq ==
  ASSUME NEW v \in Values
  PROVE  /\ RenderValue(v) \in Seq(Tokens) /\ Len(RenderValue(v)) \in Nat
         /\ v.kind \in {"string", "object", "other"}
         /\ v.kind = "string" => v.text \in Seq(Tokens) /\ RenderValue(v) = RenderString(v.text)
         /\ v.kind # "string" => \E token \in {"open", "other"} : RenderValue(v) = <<token>>
<1>1. CASE v \in [kind : {"string"}, text : Seq(Tokens)]
  <2>1. v.kind = "string" /\ v.text \in Seq(Tokens)
    BY <1>1
  <2>2. RenderValue(v) = RenderString(v.text)
    BY <2>1 DEF RenderValue
  <2>. QED
    BY <2>1, <2>2, RenderStringSeq
<1>2. CASE v \in [kind : {"object", "other"}]
  <2>1. v.kind \in {"object", "other"}
    BY <1>2
  <2>2. v.kind # "string"
    BY <2>1
  <2>3. RenderValue(v) = <<"open">> \/ RenderValue(v) = <<"other">>
    BY <2>1 DEF RenderValue
  <2>4. <<"open">> \in Seq(Tokens) /\ <<"other">> \in Seq(Tokens)
    BY DEF Tokens
  <2>. QED
    BY <2>1, <2>2, <2>3, <2>4
<1>. QED
  BY <1>1, <1>2 DEF Values

\* Two sequences of tokens, one behind the other, are one.
LEMMA ConcatSeq ==
  ASSUME NEW u \in Seq(Tokens), NEW v \in Seq(Tokens)
  PROVE  u \o v \in Seq(Tokens) /\ Len(u \o v) = Len(u) + Len(v) /\ Len(u) \in Nat /\ Len(v) \in Nat
OBVIOUS

\* A rendered member is a sequence of tokens.
LEMMA MemberSeq ==
  ASSUME NEW m \in Members, NEW n \in Nat, NEW sep, sep \in {<< >>, <<"comma">>}
  PROVE  RenderMember(m, n) \o sep \in Seq(Tokens)
<1>0. m.key \in Seq(Tokens) /\ m.value \in Values /\ m.ends \in Nat
  BY DEF Members
<1>1. RenderString(m.key) \in Seq(Tokens) /\ RenderValue(m.value) \in Seq(Tokens)
  BY <1>0, RenderStringSeq, RenderValueSeq
<1>2. "blank" \in Tokens /\ "close" \in Tokens /\ <<"colon">> \in Seq(Tokens) /\ "comma" \in Tokens
  BY DEF Tokens
<1>3. Repeat("blank", n) \in Seq(Tokens) /\ Repeat("close", m.ends) \in Seq(Tokens)
  BY <1>0, <1>2, RepeatSeq
<1>4. RenderMember(m, n) \in Seq(Tokens)
  BY <1>1, <1>2, <1>3, ConcatSeq DEF RenderMember
<1>5. sep \in Seq(Tokens)
  <2>1. CASE sep = << >>
    BY <2>1
  <2>2. CASE sep = <<"comma">>
    BY <1>2, <2>2
  <2>. QED
    BY <2>1, <2>2
<1>. QED
  BY <1>4, <1>5, ConcatSeq

\* A rendered member stands in the body the way MemberAt says.
LEMMA MemberTokens ==
  ASSUME NEW s, NEW a, NEW m \in Members, NEW n \in Nat, NEW sep, sep \in {<< >>, <<"comma">>},
         At(s, a, RenderMember(m, n) \o sep)
  PROVE  MemberAt(s, a, a + Len(RenderMember(m, n) \o sep), m, n)
<1> DEFINE k  == RenderString(m.key)
           b  == Repeat("blank", n)
           c  == <<"colon">>
           v  == RenderValue(m.value)
           e  == Repeat("close", m.ends)
<1>0. m.key \in Seq(Tokens) /\ m.value \in Values /\ m.ends \in Nat
  BY DEF Members
<1>1. k \in Seq(Tokens) /\ Len(k) = Len(m.key) + 2 /\ Len(m.key) \in Nat
  BY <1>0, RenderStringSeq
<1>2. "blank" \in Tokens /\ "close" \in Tokens /\ "colon" \in Tokens /\ "comma" \in Tokens
  BY DEF Tokens
<1>3. b \in Seq(Tokens) /\ Len(b) = n /\ e \in Seq(Tokens) /\ Len(e) = m.ends
  BY <1>0, <1>2, RepeatSeq
<1>4. c \in Seq(Tokens) /\ Len(c) = 1
  BY <1>2
<1>5. v \in Seq(Tokens) /\ Len(v) \in Nat
  BY <1>0, RenderValueSeq
<1>6. sep \in Seq(Tokens) /\ (Len(sep) = 0 \/ (Len(sep) = 1 /\ sep = <<"comma">>))
  <2>1. CASE sep = << >>
    BY <2>1
  <2>2. CASE sep = <<"comma">>
    BY <1>2, <2>2
  <2>. QED
    BY <2>1, <2>2
<1>7. RenderMember(m, n) = k \o b \o c \o b \o v \o e
  BY DEF RenderMember
<1>8. s \in Seq(Tokens) /\ Len(s) \in Nat /\ a \in 1..Len(s) + 1
  BY DEF At
<1> DEFINE x1 == k \o b
           x2 == x1 \o c
           x3 == x2 \o b
           x4 == x3 \o v
           x5 == x4 \o e
<1>9. RenderMember(m, n) \o sep = x5 \o sep
  BY <1>7
<1> HIDE DEF k, b, c, v, e
<1>10. x1 \in Seq(Tokens) /\ Len(x1) = Len(k) + n
  BY <1>1, <1>3, ConcatSeq
<1> HIDE DEF x1
<1>11. x2 \in Seq(Tokens) /\ Len(x2) = Len(x1) + 1
  BY <1>10, <1>4, ConcatSeq
<1> HIDE DEF x2
<1>12. x3 \in Seq(Tokens) /\ Len(x3) = Len(x2) + n
  BY <1>11, <1>3, ConcatSeq
<1> HIDE DEF x3
<1>13. x4 \in Seq(Tokens) /\ Len(x4) = Len(x3) + Len(v)
  BY <1>12, <1>5, ConcatSeq
<1> HIDE DEF x4
<1>14. x5 \in Seq(Tokens) /\ Len(x5) = Len(x4) + m.ends
  BY <1>13, <1>3, ConcatSeq
<1> HIDE DEF x5
<1>15. x5 \o sep \in Seq(Tokens) /\ Len(x5 \o sep) = Len(x5) + Len(sep)
  BY <1>14, <1>6, ConcatSeq
<1>16. At(s, a, x5) /\ At(s, a + Len(x5), sep)
  BY <1>9, <1>6, <1>14, AtConcat
<1>17. At(s, a, x4) /\ At(s, a + Len(x4), e)
  BY <1>16, <1>13, <1>3, AtConcat DEF x5
<1>18. At(s, a, x3) /\ At(s, a + Len(x3), v)
  BY <1>17, <1>12, <1>5, AtConcat DEF x4
<1>19. At(s, a, x2) /\ At(s, a + Len(x2), b)
  BY <1>18, <1>11, <1>3, AtConcat DEF x3
<1>20. At(s, a, x1) /\ At(s, a + Len(x1), c)
  BY <1>19, <1>10, <1>4, AtConcat DEF x2
<1>21. At(s, a, k) /\ At(s, a + Len(k), b)
  BY <1>20, <1>1, <1>3, AtConcat DEF x1
<1> DEFINE colon == a + Len(m.key) + 2 + n
           val   == colon + 1 + n
           end   == val + Len(v)
           last  == a + Len(x5 \o sep)
<1>22. /\ a + Len(k) = a + Len(m.key) + 2 /\ a + Len(x1) = colon /\ a + Len(x2) = colon + 1
       /\ a + Len(x3) = val /\ a + Len(x4) = end /\ a + Len(x5) = end + m.ends
       /\ last = end + m.ends + Len(sep) /\ colon \in Nat /\ val \in Nat /\ end \in Nat /\ a \in Nat
  <2>1. a \in Nat /\ Len(sep) \in Nat /\ colon \in Nat
    BY <1>1, <1>6, <1>8
  <2>2. a + Len(k) = a + Len(m.key) + 2 /\ a + Len(x1) = colon
    BY <1>1, <1>10, <2>1
  <2>3. Len(x1) \in Nat /\ Len(x2) \in Nat /\ Len(x3) \in Nat /\ Len(x4) \in Nat /\ Len(x5) \in Nat
    BY <1>10, <1>11, <1>12, <1>13, <1>14
  <2> HIDE DEF colon
  <2>4. a + Len(x2) = colon + 1 /\ a + Len(x3) = val /\ val \in Nat
    BY <1>11, <1>12, <2>1, <2>2, <2>3
  <2> HIDE DEF val
  <2>5. a + Len(x4) = end /\ end \in Nat
    <3>1. end = val + Len(v)
      OBVIOUS
    <3> HIDE DEF end
    <3>2. Len(v) \in Nat /\ Len(x4) = Len(x3) + Len(v)
      BY <1>5, <1>13
    <3>. QED
      BY <2>1, <2>3, <2>4, <3>1, <3>2
  <2> HIDE DEF end
  <2>6. a + Len(x5) = end + m.ends
    BY <1>0, <1>14, <2>1, <2>3, <2>5
  <2>7. last = end + m.ends + Len(sep)
    BY <1>0, <1>15, <2>1, <2>3, <2>5, <2>6
  <2>. QED
    BY <2>1, <2>2, <2>4, <2>5, <2>6, <2>7
<1> HIDE DEF colon, val, end, last
<1>23. \A i \in a + Len(m.key) + 2..colon - 1 : s[i] = "blank"
  <2>1. \A i \in a + Len(k)..a + Len(k) + n - 1 : s[i] = "blank"
    BY <1>2, <1>21, AtRepeat DEF b
  <2>2. a + Len(k) + n - 1 = colon - 1
    BY <1>1, <1>22 DEF colon
  <2>. QED
    BY <1>22, <2>1, <2>2
<1>24. s[colon] = "colon"
  BY <1>2, <1>20, <1>22, AtToken DEF c
<1>25. \A i \in colon + 1..val - 1 : s[i] = "blank"
  <2>1. \A i \in a + Len(x2)..a + Len(x2) + n - 1 : s[i] = "blank"
    BY <1>2, <1>19, AtRepeat DEF b
  <2>2. a + Len(x2) + n - 1 = val - 1
    BY <1>22 DEF val
  <2>. QED
    BY <1>22, <2>1, <2>2
<1>26. \A i \in end..last - 1 : s[i] \in {"close", "comma"}
  <2>1. \A i \in end..end + m.ends - 1 : s[i] = "close"
    BY <1>0, <1>2, <1>17, <1>22, AtRepeat DEF e
  <2>2. Len(sep) = 1 => s[end + m.ends] = "comma"
    <3>1. ASSUME Len(sep) = 1 PROVE s[end + m.ends] = "comma"
      <4>1. sep = <<"comma">>
        BY <1>6, <3>1
      <4>. QED
        BY <1>2, <1>16, <1>22, <4>1, AtToken
    <3>. QED
      BY <3>1
  <2>3. ASSUME NEW i \in end..last - 1 PROVE s[i] \in {"close", "comma"}
    <3>0. i \in Int /\ i >= end /\ i <= (end + m.ends + Len(sep)) - 1
      BY <1>22
    <3>1. i \in end..end + m.ends - 1 \/ (Len(sep) = 1 /\ i = end + m.ends)
      <4>0. m.ends \in Nat /\ end \in Nat
        BY <1>0, <1>22
      <4>1. CASE Len(sep) = 0
        BY <3>0, <4>0, <4>1
      <4>2. CASE Len(sep) = 1
        <5>1. i <= end + m.ends
          BY <3>0, <4>0, <4>2
        <5>. QED
          BY <3>0, <4>0, <4>2, <5>1
      <4>. QED
        BY <1>6, <4>1, <4>2
    <3>. QED
      BY <2>1, <2>2, <3>1
  <2>. QED
    BY <2>3
<1>27. end <= last
  <2>1. Len(sep) \in Nat /\ m.ends \in Nat /\ end \in Nat /\ last = end + m.ends + Len(sep)
    BY <1>0, <1>6, <1>22
  <2>. QED
    BY <2>1
<1>28. At(s, a, RenderString(m.key)) /\ At(s, val, RenderValue(m.value))
  BY <1>18, <1>21, <1>22 DEF k, v
<1>29. MemberAt(s, a, last, m, n)
  BY <1>23, <1>24, <1>25, <1>26, <1>27, <1>28 DEF MemberAt, colon, val, end, v
<1>. QED
  BY <1>9, <1>29 DEF last

\* The level a value stands for.
ValueLevel(v) == IF v.kind = "string" THEN {v.text} ELSE {}

\* What IsDocument says of each member.
IsMember(m) ==
  /\ m \in Members
  /\ IsText(m.key) /\ ~ EndsLikeName(m.key)
  /\ m.value.kind = "string" => IsText(m.value.text)

\* The member called log_level answers the search, any other is passed over.
LEMMA ParseMember ==
  ASSUME NEW s, NEW a, NEW e, NEW m, NEW n \in Nat, IsMember(m), MemberAt(s, a, e, m, n),
         e \in 1..Len(s), s[e] \in {"quote", "close"}
  PROVE  Parse(s)[a] = IF m.key = <<"log_level">> THEN ValueLevel(m.value) ELSE Parse(s)[e]
<1> DEFINE b     == a + Len(m.key) + 2
           colon == b + n
           val   == colon + 1 + n
           end   == val + Len(RenderValue(m.value))
<1>0. m.key \in Seq(Tokens) /\ m.value \in Values /\ IsText(m.key) /\ ~ EndsLikeName(m.key)
  BY DEF IsMember, Members
<1>1. /\ RenderValue(m.value) \in Seq(Tokens) /\ Len(RenderValue(m.value)) \in Nat
      /\ m.value.kind = "string" =>
           m.value.text \in Seq(Tokens) /\ RenderValue(m.value) = RenderString(m.value.text)
      /\ m.value.kind # "string" => \E token \in {"open", "other"} : RenderValue(m.value) = <<token>>
  BY <1>0, RenderValueSeq
<1>2. /\ At(s, a, RenderString(m.key))
      /\ \A k \in b..colon - 1 : s[k] = "blank"
      /\ s[colon] = "colon"
      /\ \A k \in colon + 1..val - 1 : s[k] = "blank"
      /\ At(s, val, RenderValue(m.value))
      /\ end <= e
      /\ \A k \in end..e - 1 : s[k] \in {"close", "comma"}
  BY DEF MemberAt
<1>3. s \in Seq(Tokens) /\ Len(s) \in Nat /\ a \in Nat /\ a >= 1 /\ Len(m.key) \in Nat /\ e \in Nat /\ e <= Len(s)
  BY <1>0, <1>2 DEF At
<1>4. b \in Nat /\ b > a /\ b = a + Len(m.key) + 2
  BY <1>3
<1> HIDE DEF b
<1>5. colon \in Nat /\ b <= colon /\ b + n = colon
  BY <1>4
<1> HIDE DEF colon
<1>6. val \in Nat /\ colon + 1 <= val
  BY <1>5
<1> HIDE DEF val
<1>7. end \in Nat /\ val <= end /\ end = val + Len(RenderValue(m.value))
  BY <1>1, <1>6
<1> HIDE DEF end
<1>8. val <= Len(s) /\ s[val] # "blank"
  <2>1. CASE m.value.kind = "string"
    <3>1. m.value.text \in Seq(Tokens) /\ At(s, val, RenderString(m.value.text))
      BY <1>1, <1>2, <2>1
    <3>2. val + Len(m.value.text) + 2 <= Len(s) + 1 /\ s[val] = "quote" /\ Len(m.value.text) \in Nat
      BY <3>1, StringTokens
    <3>. QED
      BY <1>3, <1>6, <3>2
  <2>2. CASE m.value.kind # "string"
    <3>1. PICK token \in {"open", "other"} : RenderValue(m.value) = <<token>>
      BY <1>1, <2>2
    <3>2. token \in Tokens /\ token # "blank"
      BY DEF Tokens
    <3>. QED
      BY <1>2, <3>1, <3>2, AtToken
  <2>. QED
    BY <2>1, <2>2
<1>9. s[b] \in {"blank", "colon"} /\ b <= Len(s)
  <2>1. CASE n = 0
    BY <1>2, <1>3, <1>4, <1>5, <1>6, <1>8, <2>1
  <2>2. CASE n # 0
    <3>1. b \in b..colon - 1
      BY <1>4, <1>5, <2>2
    <3>. QED
      BY <1>2, <1>3, <1>4, <1>5, <1>6, <1>8, <3>1
  <2>. QED
    BY <2>1, <2>2
<1>10. colon <= Len(s) /\ colon \in 1..Len(s) + 1 /\ b \in 1..Len(s) + 1 /\ val \in 1..Len(s) + 1
  BY <1>3, <1>4, <1>5, <1>6, <1>8
<1>11. CASE m.key = <<"log_level">>
  <2>1. Len(m.key) = 1 /\ m.key[1] = "log_level"
    BY <1>11
  <2>2. b = a + 3
    BY <1>3, <1>4, <2>1
  <2>3. s[a] = "quote" /\ s[a + 1] = "log_level" /\ s[a + 2] = "quote"
    <3>1. /\ s[a] = "quote" /\ s[a + Len(m.key) + 1] = "quote"
          /\ \A k \in 1..Len(m.key) : s[a + k] = m.key[k]
      BY <1>0, <1>2, StringTokens
    <3>2. a + Len(m.key) + 1 = a + 2 /\ 1 \in 1..Len(m.key)
      BY <1>3, <2>1
    <3>. QED
      BY <2>1, <3>1, <3>2
  <2>4. a \in 1..Len(s) /\ a \in 1..Len(s) + 1 /\ a + 2 <= Len(s)
    BY <1>3, <1>4, <1>9, <2>2
  <2>5. Parse(s)[a] = AfterName(s, Parse(s), a)
    <3>1. NameAt(s, a)
      BY <1>3, <2>3, <2>4, NameAtTokens
    <3>. QED
      BY <1>3, <2>4, <3>1, ParseName
  <2>6. SkipWhitespace(s, a + 3) = colon
    <3>1. colon \in b..Len(s) + 1 /\ s[colon] # "blank"
      BY <1>2, <1>3, <1>4, <1>5, <1>10
    <3>2. SkipWhitespace(s, b) = colon
      BY <1>2, <1>3, <1>10, <3>1, SkipWhitespaceTo
    <3>. QED
      BY <2>2, <3>2
  <2>7. SkipWhitespace(s, colon + 1) = val
    <3>1. colon + 1 \in 1..Len(s) + 1 /\ val \in colon + 1..Len(s) + 1
      BY <1>3, <1>5, <1>6, <1>8, <1>10
    <3>. QED
      BY <1>2, <1>3, <1>8, <3>1, SkipWhitespaceTo
  <2>8. AfterName(s, Parse(s), a) = StringAt(s, val)
    <3>1. ~ (colon > Len(s))
      BY <1>3, <1>5, <1>10
    <3>. QED
      BY <1>2, <2>6, <2>7, <3>1 DEF AfterName
  <2>9. StringAt(s, val) = ValueLevel(m.value)
    <3>1. CASE m.value.kind = "string"
      <4>1. m.value.text \in Seq(Tokens) /\ At(s, val, RenderString(m.value.text)) /\ IsText(m.value.text)
        BY <1>1, <1>2, <3>1 DEF IsMember
      <4>. QED
        BY <3>1, <4>1, StringAtText DEF ValueLevel
    <3>2. CASE m.value.kind # "string"
      <4>1. PICK token \in {"open", "other"} : RenderValue(m.value) = <<token>>
        BY <1>1, <3>2
      <4>2. token \in Tokens /\ token # "quote"
        BY DEF Tokens
      <4>3. s[val] = token
        BY <1>2, <4>1, <4>2, AtToken
      <4>. QED
        BY <3>2, <4>2, <4>3 DEF StringAt, ValueLevel
    <3>. QED
      BY <3>1, <3>2
  <2>. QED
    BY <1>11, <2>5, <2>8, <2>9
<1>12. CASE m.key # <<"log_level">>
  <2>1. Parse(s)[a] = Parse(s)[b]
    <3>1. a + Len(m.key) + 2 <= Len(s) /\ s[a + Len(m.key) + 2] # "log_level"
      BY <1>9 DEF b
    <3>. QED
      BY <1>0, <1>2, <1>12, <3>1, ParseKey DEF b
  <2>2. Parse(s)[b] = Parse(s)[val]
    <3>1. \A k \in b..val - 1 : s[k] # "quote"
      <4> SUFFICES ASSUME NEW k \in b..val - 1 PROVE s[k] # "quote"
        OBVIOUS
      <4>1. k \in b..colon - 1 \/ k = colon \/ k \in colon + 1..val - 1
        BY <1>4, <1>5, <1>6
      <4>. QED
        BY <1>2, <4>1
    <3>2. val \in b..Len(s) + 1
      BY <1>3, <1>4, <1>5, <1>6, <1>10
    <3>. QED
      BY <1>3, <1>10, <3>1, <3>2, ParsePlain
  <2>3. s[end] \notin {"log_level", "blank", "colon"}
    <3>1. end \in end..e - 1 \/ end = e
      BY <1>2, <1>3, <1>7
    <3>. QED
      BY <1>2, <3>1
  <2>4. Parse(s)[val] = Parse(s)[end]
    <3>1. CASE m.value.kind = "string"
      <4>1. m.value.text \in Seq(Tokens) /\ At(s, val, RenderString(m.value.text)) /\ IsText(m.value.text)
        BY <1>1, <1>2, <3>1 DEF IsMember
      <4>2. Len(RenderValue(m.value)) = Len(m.value.text) + 2 /\ Len(m.value.text) \in Nat
        BY <1>1, <3>1, <4>1, RenderStringSeq
      <4>3. end = val + Len(m.value.text) + 2 /\ end <= Len(s)
        BY <1>2, <1>3, <1>6, <1>7, <4>2
      <4>. QED
        BY <2>3, <4>1, <4>3, ParseValue
    <3>2. CASE m.value.kind # "string"
      <4>1. PICK token \in {"open", "other"} : RenderValue(m.value) = <<token>>
        BY <1>1, <3>2
      <4>2. token \in Tokens /\ token # "quote"
        BY DEF Tokens
      <4>3. s[val] # "quote"
        BY <1>2, <4>1, <4>2, AtToken
      <4>4. end = val + 1
        BY <1>6, <1>7, <4>1
      <4>5. end \in val..Len(s) + 1 /\ \A k \in val..end - 1 : s[k] # "quote"
        BY <1>2, <1>3, <1>6, <1>7, <4>3, <4>4
      <4>. QED
        BY <1>3, <1>10, <4>5, ParsePlain
    <3>. QED
      BY <3>1, <3>2
  <2>5. Parse(s)[end] = Parse(s)[e]
    <3>1. end \in 1..Len(s) + 1 /\ e \in end..Len(s) + 1 /\ \A k \in end..e - 1 : s[k] # "quote"
      <4>1. \A k \in end..e - 1 : s[k] # "quote"
        BY <1>2
      <4>2. end \in 1..Len(s) + 1 /\ e \in end..Len(s) + 1
        BY <1>2, <1>3, <1>7, <1>10
      <4>. QED
        BY <4>1, <4>2
    <3>. QED
      BY <1>3, <3>1, ParsePlain
  <2>. QED
    BY <1>12, <2>1, <2>2, <2>4, <2>5
<1>. QED
  BY <1>11, <1>12

\* One step of FlattenSeq.
FlattenStep(seqs, f, i) == IF i = 1 THEN seqs[i] ELSE f[i - 1] \o seqs[i]

\* The recursion of FlattenSeq defines a function.
LEMMA FlattenExists ==
  ASSUME NEW seqs, NEW K \in Nat
  PROVE  \E f : f = [i \in 1..K |-> FlattenStep(seqs, f, i)]
<1> DEFINE S == {m \in Nat : \E f : f = [i \in 1..m |-> FlattenStep(seqs, f, i)]}
<1>1. 0 \in S
  <2> DEFINE f == [i \in 1..0 |-> 0]
  <2>1. f = [i \in 1..0 |-> FlattenStep(seqs, f, i)]
    OBVIOUS
  <2> HIDE DEF f
  <2>. QED
    BY <2>1
<1>2. ASSUME NEW m \in Nat, m \in S PROVE m + 1 \in S
  <2>1. PICK g : g = [i \in 1..m |-> FlattenStep(seqs, g, i)]
    BY <1>2
  <2> DEFINE f == [i \in 1..m + 1 |-> IF i = m + 1 THEN FlattenStep(seqs, g, m + 1) ELSE g[i]]
  <2>2. ASSUME NEW i \in 1..m + 1 PROVE f[i] = FlattenStep(seqs, f, i)
    <3>1. i # 1 => f[i - 1] = g[i - 1]
      OBVIOUS
    <3>2. FlattenStep(seqs, f, i) = FlattenStep(seqs, g, i)
      BY <3>1 DEF FlattenStep
    <3>3. f[i] = FlattenStep(seqs, g, i)
      <4>1. CASE i = m + 1
        BY <4>1
      <4>2. CASE i # m + 1
        <5>1. i \in 1..m
          BY <4>2
        <5>2. g[i] = FlattenStep(seqs, g, i)
          BY <2>1, <5>1
        <5>. QED
          BY <4>2, <5>2
      <4>. QED
        BY <4>1, <4>2
    <3>. QED
      BY <3>2, <3>3
  <2>3. f = [i \in 1..m + 1 |-> FlattenStep(seqs, f, i)]
    BY <2>2
  <2> HIDE DEF f
  <2>. QED
    BY <2>3
<1>3. K \in S
  <2> HIDE DEF S
  <2>. QED
    BY <1>1, <1>2, Induction
<1>. QED
  BY <1>3

\* The recursion of FlattenSeq: the text up to each of the parts.
LEMMA FlattenUnfold ==
  ASSUME NEW seqs \in Seq(Seq(Tokens)), Len(seqs) # 0
  PROVE  \E f : /\ \A i \in 1..Len(seqs) : f[i] \in Seq(Tokens)
                /\ f[1] = seqs[1]
                /\ \A i \in 2..Len(seqs) : f[i] = f[i - 1] \o seqs[i]
                /\ FlattenSeq(seqs) = f[Len(seqs)]
<1>0. Len(seqs) \in Nat /\ 1 \in 1..Len(seqs) /\ \A i \in 1..Len(seqs) : seqs[i] \in Seq(Tokens)
  OBVIOUS
<1> DEFINE f == CHOOSE f : f = [i \in 1..Len(seqs) |-> FlattenStep(seqs, f, i)]
<1>1. f = [i \in 1..Len(seqs) |-> FlattenStep(seqs, f, i)]
  BY <1>0, FlattenExists
<1>2. FlattenSeq(seqs) = f[Len(seqs)]
  BY DEF FlattenSeq, FlattenStep
<1> HIDE DEF f
<1>3. f[1] = seqs[1]
  BY <1>0, <1>1 DEF FlattenStep
<1>4. ASSUME NEW i \in 2..Len(seqs) PROVE f[i] = f[i - 1] \o seqs[i]
  <2>1. i \in 1..Len(seqs) /\ i # 1
    BY <1>0
  <2>. QED
    BY <1>1, <2>1 DEF FlattenStep
<1> DEFINE T == {m \in Nat : m \in 1..Len(seqs) => f[m] \in Seq(Tokens)}
<1>5. 0 \in T
  BY <1>0
<1>6. ASSUME NEW m \in Nat, m \in T PROVE m + 1 \in T
  <2> SUFFICES ASSUME m + 1 \in 1..Len(seqs) PROVE f[m + 1] \in Seq(Tokens)
    OBVIOUS
  <2>1. CASE m = 0
    BY <1>0, <1>3, <2>1
  <2>2. CASE m # 0
    <3>1. m \in 1..Len(seqs) /\ m + 1 \in 2..Len(seqs) /\ (m + 1) - 1 = m
      BY <1>0, <2>2
    <3>2. f[m] \in Seq(Tokens) /\ f[m + 1] = f[m] \o seqs[m + 1]
      BY <1>4, <1>6, <3>1
    <3>. QED
      BY <1>0, <3>2, ConcatSeq
  <2>. QED
    BY <2>1, <2>2
<1>7. Nat \subseteq T
  <2> HIDE DEF T
  <2>. QED
    BY <1>5, <1>6, Induction
<1>8. \A i \in 1..Len(seqs) : f[i] \in Seq(Tokens)
  BY <1>0, <1>7
<1>. QED
  BY <1>2, <1>3, <1>4, <1>8

\* Where the parts of a flattened sequence stand.
Layout(s, a, seqs, pos) ==
  /\ pos[1] = a
  /\ \A i \in 1..Len(seqs) : At(s, pos[i], seqs[i]) /\ pos[i + 1] = pos[i] + Len(seqs[i])

\* Every part of a flattened sequence has its place.
LEMMA FlattenLayout ==
  ASSUME NEW seqs \in Seq(Seq(Tokens)), NEW s, NEW a, At(s, a, FlattenSeq(seqs))
  PROVE  \E pos : Layout(s, a, seqs, pos) /\ pos[Len(seqs) + 1] = a + Len(FlattenSeq(seqs))
<1>0. Len(seqs) \in Nat /\ a \in Nat /\ \A i \in 1..Len(seqs) : seqs[i] \in Seq(Tokens)
  BY DEF At
<1>1. CASE Len(seqs) = 0
  <2> DEFINE pos == [i \in {1} |-> a]
  <2>1. Layout(s, a, seqs, pos)
    BY <1>1 DEF Layout
  <2>2. FlattenSeq(seqs) = seqs
    BY <1>1 DEF FlattenSeq
  <2>3. pos[Len(seqs) + 1] = a + Len(FlattenSeq(seqs))
    BY <1>0, <1>1, <2>2
  <2>. QED
    BY <2>1, <2>3
<1>2. CASE Len(seqs) # 0
  <2>1. PICK f : /\ \A i \in 1..Len(seqs) : f[i] \in Seq(Tokens)
                 /\ f[1] = seqs[1]
                 /\ \A i \in 2..Len(seqs) : f[i] = f[i - 1] \o seqs[i]
                 /\ FlattenSeq(seqs) = f[Len(seqs)]
    BY <1>2, FlattenUnfold
  <2> DEFINE S == {i \in 1..Len(seqs) : At(s, a, f[i])}
  <2>2. ASSUME NEW i \in 1..Len(seqs), \A j \in i + 1..Len(seqs) : j \in S PROVE i \in S
    <3>1. CASE i = Len(seqs)
      BY <2>1, <3>1
    <3>2. CASE i # Len(seqs)
      <4>1. i + 1 \in i + 1..Len(seqs) /\ i + 1 \in 2..Len(seqs) /\ (i + 1) - 1 = i /\ i + 1 \in 1..Len(seqs)
        BY <1>0, <3>2
      <4>2. At(s, a, f[i + 1])
        BY <2>2, <4>1
      <4>3. f[i + 1] = f[i] \o seqs[i + 1] /\ f[i] \in Seq(Tokens) /\ seqs[i + 1] \in Seq(Tokens)
        BY <1>0, <2>1, <4>1
      <4>4. At(s, a, f[i])
        BY <4>2, <4>3, AtConcat
      <4>. QED
        BY <4>4
    <3>. QED
      BY <3>1, <3>2
  <2>3. S = 1..Len(seqs)
    <3>1. S \subseteq 1..Len(seqs)
      OBVIOUS
    <3> HIDE DEF S
    <3>. QED
      BY <1>0, <2>2, <3>1, Descent
  <2>4. \A i \in 1..Len(seqs) : At(s, a, f[i])
    BY <2>3
  <2> DEFINE pos == [i \in 1..Len(seqs) + 1 |-> IF i = 1 THEN a ELSE a + Len(f[i - 1])]
  <2>5. ASSUME NEW i \in 1..Len(seqs) PROVE At(s, pos[i], seqs[i]) /\ pos[i + 1] = pos[i] + Len(seqs[i])
    <3>0. pos[i + 1] = a + Len(f[i])
      BY <1>0
    <3>1. CASE i = 1
      <4>1. pos[i] = a /\ f[i] = seqs[i]
        BY <1>0, <2>1, <3>1
      <4>. QED
        BY <2>4, <3>0, <4>1
    <3>2. CASE i # 1
      <4>1. i - 1 \in 1..Len(seqs) /\ i \in 2..Len(seqs)
        BY <1>0, <3>2
      <4>2. f[i] = f[i - 1] \o seqs[i] /\ f[i - 1] \in Seq(Tokens) /\ seqs[i] \in Seq(Tokens)
        BY <1>0, <2>1, <4>1
      <4>3. pos[i] = a + Len(f[i - 1])
        BY <1>0, <3>2
      <4>4. At(s, a + Len(f[i - 1]), seqs[i])
        BY <2>4, <4>2, AtConcat
      <4>5. Len(f[i]) = Len(f[i - 1]) + Len(seqs[i]) /\ Len(f[i - 1]) \in Nat /\ Len(seqs[i]) \in Nat
        BY <4>2, ConcatSeq
      <4> HIDE DEF pos
      <4>6. pos[i + 1] = pos[i] + Len(seqs[i])
        <5>1. a + Len(f[i]) = (a + Len(f[i - 1])) + Len(seqs[i])
          <6>1. a \in Nat
            BY <1>0
          <6> DEFINE x == Len(f[i - 1])
                     y == Len(seqs[i])
          <6>2. x \in Nat /\ y \in Nat /\ Len(f[i]) = x + y
            BY <4>5
          <6> HIDE DEF x, y
          <6>3. a + (x + y) = (a + x) + y
            BY <6>1, <6>2
          <6>4. a + Len(f[i]) = (a + x) + y
            BY <6>2, <6>3, Zenon
          <6>. QED
            BY <6>4 DEF x, y
        <5>. QED
          BY <3>0, <4>3, <5>1, Zenon
      <4>. QED
        BY <4>3, <4>4, <4>6
    <3>. QED
      BY <3>1, <3>2
  <2>6. pos[1] = a /\ pos[Len(seqs) + 1] = a + Len(FlattenSeq(seqs))
    <3>1. 1 \in 1..Len(seqs) + 1 /\ Len(seqs) + 1 \in 1..Len(seqs) + 1 /\ Len(seqs) + 1 # 1
          /\ (Len(seqs) + 1) - 1 = Len(seqs)
      BY <1>0, <1>2
    <3>. QED
      BY <2>1, <3>1
  <2> HIDE DEF pos
  <2>. QED
    BY <2>5, <2>6 DEF Layout
<1>. QED
  BY <1>1, <1>2

\* Flattening texts gives a text.
LEMMA FlattenType ==
  ASSUME NEW seqs \in Seq(Seq(Tokens))
  PROVE  FlattenSeq(seqs) \in Seq(Tokens)
<1>1. CASE Len(seqs) = 0
  <2>1. FlattenSeq(seqs) = seqs /\ seqs = << >>
    BY <1>1 DEF FlattenSeq
  <2>. QED
    BY <2>1
<1>2. CASE Len(seqs) # 0
  <2>1. Len(seqs) \in 1..Len(seqs)
    BY <1>2
  <2>. QED
    BY <1>2, <2>1, FlattenUnfold
<1>. QED
  BY <1>1, <1>2

\* The body of a document: its members between an opening and a closing brace.
LEMMA RenderLayout ==
  ASSUME NEW doc, IsDocument(doc), NEW n \in Nat
  PROVE  LET s == Render(doc, n) IN
         /\ s \in Seq(Tokens)
         /\ Len(s) >= 2 /\ s[1] = "open" /\ s[Len(s)] = "close"
         /\ \E pos : /\ pos[1] = 2 /\ pos[Len(doc) + 1] = Len(s)
                     /\ \A i \in 1..Len(doc) : /\ pos[i] \in 1..Len(s)
                                               /\ MemberAt(s, pos[i], pos[i + 1], doc[i], n)
                                               /\ s[pos[i]] = "quote"
<1> DEFINE s     == Render(doc, n)
           parts == [i \in DOMAIN doc |-> RenderMember(doc[i], n) \o Separator(doc, i)]
           u     == FlattenSeq(parts)
<1>0. doc \in Seq(Members) /\ Len(doc) \in Nat /\ DOMAIN doc = 1..Len(doc)
  BY DEF IsDocument
<1>1. \A i \in 1..Len(doc) : doc[i] \in Members /\ Separator(doc, i) \in {<< >>, <<"comma">>}
  BY <1>0 DEF Separator
<1>2. \A i \in 1..Len(doc) : RenderMember(doc[i], n) \o Separator(doc, i) \in Seq(Tokens)
  BY <1>1, MemberSeq
<1>3. parts \in Seq(Seq(Tokens)) /\ Len(parts) = Len(doc)
      /\ \A i \in 1..Len(doc) : parts[i] = RenderMember(doc[i], n) \o Separator(doc, i)
  BY <1>0, <1>2
<1> HIDE DEF parts
<1>4. u \in Seq(Tokens) /\ Len(u) \in Nat
  BY <1>3, FlattenType
<1>5. s = (<<"open">> \o u) \o <<"close">>
  BY DEF Render, parts
<1> HIDE DEF u, s
<1> DEFINE o == <<"open">>
           c == <<"close">>
           x == o \o u
<1>6. o \in Seq(Tokens) /\ Len(o) = 1 /\ c \in Seq(Tokens) /\ Len(c) = 1 /\ "open" \in Tokens /\ "close" \in Tokens
  BY DEF Tokens
<1>7. s = x \o c
  BY <1>5
<1> HIDE DEF o, c
<1>8. x \in Seq(Tokens) /\ Len(x) = 1 + Len(u)
  BY <1>4, <1>6, ConcatSeq
<1> HIDE DEF x
<1>9. s \in Seq(Tokens) /\ Len(s) = Len(u) + 2 /\ Len(s) \in Nat
  <2>1. s \in Seq(Tokens) /\ Len(s) = Len(x) + Len(c)
    BY <1>6, <1>7, <1>8, ConcatSeq
  <2>. QED
    BY <1>4, <1>6, <1>8, <2>1
<1>10. At(s, 1, s)
  BY <1>9 DEF At
<1>11. At(s, 1, x) /\ At(s, 1 + Len(x), c)
  BY <1>6, <1>7, <1>8, <1>10, AtConcat
<1>12. At(s, 1, o) /\ At(s, 2, u)
  <2>1. At(s, 1, o) /\ At(s, 1 + Len(o), u)
    BY <1>4, <1>6, <1>11, AtConcat DEF x
  <2>2. 1 + Len(o) = 2
    BY <1>6
  <2>. QED
    BY <2>1, <2>2
<1>13. s[1] = "open"
  BY <1>6, <1>12, AtToken DEF o
<1>14. s[Len(s)] = "close"
  <2>1. s[1 + Len(x)] = "close"
    BY <1>6, <1>11, AtToken DEF c
  <2>2. 1 + Len(x) = Len(s)
    BY <1>4, <1>8, <1>9
  <2>. QED
    BY <2>1, <2>2
<1>15. PICK pos : Layout(s, 2, parts, pos) /\ pos[Len(parts) + 1] = 2 + Len(u)
  BY <1>3, <1>12, FlattenLayout DEF u
<1>16. pos[1] = 2 /\ pos[Len(doc) + 1] = Len(s)
  <2>1. 2 + Len(u) = Len(s)
    BY <1>4, <1>9
  <2>. QED
    BY <1>3, <1>15, <2>1 DEF Layout
<1>17. ASSUME NEW i \in 1..Len(doc)
       PROVE  pos[i] \in 1..Len(s) /\ MemberAt(s, pos[i], pos[i + 1], doc[i], n) /\ s[pos[i]] = "quote"
  <2>1. At(s, pos[i], RenderMember(doc[i], n) \o Separator(doc, i))
        /\ pos[i + 1] = pos[i] + Len(RenderMember(doc[i], n) \o Separator(doc, i))
    BY <1>3, <1>15 DEF Layout
  <2>2. MemberAt(s, pos[i], pos[i + 1], doc[i], n)
    BY <1>1, <2>1, MemberTokens
  <2>3. At(s, pos[i], RenderString(doc[i].key)) /\ doc[i].key \in Seq(Tokens) /\ Len(doc[i].key) \in Nat
    BY <1>1, <2>2 DEF MemberAt, Members
  <2>4. pos[i] \in 1..Len(s) + 1
    BY <2>3 DEF At
  <2>5. s[pos[i]] = "quote" /\ pos[i] + Len(doc[i].key) + 2 <= Len(s) + 1
    BY <2>3, StringTokens
  <2>6. pos[i] \in 1..Len(s)
    BY <1>9, <2>3, <2>4, <2>5
  <2>. QED
    BY <2>2, <2>5, <2>6
<1>18. Len(s) >= 2
  BY <1>4, <1>9
<1>. QED
  BY <1>9, <1>13, <1>14, <1>16, <1>17, <1>18 DEF s

\* The level asked for by the members from i on.
LevelFrom(doc, i) ==
  LET named == {j \in i..Len(doc) : doc[j].key = <<"log_level">>}
  IN IF named = {} THEN {} ELSE ValueLevel(doc[Min(named)].value)

\* The first member called log_level decides.
LEMMA LevelFromStep ==
  ASSUME NEW doc \in Seq(Members), NEW i \in 1..Len(doc)
  PROVE  LevelFrom(doc, i) = IF doc[i].key = <<"log_level">> THEN ValueLevel(doc[i].value)
                             ELSE LevelFrom(doc, i + 1)
<1> DEFINE named(j) == {k \in j..Len(doc) : doc[k].key = <<"log_level">>}
<1>0. Len(doc) \in Nat
  OBVIOUS
<1>1. CASE doc[i].key = <<"log_level">>
  <2>1. i \in named(i) /\ named(i) \subseteq Nat /\ \A k \in named(i) : i <= k
    BY <1>0, <1>1
  <2>2. Min(named(i)) \in named(i) /\ Min(named(i)) <= i
    <3> HIDE DEF named
    <3>. QED
      BY <2>1, MinLeast
  <2>3. Min(named(i)) = i
    BY <2>1, <2>2
  <2>. QED
    BY <1>1, <2>1, <2>3 DEF LevelFrom
<1>2. CASE doc[i].key # <<"log_level">>
  <2>1. named(i) = named(i + 1)
    BY <1>0, <1>2
  <2>. QED
    BY <1>2, <2>1 DEF LevelFrom
<1>. QED
  BY <1>1, <1>2

\* For every document, of any length and depth, with any texts and any number of
\* blanks around its colons, TryParseLogLevel answers what the document says: the
\* value of the first member called log_level if that is a string, escaped quotes
\* and look-alike values notwithstanding, and nothing otherwise.
THEOREM ParserCorrect ==
  ASSUME NEW doc, IsDocument(doc), NEW n \in Nat
  PROVE  TryParseLogLevel(Render(doc, n)) = LogLevelOf(doc)
<1> DEFINE s == Render(doc, n)
<1>0. doc \in Seq(Members) /\ Len(doc) \in Nat /\ DOMAIN doc = 1..Len(doc) /\ Len(doc) + 1 \in Nat
  BY DEF IsDocument
<1>1. s \in Seq(Tokens) /\ Len(s) \in Nat /\ Len(s) >= 2 /\ s[1] = "open" /\ s[Len(s)] = "close"
  BY RenderLayout
<1>2. PICK pos : /\ pos[1] = 2 /\ pos[Len(doc) + 1] = Len(s)
                 /\ \A i \in 1..Len(doc) : /\ pos[i] \in 1..Len(s)
                                           /\ MemberAt(s, pos[i], pos[i + 1], doc[i], n)
                                           /\ s[pos[i]] = "quote"
  BY RenderLayout
<1> HIDE DEF s
<1>3. Parse(s)[1] = Parse(s)[2]
  <2>1. 1 \in 1..Len(s) + 1 /\ 2 \in 1..Len(s) + 1 /\ \A k \in 1..2 - 1 : s[k] # "quote"
    BY <1>1
  <2>. QED
    BY <1>1, <2>1, ParsePlain
<1>4. Parse(s)[Len(s)] = {}
  <2>1. Len(s) \in 1..Len(s) + 1
    BY <1>1
  <2>2. Names(s, Len(s)) = {}
    BY <1>1 DEF Names, NameAt
  <2>. QED
    BY <1>1, <2>1, <2>2, ParseUnfold DEF ParseStep
<1> DEFINE Q(i) == Parse(s)[pos[i]] = LevelFrom(doc, i)
           S == {i \in 1..Len(doc) + 1 : Q(i)}
<1>5. ASSUME NEW i \in 1..Len(doc) + 1, \A j \in i + 1..Len(doc) + 1 : j \in S PROVE i \in S
  <2>1. CASE i = Len(doc) + 1
    <3>1. {j \in i..Len(doc) : doc[j].key = <<"log_level">>} = {}
      BY <1>0, <2>1
    <3>2. LevelFrom(doc, i) = {}
      BY <3>1 DEF LevelFrom
    <3>. QED
      BY <1>2, <1>4, <2>1, <3>2
  <2>2. CASE i # Len(doc) + 1
    <3>1. i \in 1..Len(doc) /\ i + 1 \in i + 1..Len(doc) + 1 /\ i + 1 \in 1..Len(doc) + 1
      BY <1>0, <2>2
    <3>2. Q(i + 1)
      BY <1>5, <3>1
    <3>3. pos[i + 1] \in 1..Len(s) /\ s[pos[i + 1]] \in {"quote", "close"}
      <4>1. CASE i = Len(doc)
        BY <1>1, <1>2, <4>1
      <4>2. CASE i # Len(doc)
        <5>0. i \in 1..Len(doc) /\ Len(doc) \in Nat
          BY <1>0, <3>1
        <5>1. i + 1 \in 1..Len(doc)
          BY <4>2, <5>0
        <5>. QED
          BY <1>2, <5>1
      <4>. QED
        BY <4>1, <4>2
    <3>4. IsMember(doc[i])
      BY <1>0, <3>1 DEF IsMember, IsDocument
    <3>5. MemberAt(s, pos[i], pos[i + 1], doc[i], n)
      BY <1>2, <3>1
    <3>6. Parse(s)[pos[i]] = IF doc[i].key = <<"log_level">> THEN ValueLevel(doc[i].value)
                             ELSE Parse(s)[pos[i + 1]]
      BY <3>3, <3>4, <3>5, ParseMember
    <3>7. LevelFrom(doc, i) = IF doc[i].key = <<"log_level">> THEN ValueLevel(doc[i].value)
                              ELSE LevelFrom(doc, i + 1)
      BY <1>0, <3>1, LevelFromStep
    <3>8. Q(i)
      BY <3>2, <3>6, <3>7
    <3>. QED
      BY <3>8
  <2>. QED
    BY <2>1, <2>2
<1> HIDE DEF Q
<1>6. S = 1..Len(doc) + 1
  <2>1. S \subseteq 1..Len(doc) + 1
    OBVIOUS
  <2> HIDE DEF S
  <2>. QED
    BY <1>0, <1>5, <2>1, Descent
<1>7. Parse(s)[2] = LevelFrom(doc, 1)
  <2>1. Q(1)
    BY <1>0, <1>6
  <2>. QED
    BY <1>2, <2>1 DEF Q
<1>8. LevelFrom(doc, 1) = LogLevelOf(doc)
  BY <1>0 DEF LevelFrom, LogLevelOf, ValueLevel
<1>9. TryParseLogLevel(s) = Parse(s)[1]
  BY <1>1, ParseUnfold
<1>. QED
  BY <1>3, <1>7, <1>8, <1>9 DEF s

=============================================================================
