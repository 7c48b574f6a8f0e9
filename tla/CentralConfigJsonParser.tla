----------------------- MODULE CentralConfigJsonParser -----------------------
(***************************************************************************)
(* CentralConfigJsonParser: how the log level is found in the body of a    *)
(* remote configuration message without a JSON library, and a reference    *)
(* that reads it off the document instead.                                 *)
(*                                                                         *)
(* A body is a sequence of tokens: the bytes that steer the parser are     *)
(* tokens of their own ("quote", "backslash", "colon", "blank"), the nine  *)
(* letters log_level are one token, any other run of bytes is another one. *)
(* An answer is a set: empty, or with the one value that was found.        *)
(***************************************************************************)
EXTENDS Naturals, Sequences, FiniteSetsExt, SequencesExt

CONSTANT Words \* the other runs of bytes

Tokens == {"quote", "backslash", "colon", "blank", "log_level", "open", "close", "comma", "other"} \cup Words

LogLevelPropertyName == <<"quote", "log_level", "quote">>

\* Does the property name stand at position i of body s?
NameAt(s, i) == i + 2 <= Len(s) /\ SubSeq(s, i, i + 2) = LogLevelPropertyName

\* Mutant of SkipWhitespace: it skips one blank at most.
SkipWhitespaceOnce(s, i) == IF i <= Len(s) /\ s[i] = "blank" THEN i + 1 ELSE i

\* The first position from i on that is not white space; Len(s) + 1 at the end.
SkipWhitespace(s, i) == Min({j \in i..Len(s) + 1 : j > Len(s) \/ s[j] # "blank"})

\* The quote that ends the string beginning at from; 0 if the body ends first,
\* also in the middle of an escape sequence.
ClosingQuote(s, from) ==
  LET scan[i \in 1..Len(s) + 2] ==
        IF i > Len(s) THEN 0
        ELSE IF s[i] = "backslash" THEN scan[i + 2]
        ELSE IF s[i] = "quote" THEN i
        ELSE scan[i + 1]
  IN scan[from]

\* The string value that begins at position i, if one does.
StringAt(s, i) ==
  IF i > Len(s) \/ s[i] # "quote" THEN {}
  ELSE LET end == ClosingQuote(s, i + 1)
       IN IF end = 0 THEN {} ELSE {SubSeq(s, i + 1, end - 1)}

\* Search for the name; without a colon behind it, it was a value: search on.
TryParseLogLevel(s) ==
  LET parse[i \in 1..Len(s) + 1] ==
        LET names == {k \in i..Len(s) : NameAt(s, k)} IN
        IF names = {} THEN {}
        ELSE LET behind == Min(names) + Len(LogLevelPropertyName)
                 colon  == SkipWhitespace(s, behind)
             IN IF colon > Len(s) THEN {}
                ELSE IF s[colon] # "colon" THEN parse[behind]
                ELSE StringAt(s, SkipWhitespace(s, colon + 1))
  IN parse[1]

-----------------------------------------------------------------------------
(* Documents: the members in the order of the text, at whatever depth. A     *)
(* member has a key, a value and the number of objects that end behind it;   *)
(* the members of a value that is an object come next.                       *)

Values == [kind : {"string"}, text : Seq(Tokens)] \cup [kind : {"object", "other"}]

Members == [key : Seq(Tokens), value : Values, ends : Nat]

\* The inside of a JSON string: with the escaped positions in a set, a backslash
\* escapes what follows unless it is escaped itself, and every quote is escaped.
IsText(t) ==
  \E escaped \in SUBSET (2..Len(t)) :
    \A i \in 1..Len(t) : /\ i + 1 \in escaped <=> (t[i] = "backslash" /\ i \notin escaped)
                         /\ t[i] = "quote" => i \in escaped

\* A text that ends in an escaped quote and the name searched for.
EndsLikeName(t) == Len(t) > 1 /\ t[Len(t) - 1] = "quote" /\ t[Len(t)] = "log_level"

\* Keys that end like the name are left out: the parser takes them for it.
IsDocument(doc) ==
  /\ doc \in Seq(Members)
  /\ \A i \in DOMAIN doc : /\ IsText(doc[i].key) /\ ~ EndsLikeName(doc[i].key)
                           /\ doc[i].value.kind = "string" => IsText(doc[i].value.text)

Repeat(token, n) == [i \in 1..n |-> token]

RenderString(text) == <<"quote">> \o text \o <<"quote">>

RenderValue(value) ==
  IF value.kind = "string" THEN RenderString(value.text)
  ELSE IF value.kind = "object" THEN <<"open">> ELSE <<"other">>

\* A member, with n blanks on both sides of its colon.
RenderMember(m, n) ==
  RenderString(m.key) \o Repeat("blank", n) \o <<"colon">> \o Repeat("blank", n)
    \o RenderValue(m.value) \o Repeat("close", m.ends)

\* A comma comes between members of one object, none behind an opening brace.
Separator(doc, i) ==
  IF i = Len(doc) \/ (doc[i].value.kind = "object" /\ doc[i].ends = 0) THEN << >> ELSE <<"comma">>

\* The body of a document.
Render(doc, n) ==
  <<"open">> \o FlattenSeq([i \in DOMAIN doc |-> RenderMember(doc[i], n) \o Separator(doc, i)])
    \o <<"close">>

\* The reference: the first member called log_level, at any depth, counts, and
\* only if it is a string.
LogLevelOf(doc) ==
  LET named == {i \in DOMAIN doc : doc[i].key = <<"log_level">>}
      first == doc[Min(named)].value
  IN IF named # {} /\ first.kind = "string" THEN {first.text} ELSE {}

=============================================================================
