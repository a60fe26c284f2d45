----------------------------- MODULE Conditions -----------------------------
(***************************************************************************)
(* The filter language of every condition parameter (condition.py): the    *)
(* tokens of a text, the condition they stand for, how a condition is      *)
(* evaluated, and how one is written.                                      *)
(*                                                                         *)
(* A text is a sequence of atoms: one for each punctuation mark, and one   *)
(* for each identifier, which is a single character inside a literal.  Two *)
(* identifiers never stand side by side outside a literal.                 *)
(***************************************************************************)
EXTENDS Integers, Sequences, FiniteSets, SequencesExt

Blank == " "
Quote == "'"
DQuote == "\""
Escape == "\\"
Marks == {Blank, Quote, DQuote, Escape, "=", "%", "("}

\* The properties that select components; a method may support others as well.
COMPONENT_REF == "component_ref"
COMPONENT_TYPE == "component_type"
SELECTION_PROPERTIES == {COMPONENT_REF, COMPONENT_TYPE}

KEYWORDS == {"AND", "LIKE", "OR", "NOT"}

\* str.upper on the words that matter: the keywords are accepted in any case.
Upper(word) ==
    CASE word = "and" -> "AND" [] word = "like" -> "LIKE"
      [] word = "or" -> "OR" [] word = "not" -> "NOT" [] OTHER -> word
-----------------------------------------------------------------------------
(* Reading *)

Token(kind, text) == [kind |-> kind, text |-> text]

\* What is read of a text: the tokens that are complete, and what there is of the next one.
Reading(mode, value, tokens) == [mode |-> mode, value |-> value, tokens |-> tokens]
Refused == Reading("refused", <<>>, <<>>)

\* The alternatives of _TOKEN_RE, which differ in how they begin. The last of them, "other", is
\* where _tokens raises.
Begin(tokens, c) ==
    CASE c = Blank -> Reading("between", <<>>, tokens)
      [] c = Quote -> Reading("string", <<>>, tokens)
      [] c = DQuote -> Reading("name", <<>>, tokens)
      [] c = "=" -> Reading("between", <<>>, Append(tokens, Token("equals", c)))
      [] c \notin Marks -> Reading("between", <<>>, Append(tokens, Token("word", c)))
      [] c \in {Escape, "%", "("} -> Refused

\* One atom further. A quote inside a literal ends it, unless another quote follows: the two are
\* read as one. A quoted name is one identifier between its quotes.
ReadAtom(r, c) ==
    CASE r.mode = "between" -> Begin(r.tokens, c)
      [] r.mode = "string" ->
            IF c = Quote THEN Reading("ended", r.value, r.tokens)
                         ELSE Reading("string", Append(r.value, c), r.tokens)
      [] r.mode = "ended" ->
            IF c = Quote THEN Reading("string", Append(r.value, c), r.tokens)
                         ELSE Begin(Append(r.tokens, Token("string", r.value)), c)
      [] r.mode = "name" ->
            CASE c \notin Marks /\ r.value = <<>> -> Reading("name", <<c>>, r.tokens)
              [] c = DQuote /\ r.value # <<>> ->
                    Reading("between", <<>>, Append(r.tokens, Token("quoted", r.value[1])))
              [] OTHER -> Refused
      [] r.mode = "refused" -> r

Reads(r, text) ==
    LET read[i \in 0..Len(text)] == IF i = 0 THEN r ELSE ReadAtom(read[i - 1], text[i])
    IN  read[Len(text)]

\* _tokens: {the tokens of a text}, {} where it raises.
Tokens(text) ==
    LET r == Reads(Reading("between", <<>>, <<>>), text)
    IN  CASE r.mode = "between" -> {r.tokens}
          [] r.mode = "ended" -> {Append(r.tokens, Token("string", r.value))}
          [] r.mode \in {"string", "name", "refused"} -> {}

\* _like_regex: the parts of the regular expression of a LIKE pattern. An escape makes the next
\* character literal.
Part(part, c) == [part |-> part, char |-> c]
LikeAtom(r, c) ==
    IF c = Escape /\ ~r.escaped THEN [r EXCEPT !.escaped = TRUE]
    ELSE LET part == CASE c = "%" /\ ~r.escaped -> "any"
                       [] c = "_" /\ ~r.escaped -> "one"
                       [] c \notin {"%", "_"} \/ r.escaped -> "char"
         IN  [parts |-> Append(r.parts, Part(part, c)), escaped |-> FALSE]

LikeRegex(pattern) ==
    LET read[i \in 0..Len(pattern)] ==
            IF i = 0 THEN [parts |-> <<>>, escaped |-> FALSE]
            ELSE LikeAtom(read[i - 1], pattern[i])
    IN  read[Len(pattern)]

\* A pattern that ends in an escape is refused.
WellFormed(pattern) == ~LikeRegex(pattern).escaped

Comparison(property, operator, value) ==
    [property |-> property, operator |-> operator, value |-> value]

\* The comparison three tokens make, and whether they make one.
ComparisonOf(p, o, l) == Comparison(p.text, IF o.kind = "equals" THEN "=" ELSE "LIKE", l.text)
IsComparison(p, o, l, allowed) ==
    /\ p.kind = "quoted" \/ (p.kind = "word" /\ Upper(p.text) \notin KEYWORDS)
    /\ p.text \in allowed
    /\ o.kind = "equals" \/ (o.kind = "word" /\ Upper(o.text) = "LIKE")
    /\ l.kind = "string"
    /\ o.kind = "word" => WellFormed(l.text)

\* Tokens are comparisons with AND between them, and nothing else.
IsCondition(t, allowed) ==
    LET n == (Len(t) + 1) \div 4
    IN  /\ t = <<>> \/ Len(t) + 1 = 4 * n
        /\ \A k \in 1..n : IsComparison(t[4 * k - 3], t[4 * k - 2], t[4 * k - 1], allowed)
        /\ \A k \in 1..n - 1 : t[4 * k].kind = "word" /\ Upper(t[4 * k].text) = "AND"

\* parse_condition: {c} for the condition c of a text, {} where ConditionError is raised.
Parse(text, allowed) ==
    {[k \in 1..(Len(t) + 1) \div 4 |-> ComparisonOf(t[4 * k - 3], t[4 * k - 2], t[4 * k - 1])] :
        t \in {t \in Tokens(text) : IsCondition(t, allowed)}}
-----------------------------------------------------------------------------
(* Evaluating *)

\* re.fullmatch: how much of a text a match of the first parts may have read, and whether a match
\* of all parts may have read all of it.
Reach(part, text, before) ==
    IF part.part = "any" THEN {k \in 0..Len(text) : \E j \in before : j <= k}
    ELSE {k \in 1..Len(text) : k - 1 \in before /\ (part.part = "one" \/ part.char = text[k])}
FullMatch(parts, text) ==
    LET reached[i \in 0..Len(parts)] ==
            IF i = 0 THEN {0} ELSE Reach(parts[i], text, reached[i - 1])
    IN  Len(text) \in reached[Len(parts)]

\* Comparison.matches: a property that is missing never matches.
ComparisonMatches(c, properties) ==
    /\ c.property \in DOMAIN properties
    /\ LET actual == properties[c.property]
       IN  IF c.operator = "=" THEN actual = c.value
           ELSE FullMatch(LikeRegex(c.value).parts, actual)

\* Condition.matches: every comparison holds.
Matches(condition, properties) ==
    \A i \in DOMAIN condition : ComparisonMatches(condition[i], properties)
-----------------------------------------------------------------------------
(* Writing *)

\* A wrong Quoted: a quote inside the literal is written once.
QuotedOnce(value) == <<Quote>> \o value \o <<Quote>>

\* quote: a literal, every quote in it doubled.
Quoted(value) ==
    <<Quote>> \o FlattenSeq([i \in DOMAIN value |->
                     IF value[i] = Quote THEN <<Quote, Quote>> ELSE <<value[i]>>]) \o <<Quote>>

\* Comparison.__str__, eq and like. The property is written without quotes.
ComparisonText(c) == <<c.property, Blank, c.operator, Blank>> \o Quoted(c.value)
Eq(property, value) == ComparisonText(Comparison(property, "=", value))

IsBlank(text) == \A i \in DOMAIN text : text[i] = Blank

\* " AND ".join
Joined(texts) ==
    FlattenSeq([i \in DOMAIN texts |->
        IF i = 1 THEN texts[i] ELSE <<Blank, "AND", Blank>> \o texts[i]])

\* all_of: the conditions that are not blank, joined by AND.
AllOf(texts) ==
    LET kept[i \in 0..Len(texts)] ==
            IF i = 0 THEN <<>>
            ELSE IF IsBlank(texts[i]) THEN kept[i - 1] ELSE Append(kept[i - 1], texts[i])
    IN  Joined(kept[Len(texts)])

\* Condition.__str__.
ConditionText(condition) == Joined([i \in DOMAIN condition |-> ComparisonText(condition[i])])
=============================================================================
