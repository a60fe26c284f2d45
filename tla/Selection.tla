------------------------------ MODULE Selection ------------------------------
(***************************************************************************)
(* How an engine uses a condition (engine.py): the components a selection  *)
(* matches, the one component and the arguments a query or a subscribe     *)
(* picks, the condition it passes on to a child engine (child.py), and the *)
(* source an id belongs to.                                                *)
(*                                                                         *)
(* A source gives a function from refs to profiles [urn, messages], with   *)
(* messages a function from <<kind, name>>, which only one message of a    *)
(* profile has, to its arguments, a function from names to types.          *)
(***************************************************************************)
EXTENDS Conditions, Values

\* _components: the profile and the source of every ref, the first source of a ref winning.
Components(sources) ==
    [ref \in UNION {DOMAIN sources[i] : i \in DOMAIN sources} |->
        LET first == CHOOSE i \in DOMAIN sources :
                         /\ ref \in DOMAIN sources[i]
                         /\ \A j \in DOMAIN sources : ref \in DOMAIN sources[j] => i <= j
        IN  [profile |-> sources[first][ref], source |-> first]]

\* _matching: the components whose ref and type satisfy a condition.
Matching(components, condition) ==
    {ref \in DOMAIN components :
        Matches(condition, [p \in SELECTION_PROPERTIES |->
                               IF p = COMPONENT_REF THEN ref ELSE components[ref].profile.urn])}

\* _select: {refs} of the components a text selects, {} where it does not parse. The order of
\* the refs is left out.
Select(components, text) == {Matching(components, c) : c \in Parse(text, SELECTION_PROPERTIES)}

\* The components that list a message.
Offering(components, message) ==
    {ref \in DOMAIN components : message \in DOMAIN components[ref].profile.messages}

ArgumentNames(components, message) ==
    UNION {DOMAIN components[ref].profile.messages[message] : ref \in Offering(components, message)}

\* The comparisons of a condition that select, and those that give arguments.
Selecting(condition) ==
    Restrict(condition, {i \in DOMAIN condition : condition[i].property \in SELECTION_PROPERTIES})
Giving(condition) ==
    Restrict(condition, {i \in DOMAIN condition : condition[i].property \notin SELECTION_PROPERTIES})

\* A wrong Agree: the last value of an argument counts.
AgreeAlways(given) == TRUE

\* An argument may be given twice, with one value.
Agree(given) ==
    \A i, j \in DOMAIN given :
        given[i].property = given[j].property => given[i].value = given[j].value

\* The arguments a condition gives, each once, in the order they are first given.
Known(arguments, name) == \E i \in DOMAIN arguments : arguments[i].name = name
Arguments(condition) ==
    LET known[i \in 0..Len(condition)] ==
            IF i = 0 THEN <<>>
            ELSE IF \/ condition[i].property \in SELECTION_PROPERTIES
                    \/ Known(known[i - 1], condition[i].property)
            THEN known[i - 1]
            ELSE Append(known[i - 1], [name |-> condition[i].property, value |-> condition[i].value])
    IN  known[Len(condition)]

\* decode_value on the characters of an argument: a longer text is no number.
Fits(type, value) == Decode(type, Text(IF Len(value) = 1 THEN value[1] ELSE "text")) # {}

\* What is given fits the types of the message.
Accepted(given, types) ==
    /\ \A i \in DOMAIN given : /\ given[i].property \in DOMAIN types /\ given[i].operator = "="
                               /\ Fits(types[given[i].property], given[i].value)
    /\ Agree(given)

Failed(code) == [code |-> code]

\* _pick: the one component a query or a subscribe selects, its source and its arguments, with
\* the condition as it was parsed.
PickOne(components, condition, message) ==
    LET candidates == Matching(components, Selecting(condition)) \cap Offering(components, message)
        ref == CHOOSE r \in candidates : TRUE
    IN  IF candidates = {} THEN Failed("UNSUPPORTED")
        ELSE IF candidates # {ref} THEN Failed("BAD_PARAMETER")
        ELSE IF ~Accepted(Giving(condition), components[ref].profile.messages[message])
        THEN Failed("BAD_PARAMETER")
        ELSE [code |-> "OK", ref |-> ref, source |-> components[ref].source,
              arguments |-> Arguments(condition), key |-> ConditionText(condition)]
Pick(components, text, message) ==
    LET parsed == Parse(text, SELECTION_PROPERTIES \cup ArgumentNames(components, message))
    IN  IF parsed = {} THEN Failed("BAD_PARAMETER")
        ELSE PickOne(components, CHOOSE c \in parsed : TRUE, message)

\* child.py _condition: what the parent of a child engine sends it for a picked component.
Forwarded(ref, arguments) ==
    AllOf(<<Eq(COMPONENT_REF, ref)>>
          \o [i \in DOMAIN arguments |-> Eq(arguments[i].name, arguments[i].value)])

\* _concerns: whether an event that concerns some argument values reaches a subscription. Both
\* are functions from names to texts; what a subscription did not give matches anything.
Concerns(arguments, concerning) ==
    \A n \in DOMAIN arguments \cap DOMAIN concerning : arguments[n] = concerning[n]

\* _owner_of: the sources an assigned id may belong to, by the engine id before its first "/".
\* A source is the set of its engine ids.
OwnerOf(sources, assigned) ==
    IF Len(assigned) < 2 \/ assigned[2] # "/" THEN {}
    ELSE LET mine == {i \in DOMAIN sources : assigned[1] \in sources[i]}
         IN  {i \in mine : \A j \in mine : i <= j}
=============================================================================
