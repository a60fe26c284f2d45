----------------------------- MODULE Exchanges -----------------------------
(***************************************************************************)
(* What passes between the programs of a deployment: what one side makes   *)
(* of a thing, and what the other side gets back from that.  A job is one  *)
(* such exchange.  This module has the exchanges of conditions, of the     *)
(* components and arguments they pick, of values and of settings;          *)
(* Interfaces has those of whole documents.                                *)
(***************************************************************************)
EXTENDS Selection, Settings

CONSTANTS
    Atoms,   \* the characters and identifiers that texts are made of
    Jobs,    \* the exchanges, records with an op and its inputs
    None     \* nothing made or returned yet

ASSUME AtomsAssumption == Marks \cup KEYWORDS \cup SELECTION_PROPERTIES \subseteq Atoms

\* LIKE patterns that stand for one text, or with % around it for the texts that hold it.
Escaped(text) ==
    FlattenSeq([i \in DOMAIN text |->
        IF text[i] \in {"%", "_", Escape} THEN <<Escape, text[i]>> ELSE <<text[i]>>])
Pattern(literal, around) == IF around THEN <<"%">> \o Escaped(literal) \o <<"%">> ELSE Escaped(literal)

\* Comparisons the language has a form for.
Writable(c, allowed) ==
    /\ c = Comparison(c.property, c.operator, c.value)
    /\ c.property \in allowed \cap (Atoms \ Marks) /\ Upper(c.property) \notin KEYWORDS
    /\ c.operator \in {"=", "LIKE"}
    /\ c.value \in Seq(Atoms)
    /\ c.operator = "LIKE" => WellFormed(c.value)

\* Arguments that a condition can give: eq writes the name as it is.
Named(name) == name \in Atoms \ Marks /\ Upper(name) \notin KEYWORDS

\* What may stand at a place of a value.
IsNode(x) ==
    \/ x = LIST
    \/ \E n \in DOMAIN IntWritten : x = Whole(n)
    \/ \E n \in DOMAIN FloatWritten : x = Float(n)
    \/ \E b \in BOOLEAN : x = Bool(b)
    \/ x \in {Str(x.t), DateTime(x.t)}
IsValue(value) ==
    /\ <<>> \in DOMAIN value
    /\ \A path \in DOMAIN value :
          /\ path \in Seq(Nat) /\ IsNode(value[path])
          /\ path # <<>> => value[<<>>] = LIST

\* A value is any text, and a setting of a source is anything; a model has no setting for the
\* name of its file. A ref begins with the id of an engine of its source, and no two sources have
\* an engine of one id. A value that is no text is of a known type.
ASSUME JobsAssumption ==
    \A j \in Jobs :
        /\ j.op = "condition" =>
              /\ j.condition \in Seq({j.condition[i] : i \in DOMAIN j.condition})
              /\ \A i \in DOMAIN j.condition : Writable(j.condition[i], j.allowed)
        /\ j.op = "like" =>
              j.literal \in Seq(Atoms) /\ j.text \in Seq(Atoms) /\ j.around \in BOOLEAN
        /\ j.op = "pick" =>
              /\ j.text \in Seq(Atoms) /\ DOMAIN j.sources \subseteq Nat
              /\ DOMAIN j.owners = DOMAIN j.sources
              /\ \A i, k \in DOMAIN j.owners : i # k => j.owners[i] \cap j.owners[k] = {}
              /\ \A i \in DOMAIN j.sources : \A ref \in DOMAIN j.sources[i] :
                    /\ ref \in Seq(Atoms) /\ Len(ref) >= 2 /\ ref[1] \in j.owners[i] /\ ref[2] = "/"
                    /\ j.message \in DOMAIN j.sources[i][ref].messages =>
                          \A name \in DOMAIN j.sources[i][ref].messages[j.message] : Named(name)
        /\ j.op \in {"value", "emit"} =>
              /\ IsValue(j.value) /\ j.type.depth \in Nat
              /\ j.value[<<>>].is # "str" => j.type.base \in CHECKED \cup TEXTTYPES
        /\ j.op = "emit" => j.type.depth = 0 /\ (j.value[<<>>].is = "str" => j.type.base \in TEXTTYPES)
        /\ j.op = "spell" =>
              /\ j.type = [base |-> "float", depth |-> 1]
              /\ \A path \in DOMAIN j.tree :
                    \/ path = <<>> /\ j.tree[path] = LIST
                    \/ path \in Seq(Nat) /\ Len(path) = 1 /\ j.tree[path].n \in Int
                       /\ j.tree[path] = Whole(j.tree[path].n)
        /\ j.op \in {"settings", "adapter"} =>
              CONFIG \notin j.model.names \cup DOMAIN j.model.defaults

VARIABLES
    job,     \* the exchange
    made,    \* what the first side made
    back     \* what the other side got back

vars == <<job, made, back>>

Init == job \in Jobs /\ made = None /\ back = None

Make(op, result) == job.op = op /\ made = None /\ made' = result /\ UNCHANGED <<job, back>>
Get(op, result) ==
    job.op = op /\ made # None /\ back = None /\ back' = result /\ UNCHANGED <<job, made>>
-----------------------------------------------------------------------------
(* The steps *)

\* A condition is written, and parsed by the engine that gets it.
WriteCondition == Make("condition", ConditionText(job.condition))
ParseCondition == Get("condition", Parse(made, job.allowed))

\* A LIKE condition reaches an engine, which evaluates it.
WriteLike ==
    Make("like", ConditionText(<<Comparison(COMPONENT_REF, "LIKE", Pattern(job.literal, job.around))>>))
EvaluateLike ==
    Get("like", {Matches(c, [p \in {COMPONENT_REF} |-> job.text]) : c \in Parse(made, SELECTION_PROPERTIES)})

\* A query or a subscribe is picked by the engine, and again by the child it is passed on to.
PickHere == Make("pick", Pick(Components(job.sources), job.text, job.message))
PickBelow ==
    Get("pick", IF made.code # "OK" \/ made.source = 1 THEN made
                ELSE Pick(Components(<<job.sources[made.source]>>),
                          Forwarded(made.ref, made.arguments), job.message))

\* A value is written by one side and read by the other.
EncodeValue == Make("value", Encode(job.type, job.value))
DecodeValue == Get("value", UNION {Decode(job.type, t) : t \in made})

\* An array of numbers is read, and read again with its numbers spelled as doubles.
AsDoubles(tree) ==
    [path \in DOMAIN tree |-> IF tree[path].is = "int" THEN Float(
        IF tree[path].n > MAXDOUBLE THEN INF ELSE IF tree[path].n < -MAXDOUBLE THEN -INF
        ELSE tree[path].n) ELSE tree[path]]
ReadNumbers == Make("spell", Decode(job.type, Array(job.tree)))
ReadDoubles == Get("spell", Decode(job.type, Array(AsDoubles(job.tree))))

\* A component emits an event that concerns the value of an argument, of which a subscription
\* gave a text.
EmitEvent == Make("emit", Encode(job.type, job.value))
DeliverEvent == Get("emit", {Concerns([arg |-> Text(job.text)], [arg |-> t]) : t \in made})

\* The gateway command is run.
RunGateway == Make("settings", Main(job.model, job.environ, job.files, job.flags, job.taken))

\* An adapter is run.
RunAdapter ==
    Make("adapter", [ran |-> LoadAdapterConfig(job.model, job.environ, job.files, job.flags)])

ExchangeSteps ==
    \/ WriteCondition \/ ParseCondition \/ WriteLike \/ EvaluateLike
    \/ PickHere \/ PickBelow \/ EncodeValue \/ DecodeValue \/ ReadNumbers \/ ReadDoubles
    \/ EmitEvent \/ DeliverEvent \/ RunGateway \/ RunAdapter

\* The steps of the exchanges of other modules.
Ops == {"condition", "like", "pick", "value", "spell", "emit", "settings", "adapter"}
OtherSteps == job.op \notin Ops /\ UNCHANGED job

ExchangeSpec == Init /\ [][ExchangeSteps \/ OtherSteps]_vars
-----------------------------------------------------------------------------
(* Properties *)

Done(op) == job.op = op /\ back # None

\* _empty_filter: a result filter must be empty.
EmptyFilter(text) == Parse(text, {}) # {}

\* A condition that is written is read as itself, whatever its values hold, and is an empty filter
\* only when it compares nothing.
ConditionsReturn ==
    Done("condition") => back = {job.condition} /\ (EmptyFilter(made) <=> job.condition = <<>>)

\* The text s is somewhere in the text t.
Infix(s, t) ==
    \E i \in 0..Len(t) - Len(s) : \A k \in 1..Len(s) : t[i + k] = s[k]

\* A pattern with its wildcards and escapes escaped matches one text alone, and with % around
\* it the texts that hold that text: LIKE over the full way of a condition.
LikeIsLiteral ==
    Done("like") => back = {IF job.around THEN Infix(job.literal, job.text)
                            ELSE job.literal = job.text}

\* A condition reaches the engine as it was meant, and like compares text.
ConditionsAgree == ConditionsReturn /\ LikeIsLiteral

\* What an engine picked for a request, the child engine picks as well: the same component and
\* the same arguments, whatever quotes and wildcards their values hold.
PickForwarded ==
    Done("pick") /\ made.code = "OK" =>
        back.code = "OK" /\ back.ref = made.ref /\ back.arguments = made.arguments

\* A pick satisfies every comparison of its condition, and no other component would: two values
\* for one argument, and a selection of two components, are refused. The ids the component's
\* source gives out lead back to that source.
PickSatisfies ==
    LET all == Components(job.sources)
        allowed == SELECTION_PROPERTIES \cup ArgumentNames(all, job.message)
    IN  job.op = "pick" /\ made # None /\ made.code = "OK" =>
            \E condition \in Parse(job.text, allowed) :
                /\ \A ref \in DOMAIN all :
                       ref = made.ref <=>
                           ref \in Offering(all, job.message) \cap Matching(all, Selecting(condition))
                /\ \A i \in DOMAIN condition : condition[i].property \notin SELECTION_PROPERTIES =>
                       /\ \E k \in DOMAIN made.arguments :
                              made.arguments[k].name = condition[i].property
                       /\ \A k \in DOMAIN made.arguments :
                              made.arguments[k].name = condition[i].property =>
                                  made.arguments[k].value = condition[i].value
                /\ OwnerOf(job.owners, made.ref) = {made.source}

\* The value that a value of a type is read back as: a number of a float type as a float, a time
\* as its text, and a text as what it spells.
Meant(type, value) ==
    [path \in DOMAIN value |->
        IF Len(path) = type.depth /\ value[path].is = "int" /\ type.base = "float"
        THEN Float(value[path].n)
        ELSE IF Len(path) = type.depth /\ value[path].is = "datetime" THEN Str(value[path].t)
        ELSE value[path]]

\* A value that one side could write, the other side reads, as the value it was.
ValuesReturn ==
    Done("value") /\ made # {} =>
        IF job.value[<<>>].is = "str" THEN back # {} ELSE back = {Meant(job.type, job.value)}

\* The numbers of a float array are read as the same doubles however they are spelled, those
\* beyond the doubles included: an integer of 400 digits and 1e400 are both the infinity.
SpellingForgotten == Done("spell") => made = back

\* An event that concerns one value of an argument does not reach a subscription to another.
EventsKeptApart ==
    Done("emit") /\ back = {TRUE} => Decode(job.type, Text(job.text)) = {Meant(job.type, job.value)}

\* What is picked, passed on and notified for a condition is what satisfies it.
SelectionAgrees == PickForwarded /\ PickSatisfies /\ EventsKeptApart

\* A value that was encoded is read as the value that was meant.
ValuesAgree == ValuesReturn /\ SpellingForgotten

\* The file of a job, that of a flag before that of the environment, and what it holds.
SettingsFile ==
    IF CONFIG \in DOMAIN job.flags THEN job.flags[CONFIG]
    ELSE IF CONFIG \in DOMAIN job.environ THEN job.environ[CONFIG] ELSE ""
Holds ==
    IF SettingsFile # "" /\ job.files[SettingsFile].form = "mapping"
    THEN job.files[SettingsFile].values ELSE <<>>

\* The sources of a setting, the strongest first. The environment has only those of the model.
FromFlags(n) == n \in DOMAIN job.flags
FromEnviron(n) == n \in DOMAIN job.environ \cap job.model.fromOutside
FromFile(n) == n \in DOMAIN Holds
Strongest(n) ==
    CASE FromFlags(n) -> job.flags[n]
      [] ~FromFlags(n) /\ FromEnviron(n) -> job.environ[n]
      [] ~FromFlags(n) /\ ~FromEnviron(n) /\ FromFile(n) -> Holds[n]
      [] OTHER -> job.model.defaults[n]

\* A gateway and an adapter run with every setting from its strongest source, the file that a
\* flag names before the one that the environment names; they do not run without a setting that
\* has no default. A level is lowered once, wherever it came from.
StrongestSource ==
    job.op \in {"settings", "adapter"} /\ made # None =>
        \A run \in made.ran :
            /\ \A n \in job.model.required : FromFlags(n) \/ FromEnviron(n) \/ FromFile(n)
            /\ DOMAIN run = {n \in job.model.names \cup DOMAIN job.model.defaults :
                                \/ FromFlags(n) \/ FromEnviron(n) \/ FromFile(n)
                                \/ n \in DOMAIN job.model.defaults}
            /\ \A n \in DOMAIN run :
                  run[n] = IF n = "log_level" THEN Lower(Strongest(n)) ELSE Strongest(n)
=============================================================================
