---------------------------- MODULE MCInterfaces ----------------------------
(***************************************************************************)
(* The exchanges that TLC goes through, for Interfaces.                    *)
(***************************************************************************)
EXTENDS Interfaces

Chars == {"a", Quote, "%", "_", Escape}
AllAtoms ==
    Marks \cup KEYWORDS \cup SELECTION_PROPERTIES \cup Chars
    \cup {"/", "T", "U", "and", "arm", "b", "cam", "gw", "it", "k", "ka", "kb", "like", "mic", "n", "nav",
          "s", "stream", "x", "42"}

\* Conditions of one comparison with any short value, and of two.
Compared(length) ==
    {c \in [property : SELECTION_PROPERTIES, operator : {"=", "LIKE"},
            value : BoundedSeq(Chars, length)] : c.operator = "LIKE" => WellFormed(c.value)}
ConditionJobs ==
    [op : {"condition"}, allowed : {SELECTION_PROPERTIES},
     condition : {<<>>} \cup {<<c>> : c \in Compared(3)}
                 \cup {<<c, d>> : c \in Compared(1), d \in Compared(1)}]

\* Patterns for short texts.
LikeJobs ==
    [op : {"like"}, around : BOOLEAN, literal : BoundedSeq(Chars, 2),
     text : BoundedSeq(Chars \ {Quote}, 3) \cup {<<Quote>>, <<Quote, Quote>>}]

\* A gateway with a component of its own, a child engine ka, and kb below ka.
Plain(base) == [base |-> base, depth |-> 0]
Get1 == <<"query", "get">>
Streams == "stream" :> Plain("string")
Sources ==
    <<<<"gw", "/", "mic">> :> [urn |-> <<"T">>, messages |-> Get1 :> Streams],
      <<"ka", "/", "nav">> :> [urn |-> <<"T">>, messages |-> Get1 :> (Streams @@ "n" :> Plain("int"))]
      @@ <<"ka", "/", "arm">> :> [urn |-> <<"U">>, messages |-> <<>>]
      @@ <<"kb", "/", "cam">> :> [urn |-> <<"U">>, messages |-> Get1 :> <<>>]>>
Tree ==
    [id |-> "ka", components |-> <<<<"ka", "/", "nav">>, <<"ka", "/", "arm">>, <<"kb", "/", "cam">>>>,
     subs |-> <<[id |-> "kb", components |-> <<<<"kb", "/", "cam">>>>, subs |-> <<>>]>>]

Selections ==
    {Comparison(COMPONENT_REF, "=", <<"ka", "/", "nav">>),
     Comparison(COMPONENT_REF, "LIKE", <<"k", "%">>), Comparison(COMPONENT_REF, "LIKE", <<"ka", "%">>),
     Comparison(COMPONENT_TYPE, "=", <<"T">>), Comparison(COMPONENT_TYPE, "=", <<"U">>)}
Givings ==
    {Comparison("stream", "=", <<"it", Quote, "s">>), Comparison("stream", "=", <<"%">>),
     Comparison("stream", "LIKE", <<"%">>), Comparison("n", "=", <<"42">>),
     Comparison("n", "=", <<"x">>)}
\* Texts that are written by hand: other cases, quoted names, and what is not in the language.
Written1 == <<DQuote, COMPONENT_TYPE, DQuote, "=", Quote, "U", Quote>>
ByHand ==
    {Written1, Written1 \o <<Blank, "and", Blank, COMPONENT_REF, Blank, "like", Quote, "%", Quote, Blank>>,
     Written1 \o <<Blank, "OR", Blank>> \o Written1, Written1 \o <<Blank>> \o Written1,
     <<COMPONENT_REF, "=", Quote, "a">>, <<"(", COMPONENT_REF>>, <<COMPONENT_REF, "=", "T">>,
     <<"like", "=", Quote, Quote>>, <<COMPONENT_REF, "LIKE", Quote, Escape, Quote>>,
     <<Quote, "a", Quote, Quote, "b">>, <<DQuote, COMPONENT_REF>>, <<Blank, Blank>>}
PickJobs ==
    [op : {"pick"}, sources : {Sources}, owners : {<<{"gw"}, {"ka", "kb"}>>}, message : {Get1},
     text : ByHand \cup {ConditionText(c) : c \in BoundedSeq(Selections \cup Givings, 3)}]
ProfileJobs ==
    [op : {"profile"}, id : {"gw"}, sources : {Sources}, children : {<<Tree>>, <<>>},
     text : ByHand \cup {ConditionText(c) : c \in BoundedSeq(Selections, 2)}]

\* What is written for a number, and what else int() and float() read: both take other spellings
\* of a number, and float() one with a space before it. 1.5 is the number 15 here.
WrittenInts == 42 :> "42" @@ -7 :> "-7" @@ 0 :> "0" @@ 400 :> "400"
WrittenFloats ==
    42 :> "42.0" @@ -7 :> "-7.0" @@ 0 :> "0.0" @@ 15 :> "1.5" @@ INF :> "Infinity" @@ -INF :> "-Infinity"
Read(written) == [t \in Range(written) |-> CHOOSE n \in DOMAIN written : written[n] = t]
ReadInts == Read(WrittenInts) @@ "042" :> 42
ReadFloats == Read(WrittenFloats) @@ ReadInts @@ " 42" :> 42

\* Values of every kind, of types of every kind. Values that are no text are of known types.
Scalars ==
    {Whole(n) : n \in DOMAIN WrittenInts} \cup {Float(n) : n \in {15, 42, INF, -INF}}
    \cup {Bool(b) : b \in BOOLEAN} \cup {DateTime("2026-01-01")}
Texts == {"42", "042", " 42", "42.0", "1.5", "Infinity", "true", "READY", "kitchen", ""}
Strs == {Str(t) : t \in Texts}
Trees(scalars) == {Just(x) : x \in scalars}
ListOf(trees) ==
    [path \in {<<>>} \cup UNION {{<<i>> \o p : p \in DOMAIN trees[i]} : i \in DOMAIN trees} |->
        IF path = <<>> THEN LIST ELSE trees[Head(path)][Tail(path)]]
Lists(trees) ==
    {ListOf(s) : s \in {<<>>} \cup {<<t>> : t \in trees} \cup {<<t, t>> : t \in trees}}
Bases == {"int", "float", "bool", "status", "string", "datetime"}
ValueJobs ==
    [op : {"value"}, type : [base : Bases, depth : 0..2],
     value : Trees(Scalars \cup Strs) \cup Lists(Trees(Scalars \cup {Str("READY"), Str("kitchen")}))
             \cup Lists(Lists(Trees({Whole(42), Float(15), Str("READY")})))]
    \cup [op : {"value"}, type : [base : {"nbest"}, depth : 0..1], value : Trees(Strs)]
SpellJobs ==
    [op : {"spell"}, type : [base : {"float"}, depth : {1}],
     tree : {ListOf([i \in DOMAIN s |-> Just(s[i])]) :
                s \in BoundedSeq({Whole(n) : n \in {0, 42, 100, 101, 400, -101}}, 2)}]
EmitJobs ==
    [op : {"emit"}, type : {Plain("int"), Plain("float")}, text : Texts,
     value : Trees({Whole(42), Float(42)})]
    \cup [op : {"emit"}, type : {Plain("string")}, text : Texts,
          value : Trees({Str("kitchen"), DateTime("kitchen")})]

\* Components declared over the common profile and one that extends it.
Word(w) == <<w>>
Id(code) == [authority |-> Word("OMG"), code |-> Word(code)]
Param(name, readOnly) ==
    [name |-> name, type |-> "int", default |-> Absent, description |-> "", read_only |-> readOnly]
Message(name, timeout) ==
    [name |-> name, args |-> <<Param("x", FALSE)>>, results |-> <<>>, timeout |-> timeout]
Messages(commands, queries, events) ==
    [k \in Kinds |-> CASE k = "command" -> commands [] k = "query" -> queries [] OTHER -> events]
ProfileOf(id, function, subs, messages, params) ==
    [id |-> id, name |-> "name", function |-> function, subs |-> subs, messages |-> messages,
     params |-> params]
CommonUrn == <<Word("Component"), Word("OMG"), Word("Common")>>
StreamUrn == <<Word("component"), Word("OMG"), Word("Stream")>>
CommonMessages ==
    Messages(<<Message("start", ""), Message("stop", "5")>>, <<Message("component_status", "")>>, <<>>)
CommonProfile == ProfileOf(Id("Common"), Absent, <<>>, CommonMessages, <<>>)
StreamProfile ==
    ProfileOf(Id("Stream"), Absent, <<CommonUrn>>,
              [CommonMessages EXCEPT !["event"] = <<Message("seen", "")>>], <<>>)
OwnIds == {Id("Own"), [authority |-> <<>>, code |-> Word("Own")]}
ComponentJobs ==
    [op : {"component"}, registry : {{CommonProfile, StreamProfile}},
     own : {ProfileOf(id, "sensing", subs, Messages(c, q, e), params) :
              id \in OwnIds,
              subs \in {<<>>, <<CommonUrn>>, <<StreamUrn>>, <<CommonUrn, StreamUrn>>,
                        <<StreamUrn, <<Word("Gone")>>>>},
              c \in BoundedSeq({Message("go", "5"), Message("go", "99"), Message("stop", "")}, 2),
              q \in {<<>>, <<Message("get", "")>>},
              e \in {<<>>, <<Message("seen", "")>>, <<Message("lost", ""), Message("seen", "")>>},
              params \in {<<>>, <<Param("p", TRUE), Param("q", FALSE)>>}}]

\* Classes with handlers for some messages of a profile.
Handler(kind, name, params) == [kind |-> kind, name |-> name, params |-> params, async |-> TRUE]
Hook(params) == Handler("set_parameter", "", params)
ClassJobs ==
    [op : {"class"}, common : {[urn |-> CommonUrn, commands |-> {"start", "stop"}]},
     profile : {ProfileOf(Id("Own"), "sensing", subs,
                          Messages(<<Message("start", ""), Message("stop", ""), Message("go", "")>>,
                                   <<Message("component_status", ""), Message("get", "")>>,
                                   <<Message("seen", "")>>), params) :
                  subs \in {<<>>, <<CommonUrn>>}, params \in {<<>>, <<Param("p", FALSE)>>}},
     handlers : SUBSET {Handler("command", "start", {}), Handler("command", "go", {"x"}),
                        Handler("command", "go", {"y"}), Handler("command", "set_parameter", {}),
                        Handler("query", "component_status", {}), Handler("query", "get", {"x"}),
                        Handler("event", "seen", {}), Handler("event", "gone", {}),
                        [Handler("query", "get", {"x"}) EXCEPT !.async = FALSE],
                        Hook({"values"}), Hook({})}]

\* Engines whose identifiers are easily mistaken for each other.
Codes == {<<"a", "/", "b">>, <<"a", "_", "b">>, <<"a", "_", "b", "_", "2">>, <<"2">>}
EngineIdsOf == [authority : {<<>>}, code : Codes]
            \cup {[authority |-> <<"a">>, code |-> <<"b">>]}
EngineOf(id, subs, components) ==
    [id |-> id, name |-> "", subs |-> subs, components |-> components, params |-> <<>>]
BundleJobs ==
    [op : {"bundle"}, registry : {"r1" :> [authority |-> <<>>, code |-> <<"a", " ", "b">>]
                                  @@ "r2" :> [authority |-> <<"a">>, code |-> <<"b">>]},
     engine : {EngineOf(a, <<EngineOf(b, <<>>, <<"r1">>), EngineOf(c, <<>>, below)>>, <<"r1", "r2">>) :
                 a \in EngineIdsOf, b \in EngineIdsOf, c \in EngineIdsOf,
                 below \in {<<>>, <<"r2", "r1">>, <<"r3">>}}]

\* Sequences of commands and of groups, with branches of every length.
Unit(command, delay) ==
    [is |-> "unit", ref |-> "r", command |-> command, id |-> "", args |-> <<>>, delay |-> delay]
Branches == BoundedSeq({Unit("go", ""), Unit("say", "5")}, 2)
Items ==
    {Unit("go", "5")} \cup [is : {"group"}, branches : BoundedSeq(Branches, 3), delay : {"", "5"}]
CommandsJobs ==
    [op : {"commands"}, items : {<<i>> : i \in Items} \cup {<<Unit("go", ""), i>> : i \in Items}]

\* The gateway's settings from every mix of sources.
GatewayModel ==
    [names |-> {"host", "engine_id", "log_level"}, fromOutside |-> {"host", "engine_id", "log_level"},
     defaults |-> [host |-> "h0", engine_id |-> "e0", log_level |-> "info"], required |-> {}]
\* The functions from some of the names, each with one of its values.
Partly(values) ==
    UNION {{f \in [names -> UNION {values[n] : n \in names}] : \A n \in names : f[n] \in values[n]} :
              names \in SUBSET DOMAIN values}
MappingFile(values) == [form |-> "mapping", values |-> values]
OddFile(form) == [form |-> form, values |-> <<>>]
\* The setting of an adapter that is its own is read from the file alone.
AdapterModel ==
    [names |-> {"gateway_url", "engine_id", "log_level", "nav"},
     fromOutside |-> {"gateway_url", "engine_id", "log_level"},
     defaults |-> [gateway_url |-> "u0", log_level |-> "info", nav |-> "n0"],
     required |-> {"engine_id"}]
SettingsOf(op, model) ==
    [op : {op}, model : {model}, taken : BOOLEAN,
     environ : Partly([engine_id |-> {"e1", "", "a/b"}, log_level |-> {"DEBUG"}, nav |-> {"n1"},
                       config |-> {"f1", ""}]),
     flags : Partly([engine_id |-> {"e2"}, log_level |-> {"INFO", "loud"}, config |-> {"f2"}]),
     files : {"f1" :> MappingFile([engine_id |-> "e3", log_level |-> "debug"]) @@ "f2" :> f :
                 f \in {MappingFile([engine_id |-> "e4"]), MappingFile([host |-> "h4"]),
                        MappingFile([nav |-> "n4", gateway_url |-> ""]), MappingFile([gateway_url |-> "u4"]),
                        MappingFile([colour |-> "red"]), OddFile("empty"), OddFile("missing"),
                        OddFile("a list"), OddFile("not YAML")}}]
AllJobs ==
    ConditionJobs \cup LikeJobs \cup PickJobs \cup ProfileJobs \cup ValueJobs \cup EmitJobs
        \cup SpellJobs \cup ComponentJobs \cup ClassJobs \cup BundleJobs \cup CommandsJobs
        \cup SettingsOf("settings", GatewayModel) \cup SettingsOf("adapter", AdapterModel)
=============================================================================
