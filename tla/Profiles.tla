------------------------------ MODULE Profiles ------------------------------
(***************************************************************************)
(* Component and engine profiles, and command unit sequences, with their   *)
(* XML documents (xmlcodec.py), the profile a component declares           *)
(* (declaration.py) and the one a component class serves (_spec.py).       *)
(*                                                                         *)
(*   identifier: [authority, code], texts as sequences of characters or    *)
(*               words; a URN is the sequence of its parts                 *)
(*   parameter:  [name, type, default, description, read_only]             *)
(*   message:    [name, args, results, timeout]                            *)
(*   profile:    [id, name, function, subs, messages, params], messages a  *)
(*               function from the three kinds to sequences of messages    *)
(*   engine:     [id, name, subs, components, params]                      *)
(*   unit:       [is |-> "unit", ref, command, id, args, delay]            *)
(*   group:      [is |-> "group", branches, delay]                         *)
(*                                                                         *)
(* A reader returns {what it reads}, and {} where it raises.  An absent    *)
(* name, default, timeout or delay is "".  A document is the record of its *)
(* elements and attributes; its XML text is left out.                      *)
(***************************************************************************)
EXTENDS Selection

Absent == ""
Kinds == {"command", "query", "event"}
\* Stands for 2^31 - 1, the largest number the models take.
INTEGER_MAX == 9

Names(items) == {items[i].name : i \in DOMAIN items}
Distinct(s) == \A i, j \in DOMAIN s : s[i] = s[j] => i = j
NamesOf(items) == [i \in DOMAIN items |-> items[i].name]
-----------------------------------------------------------------------------
(* URNs and the registry *)

\* component_urn and _urn: an identifier without an authority is its code.
Urn(kind, id) == IF id.authority = <<>> THEN <<id.code>> ELSE <<kind, id.authority, id.code>>

\* parse_urn: the last two parts; what stands before them is not looked at.
ParseUrn(urn) ==
    IF Len(urn) < 3 THEN [authority |-> <<>>, code |-> Last(urn)]
    ELSE [authority |-> urn[Len(urn) - 1], code |-> Last(urn)]

\* ProfileRegistry.get: the registered profiles with the key of a URN.
Registered(registry, urn) == {p \in registry : p.id = ParseUrn(urn)}

\* ProfileRegistry.add: a profile replaces the one with its key.
Add(registry, profile) == {p \in registry : p.id # profile.id} \cup {profile}

\* _extend: the messages that are not listed yet, each compared with those before it.
Extend(target, messages) ==
    FoldLeft(LAMBDA known, m : IF Contains(known, m) THEN known ELSE Append(known, m),
             target, messages)

\* resolve_profile: the messages of the sub-profiles, then the own ones, equal ones once.
Resolve(profile, registry) ==
    IF \E i \in DOMAIN profile.subs : Registered(registry, profile.subs[i]) = {} THEN {}
    ELSE LET Sub(i) == CHOOSE p \in Registered(registry, profile.subs[i]) : TRUE
         IN  {[profile EXCEPT !.messages = [k \in Kinds |->
                 Extend(FoldLeft(LAMBDA known, i : Extend(known, Sub(i).messages[k]),
                                 <<>>, [i \in DOMAIN profile.subs |-> i]),
                        profile.messages[k])]]}
-----------------------------------------------------------------------------
(* Component profiles *)

\* _parameter and _write_parameters: what XML keeps of a parameter. The model reads an empty
\* default as none, and read_only has no XML form.
XmlParameter(p) == [p EXCEPT !.read_only = FALSE]
XmlParameters(params) == [i \in DOMAIN params |-> XmlParameter(params[i])]

\* _write_message with its parameters, under the xsi:type of its kind.
MessageElement(kind, m) ==
    [kind |-> kind, name |-> m.name, args |-> XmlParameters(m.args),
     results |-> XmlParameters(m.results), timeout |-> m.timeout]

\* _inherited: the messages that the sub-profiles list, of those the registry knows.
Inherited(profile, registry) ==
    LET known == SelectSeq(profile.subs, LAMBDA u : Registered(registry, u) # {})
        bare == [profile EXCEPT !.subs = known, !.messages = [k \in Kinds |-> <<>>]]
    IN  (CHOOSE p \in Resolve(bare, registry) : TRUE).messages

\* The messages of a kind that a document lists: those that no sub-profile gives it.
Written(profile, registry, kind) ==
    SelectSeq(profile.messages[kind],
              LAMBDA m : ~Contains(Inherited(profile, registry)[kind], m))

\* write_component_profile.
WriteComponent(profile, registry, gml) ==
    LET Elements(k) == LET own == Written(profile, registry, k)
                       IN  [i \in DOMAIN own |-> MessageElement(k, own[i])]
    IN  [gml |-> gml, urn |-> Urn(<<"component">>, profile.id), name |-> profile.name,
         subs |-> profile.subs,
         messages |-> Elements("command") \o Elements("query") \o Elements("event"),
         params |-> XmlParameters(profile.params)]

\* _integer: a number must fit the type of the models. An absent or blank one is none.
FitsInteger(n) == n = Absent \/ n \in {ToString(i) : i \in -INTEGER_MAX..INTEGER_MAX}

\* _component_profile: the messages of each kind in the order of the document. A message of an
\* unknown kind, one without a name, and a timeout out of range are refused.
ReadComponentElement(doc) ==
    IF \E i \in DOMAIN doc.messages :
           \/ doc.messages[i].kind \notin Kinds \/ doc.messages[i].name = Absent
           \/ ~FitsInteger(doc.messages[i].timeout)
    THEN {}
    ELSE LET Of(k) == LET of == SelectSeq(doc.messages, LAMBDA m : m.kind = k)
                      IN  [i \in DOMAIN of |->
                              [name |-> of[i].name, args |-> XmlParameters(of[i].args),
                               results |-> XmlParameters(of[i].results),
                               timeout |-> IF k = "command" THEN of[i].timeout ELSE Absent]]
         IN  {[id |-> ParseUrn(doc.urn), name |-> doc.name, function |-> Absent,
               subs |-> doc.subs, messages |-> [k \in Kinds |-> Of(k)],
               params |-> XmlParameters(doc.params)]}

\* read_component_profile with a registry.
ReadComponent(doc, registry) ==
    UNION {Resolve(p, registry) : p \in ReadComponentElement(doc)}

\* ProfileRegistry.load: the registry with the profile of a document, resolved against it.
Load(registry, doc) == {Add(registry, p) : p \in ReadComponent(doc, registry)}
-----------------------------------------------------------------------------
(* Engine profiles *)

Legal(c) == c \notin {"/", " "}

\* The base of a gml:id: the identifier without the characters an id may not have.
GmlBase(id) ==
    LET raw == IF id.authority = <<>> THEN id.code ELSE id.authority \o <<"_">> \o id.code
        base == [i \in DOMAIN raw |-> IF Legal(raw[i]) THEN raw[i] ELSE "_"]
    IN  IF base = <<>> \/ Head(base) \in {"2", "3"} THEN <<"_">> \o base ELSE base

\* A wrong GmlId: the number is that of the names with this base.
GmlIdCounted(id, used) ==
    LET base == GmlBase(id)
        n == Cardinality({u \in used : IsPrefix(base, u)})
    IN  IF n = 0 THEN base ELSE base \o <<"_", ToString(n + 1)>>

\* _gml_id: the base, with the first number that makes it new when it is used already.
GmlId(id, used) ==
    LET base == GmlBase(id)
        Candidate(n) == IF n = 1 THEN base ELSE base \o <<"_", ToString(n)>>
    IN  Candidate(CHOOSE n \in 1..Cardinality(used) + 1 :
                      /\ Candidate(n) \notin used
                      /\ \A m \in 1..n - 1 : Candidate(m) \in used)

\* _write_engine: [doc, used], the element of an engine and its sub-engines, and the gml:ids
\* given so far, which a sub-engine sees.
RECURSIVE WriteEngine(_, _)
WriteEngine(engine, used) ==
    LET gml == GmlId(engine.id, used)
        below == FoldLeft(LAMBDA acc, sub :
                              LET w == WriteEngine(sub, acc.used)
                              IN  [docs |-> Append(acc.docs, w.doc), used |-> w.used],
                          [docs |-> <<>>, used |-> used \cup {gml}], engine.subs)
    IN  [doc |-> [gml |-> gml, urn |-> Urn(<<"HRIEngine">>, engine.id), name |-> engine.name,
                  subs |-> below.docs, components |-> engine.components,
                  params |-> XmlParameters(engine.params)],
         used |-> below.used]

\* _engine_profile.
RECURSIVE ReadEngine(_)
ReadEngine(doc) ==
    [id |-> ParseUrn(doc.urn), name |-> doc.name,
     subs |-> [i \in DOMAIN doc.subs |-> ReadEngine(doc.subs[i])],
     components |-> SelectSeq(doc.components, LAMBDA c : c # Absent),
     params |-> XmlParameters(doc.params)]

\* _component_refs: the components an engine profile and those below it name.
RECURSIVE ComponentRefs(_)
ComponentRefs(engine) ==
    engine.components
        \o FlattenSeq([i \in DOMAIN engine.subs |-> ComponentRefs(engine.subs[i])])

\* write_engine_bundle: the gml:ids of an engine document and of the document of every component
\* it names, one for each ref; {} when one is not in the registry (a function from refs).
BundleIds(engine, registry) ==
    LET written == WriteEngine(engine, {})
        refs == Extend(<<>>, ComponentRefs(engine))
    IN  IF \E i \in DOMAIN refs : refs[i] \notin DOMAIN registry THEN {}
        ELSE {FoldLeft(LAMBDA acc, r :
                           LET gml == GmlId(registry[r], acc.used)
                           IN  [used |-> acc.used \cup {gml}, ids |-> Append(acc.ids, gml)],
                       [used |-> written.used, ids |-> <<>>], refs)
                  @@ [engine |-> written.doc]}
-----------------------------------------------------------------------------
(* The engine profile that get_profile answers *)

\* child.py _engine_ids: the id of an engine and of every engine below it.
RECURSIVE EngineIds(_)
EngineIds(profile) ==
    <<profile.id>> \o FlattenSeq([i \in DOMAIN profile.subs |-> EngineIds(profile.subs[i])])

\* _trim: an engine profile with only the chosen components, {} when none is left.
RECURSIVE Trim(_, _)
Trim(profile, chosen) ==
    LET subs == FlattenSeq([i \in DOMAIN profile.subs |-> SetToSeq(Trim(profile.subs[i], chosen))])
        kept == SelectSeq(profile.components, LAMBDA r : r \in chosen)
    IN  IF kept = <<>> THEN {} ELSE {[profile EXCEPT !.subs = subs, !.components = kept]}

\* _get_profile: {the profile of the engine}, trimmed to a selection, {} for a bad condition.
\* A child that has none yet is not among the children.
Profile(id, components, children, text) ==
    {[id |-> id, components |-> refs,
      subs |-> IF IsBlank(text) THEN children
               ELSE FlattenSeq([i \in DOMAIN children |-> SetToSeq(Trim(children[i], refs))])]
        : refs \in Select(components, text)}
-----------------------------------------------------------------------------
(* Command unit sequences *)

\* _write_command_unit and _command_unit keep every field of a command.
UnitElement(u) == [u EXCEPT !.is = "CommandMessageType"]
ReadUnit(e) ==
    IF e.command = Absent \/ ~FitsInteger(e.delay) THEN {} ELSE {[e EXCEPT !.is = "unit"]}

ReadUnits(elements) == AllOrNone([i \in DOMAIN elements |-> ReadUnit(elements[i])])

\* Whether a group is written as the flat command_list of the XSD.
Flat(group) == \A i \in DOMAIN group.branches : Len(group.branches[i]) = 1

\* _write_concurrent: a command_list of commands, or a branch_list of branches.
WriteGroup(group) ==
    LET Elements(branch) == [i \in DOMAIN branch |-> UnitElement(branch[i])]
        all == [i \in DOMAIN group.branches |-> Elements(group.branches[i])]
    IN  [is |-> "ConcurrentCommandsType", delay |-> group.delay,
         command_list |-> IF Flat(group) THEN FlattenSeq(all) ELSE <<>>,
         branch_list |-> IF Flat(group) THEN <<>> ELSE all]

\* _flat_item: a command is a branch of one; the list may hold branches instead.
FlatItem(e) ==
    IF e.is = "BranchType" THEN ReadUnits(e.commands) ELSE {<<u>> : u \in ReadUnit(e)}

\* _concurrent.
ReadGroup(e) ==
    IF (e.branch_list # <<>> /\ e.command_list # <<>>) \/ ~FitsInteger(e.delay) THEN {}
    ELSE {[is |-> "group", branches |-> branches, delay |-> e.delay] :
             branches \in AllOrNone(IF e.branch_list # <<>>
                                  THEN [i \in DOMAIN e.branch_list |-> ReadUnits(e.branch_list[i])]
                                  ELSE [i \in DOMAIN e.command_list |-> FlatItem(e.command_list[i])])}

\* write_command_unit_sequence and read_command_unit_sequence.
WriteSequence(items) ==
    [i \in DOMAIN items |->
        IF items[i].is = "group" THEN WriteGroup(items[i]) ELSE UnitElement(items[i])]
ReadSequence(doc) ==
    AllOrNone([i \in DOMAIN doc |->
        CASE doc[i].is = "ConcurrentCommandsType" -> ReadGroup(doc[i])
          [] doc[i].is = "CommandMessageType" -> ReadUnit(doc[i])
          [] OTHER -> {}])
-----------------------------------------------------------------------------
(* Declared and served profiles *)

\* ComponentDeclaration.__post_init__ and _Message.__post_init__: names are unique; the model
\* of a command refuses a timeout out of range.
WellDeclared(own) ==
    /\ own.function \in {"actuation", "sensing", "function"}
    /\ Distinct(NamesOf(own.params))
    /\ \A k \in Kinds : /\ Distinct(NamesOf(own.messages[k]))
                        /\ \A i \in DOMAIN own.messages[k] :
                              /\ FitsInteger(own.messages[k][i].timeout)
                              /\ Distinct(NamesOf(own.messages[k][i].args))
                              /\ Distinct(NamesOf(own.messages[k][i].results))

\* _not_redeclared: no own message repeats the name of a message of a sub-profile.
NotRedeclared(own, registry) ==
    \A k \in Kinds : Names(own.messages[k]) \cap Names(Inherited(own, registry)[k]) = {}

\* ComponentDeclaration.profile: {} where DeclarationError is raised.
Declared(own, registry) ==
    IF WellDeclared(own) /\ Resolve(own, registry) # {} /\ NotRedeclared(own, registry)
    THEN Resolve(own, registry) ELSE {}

ENGINE_COMMANDS == {"set_parameter"}
ENGINE_QUERIES == {"component_status"}

\* build_spec: the handlers of a class, as a set of [kind, name, params, async], fit its profile.
\* Two handlers of one message are two members of the set with its kind and name; a handler of
\* the kind "set_parameter" is the hook that applies new parameter values.
HandlersFit(profile, handlers) ==
    \A h \in handlers :
        /\ h.async
        /\ \A g \in handlers : g.kind = h.kind /\ g.name = h.name => g = h
        /\ \/ h.kind = "set_parameter" /\ profile.params # <<>> /\ Cardinality(h.params) = 1
           \/ /\ h.kind \in Kinds
              /\ ~(h.kind = "command" /\ h.name \in ENGINE_COMMANDS)
              /\ ~(h.kind = "query" /\ h.name \in ENGINE_QUERIES)
              /\ h.name \in Names(profile.messages[h.kind])
              /\ LET m == profile.messages[h.kind]
                     first == SelectInSeq(m, LAMBDA x : x.name = h.name)
                 IN  h.params \subseteq Names(m[first].args)

\* Whether a class answers a message: it has a handler, or the engine answers by default.
Serves(profile, handlers, common, kind, name) ==
    \/ \E h \in handlers : h.kind = kind /\ h.name = name
    \/ kind = "command" /\ Contains(profile.subs, common.urn) /\ name \in common.commands
    \/ kind = "command" /\ name = "stop" /\ \E h \in handlers : h.kind = kind /\ h.name = "start"
    \/ kind = "query" /\ name \in ENGINE_QUERIES

\* ComponentSpec.served: {} where the class is refused.
Served(profile, handlers, common) ==
    IF ~HandlersFit(profile, handlers) THEN {}
    ELSE {[profile EXCEPT !.messages = [k \in Kinds |->
             SelectSeq(profile.messages[k],
                       LAMBDA m : Serves(profile, handlers, common, k, m.name))]]}
=============================================================================
