----------------------------- MODULE Interfaces -----------------------------
(***************************************************************************)
(* The exchanges of profiles and command sequences, beside those of        *)
(* Exchanges.                                                              *)
(***************************************************************************)
EXTENDS Exchanges, Profiles

OwnProfile == CHOOSE p \in Declared(job.own, job.registry) : TRUE
-----------------------------------------------------------------------------
(* The steps *)

\* get_profile with a selection.
GetProfile ==
    Make("profile", Profile(job.id, Components(job.sources), job.children, job.text))

\* A declared component is written, loaded into a registry and read from there.
WriteProfile ==
    Make("component", IF Declared(job.own, job.registry) = {} THEN {}
                      ELSE {WriteComponent(OwnProfile, job.registry, "component_profile")})
LoadProfile ==
    Get("component",
        UNION {UNION {Registered(r, doc.urn) : r \in Load(job.registry, doc)} : doc \in made})

\* A bundle of documents is written for an engine, and the engine's is read.
WriteBundle == Make("bundle", BundleIds(job.engine, job.registry))
ReadBundle == Get("bundle", {ReadEngine(b.engine) : b \in made})

\* A command unit sequence is written and read.
WriteCommands == Make("commands", WriteSequence(job.items))
ReadCommands == Get("commands", ReadSequence(made))

\* A class is declared a component, and the engine asks it for what it serves.
DefineClass == Make("class", Served(job.profile, job.handlers, job.common))

Next ==
    \/ ExchangeSteps \/ GetProfile \/ WriteProfile \/ LoadProfile \/ WriteBundle \/ ReadBundle
    \/ WriteCommands \/ ReadCommands \/ DefineClass

Spec == Init /\ [][Next]_vars
-----------------------------------------------------------------------------
(* Properties *)

\* The engines of a profile with the components they name.
RECURSIVE Listed(_)
Listed(profile) ==
    UNION ({{<<profile.id, r>> : r \in ToSet(profile.components)}}
           \cup {Listed(s) : s \in ToSet(profile.subs)})

\* The profile of a selection names, at every level of the tree, the selected components that
\* the whole profile names there, and an engine that has none of them is left out.
ProfileKeepsSelected ==
    job.op = "profile" /\ made # None =>
        \A p \in made :
            LET refs == p.components
                whole == UNION {Listed(c) : c \in ToSet(job.children)}
            IN  /\ UNION {Listed(s) : s \in ToSet(p.subs)} = {pair \in whole : pair[2] \in refs}
                /\ \A s \in ToSet(p.subs) : \A id \in ToSet(EngineIds(s)) :
                       IsBlank(job.text) \/ \E r \in refs : <<id, r>> \in Listed(s)

\* A declared component has one message per name and kind, which picking one relies on. Its
\* document lists its own messages alone, and gives, loaded into a registry, its profile back but
\* for what XML has no form for.
ProfilesReturn ==
    Done("component") /\ made # {} =>
        /\ \A k \in Kinds : Distinct(NamesOf(OwnProfile.messages[k]))
        /\ \A doc \in made : Names(doc.messages) = UNION {Names(job.own.messages[k]) : k \in Kinds}
        /\ back = {[OwnProfile EXCEPT !.function = Absent, !.params = XmlParameters(@)]}

\* The gml:ids of all documents of a bundle differ, when identifiers differ in illegal characters
\* only and when one looks like the numbered id of another; the engine's tree is read back.
RECURSIVE GmlIds(_)
GmlIds(doc) == <<doc.gml>> \o FlattenSeq([i \in DOMAIN doc.subs |-> GmlIds(doc.subs[i])])
BundleIdsDiffer ==
    Done("bundle") => \A b \in made : Distinct(GmlIds(b.engine) \o b.ids) /\ back = {job.engine}

\* A command unit sequence is read back with its groups, branches and commands.
CommandsReturn == Done("commands") => back = {job.items}

\* What rois_command, rois_query and rois_subscribed do with a message: run a handler, answer
\* without one, or raise.
Answered(handlers, kind, name) ==
    \/ \E h \in handlers : h.kind = kind /\ h.name = name
    \/ kind = "command" \/ (kind = "query" /\ name \in ENGINE_QUERIES)

\* A class serves every message it handles and none it cannot answer, and a start can be stopped.
ServedIsAnswered ==
    job.op = "class" /\ made # None =>
        \A p \in made :
            /\ \A k \in Kinds : \A name \in Names(p.messages[k]) : Answered(job.handlers, k, name)
            /\ \A h \in job.handlers : h.kind \in Kinds => h.name \in Names(p.messages[h.kind])
            /\ "start" \in Names(p.messages["command"])
               /\ "stop" \in Names(job.profile.messages["command"]) =>
                   "stop" \in Names(p.messages["command"])

\* What a component declares, what its document says, what it answers and what an engine lists
\* agree.
DeclarationsAgree ==
    ProfileKeepsSelected /\ ProfilesReturn /\ BundleIdsDiffer /\ CommandsReturn /\ ServedIsAnswered
=============================================================================
