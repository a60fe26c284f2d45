-------------------------- MODULE ComponentStatus --------------------------
(***************************************************************************)
(* The status of the components an engine hosts: the lifecycle of the      *)
(* components and of the resources they share, the WARNING and ERROR that  *)
(* components, resources and the engine raise and clear, the errors these  *)
(* cause, and the events an ERROR holds back (local.py, and resource.py    *)
(* and component.py of the authoring library).                             *)
(*                                                                         *)
(* Any thread speaks for any source, the thread of the event loop among    *)
(* them.  A call that raises or clears notes the word, and goes on from    *)
(* there in a second step, at once or through the queue of the loop, as it *)
(* saw the loop in between.  The engine itself is one more reporter, which *)
(* is READY unless a status is raised on it.                               *)
(***************************************************************************)
EXTENDS Naturals, Sequences, FiniteSets

CONSTANTS
    Comps,      \* the components, in the order they are added: a sequence
    Resources,
    Uses,       \* [components -> sequences of resources]
    Engine,     \* the engine, as a source and a reporter
    Speakers,   \* bound: the sources that raise statuses, and the components that emit
    Threads,    \* the threads that call
    Loop,       \* the thread of the event loop, which adds, starts and stops
    RaisedFirst,\* resources that may have raised WARNING when they were made
    MaxWords,   \* bound: statuses raised and cleared
    MaxEmits,   \* bound: events emitted
    MaxFails    \* bound: failing opens, connects and subscriptions

Components == {Comps[i] : i \in DOMAIN Comps}
Reporters  == Components \cup {Engine}
Sources    == Reporters \cup Resources
UsesOf(c)  == {Uses[c][i] : i \in DOMAIN Uses[c]}

\* add refuses a name that is taken.
ASSUME NamesAssumption ==
    /\ Comps \in Seq(Components) /\ \A i, j \in DOMAIN Comps : Comps[i] = Comps[j] => i = j
    /\ Engine \notin Components \cup Resources /\ Components \cap Resources = {}
ASSUME UsesAssumption ==
    /\ Uses \in [Components -> Seq(Resources)] /\ Speakers \subseteq Sources
    /\ RaisedFirst \subseteq Resources /\ Loop \in Threads
ASSUME BoundAssumption == {MaxWords, MaxEmits, MaxFails} \subseteq Nat

VARIABLES
    phase,      \* "adding", "starting", "up", "disconnecting", "closing", "stopped", "over"
    at,         \* the component that start or stop is at
    hosted,     \* LocalComponents._hosted
    state,      \* _Hosted.state
    connected,  \* components whose backend is connected
    opened,     \* LocalComponents._opened, without those stop has closed
    failed,     \* resources that could not open
    raised,     \* _Hosted.raised and _engine_raised: [status, errors] of each source
    errors,     \* LocalComponents._errors: ids, which name their reporter
    nextError,  \* errors of each reporter so far
    said,       \* the last word of each source: "none", "WARNING" or "ERROR"
    unsure,     \* the sources that said it too early, or while it could overtake their last
    bound,      \* sources bound to the engine
    report,     \* the status rois_bind read of the resource it binds, if any
    thread,     \* the raise or clear each thread is in the middle of, or NoCall
    queue,      \* call_soon_threadsafe: what the loop will run
    dropped,    \* a call came too late for the loop
    subs,       \* components with a subscription
    preparing,  \* components whose rois_subscribed runs for a new subscription
    got,        \* whether a delivered event was emitted while its component said ERROR
    words, emits, fails

lifeVars  == <<phase, at, hosted, state, connected, opened, failed, bound, report>>
errorVars == <<raised, errors, nextError>>
callVars  == <<said, unsure, thread, queue, dropped>>
eventVars == <<subs, preparing, got>>
vars == <<phase, at, hosted, state, connected, opened, failed, raised, errors, nextError, said,
          unsure, bound, report, thread, queue, dropped, subs, preparing, got, words, emits, fails>>

Silent   == [status |-> "none", errors |-> {}]
ErrorIds == Reporters \X Nat
Words    == {"none", "WARNING", "ERROR"}
\* loop: whether the loop was there when the call began.
Calls    == [source : Sources, word : Words, loop : BOOLEAN]
NoCall   == [source |-> Engine, word |-> "nothing", loop |-> FALSE]
Queued   == [source : Sources, kind : {"status", "emit"}, word : Words, ill : BOOLEAN]

TypeOK ==
    /\ phase \in {"adding", "starting", "up", "disconnecting", "closing", "stopped", "over"}
    /\ at \in 1..Len(Comps) + 1 /\ hosted \subseteq Components
    /\ state \in [Reporters -> {"UNINITIALIZED", "READY", "FAILED"}]
    /\ connected \subseteq hosted /\ opened \in Seq(Resources) /\ failed \subseteq Resources
    /\ \A i, j \in DOMAIN opened : opened[i] = opened[j] => i = j
    /\ \A c \in Reporters, s \in Sources :
          raised[c][s].status \in Words /\ raised[c][s].errors \subseteq ErrorIds
    /\ errors \subseteq ErrorIds /\ nextError \in [Reporters -> Nat]
    /\ said \in [Sources -> Words] /\ unsure \cup bound \subseteq Sources
    /\ report \subseteq Resources \X Words /\ dropped \in BOOLEAN
    /\ thread \in [Threads -> Calls \cup {NoCall}]
    /\ \A i \in DOMAIN queue : queue[i] \in Queued
    /\ subs \subseteq Components /\ preparing \subseteq Components /\ got \in BOOLEAN

\* Whether several components use a resource.
Shared(r) == \E c, d \in Components : c # d /\ r \in UsesOf(c) \cap UsesOf(d)

Init ==
    /\ phase = "adding" /\ at = 1 /\ hosted = {} /\ connected = {} /\ opened = <<>>
    /\ state = [c \in Reporters |-> IF c = Engine THEN "READY" ELSE "UNINITIALIZED"]
    /\ failed = {} /\ errors = {} /\ nextError = [c \in Reporters |-> 0]
    /\ raised = [c \in Reporters |-> [s \in Sources |-> Silent]]
    /\ \E first \in SUBSET RaisedFirst :
          /\ said = [s \in Sources |-> IF s \in first THEN "WARNING" ELSE "none"]
          /\ unsure = {r \in first : Shared(r)}
    /\ bound = {Engine} /\ report = {}
    /\ thread = [t \in Threads |-> NoCall] /\ queue = <<>> /\ dropped = FALSE
    /\ subs = {} /\ preparing = {} /\ got = FALSE /\ words = 0 /\ emits = 0 /\ fails = 0
-----------------------------------------------------------------------------
(* What a component reports *)

\* _strongest, over the statuses raised on a reporter.
Strongest(row) ==
    LET statuses == {row[s].status : s \in Sources}
    IN  IF "ERROR" \in statuses THEN "ERROR"
        ELSE IF "WARNING" \in statuses THEN "WARNING" ELSE "none"

\* status: ERROR, raised or from a failed start, above WARNING, above the lifecycle.
Status(life, row) ==
    IF life = "FAILED" \/ Strongest(row) = "ERROR" THEN "ERROR"
    ELSE IF Strongest(row) = "WARNING" THEN "WARNING" ELSE life

Operable(c) == state[c] = "READY" /\ Strongest(raised[c]) # "ERROR"

\* A wrong users_of: only the first component that uses a resource.
ReportersOfFirst(s) ==
    IF s \notin Resources THEN {s}
    ELSE LET users == {i \in DOMAIN Comps : Comps[i] \in hosted /\ s \in UsesOf(Comps[i])}
         IN  {Comps[i] : i \in {i \in users : \A j \in users : i <= j}}

\* The reporters a source speaks for: itself, or the hosted users of a resource.
ReportersOf(s) == IF s \in Resources THEN {c \in hosted : s \in UsesOf(c)} ELSE {s}

\* A wrong _raise: an error only when nothing was raised before.
ChangedFirst(c, s, w) ==
    Strongest(raised[c]) = "none"
    /\ Status(state[c], [raised[c] EXCEPT ![s].status = w]) # Status(state[c], raised[c])

\* A raise is an error when it changes what the component reports.
Changed(c, s, w) ==
    Status(state[c], [raised[c] EXCEPT ![s].status = w]) # Status(state[c], raised[c])

\* The errors a source raised before stay with its new status.
Kept(c, s) == raised[c][s].errors

\* _raise on every reporter of a source, and notify_error for each that changed.
Raise(s, w) ==
    LET changed == {c \in ReportersOf(s) : Changed(c, s, w)}
        new(c)  == IF c \in changed THEN {<<c, nextError[c] + 1>>} ELSE {}
    IN  /\ raised' = [c \in Reporters |->
                         IF c \in ReportersOf(s)
                         THEN [raised[c] EXCEPT ![s] = [status |-> w, errors |-> Kept(c, s) \cup new(c)]]
                         ELSE raised[c]]
        /\ errors' = errors \cup UNION {new(c) : c \in changed}
        /\ nextError' = [c \in Reporters |-> nextError[c] + Cardinality(new(c))]

\* _clear: the status of a source goes, and so do its errors.
Clear(s) ==
    /\ raised' = [c \in Reporters |->
                     IF c \in ReportersOf(s) THEN [raised[c] EXCEPT ![s] = Silent] ELSE raised[c]]
    /\ errors' = errors \ UNION {raised[c][s].errors : c \in ReportersOf(s)}
    /\ UNCHANGED nextError

Apply(s, w) == IF w = "none" THEN Clear(s) ELSE Raise(s, w)

\* _publish: a component in ERROR holds back its events.
Publish(c, ill) ==
    /\ got' = (got \/ (Operable(c) /\ c \in subs /\ ill))
    /\ UNCHANGED <<errorVars, subs, preparing>>

\* What the loop does with a call that waited.
RunQueued(e) ==
    IF e.kind = "emit" THEN Publish(e.source, e.ill)
    ELSE Apply(e.source, e.word) /\ UNCHANGED eventVars
-----------------------------------------------------------------------------
(* The calls of the threads *)

LoopSet == phase # "adding"

\* The loop goes on when its thread is in the middle of no call.
LoopFree == thread[Loop] = NoCall

\* A thread is in the middle of a raise or clear of a source.
Speaking(t, s) == thread[t] # NoCall /\ thread[t].source = s

\* The i-th call of the queue raises or clears the status of s.
Speaks(s, i) == queue[i].source = s /\ queue[i].kind = "status"

\* A call that a thread makes for a source now may run before a word said earlier: one that
\* another thread is in the middle of, or, on the loop, one that waits in the queue.
MayPass(t, s) ==
    \/ \E u \in Threads \ {t} : Speaking(u, s)
    \/ t = Loop /\ \E i \in DOMAIN queue : Speaks(s, i)

\* What the loop says runs before the events that wait: those are not emitted in ERROR only.
Overtaken(t, s) ==
    [i \in DOMAIN queue |-> [queue[i] EXCEPT !.ill = @ /\ ~(t = Loop /\ queue[i].source = s)]]

\* The resources of the component that add is at, which no earlier component uses.
Unbound == (UNION {UsesOf(c) : c \in hosted}) \ bound

\* add has been called for every component.
AllAdded == (at = Len(Comps) + 1 /\ Unbound = {} /\ report = {}) \/ LoopSet

\* A thread raises or clears the status of a source.  A resource notes its last word under its
\* lock, and goes no further while no engine has bound it; a component needs its engine.  The
\* lock is released before the call of the engine.
Says(t, s, w) ==
    /\ words < MaxWords /\ thread[t] = NoCall /\ phase # "over"
    /\ s \in Resources \/ s \in bound
    /\ said' = [said EXCEPT ![s] = w] /\ words' = words + 1
    /\ unsure' = IF (s \in Resources => AllAdded) /\ ~MayPass(t, s)
                 THEN unsure \ {s} ELSE unsure \cup {s}
    /\ thread' = [thread EXCEPT ![t] =
                     IF s \in bound THEN [source |-> s, word |-> w, loop |-> LoopSet] ELSE @]
    /\ queue' = Overtaken(t, s)
    /\ UNCHANGED <<lifeVars, errorVars, dropped, eventVars, emits, fails>>

\* call runs a raise or clear at once on the loop itself, and where it may have seen no loop.
CallsAtOnce(t) ==
    /\ thread[t] # NoCall /\ (t = Loop \/ ~thread[t].loop)
    /\ Apply(thread[t].source, thread[t].word)
    /\ thread' = [thread EXCEPT ![t] = NoCall]
    /\ UNCHANGED <<lifeVars, said, unsure, queue, dropped, eventVars, words, emits, fails>>

\* A thread that sees the loop, which may have started since the call began, leaves its call to it.
CallsSoon(t) ==
    /\ thread[t] # NoCall /\ t # Loop /\ LoopSet /\ phase # "over"
    /\ queue' = Append(queue, [source |-> thread[t].source, kind |-> "status",
                               word |-> thread[t].word, ill |-> FALSE])
    /\ thread' = [thread EXCEPT ![t] = NoCall]
    /\ UNCHANGED <<lifeVars, errorVars, said, unsure, dropped, eventVars, words, emits, fails>>

\* The loop is closed: the call is logged and dropped.
CallsTooLate(t) ==
    /\ thread[t] # NoCall /\ t # Loop /\ phase = "over"
    /\ thread' = [thread EXCEPT ![t] = NoCall] /\ dropped' = TRUE
    /\ UNCHANGED <<lifeVars, errorVars, said, unsure, queue, eventVars, words, emits, fails>>

\* The component says ERROR, and no word for it that is still on its way may change that.
InError(t, c) == said[c] = "ERROR" /\ c \notin unsure /\ ~MayPass(t, c)

\* A thread emits an event of a component, at once on the loop and else through its queue.
\* Before the engine starts it is dropped.
Emits(t, c) ==
    /\ emits < MaxEmits /\ thread[t] = NoCall /\ LoopSet /\ phase # "over"
    /\ emits' = emits + 1
    /\ \/ t = Loop /\ Publish(c, InError(t, c)) /\ UNCHANGED queue
       \/ /\ t # Loop
          /\ queue' = Append(queue, [source |-> c, kind |-> "emit", word |-> "none",
                                     ill |-> InError(t, c)])
          /\ UNCHANGED <<errorVars, eventVars>>
    /\ UNCHANGED <<lifeVars, said, unsure, thread, dropped, words, fails>>

LoopRuns ==
    /\ queue # <<>> /\ LoopFree /\ phase # "over"
    /\ RunQueued(Head(queue))
    /\ queue' = Tail(queue)
    /\ UNCHANGED <<lifeVars, said, unsure, thread, dropped, words, emits, fails>>
-----------------------------------------------------------------------------
(* The lifecycle *)

\* add hosts a component and binds it.
Adds ==
    /\ LoopFree /\ phase = "adding" /\ at <= Len(Comps) /\ Unbound = {} /\ report = {}
    /\ hosted' = hosted \cup {Comps[at]} /\ bound' = bound \cup {Comps[at]} /\ at' = at + 1
    /\ UNCHANGED <<phase, state, connected, opened, failed, report, errorVars, callVars,
                   eventVars, words, emits, fails>>

\* add binds a new resource, which reads the status it raised before under its lock.
Binds(r) ==
    /\ LoopFree /\ phase = "adding" /\ r \in Unbound /\ report = {}
    /\ bound' = bound \cup {r}
    /\ report' = IF said[r] = "none" THEN {} ELSE {<<r, said[r]>>}
    /\ UNCHANGED <<phase, at, hosted, state, connected, opened, failed, errorVars, callVars,
                   eventVars, words, emits, fails>>

\* rois_bind reports that status.
BindReports ==
    /\ LoopFree /\ phase = "adding" /\ \E x \in report : Raise(x[1], x[2])
    /\ report' = {}
    /\ UNCHANGED <<phase, at, hosted, state, connected, opened, failed, bound, callVars,
                   eventVars, words, emits, fails>>

\* start keeps the loop, which a thread in the middle of a call may not have seen.
Starts ==
    /\ LoopFree /\ phase = "adding" /\ at = Len(Comps) + 1 /\ Unbound = {} /\ report = {}
    /\ phase' = "starting" /\ at' = 1
    /\ UNCHANGED <<hosted, state, connected, opened, failed, bound, report, errorVars, callVars,
                   eventVars, words, emits, fails>>

\* The resources of a component that start has not come to yet, at an earlier one either.
Untried == {i \in DOMAIN Uses[Comps[at]] :
               Uses[Comps[at]][i] \notin failed \cup {opened[j] : j \in DOMAIN opened}}

\* start opens the next resource of a component, or fails to.
Opens ==
    /\ LoopFree /\ phase = "starting" /\ at <= Len(Comps)
    /\ \E i \in Untried :
          /\ \A j \in Untried : i <= j
          /\ \/ opened' = Append(opened, Uses[Comps[at]][i]) /\ UNCHANGED <<failed, fails>>
             \/ /\ fails < MaxFails /\ fails' = fails + 1
                /\ failed' = failed \cup {Uses[Comps[at]][i]} /\ UNCHANGED opened
    /\ UNCHANGED <<phase, at, hosted, state, connected, bound, report, errorVars, callVars,
                   eventVars, words, emits>>

\* A wrong usable: one open resource is enough.
UsableAny(c) == UsesOf(c) = {} \/ UsesOf(c) \ failed # {}

\* Whether a component may connect: none of its resources failed to open.
Usable(c) == UsesOf(c) \cap failed = {}

\* start connects a component whose resources are open, or fails to.
Connects ==
    /\ LoopFree /\ phase = "starting" /\ at <= Len(Comps) /\ Untried = {}
    /\ LET c == Comps[at] IN
       \/ /\ Usable(c)
          /\ connected' = connected \cup {c} /\ state' = [state EXCEPT ![c] = "READY"]
          /\ UNCHANGED fails
       \/ /\ Usable(c) => fails < MaxFails
          /\ fails' = IF Usable(c) THEN fails + 1 ELSE fails
          /\ state' = [state EXCEPT ![c] = "FAILED"] /\ UNCHANGED connected
    /\ at' = at + 1 /\ phase' = IF at = Len(Comps) THEN "up" ELSE phase
    /\ UNCHANGED <<hosted, opened, failed, bound, report, errorVars, callVars, eventVars, words,
                   emits>>

\* stop begins, once the commands have ended.
Stops ==
    /\ LoopFree /\ phase = "up" /\ phase' = "disconnecting" /\ at' = 1
    /\ UNCHANGED <<hosted, state, connected, opened, failed, bound, report, errorVars, callVars,
                   eventVars, words, emits, fails>>

\* stop disconnects the next component.
Disconnects ==
    /\ LoopFree /\ phase = "disconnecting"
    /\ connected' = connected \ {Comps[at]}
    /\ state' = [state EXCEPT ![Comps[at]] = "UNINITIALIZED"]
    /\ at' = at + 1 /\ phase' = IF at = Len(Comps) THEN "closing" ELSE phase
    /\ UNCHANGED <<hosted, opened, failed, bound, report, errorVars, callVars, eventVars, words,
                   emits, fails>>

\* stop closes the resources, the last one opened first, and forgets the subscriptions.
Closes ==
    /\ LoopFree /\ phase = "closing"
    /\ IF opened = <<>>
       THEN phase' = "stopped" /\ subs' = {} /\ UNCHANGED opened
       ELSE opened' = SubSeq(opened, 1, Len(opened) - 1) /\ UNCHANGED <<phase, subs>>
    /\ UNCHANGED <<at, hosted, state, connected, failed, bound, report, errorVars, callVars,
                   preparing, got, words, emits, fails>>

\* asyncio.run ends and closes the loop, after stop, or while start is cancelled.
LoopCloses ==
    /\ LoopFree /\ phase \in {"starting", "stopped"} /\ phase' = "over"
    /\ dropped' = (dropped \/ queue # <<>>) /\ queue' = <<>> /\ preparing' = {}
    /\ UNCHANGED <<at, hosted, state, connected, opened, failed, bound, report, errorVars, said,
                   unsure, thread, subs, got, words, emits, fails>>
-----------------------------------------------------------------------------
(* Subscriptions *)

\* subscribe: the component prepares, if it is operable.
Subscribes(c) ==
    /\ LoopFree /\ phase \notin {"adding", "over"} /\ c \notin subs \cup preparing /\ Operable(c)
    /\ preparing' = preparing \cup {c}
    /\ UNCHANGED <<lifeVars, errorVars, callVars, subs, got, words, emits, fails>>

\* The component is prepared, or fails to be; the status is not looked at again.
Subscribed(c) ==
    /\ LoopFree /\ c \in preparing /\ preparing' = preparing \ {c}
    /\ \/ subs' = subs \cup {c} /\ UNCHANGED fails
       \/ fails < MaxFails /\ fails' = fails + 1 /\ UNCHANGED subs
    /\ UNCHANGED <<lifeVars, errorVars, callVars, got, words, emits>>
-----------------------------------------------------------------------------
Next ==
    \/ \E t \in Threads :
          \/ \E s \in Speakers, w \in Words : Says(t, s, w)
          \/ CallsAtOnce(t) \/ CallsSoon(t) \/ CallsTooLate(t)
          \/ \E c \in Components \cap Speakers : Emits(t, c)
    \/ \E c \in Components \cap Speakers : Subscribes(c) \/ Subscribed(c)
    \/ \E r \in Resources : Binds(r)
    \/ LoopRuns \/ Adds \/ BindReports \/ Starts \/ Opens \/ Connects \/ Stops \/ Disconnects
    \/ Closes \/ LoopCloses

Spec == Init /\ [][Next]_vars
-----------------------------------------------------------------------------
(* Properties *)

\* get_error_detail answers for an error until the status that caused it is cleared, and no
\* longer: the errors kept are those of the statuses in force.
ErrorsOfStatuses ==
    errors = UNION {raised[c][s].errors : c \in Reporters, s \in Sources}

Rank(status) == CASE status = "ERROR" -> 2 [] status = "WARNING" -> 1 [] OTHER -> 0

\* Whenever a raise makes a component report something worse, clients are sent an error, from
\* whichever of its sources it came and whatever was raised before.
WorseIsTold ==
    [][\A c \in Reporters :
          (/\ state'[c] = state[c]
           /\ Rank(Status(state[c], raised'[c])) > Rank(Status(state[c], raised[c])))
          => \E e \in errors' \ errors : e[1] = c]_vars

\* The last word of a source, from whichever threads it speaks, is what all components it speaks
\* for report when its calls have run: nothing that is said while the engine starts, serves or
\* stops is lost or overtaken, except what comes after the loop has closed.  Words that are said
\* at the same time take no order: the lock of a resource is released before the engine is called,
\* so one that another thread still delivers, or that the queue holds while the loop speaks at
\* once, may land last.  Until its next word such a source is unsure, and so is a resource that
\* spoke before every component was added, or was made with a status and is shared.
LastWordHolds ==
    (queue = <<>> /\ ~dropped /\ report = {} /\ Unbound = {}) =>
        \A s \in Sources \ unsure : (\A t \in Threads : ~Speaking(t, s)) =>
            \A c \in hosted \cup {Engine} :
                (s = c \/ (c # Engine /\ s \in UsesOf(c))) => raised[c][s].status = said[s]

\* A component is connected only while every resource it uses is open, so it can still use
\* them to disconnect.
BackendUnderComponent ==
    \A c \in connected : \A r \in UsesOf(c) : \E i \in DOMAIN opened : opened[i] = r

\* An event a component emits while it says ERROR reaches nobody, even when a thread clears the
\* ERROR before the loop gets to the event.  The loop itself runs what it says at once, before
\* the events that wait, so its clear lets them pass.
NoEventInError == ~got

\* A component serves only what its backend and its status allow: it is connected on open
\* resources, and what it emits in ERROR is held back.
OnlyUsableServe == TypeOK /\ BackendUnderComponent /\ NoEventInError

\* Clients are told of every status that gets worse, and can ask about the error exactly as long
\* as its status is in force.
ErrorsTold == WorseIsTold /\ []ErrorsOfStatuses
=============================================================================
