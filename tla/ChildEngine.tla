---------------------------- MODULE ChildEngine ----------------------------
(***************************************************************************)
(* The proxy of one child engine (engine/src/openrois/engine/child.py):    *)
(* requests with timeouts and late replies, commands and parameters that   *)
(* complete by notification, subscriptions, errors, the abort of a         *)
(* command, and the end of the connection.                                 *)
(*                                                                         *)
(* A callback of the event loop is one action.  ready is the queue of      *)
(* callbacks that asyncio runs in order: a settled future queues the wake  *)
(* of its caller, a notification is queued with call_soon, a new task is   *)
(* queued with its first step.  A timer and a cancellation may come        *)
(* between any two callbacks.  The two directions of the connection are    *)
(* FIFO.  The child serves its requests in order, but it may complete a    *)
(* command before it answers the execute.                                  *)
(***************************************************************************)
EXTENDS Naturals, Sequences, FiniteSets, SequencesExt

CONSTANTS
    Cmds,      \* commands on one component of the child, numbered in the order they are run
    Subs,      \* subscribe requests, which also name the ids the child assigns
    Sets,      \* set_parameter requests
    Reads,     \* requests that only read: queries, parameters, results, details
    Errors,    \* errors the child raises
    Foreign,   \* an id that starts with no engine id of the child
    None,      \* no subscription
    LATE_KEPT, \* _LATE_KEPT
    HasStop,   \* whether the profile of the component declares stop
    Timed,     \* bound: the kinds of calls whose timers may fire
    Scenarios  \* bound: the sets of calls and errors that may occur in one behaviour

ASSUME LateAssumption == LATE_KEPT \in Nat
ASSUME FlagAssumption == HasStop \in BOOLEAN
ASSUME FiniteAssumption == \A S \in {Cmds, Subs, Sets, Reads, Errors} : IsFiniteSet(S)
ASSUME IdAssumption == Foreign \notin Subs /\ None \notin Subs /\ None # Foreign

\* Every call of _request: those the engine makes and those of spawned tasks.
Runs  == {"run"} \X Cmds
Stops == {"stop"} \X Cmds
Calls == Runs \cup Stops \cup ({"release"} \X Cmds) \cup ({"sub", "unsub"} \X Subs)
         \cup ({"set"} \X Sets) \cup ({"read"} \X Reads) \cup ({"detail"} \X Errors)
EngineKinds == {"run", "sub", "set", "read"}

VARIABLES
    up,         \* the WebSocket connection is open
    open,       \* _open: detach has not been called
    toChild,    \* requests on their way
    fromChild,  \* replies and notifications on their way
    ready,      \* the callbacks queued in the event loop
    pc,         \* each call: "idle", "spawned", "waiting" (for its reply), "running" (for
                \* its completed), "done"
    pending,    \* _pending
    reply,      \* the future of each request: "open", "OK", "ERROR", "cancelled"
    late,       \* _late, oldest first
    completion, \* the futures of _running and _parameters, "none" when not in them
    deliveries, \* _deliveries: the subscribe request each id was recorded for
    kept,       \* _kept
    signal,     \* what interrupts a call: "none", "timeout" or "cancel"
    result,     \* what each call returned
    got,        \* requests the child is handling
    childRuns,  \* commands that run in the child
    childSubs,  \* subscriptions the child holds
    raised,     \* what the child has announced: errors, and subscriptions with an event
    passed      \* what reached the callbacks of the engine: errors and events

linkVars  == <<up, open>>
callVars  == <<pc, reply, completion, signal, result>>
childVars == <<got, childRuns, childSubs, raised>>
vars == <<up, open, toChild, fromChild, ready, pc, pending, reply, late, completion,
          deliveries, kept, signal, result, got, childRuns, childSubs, raised, passed>>

Msg(k, c, ok, i) == [kind |-> k, call |-> c, ok |-> ok, id |-> i]
Msgs == [kind : {"reply", "completed", "event", "error"}, call : Calls, ok : BOOLEAN,
         id : Subs \cup {Foreign, None}]
Settled(f) == f \in {"OK", "ERROR", "cancelled"}

TypeOK ==
    /\ up \in BOOLEAN /\ open \in BOOLEAN
    /\ toChild \in Seq(Calls) /\ fromChild \in Seq(Msgs)
    /\ ready \in Seq(({"wake", "spawn"} \X Calls) \cup ({"note"} \X Msgs))
    /\ pc \in [Calls -> {"idle", "spawned", "waiting", "running", "done"}]
    /\ pending \subseteq {c \in Calls : pc[c] = "waiting"} /\ late \in Seq(Calls) /\ Len(late) <= LATE_KEPT
    /\ reply \in [Calls -> {"none", "open", "OK", "ERROR", "cancelled"}]
    /\ completion \in [Calls -> {"none", "open", "OK", "ERROR", "cancelled"}]
    /\ deliveries \in [Subs -> Subs \cup {None}]
    /\ kept \subseteq Cmds
    /\ signal \in [Calls -> {"none", "timeout", "cancel"}]
    /\ result \in [Calls -> {"none", "OK", "ERROR", "TIMEOUT", "CANCELLED"}]
    /\ got \subseteq Calls /\ childRuns \subseteq Runs \cup Stops /\ childSubs \subseteq Subs
    /\ raised \subseteq Calls /\ passed \subseteq Calls

\* ChildEngine.__init__, after discover.
Init ==
    /\ up = TRUE /\ open = TRUE
    /\ toChild = <<>> /\ fromChild = <<>> /\ ready = <<>>
    /\ pc = [c \in Calls |-> "idle"]
    /\ pending = {} /\ late = <<>> /\ kept = {}
    /\ reply = [c \in Calls |-> "none"] /\ completion = [c \in Calls |-> "none"]
    /\ deliveries = [i \in Subs |-> None]
    /\ signal = [c \in Calls |-> "none"] /\ result = [c \in Calls |-> "none"]
    /\ got = {} /\ childRuns = {} /\ childSubs = {} /\ raised = {} /\ passed = {}
-----------------------------------------------------------------------------
(* Requests *)

\* The rest of an abort after its stop.
ReleaseAfter(c) == IF c \in Stops THEN <<<<"release", c[2]>>>> ELSE <<>>

\* The calls that begin when the calls of cs do: on a closed proxy a stop fails at once and
\* its abort goes on to the release, which fails as well.
Begun(cs) == ToSet(cs) \cup IF open THEN {} ELSE UNION {ToSet(ReleaseAfter(c)) : c \in ToSet(cs)}

\* _request up to its await, for the calls cs that begin in this step, while the calls of
\* ended return r and those of spawned become tasks.  A closed proxy fails a call at once,
\* and a closed connection loses its message (send_text).
Moves(cs, ended, r, spawned) ==
    LET begun == Begun(cs) IN
    /\ pc' = [c \in Calls |->
                 IF c \in begun THEN (IF open THEN "waiting" ELSE "done")
                 ELSE IF c \in ended THEN "done"
                 ELSE IF c \in spawned THEN "spawned" ELSE pc[c]]
    /\ result' = [c \in Calls |-> IF c \in begun /\ ~open THEN "ERROR"
                                  ELSE IF c \in ended THEN r ELSE result[c]]
    /\ reply' = [c \in Calls |-> IF c \in begun /\ open THEN "open" ELSE reply[c]]
    /\ pending' = (pending \ ended) \cup (IF open THEN begun ELSE {})
    /\ toChild' = IF open /\ up THEN toChild \o cs ELSE toChild
    /\ passed' = passed \cup {c \in begun : c[1] = "detail" /\ ~open}
                        \cup {c \in ended : c[1] = "detail" /\ r # "CANCELLED"}

\* A wrong Completions: an execute is registered only once it is answered.
CompletionsNone(cs, ended) == [c \in Calls |-> IF c \in ended THEN "none" ELSE completion[c]]

\* The completions that begin with the calls of cs and end with the call of ended.
Completions(cs, ended) ==
    [c \in Calls |-> IF c \in ToSet(cs) /\ c \in Runs \cup Stops /\ open THEN "open"
                     ELSE IF c \in ended THEN "none" ELSE completion[c]]

\* A wrong _remember_late: nothing is remembered.
RememberLateNot(c) == late

\* _remember_late.  Only subscribe has an on_late.
RememberLate(c) ==
    LET all == Append(late, c)
    IN  IF c[1] # "sub" THEN late ELSE IF Len(all) > LATE_KEPT THEN Tail(all) ELSE all

\* What is left of _late when a late reply arrives.
ForgetLate(c) == IF c \in ToSet(late) THEN RemoveAt(late, CHOOSE k \in DOMAIN late : late[k] = c)
                 ELSE late

\* Callbacks for the calls of S, in some order.
Callbacks(kind, S) == LET s == SetToSeq(S) IN [k \in DOMAIN s |-> <<kind, s[k]>>]

\* _spawn, for calls nobody has made yet.
Spawn(S) == {c \in S : pc[c] = "idle"}
FirstSteps(S) == Callbacks("spawn", S)

\* A wrong end_late: an id that another request recorded is ended too.
EndLateAnyway(c, i) == IF i = Foreign THEN {} ELSE {<<"unsub", i>>}

\* end_late: the unsubscribe to spawn for the OK reply of a subscribe whose caller no longer
\* waits.  An id that another request recorded belongs to a subscription someone holds.
EndLate(c, i) ==
    IF i = Foreign \/ deliveries[i] \notin {None, c[2]} THEN {} ELSE {<<"unsub", i>>}

\* What end_late ends when the reply came in time but its caller is cancelled before it could
\* pass it on: the id under which the subscribe was recorded, unless detach forgot it.
EndRecorded(c) == {u \in {"unsub"} \X Subs : c[1] = "sub" /\ deliveries[u[2]] = c[2]}

\* run, when it is cancelled: _abort is spawned unless the command is kept.
AbortOf(c) ==
    IF c \notin Runs \/ c[2] \in kept THEN {}
    ELSE IF HasStop THEN {<<"stop", c[2]>>} ELSE {<<"release", c[2]>>}

\* The calls made so far that the proxy did not make itself, and the errors raised.
Used == {c \in Calls : c[1] \in EngineKinds /\ pc[c] # "idle"}
        \cup {c \in raised : c[1] = "detail"}
Allowed(c) == \E S \in Scenarios : Used \cup {c} \subseteq S

\* The engine calls run, subscribe, set_parameter, one of the requests that only read, or
\* unsubscribe for a subscription that is held.  A command of the component is run after the one before it returned.
Call(c) ==
    /\ pc[c] = "idle"
    /\ Allowed(c) \/ c[1] = "unsub"
    /\ \/ c[1] \in {"sub", "set", "read"}
       \/ c \in Runs /\ \A d \in Runs : d[2] < c[2] => pc[d] = "done"
       \/ /\ c[1] = "unsub" /\ deliveries[c[2]] # None
          /\ result[<<"sub", deliveries[c[2]]>>] = "OK"
    /\ Moves(<<c>>, {}, "none", {})
    /\ completion' = Completions(<<c>>, {})
    /\ deliveries' = IF c[1] = "unsub" THEN [deliveries EXCEPT ![c[2]] = None] ELSE deliveries
    /\ UNCHANGED <<linkVars, fromChild, ready, late, kept, signal, childVars>>

\* The first step of a spawned task: unsubscribe, _abort or _pass_error.  A task that detach
\* cancelled never starts.
Spawned(c) ==
    /\ ready # <<>> /\ Head(ready) = <<"spawn", c>>
    /\ ready' = Tail(ready)
    /\ IF signal[c] = "cancel"
       THEN Moves(<<>>, {c}, "CANCELLED", {}) /\ UNCHANGED <<completion, deliveries>>
       ELSE /\ Moves(<<c>>, {}, "none", {})
            /\ completion' = Completions(<<c>>, {})
            /\ deliveries' = IF c[1] = "unsub" THEN [deliveries EXCEPT ![c[2]] = None]
                             ELSE deliveries
    /\ UNCHANGED <<linkVars, fromChild, late, kept, signal, childVars>>

\* The future a call waits on.
Awaited(c) == IF pc[c] = "waiting" THEN reply[c] ELSE completion[c]

\* A timeout or a cancel reaches a call: it cancels the future the call waits on, unless that
\* is settled already, and the call will raise when it wakes.
Interrupts(c, s) ==
    /\ signal' = [signal EXCEPT ![c] = s]
    /\ reply' = IF pc[c] = "waiting" /\ Awaited(c) = "open"
                THEN [reply EXCEPT ![c] = "cancelled"] ELSE reply
    /\ completion' = IF pc[c] = "running" /\ Awaited(c) = "open"
                     THEN [completion EXCEPT ![c] = "cancelled"] ELSE completion
    /\ ready' = IF Awaited(c) = "open" THEN Append(ready, <<"wake", c>>) ELSE ready
    /\ UNCHANGED <<linkVars, toChild, fromChild, pc, pending, late, deliveries, result,
                   childVars, passed>>

\* The timer of a request, of a parameter change or of the stop of an abort fires.
Timer(c) ==
    /\ signal[c] = "none" /\ c[1] \in Timed
    /\ \/ pc[c] = "waiting"
       \/ pc[c] = "running" /\ c \notin Runs
    /\ Interrupts(c, "timeout") /\ UNCHANGED kept

\* The engine cancels a call, after keep_running when other clients share the command.
Cancel(c, keep) ==
    /\ c[1] \in EngineKinds /\ pc[c] \in {"waiting", "running"}
    /\ signal[c] # "cancel" /\ (keep => c \in Runs)
    /\ Interrupts(c, "cancel")
    /\ kept' = IF keep THEN kept \cup {c[2]} ELSE kept

\* A call ends when it wakes: the stop of an abort is followed by the release, and a run
\* forgets whether it was kept.
Ends(c, r, spawned) ==
    LET next == IF r = "CANCELLED" THEN <<>> ELSE ReleaseAfter(c) IN
    /\ Moves(next, {c}, r, Spawn(spawned))
    /\ completion' = Completions(next, {c})
    /\ ready' = Tail(ready) \o FirstSteps(Spawn(spawned))
    /\ kept' = IF c \in Runs THEN kept \ {c[2]} ELSE kept

Woken(c) == ready # <<>> /\ Head(ready) = <<"wake", c>>

\* A reply wakes its caller.  An accepted execute or set_parameter goes on to wait for its
\* completed, unless that came already.
ReplyWakes(c) ==
    /\ Woken(c) /\ pc[c] = "waiting" /\ signal[c] = "none"
    /\ IF reply[c] = "OK" /\ c[1] \in {"run", "stop", "set"} /\ completion[c] = "open"
       THEN /\ pc' = [pc EXCEPT ![c] = "running"] /\ pending' = pending \ {c}
            /\ ready' = Tail(ready)
            /\ UNCHANGED <<reply, completion, result, toChild, passed, kept>>
       ELSE Ends(c, IF reply[c] = "OK" /\ completion[c] # "ERROR" THEN "OK" ELSE "ERROR", {})
    /\ UNCHANGED <<linkVars, fromChild, late, deliveries, signal, childVars>>

\* A request gives up after its timeout.
TimeoutWakes(c) ==
    /\ Woken(c) /\ pc[c] = "waiting" /\ signal[c] = "timeout"
    /\ Ends(c, "TIMEOUT", {})
    /\ late' = RememberLate(c)
    /\ UNCHANGED <<linkVars, fromChild, deliveries, signal, childVars>>

\* A request is cancelled.  A reply that was there already is handled as a late one.
CancelWakes(c) ==
    /\ Woken(c) /\ pc[c] = "waiting" /\ signal[c] = "cancel"
    /\ Ends(c, "CANCELLED",
            AbortOf(c) \cup IF reply[c] = "OK" THEN EndRecorded(c) ELSE {})
    /\ late' = IF reply[c] = "cancelled" THEN RememberLate(c) ELSE late
    /\ UNCHANGED <<linkVars, fromChild, deliveries, signal, childVars>>

\* A wrong end: a run that is cancelled as it completes returns its status.
CompletionWakesAnyway(c) ==
    /\ Woken(c) /\ pc[c] = "running"
    /\ Ends(c, IF completion[c] = "OK" THEN "OK" ELSE "ERROR", {})
    /\ UNCHANGED <<linkVars, fromChild, late, deliveries, signal, childVars>>

\* A command, or a parameter change, that was accepted comes to its end.
CompletionWakes(c) ==
    /\ Woken(c) /\ pc[c] = "running"
    /\ IF signal[c] = "cancel" THEN Ends(c, "CANCELLED", AbortOf(c))
       ELSE Ends(c, IF completion[c] = "OK" THEN "OK" ELSE "ERROR", {})
    /\ UNCHANGED <<linkVars, fromChild, late, deliveries, signal, childVars>>
-----------------------------------------------------------------------------
(* Messages of the child *)

\* on_reply: an OK reply must assign an id of the child's that is not in use.
Accepts(m) ==
    /\ m.ok /\ (m.call[1] \in {"sub", "set"} => m.id # Foreign)
    /\ (m.call[1] = "sub" => deliveries[m.id] = None)

\* _handle_reply for a request that waits: what the next messages need is recorded at once.
HandleReply ==
    /\ open /\ fromChild # <<>> /\ Head(fromChild).kind = "reply"
    /\ LET m == Head(fromChild)
           c == m.call
       IN  /\ c \in pending
           /\ pending' = pending \ {c}
           /\ reply' = IF reply[c] # "open" THEN reply
                       ELSE [reply EXCEPT ![c] = IF Accepts(m) THEN "OK" ELSE "ERROR"]
           /\ ready' = IF reply[c] # "open" THEN ready ELSE Append(ready, <<"wake", c>>)
           /\ deliveries' = IF c[1] = "sub" /\ Accepts(m)
                            THEN [deliveries EXCEPT ![m.id] = c[2]] ELSE deliveries
           /\ completion' = IF c[1] = "set" /\ Accepts(m)
                            THEN [completion EXCEPT ![c] = "open"] ELSE completion
    /\ fromChild' = Tail(fromChild)
    /\ UNCHANGED <<linkVars, toChild, pc, late, kept, signal, result, childVars, passed>>

\* _handle_reply for a request whose caller stopped waiting.
HandleLateReply ==
    /\ open /\ fromChild # <<>> /\ Head(fromChild).kind = "reply"
    /\ LET m == Head(fromChild)
           ended == IF m.call \in ToSet(late) /\ m.ok THEN Spawn(EndLate(m.call, m.id))
                    ELSE {}
       IN  /\ m.call \notin pending
           /\ late' = ForgetLate(m.call)
           /\ pc' = [c \in Calls |-> IF c \in ended THEN "spawned" ELSE pc[c]]
           /\ ready' = ready \o FirstSteps(ended)
    /\ fromChild' = Tail(fromChild)
    /\ UNCHANGED <<linkVars, toChild, pending, reply, completion, deliveries, kept, signal,
                   result, childVars, passed>>

\* handle: a notification is queued behind the wakes of the replies before it.
HandleNotification ==
    /\ open /\ fromChild # <<>> /\ Head(fromChild).kind # "reply"
    /\ ready' = Append(ready, <<"note", Head(fromChild)>>)
    /\ fromChild' = Tail(fromChild)
    /\ UNCHANGED <<linkVars, toChild, callVars, pending, late, deliveries, kept, childVars,
                   passed>>

\* _handle_notification: completed settles its future, an event goes to the delivery recorded
\* for it, an error is passed on by a task that asks for its detail.
Notified ==
    /\ ready # <<>> /\ Head(ready)[1] = "note"
    /\ LET m == Head(ready)[2]
           c == m.call
           settles == m.kind = "completed" /\ completion[c] = "open"
           spawned == IF m.kind = "error" THEN Spawn({c}) ELSE {}
       IN  /\ completion' = IF settles
                            THEN [completion EXCEPT ![c] = IF m.ok THEN "OK" ELSE "ERROR"]
                            ELSE completion
           /\ ready' = Tail(ready) \o FirstSteps(spawned) \o
                       (IF settles /\ pc[c] = "running" THEN <<<<"wake", c>>>> ELSE <<>>)
           /\ pc' = [x \in Calls |-> IF x \in spawned THEN "spawned" ELSE pc[x]]
           /\ passed' = IF m.kind = "event" /\ deliveries[m.id] # None
                        THEN passed \cup {c} ELSE passed
    /\ UNCHANGED <<linkVars, toChild, fromChild, pending, reply, late, deliveries, kept,
                   signal, result, childVars>>

\* A wrong detach: commands that run are not failed.
WokenByDetachRequests == {c \in Calls : pc[c] = "waiting" /\ reply[c] = "open"}

\* The calls that wait on a future which detach settles.
WokenByDetach ==
    {c \in Calls : \/ pc[c] = "waiting" /\ reply[c] = "open"
                   \/ pc[c] = "running" /\ completion[c] = "open"}

\* The reader of a closed connection ends and calls detach: what waits fails, and the tasks
\* of the proxy are cancelled.
Detach ==
    /\ open /\ ~up /\ fromChild = <<>>
    /\ open' = FALSE
    /\ reply' = [c \in Calls |-> IF reply[c] = "open" THEN "ERROR" ELSE reply[c]]
    /\ completion' = [c \in Calls |-> IF completion[c] = "open" THEN "ERROR"
                                      ELSE completion[c]]
    /\ signal' = [c \in Calls |->
                     IF /\ c[1] \in {"stop", "release", "unsub", "detail"}
                        /\ pc[c] \notin {"idle", "done"}
                     THEN "cancel" ELSE signal[c]]
    /\ ready' = ready \o Callbacks("wake", WokenByDetach)
    /\ pending' = {} /\ late' = <<>> /\ deliveries' = [i \in Subs |-> None]
    /\ UNCHANGED <<up, toChild, fromChild, pc, kept, result, childVars, passed>>
-----------------------------------------------------------------------------
(* The child *)

Tell(ms) == fromChild' = fromChild \o ms
Completed(c, ok) == Msg("completed", c, ok, None)
proxyVars == <<linkVars, ready, callVars, pending, late, deliveries, kept, passed>>

\* The child reads an execute and starts the command.
ChildStarts ==
    /\ up /\ toChild # <<>> /\ Head(toChild) \in Runs \cup Stops
    /\ toChild' = Tail(toChild)
    /\ got' = got \cup {Head(toChild)} /\ childRuns' = childRuns \cup {Head(toChild)}
    /\ UNCHANGED <<proxyVars, fromChild, childSubs, raised>>

\* The child answers an execute, perhaps after the command ended.
ChildAnswers(c) ==
    /\ c \in got /\ got' = got \ {c}
    /\ Tell(<<Msg("reply", c, TRUE, None)>>)
    /\ UNCHANGED <<proxyVars, toChild, childRuns, childSubs, raised>>

\* The child refuses a request.
ChildRefuses ==
    /\ up /\ toChild # <<>> /\ Head(toChild)[1] \notin {"unsub", "release"}
    /\ toChild' = Tail(toChild)
    /\ Tell(<<Msg("reply", Head(toChild), FALSE, None)>>)
    /\ UNCHANGED <<proxyVars, childVars>>

\* The child answers a subscribe with an id: a new one, one that is in use, or one that
\* belongs to another engine.
ChildSubscribes(i) ==
    /\ up /\ toChild # <<>> /\ Head(toChild)[1] = "sub"
    /\ toChild' = Tail(toChild)
    /\ \/ i = Head(toChild)[2] /\ childSubs' = childSubs \cup {i}
       \/ /\ i \in childSubs /\ deliveries[i] # None /\ result[<<"sub", i>>] = "OK"
          /\ UNCHANGED childSubs
       \/ i = Foreign /\ UNCHANGED childSubs
    /\ Tell(<<Msg("reply", Head(toChild), TRUE, i)>>)
    /\ UNCHANGED <<proxyVars, got, childRuns, raised>>

\* The commands that end in the child when it is asked to stop or to release the component.
Aborted == {c \in childRuns : c \in Runs}
AbortedMsgs == LET s == SetToSeq(Aborted) IN [k \in DOMAIN s |-> Completed(s[k], FALSE)]

\* The child serves another request: a parameter change is applied and completes right after
\* the reply, a release aborts the commands of the component.
ChildServes ==
    /\ up /\ toChild # <<>> /\ Head(toChild)[1] \in {"set", "read", "detail", "unsub", "release"}
    /\ toChild' = Tail(toChild)
    /\ LET c == Head(toChild)
           ended == IF c[1] = "release" THEN Aborted ELSE {}
       IN  /\ Tell((IF c[1] = "release" THEN AbortedMsgs ELSE <<>>)
                   \o <<Msg("reply", c, TRUE, None)>>
                   \o (IF c[1] = "set" THEN <<Completed(c, TRUE)>> ELSE <<>>))
           /\ childRuns' = childRuns \ ended
           /\ childSubs' = IF c[1] = "unsub" THEN childSubs \ {c[2]} ELSE childSubs
           /\ raised' = raised \cup ended \cup (IF c[1] = "set" THEN {c} ELSE {})
    /\ UNCHANGED <<proxyVars, got>>

\* A command ends in the child.  A stop ends the commands of the component with it.
ChildCompletes(c, ok) ==
    /\ c \in childRuns
    /\ LET stopped == IF c \in Stops THEN Aborted ELSE {} IN
       /\ childRuns' = childRuns \ ({c} \cup stopped)
       /\ Tell((IF c \in Stops THEN AbortedMsgs ELSE <<>>) \o <<Completed(c, ok)>>)
       /\ raised' = raised \cup {c} \cup stopped
    /\ UNCHANGED <<proxyVars, toChild, got, childSubs>>

\* The child sends an event of a subscription, or an error.
ChildNotifies(c) ==
    /\ up /\ c \notin raised
    /\ \/ c[1] = "sub" /\ c[2] \in childSubs /\ Tell(<<Msg("event", c, TRUE, c[2])>>)
       \/ /\ c[1] = "detail" /\ Allowed(c)
          /\ Tell(<<Msg("error", c, TRUE, None)>>)
    /\ raised' = raised \cup {c}
    /\ UNCHANGED <<proxyVars, toChild, got, childRuns, childSubs>>

\* The connection is lost, with what was on its way to the child.  The child closes the
\* session, which ends what it held there.
ConnectionLost ==
    /\ up /\ up' = FALSE
    /\ toChild' = <<>> /\ got' = {} /\ childRuns' = {} /\ childSubs' = {}
    /\ UNCHANGED <<open, fromChild, ready, callVars, pending, late, deliveries, kept, raised,
                   passed>>
-----------------------------------------------------------------------------
Wakes(c) == ReplyWakes(c) \/ TimeoutWakes(c) \/ CancelWakes(c) \/ CompletionWakes(c)

Next ==
    \/ \E c \in Calls : Call(c) \/ Spawned(c) \/ Timer(c) \/ Wakes(c)
    \/ \E c \in Calls, keep \in BOOLEAN : Cancel(c, keep)
    \/ HandleReply \/ HandleLateReply \/ HandleNotification \/ Notified \/ Detach
    \/ ChildStarts \/ ChildRefuses \/ ChildServes \/ ConnectionLost
    \/ \E c \in Calls : ChildAnswers(c) \/ ChildNotifies(c)
    \/ \E i \in Subs \cup {Foreign} : ChildSubscribes(i)
    \/ \E c \in Calls, ok \in BOOLEAN : ChildCompletes(c, ok)

Spec == Init /\ [][Next]_vars

\* The event loop runs its callbacks and reads the connection, timers fire, and the child
\* reads and answers its requests.
FairSpec ==
    /\ Spec
    /\ WF_vars(\E c \in Calls : Spawned(c) \/ Wakes(c))
    /\ WF_vars(Notified)
    /\ WF_vars(HandleReply \/ HandleLateReply \/ HandleNotification \/ Detach)
    /\ \A c \in Calls : WF_vars(Timer(c)) /\ WF_vars(ChildAnswers(c))
    /\ WF_vars(ChildStarts \/ ChildServes \/ \E i \in Subs : ChildSubscribes(i))
-----------------------------------------------------------------------------
(* Properties *)

Quiet ==
    /\ toChild = <<>> /\ fromChild = <<>> /\ ready = <<>> /\ got = {}
    /\ \A c \in Calls : pc[c] # "waiting"

\* The reply came in the turn of the event loop in which its request gave up: it was taken for
\* one in time, or it is no longer awaited and its request is remembered as late after it.
SameTurn(c) ==
    \/ result[c] = "TIMEOUT" /\ reply[c] = "OK"
    \/ result[c] \in {"TIMEOUT", "CANCELLED"} /\ c \in ToSet(late)

\* The subscribes that gave up.
GaveUp == {i \in Subs : result[<<"sub", i>>] \in {"TIMEOUT", "CANCELLED"}}

\* child.py: a subscription whose reply comes too late is ended, since nobody holds it.  Once
\* nothing is under way, every subscription the child holds is one a caller was given, or one
\* whose reply came in the very turn of the event loop in which its request gave up, or more
\* subscribes gave up than are remembered.
LateSubscriptionsEnd ==
    Quiet /\ up /\ Cardinality(GaveUp) <= LATE_KEPT => \A i \in childSubs :
        \/ deliveries[i] # None /\ result[<<"sub", deliveries[i]>>] = "OK"
        \/ SameTurn(<<"sub", i>>)

\* A subscription a caller was given keeps its delivery until it is unsubscribed or the child
\* is gone, whatever late replies arrive.
HeldSubscriptionStays ==
    [][\A i \in Subs :
          (/\ deliveries[i] # None /\ result[<<"sub", deliveries[i]>>] = "OK"
           /\ deliveries'[i] # deliveries[i])
          => ~open' \/ pc[<<"unsub", i>>] = "idle"]_vars

\* No completed is lost, in whatever order it and the reply arrive: a call that waits for one
\* the child has sent finds it in its future or still has it before it.
CompletedNotLost ==
    \A c \in raised :
        (/\ c[1] \in {"run", "stop", "set"} /\ pc[c] \in {"waiting", "running"}
         /\ open /\ signal[c] = "none" /\ reply[c] # "ERROR")
        => (\/ Settled(completion[c])
            \/ \E k \in DOMAIN fromChild :
                   fromChild[k].kind = "completed" /\ fromChild[k].call = c
            \/ \E k \in DOMAIN ready : ready[k][1] = "note" /\ ready[k][2].call = c)

\* The engine is handed the first event of a subscription after the reply that names it.
ReplyBeforeEvent ==
    \A c \in passed : c[1] = "sub" => pc[c] = "done"

\* Nobody waits for ever on a child that is gone.
DetachedCallsEnd == (~open) ~> (\A c \in Calls : pc[c] \in {"idle", "done"})

\* An abort halts its command in the child while the connection lasts, even when the child
\* refuses the stop or the stop comes to no end.
AbortHalts ==
    \A c \in Cmds :
        (pc[<<"stop", c>>] = "spawned") ~>
        (~up \/ <<"run", c>> \notin childRuns \cup ToSet(toChild))

\* What the child sends is taken in the order that makes sense of it: a completed that overtakes
\* its reply is found when the reply arrives, and no event is handed on before the reply that
\* names its subscription.
RepliesInOrder == TypeOK /\ CompletedNotLost /\ ReplyBeforeEvent

\* Every call of a proxy that is detached ends, and every abort halts its command.
CallsEnd == DetachedCallsEnd /\ AbortHalts

\* run as the contract sees it.
RunState(c) ==
    LET r == <<"run", c>> IN
    CASE pc[r] = "idle" -> "none"
      [] pc[r] = "done" -> IF result[r] = "CANCELLED" THEN "aborted" ELSE "ended"
      [] pc[r] \in {"waiting", "running"} /\ signal[r] = "cancel" -> "cancelling"
      [] OTHER -> "running"
Contract == INSTANCE RunContract WITH run <- [c \in Cmds |-> RunState(c)]

\* The proxy keeps the contract of a source: a run ends once, and a run the engine cancels
\* ends, as a cancelled run.
ContractHolds == Contract!FairSpec

=============================================================================
