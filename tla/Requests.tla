------------------------------ MODULE Requests ------------------------------
(***************************************************************************)
(* The requests of some connections, from the message that arrives to the  *)
(* messages that go out (jsonrpc.py), with the requests that change and    *)
(* read the parameters of a local component (engine.py, local.py).         *)
(*                                                                         *)
(* Each request runs in a task of its own and may wait in the component's  *)
(* parameter hook; what a task does between two waits is one step.  A set  *)
(* is completed by a callback of the event loop, after its reply.  A lost  *)
(* connection cancels its tasks, waits for them and closes its session.    *)
(***************************************************************************)
EXTENDS Naturals, Sequences, SequencesExt, FiniteSets

CONSTANTS
    Sessions,
    Trusted,     \* the sessions of parent engines, which no bind is asked of
    Requests,    \* each is sent once
    SessionOf,   \* the session a request comes in on
    What,        \* what a request may be: some of Kinds
    Gives,       \* the parameters a set gives values for
    About,       \* the set a "result" request asks for
    Params,      \* the parameters the profile lists
    ReadOnly,    \* those that may not be set
    KEPT,        \* how many results are kept
    None         \* the value of a parameter nobody has set

\* "malformed" stands for what is answered with an error before the engine sees it: no JSON, no
\* request, an unknown method, bad params. A "breaks" is a request the engine fails on.
Kinds == {"malformed", "notification", "breaks", "set", "get", "result"}

ASSUME RequestsAssumption ==
    /\ Trusted \subseteq Sessions /\ ReadOnly \subseteq Params
    /\ SessionOf \in [Requests -> Sessions] /\ What \in [Requests -> SUBSET Kinds]
    /\ KEPT \in Nat \ {0}

VARIABLES
    conn,      \* the connections: "up", "lost" while its tasks end, or "closed"
    task,      \* the tasks of the requests
    kind,      \* what each request is, once it arrived
    held,      \* the sessions that hold the component
    operable,  \* whether the component has no ERROR and its resources are open
    stored,    \* the parameter values, each named by the set it comes from
    results,   \* the sets whose results are kept, oldest first
    known,     \* the sets in the engine's table of commands
    status,    \* how the command of a set ended
    soon,      \* the callbacks of the event loop, in order
    outbox,    \* the messages that wait to go out, for each session
    sent       \* the messages the writer took from there

vars == <<conn, task, kind, held, operable, stored, results, known, status, soon, outbox, sent>>
params == <<stored, results, known, status, soon>>

Message(is, r, code) == [is |-> is, req |-> r, code |-> code]
Messages == [is : {"reply", "error", "completed"}, req : Requests,
             code : {"OK", "ERROR", "BAD_PARAMETER", "INVALID", "INTERNAL"}]

\* One type invariant: the tables of the engine hold sets only, and no more results than kept.
TypeOK ==
    /\ conn \in [Sessions -> {"up", "lost", "closed"}]
    /\ task \in [Requests -> {"idle", "new", "hook", "cancelled", "done"}]
    /\ \A r \in Requests : kind[r] \in IF task[r] = "idle" THEN {"none"} ELSE What[r]
    /\ held \subseteq Sessions /\ operable \in BOOLEAN
    /\ stored \in [Params -> Requests \cup {None}]
    /\ results \in Seq(known) /\ Len(results) <= KEPT
    /\ known \subseteq {r \in Requests : kind[r] = "set"}
    /\ status \in [Requests -> {"none", "OK", "ERROR"}]
    /\ soon \in Seq([req : known, status : {"OK", "ERROR"}])
    /\ \A s \in Sessions : outbox[s] \in Seq(Messages) /\ sent[s] \in Seq(Messages)

Init ==
    /\ conn = [s \in Sessions |-> "up"]
    /\ task = [r \in Requests |-> "idle"] /\ kind = [r \in Requests |-> "none"]
    /\ held = {} /\ operable = TRUE
    /\ stored = [p \in Params |-> None]
    /\ results = <<>> /\ known = {} /\ soon = <<>>
    /\ status = [r \in Requests |-> "none"]
    /\ outbox = [s \in Sessions |-> <<>>] /\ sent = [s \in Sessions |-> <<>>]
-----------------------------------------------------------------------------
(* Helpers *)

Put(s, message) == [outbox EXCEPT ![s] = Append(@, message)]
Answers(r, is, code) ==
    /\ task' = [task EXCEPT ![r] = "done"]
    /\ outbox' = Put(SessionOf[r], Message(is, r, code))

\* _holds: a parent engine has checked its clients' binds itself.
Holds(s) == s \in Trusted \/ s \in held

\* _is_request and the checks after it: whether the engine is asked at all.
IsRequest(r) == kind[r] # "malformed"

\* LocalComponents.command_result.
ResultKept(r) == Contains(results, r)

\* _checked_parameters: every name is in the profile and none is read-only.
Checked(r) == Gives[r] \subseteq Params \ ReadOnly

\* _keep: the oldest results go when there are too many.
Kept(kept, r) ==
    LET all == Append(kept, r) IN IF Len(all) > KEPT THEN Tail(all) ELSE all

\* A wrong Completes: the command is completed before its reply is put.
CompletesAtOnce(r, result) ==
    /\ status' = [status EXCEPT ![r] = result]
    /\ soon' = soon
    /\ outbox' = [outbox EXCEPT ![SessionOf[r]] =
                     @ \o <<Message("completed", r, result), Message("reply", r, "OK")>>]

\* A wrong Completes: a set that failed is not completed.
CompletesOK(r, result) ==
    /\ soon' = IF result = "OK" THEN Append(soon, [req |-> r, status |-> result]) ELSE soon
    /\ outbox' = Put(SessionOf[r], Message("reply", r, "OK"))
    /\ UNCHANGED status

\* The end of _set_parameter: the completion is left to a callback, and the task goes on to put
\* the reply.
Completes(r, result) ==
    /\ soon' = Append(soon, [req |-> r, status |-> result])
    /\ outbox' = Put(SessionOf[r], Message("reply", r, "OK"))
    /\ UNCHANGED status

\* LocalComponents.set_parameter after _apply, and what _set_parameter makes of it.
Applied(r, result) ==
    /\ task' = [task EXCEPT ![r] = "done"]
    /\ known' = known \cup {r}
    /\ results' = Kept(results, r)
    /\ Completes(r, result)
-----------------------------------------------------------------------------
(* Requests *)

\* A message arrives: the reader of the connection starts a task for it.
Receive(r) ==
    /\ task[r] = "idle" /\ conn[SessionOf[r]] = "up"
    /\ task' = [task EXCEPT ![r] = "new"]
    /\ \E k \in What[r] : kind' = [kind EXCEPT ![r] = k]
    /\ UNCHANGED <<conn, held, operable, outbox, sent>> /\ UNCHANGED params

\* answer: a notification gets none, and what is no valid request gets an error.
AnswerAlone(r) ==
    /\ task[r] = "new"
    /\ \/ kind[r] = "notification" /\ task' = [task EXCEPT ![r] = "done"] /\ UNCHANGED outbox
       \/ ~IsRequest(r) /\ Answers(r, "error", "INVALID")
       \/ kind[r] = "breaks" /\ Answers(r, "error", "INTERNAL")
    /\ UNCHANGED <<conn, kind, held, operable, sent>> /\ UNCHANGED params

\* _get_parameter: the values are read in one step.
GetParameter(r) ==
    /\ task[r] = "new" /\ kind[r] = "get"
    /\ Answers(r, "reply", IF Holds(SessionOf[r]) THEN "OK" ELSE "ERROR")
    /\ UNCHANGED <<conn, kind, held, operable, sent>> /\ UNCHANGED params

\* _get_command_result, of any set.
GetCommandResult(r) ==
    /\ task[r] = "new" /\ kind[r] = "result"
    /\ Answers(r, "reply", IF About[r] \in known /\ ResultKept(About[r])
                           THEN "OK" ELSE "BAD_PARAMETER")
    /\ UNCHANGED <<conn, kind, held, operable, sent>> /\ UNCHANGED params

\* _set_parameter that is refused by its checks.
SetRefused(r) ==
    /\ task[r] = "new" /\ kind[r] = "set"
    /\ \/ ~Holds(SessionOf[r]) /\ Answers(r, "reply", "ERROR")
       \/ Holds(SessionOf[r]) /\ ~Checked(r) /\ Answers(r, "reply", "BAD_PARAMETER")
    /\ UNCHANGED <<conn, kind, held, operable, sent>> /\ UNCHANGED params

\* A component that is not operable takes no values: the set is a command that fails.
SetFails(r) ==
    /\ task[r] = "new" /\ kind[r] = "set" /\ Holds(SessionOf[r]) /\ Checked(r) /\ ~operable
    /\ Applied(r, "ERROR")
    /\ UNCHANGED <<conn, kind, held, operable, stored, sent>>

\* _apply up to the hook of the component.
SetParameter(r) ==
    /\ task[r] = "new" /\ kind[r] = "set" /\ Holds(SessionOf[r]) /\ Checked(r) /\ operable
    /\ task' = [task EXCEPT ![r] = "hook"]
    /\ UNCHANGED <<conn, kind, held, operable, outbox, sent>> /\ UNCHANGED params

\* The hook accepts the values, which are stored without a wait between them.
HookEnds(r) ==
    /\ task[r] = "hook"
    /\ stored' = [p \in Params |-> IF p \in Gives[r] THEN r ELSE stored[p]]
    /\ Applied(r, "OK")
    /\ UNCHANGED <<conn, kind, held, operable, sent>>

\* A wrong HookRefuses: the values are stored before the hook is asked.
HookRefusesLate(r) ==
    /\ task[r] = "hook"
    /\ stored' = [p \in Params |-> IF p \in Gives[r] THEN r ELSE stored[p]]
    /\ Answers(r, "reply", "BAD_PARAMETER")
    /\ UNCHANGED <<conn, kind, held, operable, results, known, status, soon, sent>>

\* The hook raises, and the old values stay.
HookRefuses(r) ==
    /\ task[r] = "hook"
    /\ Answers(r, "reply", "BAD_PARAMETER")
    /\ UNCHANGED <<conn, kind, held, operable, sent>> /\ UNCHANGED params
-----------------------------------------------------------------------------
(* The event loop and the connections *)

\* _complete, as the callback of a set: a session that is closed is not told.
RunSoon ==
    /\ soon # <<>>
    /\ LET r == Head(soon).req
           s == SessionOf[r]
       IN  /\ status' = [status EXCEPT ![r] = Head(soon).status]
           /\ outbox' = IF conn[s] # "closed"
                        THEN Put(s, Message("completed", r, Head(soon).status)) ELSE outbox
    /\ soon' = Tail(soon)
    /\ UNCHANGED <<conn, task, kind, held, operable, stored, results, known, sent>>

\* Outbox._write: the messages go to the connection in the order they were put. A lost one drops
\* them.
Write(s) ==
    /\ conn[s] # "closed" /\ outbox[s] # <<>>
    /\ sent' = [sent EXCEPT ![s] = Append(@, Head(outbox[s]))]
    /\ outbox' = [outbox EXCEPT ![s] = Tail(@)]
    /\ UNCHANGED <<conn, task, kind, held, operable>> /\ UNCHANGED params

\* The connection is lost: serve_session cancels the tasks of its requests. One that had not
\* begun never does.
Lose(s) ==
    /\ conn[s] = "up"
    /\ conn' = [conn EXCEPT ![s] = "lost"]
    /\ task' = [r \in Requests |->
                   IF SessionOf[r] = s /\ task[r] \in {"new", "hook"} THEN "cancelled" ELSE task[r]]
    /\ UNCHANGED <<kind, held, operable, outbox, sent>> /\ UNCHANGED params

\* A cancelled task ends. CancelledError passes the handlers of Exception, so the values are not
\* stored and there is no answer.
CancelledEnds(r) ==
    /\ task[r] = "cancelled"
    /\ task' = [task EXCEPT ![r] = "done"]
    /\ UNCHANGED <<conn, kind, held, operable, outbox, sent>> /\ UNCHANGED params

\* A wrong Gathered: the session is closed as soon as its tasks are cancelled.
GatheredNot(s) == TRUE

\* asyncio.gather: every task of the connection ended.
Gathered(s) == \A r \in Requests : SessionOf[r] = s => task[r] \in {"idle", "done"}

\* The tasks have ended: close_session drops the binds, and the outbox its messages.
Close(s) ==
    /\ conn[s] = "lost" /\ Gathered(s)
    /\ conn' = [conn EXCEPT ![s] = "closed"]
    /\ held' = held \ {s}
    /\ outbox' = [outbox EXCEPT ![s] = <<>>]
    /\ UNCHANGED <<task, kind, operable, sent>> /\ UNCHANGED params

\* The sessions bind and release the component between their requests (Engine).
BindsChange(s) ==
    /\ conn[s] = "up" /\ s \notin Trusted
    /\ held' = IF s \in held THEN held \ {s} ELSE held \cup {s}
    /\ UNCHANGED <<conn, task, kind, operable, outbox, sent>> /\ UNCHANGED params

\* A status is raised or cleared (ComponentStatus).
OperableChanges ==
    /\ operable' = ~operable
    /\ UNCHANGED <<conn, task, kind, held, outbox, sent>> /\ UNCHANGED params

Next ==
    \/ \E r \in Requests :
           \/ Receive(r) \/ AnswerAlone(r) \/ GetParameter(r) \/ GetCommandResult(r)
           \/ SetRefused(r) \/ SetFails(r) \/ SetParameter(r)
           \/ HookEnds(r) \/ HookRefuses(r) \/ CancelledEnds(r)
    \/ \E s \in Sessions : Write(s) \/ Lose(s) \/ Close(s) \/ BindsChange(s)
    \/ RunSoon \/ OperableChanges

Spec == Init /\ [][Next]_vars

\* The event loop runs what is ready, and the hooks end: a request task takes its next step, a
\* callback runs, the writer writes. Nothing makes a message arrive or a connection drop.
Fairness ==
    /\ \A r \in Requests :
           /\ WF_vars(AnswerAlone(r) \/ GetParameter(r) \/ GetCommandResult(r) \/ SetRefused(r)
                      \/ SetFails(r) \/ SetParameter(r))
           /\ WF_vars(HookEnds(r) \/ HookRefuses(r)) /\ WF_vars(CancelledEnds(r))
    /\ \A s \in Sessions : WF_vars(Write(s)) /\ WF_vars(Close(s))
    /\ WF_vars(RunSoon)

FairSpec == Spec /\ Fairness
-----------------------------------------------------------------------------
(* Properties *)

\* Every message put for a session so far that it still waits for or has got, in order.
Wire(s) == sent[s] \o outbox[s]
Places(r, is) ==
    LET wire == Wire(SessionOf[r])
    IN  {i \in DOMAIN wire : wire[i].req = r /\ wire[i].is \in is}

\* A request gets one answer and a notification none; a set is completed once, and a client that
\* reads its connection gets the completed after the reply that names the command.
CompletedFollowsReply ==
    \A r \in Requests :
        /\ Cardinality(Places(r, {"reply", "error"})) <= IF kind[r] = "notification" THEN 0 ELSE 1
        /\ \A i \in Places(r, {"completed"}) :
               /\ Places(r, {"completed"}) = {i}
               /\ \E j \in Places(r, {"reply"}) : j < i /\ Wire(SessionOf[r])[j].code = "OK"

\* The values in force are those of sets that were answered OK, or whose client has gone. A set
\* that was refused, that failed or that was cancelled leaves no value behind.
AnswerTrue ==
    \A p \in Params : stored[p] # None =>
        /\ stored[p] \in known /\ p \notin ReadOnly
        /\ \A i \in Places(stored[p], {"reply", "completed"}) :
               Wire(SessionOf[stored[p]])[i].code = "OK"

\* The result of a set is there when its completed is: what is missing made place for others.
ResultsReady ==
    \A r \in Requests :
        Places(r, {"completed"}) # {} /\ ~ResultKept(r) => Len(results) = KEPT

\* A session that is closed has no request under way that could still change something, holds
\* nothing, and nothing waits to be sent to it.
ClosedIsOver ==
    \A s \in Sessions : conn[s] = "closed" =>
        /\ \A r \in Requests : SessionOf[r] = s => task[r] \in {"idle", "done"}
        /\ s \notin held /\ outbox[s] = <<>>

\* Every request is answered, and every set that was accepted is completed, as long as the
\* connection lasts; a lost connection is closed.
EveryRequestEnds ==
    \A r \in Requests :
        LET s == SessionOf[r]
            Sent(is) == \E i \in DOMAIN sent[s] : sent[s][i].req = r /\ sent[s][i].is \in is
        IN  /\ (task[r] = "new" /\ kind[r] # "notification") ~> (Sent({"reply", "error"}) \/ conn[s] = "closed")
            /\ (r \in known) ~> (Sent({"completed"}) \/ conn[s] = "closed")

\* A client that gets a completed knows its command and finds the result.
CompletedInOrder == CompletedFollowsReply /\ ResultsReady

\* The tables are well formed, and what a closed session leaves is nothing.
NothingAfterClose == TypeOK /\ ClosedIsOver
=============================================================================
