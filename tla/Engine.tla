------------------------------- MODULE Engine -------------------------------
(***************************************************************************)
(* The recursive RoIS HRI Engine (engine/src/openrois/engine/engine.py):   *)
(* its sessions, binds, command table, command sequences, subscriptions    *)
(* and child engines.                                                      *)
(*                                                                         *)
(* The engine runs on one asyncio event loop.  The code between two awaits *)
(* is one action here, and every await is a point where the actions of     *)
(* other tasks interleave.  Each request runs in a task of its own, so the *)
(* requests of one session interleave as well.                             *)
(*                                                                         *)
(* A request the engine refuses changes nothing and is no action.  The     *)
(* component contract (contract.py) is the environment: a run that is not  *)
(* cancelled ends with any status at any time, a cancelled one ends        *)
(* cancelled.  The delay_time of a command is the time between two actions.*)
(*                                                                         *)
(* Commands are named by the number the engine's counter gives them.  The  *)
(* place of a command in its execute is the constant Plan.                 *)
(***************************************************************************)
EXTENDS Naturals, FiniteSets

CONSTANTS
    Sessions,    \* sessions that may be opened, an id is never used twice
    NoSession,   \* the session of an execute or subscribe not requested yet
    Trusted,     \* the sessions of a parent engine
    Refs,        \* component refs
    Actuation,   \* the refs whose RoSO function is actuation
    Children,    \* child engines
    Local,       \* the source of the components of this process
    SourceOf,    \* [Refs -> Children \cup {Local}]
    Profiles,    \* bound: the sets of refs each child engine may have in its profile
    Execs,       \* execute requests, numbered in the order they are accepted
    Commands,    \* command numbers
    Plan,        \* [Commands -> [exec, item, branch, pos, ref]]
    RunResults,  \* how a run that is not cancelled may end
    KEPT,        \* _COMMANDS_KEPT
    Subs,        \* subscribe requests that reach a source
    KeyOf,       \* [Subs -> event type and condition]
    SubRef,      \* [Subs -> Refs]
    MaxGen       \* bound: how often each child engine connects

Statuses == {"OK", "ERROR", "ABORT", "OUT_OF_RESOURCES", "TIMEOUT"}
TaskStates == {"none", "running", "cancelling", "CANCELLED"} \cup Statuses

ASSUME SessionAssumption ==
    Trusted \subseteq Sessions /\ NoSession \notin Sessions /\ Actuation \subseteq Refs
ASSUME SourceAssumption ==
    /\ Local \notin Children
    /\ SourceOf \in [Refs -> Children \cup {Local}]
    /\ SubRef \in [Subs -> Refs] /\ DOMAIN KeyOf = Subs
    /\ Profiles \in [Children -> SUBSET SUBSET Refs]
    /\ \A k \in Children : \A refs \in Profiles[k] : \A r \in refs : SourceOf[r] = k
ASSUME PlanAssumption ==
    /\ Commands \subseteq Nat /\ Execs \subseteq Nat
    /\ IsFiniteSet(Commands)
    /\ Plan \in [Commands ->
           [exec : Execs, item : Nat \ {0}, branch : Nat, pos : Nat, ref : Refs]]
    /\ \A c, d \in Commands : Plan[c].exec < Plan[d].exec => c < d
    /\ RunResults \subseteq Statuses
ASSUME KeptAssumption == KEPT \in Nat /\ MaxGen \in [Children -> Nat]

VARIABLES
    sess,       \* "new", "open", "closing" (connection lost), "ending" (in close_session),
                \* "closed" (left _sessions), "stuck" (handler gone, still in _sessions)
    connected,  \* Session.connected
    binds,      \* Engine._binds: the holders of each ref
    owner,      \* the session of each execute
    seq,        \* the task of each execute: "unused", "created" (not yet scheduled),
                \* "running", "cancelled" (unwinding), "done"
    at,         \* the item of the execute being run, 0 before its task started
    table,      \* Engine._commands: the commands with an entry
    status,     \* _Command.status, "none" until the command ended
    task,       \* _Command.task: the run of the command, with its result once it is done
    source,     \* _Command.source: the connection of the child at execute, 0 for None
    ranOn,      \* the connection of the child the command was sent to
    kept,       \* ChildEngine._kept: commands whose cancel only stops the wait
    notified,   \* how many rois.command.completed were sent for each command
    releases,   \* release requests waiting for the commands they cancelled
    ends,       \* _end_session in progress, per session: the sequences it waits for, then
                \* the subscriptions it has left to end
    sub,        \* each subscription: state, session and the connection of its source
    child,      \* "up", "detached" (connection gone, still in _children), "down"
    gen,        \* how often each child engine connected
    offers      \* ChildEngine._profiles: the refs in the profile a child engine sent last

sessVars == <<sess, connected, ends>>
cmdVars  == <<owner, seq, at, table, status, task, source, ranOn, kept, notified>>
treeVars == <<child, gen, offers>>
vars == <<sess, connected, binds, owner, seq, at, table, status, task, source,
          ranOn, kept, notified, releases, ends, sub, child, gen, offers>>

Idle == [phase |-> "idle", waits |-> {}, mine |-> {}]
NoSub == [state |-> "unused", session |-> NoSession, gen |-> 0]

SessionStates == {"new", "open", "closing", "ending", "closed", "stuck"}
SequenceStates == {"unused", "created", "running", "cancelled", "done"}
EndRecords ==
    [phase : {"idle", "gather", "unsub"}, waits : SUBSET Execs, mine : SUBSET Subs]
SubRecords ==
    [state : {"unused", "asking", "held", "ended"}, session : Sessions \cup {NoSession},
     gen : Nat]

\* The types of the variables.
TypeOK ==
    /\ sess \in [Sessions -> SessionStates]
    /\ connected \in [Sessions -> BOOLEAN]
    /\ binds \in [Refs -> SUBSET Sessions]
    /\ owner \in [Execs -> Sessions \cup {NoSession}]
    /\ seq \in [Execs -> SequenceStates]
    /\ at \in [Execs -> Nat]
    /\ table \subseteq Commands
    /\ status \in [Commands -> {"none"} \cup Statuses]
    /\ task \in [Commands -> TaskStates]
    /\ source \in [Commands -> Nat]
    /\ ranOn \in [Commands -> Nat]
    /\ kept \subseteq Commands
    /\ notified \in [Commands -> Nat]
    /\ releases \subseteq [session : Sessions, ref : Refs, waits : SUBSET Commands]
    /\ ends \in [Sessions -> EndRecords]
    /\ sub \in [Subs -> SubRecords]
    /\ child \in [Children -> {"up", "detached", "down"}]
    /\ gen \in [Children -> Nat]
    /\ offers \in [Children -> SUBSET Refs]
    /\ \A k \in Children : \A r \in offers[k] : SourceOf[r] = k

Init ==
    /\ sess = [s \in Sessions |-> "new"]
    /\ connected = [s \in Sessions |-> FALSE]
    /\ binds = [r \in Refs |-> {}]
    /\ owner = [e \in Execs |-> NoSession]
    /\ seq = [e \in Execs |-> "unused"]
    /\ at = [e \in Execs |-> 0]
    /\ table = {}
    /\ status = [c \in Commands |-> "none"]
    /\ task = [c \in Commands |-> "none"]
    /\ source = [c \in Commands |-> 0]
    /\ ranOn = [c \in Commands |-> 0]
    /\ kept = {}
    /\ notified = [c \in Commands |-> 0]
    /\ releases = {}
    /\ ends = [s \in Sessions |-> Idle]
    /\ sub = [u \in Subs |-> NoSub]
    /\ child = [k \in Children |-> "down"]
    /\ gen = [k \in Children |-> 0]
    /\ offers = [k \in Children |-> {}]

-----------------------------------------------------------------------------
(* Helpers *)

\* Engine._sessions: the sessions the engine knows.
InSessions(s) == sess[s] \in {"open", "closing", "ending", "stuck"}

\* Engine.handle serves a request of a connected session, on an open connection.
Serves(s) == sess[s] = "open" /\ connected[s]

\* A source that is local or a child in the tree.
InTree(r) == SourceOf[r] # Local => child[SourceOf[r]] # "down"

\* _components: a ref is reached while it is in the profile of a source in the tree.
Present(r) == InTree(r) /\ (SourceOf[r] # Local => r \in offers[SourceOf[r]])

\* The connection a command sent to the source of a ref goes over, 1 for the local one.
GenOf(r) == IF SourceOf[r] = Local THEN 1 ELSE gen[SourceOf[r]]

CmdsOf(e) == {c \in Commands : Plan[c].exec = e}
OwnerOf(c) == owner[Plan[c].exec]
RefOf(c) == Plan[c].ref
Live(c) == task[c] # "none" /\ status[c] = "none"

\* A command after c in the same branch of the same item.
After(d, c) ==
    /\ Plan[d].exec = Plan[c].exec /\ Plan[d].item = Plan[c].item
    /\ Plan[d].branch = Plan[c].branch /\ Plan[d].pos > Plan[c].pos

\* A wrong CanBind: the holder is not looked at.
CanBindAlways(s, r) == TRUE

\* _bind: an actuation component takes one bind, any other one bind per session.
CanBind(s, r) == s \in binds[r] \/ r \notin Actuation \/ binds[r] = {}

\* _holds: a parent engine made the check already.
Holds(s, r) == s \in Trusted \/ s \in binds[r]

\* _as_seen_by: the component_status a READY component shows a session.
AsSeenBy(s, r) == IF r \in Actuation /\ binds[r] \ {s} # {} THEN "BUSY" ELSE "READY"

\* A wrong Pruned: the oldest entries, whether their command ended or not.
PrunedAny(t) ==
    {c \in t : Cardinality({d \in t : d < c}) + KEPT < Cardinality(t)}

\* _prune_commands: of the entries t, the oldest finished ones beyond KEPT.
Pruned(t) ==
    {c \in t : /\ status[c] # "none"
               /\ Cardinality({d \in t : status[d] # "none" /\ d < c}) + KEPT
                    < Cardinality(t)}

\* _complete and _finish: the commands in cs end, each with its status in st.  The
\* session that started them is told once, while it is connected.
Complete(cs, st) ==
    LET open == {c \in cs \cap table : status[c] = "none"} IN
    /\ status' = [c \in Commands |-> IF c \in open THEN st[c] ELSE status[c]]
    /\ notified' = [c \in Commands |->
           IF c \in open /\ connected[OwnerOf(c)] /\ InSessions(OwnerOf(c))
           THEN notified[c] + 1 ELSE notified[c]]

\* _skip: the commands of a set that never ran, which end with ABORT.
Skipped(cs) == {c \in cs : status[c] = "none" /\ task[c] = "none"}

\* A wrong CancelRuns: the task of the sequence is cancelled and its runs are not.
CancelRunsNone(cs) == task

\* Task.cancel on the runs of the commands in cs: a run that is done keeps its result.
CancelRuns(cs) ==
    [c \in Commands |-> IF c \in cs /\ task[c] = "running" THEN "cancelling" ELSE task[c]]

\* A wrong Spared: no source is told.
SparedNone(s, cs, b) == {}

\* _spare_shared: the commands of a session that run on a child others still hold, b
\* being the binds without the session.  Their source is told to keep them running,
\* which reaches the run only if the command was sent over the same connection.
Spared(s, cs, b) ==
    {c \in cs : /\ Live(c) /\ source[c] # 0
                /\ SourceOf[RefOf(c)] # Local
                /\ b[RefOf(c)] \ {s} # {}
                /\ source[c] = ranOn[c]}

-----------------------------------------------------------------------------
(* Sessions *)

\* open_session
OpenSession(s) ==
    /\ sess[s] = "new"
    /\ sess' = [sess EXCEPT ![s] = "open"]
    /\ UNCHANGED <<connected, binds, releases, ends, sub>>
    /\ UNCHANGED cmdVars /\ UNCHANGED treeVars

\* _connect
Connect(s) ==
    /\ sess[s] = "open"
    /\ connected' = [connected EXCEPT ![s] = TRUE]
    /\ UNCHANGED <<sess, binds, releases, ends, sub>>
    /\ UNCHANGED cmdVars /\ UNCHANGED treeVars

\* The executes in _sequences of a session: those no _end_session popped yet.
SequencesOf(s) == {e \in Execs : owner[e] = s /\ seq[e] \in {"created", "running"}}

\* The first part of _end_session, up to its first await: the session is not connected,
\* its binds go, the commands others share are spared and its sequences are cancelled.
\* A task cancelled before its first step ends without running a line of its body.
CancelSequences(s) ==
    /\ seq' = [e \in Execs |->
           IF e \notin SequencesOf(s) THEN seq[e]
           ELSE IF seq[e] = "created" THEN "done" ELSE "cancelled"]
    /\ task' = CancelRuns({c \in Commands : Plan[c].exec \in SequencesOf(s)})
\* A wrong BeginEnd: the sequences of the session go on.
BeginEndLeavingSequences(s) ==
    /\ connected' = [connected EXCEPT ![s] = FALSE]
    /\ binds' = [r \in Refs |-> binds[r] \ {s}]
    /\ UNCHANGED <<seq, task, kept>>

BeginEnd(s) ==
    LET b == [r \in Refs |-> binds[r] \ {s}] IN
    /\ connected' = [connected EXCEPT ![s] = FALSE]
    /\ binds' = b
    /\ kept' = kept \cup Spared(s, {c \in table : OwnerOf(c) = s}, b)
    /\ CancelSequences(s)

\* unsubscribe waits for a reply only on a child that is still connected.
Waits(u) == SourceOf[SubRef[u]] # Local /\ child[SourceOf[SubRef[u]]] = "up"

\* _subscriptions of a session.
SubsOf(s) == {u \in Subs : sub[u].state = "held" /\ sub[u].session = s}

Over(x) == [state |-> "ended", session |-> x.session, gen |-> x.gen]
Pop(us) == sub' = [u \in Subs |-> IF u \in us THEN Over(sub[u]) ELSE sub[u]]

\* The loop of _end_session over the subscriptions mine, in any order, up to its next
\* await or its end.  It pops a subscription, then waits while its source ends it.
UnsubscribeWaits(s, mine, closing) ==
    \E u \in mine : \E us \in SUBSET (mine \ {u}) :
        /\ Waits(u) /\ sub[u].state = "held"
        /\ \A v \in us : ~Waits(v) /\ sub[v].state = "held"
        /\ Pop(us \cup {u})
        /\ ends' = [ends EXCEPT ![s] =
               [phase |-> "unsub", waits |-> {}, mine |-> mine \ (us \cup {u})]]
        /\ sess' = IF closing THEN [sess EXCEPT ![s] = "ending"] ELSE sess

\* The loop ends, disconnect replies and close_session forgets the session.
UnsubscribeEnds(s, mine, closing) ==
    /\ \A u \in mine : ~Waits(u) /\ sub[u].state = "held"
    /\ Pop(mine)
    /\ ends' = [ends EXCEPT ![s] = Idle]
    /\ sess' = IF closing THEN [sess EXCEPT ![s] = "closed"] ELSE sess

\* The loop pops a subscription that left the table while it waited for another: the
\* KeyError ends _end_session, and with it the disconnect or close_session.
UnsubscribeFails(s, mine, closing) ==
    /\ \E u \in mine : sub[u].state # "held"
    /\ \E us \in SUBSET {u \in mine : sub[u].state = "held" /\ ~Waits(u)} : Pop(us)
    /\ ends' = [ends EXCEPT ![s] = Idle]
    /\ sess' = IF closing THEN [sess EXCEPT ![s] = "stuck"] ELSE sess

\* A wrong EndSubscriptions: the subscriptions stay in the table.
EndForgettingSubs(s, mine, closing) == UnsubscribeEnds(s, {}, closing)

EndSubscriptions(s, mine, closing) ==
    \/ UnsubscribeWaits(s, mine, closing)
    \/ UnsubscribeEnds(s, mine, closing)
    \/ UnsubscribeFails(s, mine, closing)

\* _end_session up to its first await: the gather, when the session has sequences.
EndSession(s, closing) ==
    /\ BeginEnd(s)
    /\ \/ /\ SequencesOf(s) # {}
          /\ ends' = [ends EXCEPT ![s] =
                 [phase |-> "gather", waits |-> SequencesOf(s), mine |-> {}]]
          /\ sess' = IF closing THEN [sess EXCEPT ![s] = "ending"] ELSE sess
          /\ UNCHANGED sub
       \/ SequencesOf(s) = {} /\ EndSubscriptions(s, SubsOf(s), closing)

\* _disconnect.  Bound: a session has one disconnect in progress.
Disconnect(s) ==
    /\ Serves(s)
    /\ ends[s].phase = "idle"
    /\ EndSession(s, FALSE)
    /\ UNCHANGED <<owner, at, table, status, source, ranOn, notified, releases>>
    /\ UNCHANGED treeVars

\* serve_session: the connection closed.  The requests still running are cancelled: a
\* subscribe ends without a subscription and a disconnect that waits for an unsubscribe
\* stops.  One that waits for the tasks it cancelled goes on waiting for them.
ConnectionLost(s) ==
    /\ sess[s] = "open"
    /\ sess' = [sess EXCEPT ![s] = "closing"]
    /\ Pop({u \in Subs : sub[u].state = "asking" /\ sub[u].session = s})
    /\ ends' = IF ends[s].phase = "unsub" THEN [ends EXCEPT ![s] = Idle] ELSE ends
    /\ UNCHANGED <<connected, binds, releases>>
    /\ UNCHANGED cmdVars /\ UNCHANGED treeVars

\* close_session, once the cancelled requests have ended.
Close(s) ==
    /\ sess[s] = "closing"
    /\ ends[s].phase = "idle" /\ \A q \in releases : q.session # s
    /\ EndSession(s, TRUE)
    /\ UNCHANGED <<owner, at, table, status, source, ranOn, notified, releases>>
    /\ UNCHANGED treeVars

\* _end_session after the gather: it lists and ends the subscriptions of the session.  A
\* cancelled disconnect stops here.
EndGathered(s) ==
    /\ ends[s].phase = "gather"
    /\ \A e \in ends[s].waits : seq[e] = "done"
    /\ \/ sess[s] = "closing" /\ ends' = [ends EXCEPT ![s] = Idle] /\ UNCHANGED <<sess, sub>>
       \/ sess[s] # "closing" /\ EndSubscriptions(s, SubsOf(s), sess[s] = "ending")
    /\ UNCHANGED <<connected, binds, releases>>
    /\ UNCHANGED cmdVars /\ UNCHANGED treeVars

\* The reply to an unsubscribe of _end_session, or its timeout: the loop goes on.
EndGoesOn(s) ==
    /\ ends[s].phase = "unsub"
    /\ EndSubscriptions(s, ends[s].mine, sess[s] = "ending")
    /\ UNCHANGED <<connected, binds, releases>>
    /\ UNCHANGED cmdVars /\ UNCHANGED treeVars

-----------------------------------------------------------------------------
(* Binds *)

\* _bind_request, and _bind_any for the component it picks.
Bind(s, r) ==
    /\ Serves(s) /\ Present(r) /\ CanBind(s, r)
    /\ binds' = [binds EXCEPT ![r] = @ \cup {s}]
    /\ UNCHANGED <<releases>>
    /\ UNCHANGED sessVars /\ UNCHANGED cmdVars /\ UNCHANGED sub /\ UNCHANGED treeVars

\* _release up to its await: the bind goes, and the commands of the caller that run on
\* the component are cancelled.
Release(s, r) ==
    LET mine == {c \in table : OwnerOf(c) = s /\ RefOf(c) = r /\ Live(c)}
        b == [binds EXCEPT ![r] = @ \ {s}] IN
    /\ Serves(s) /\ Present(r)
    /\ binds' = b
    /\ kept' = kept \cup Spared(s, mine, b)
    /\ task' = CancelRuns(mine)
    /\ releases' = IF mine = {} THEN releases
                   ELSE releases \cup {[session |-> s, ref |-> r, waits |-> mine]}
    /\ UNCHANGED <<owner, seq, at, table, status, source, ranOn, notified>>
    /\ UNCHANGED sessVars /\ UNCHANGED sub /\ UNCHANGED treeVars

\* _release replies.  The gather wakes after the runs ended, and the sleep(0) after it
\* lets the sequence tasks, which were woken first, record how the commands ended.
ReleaseReplies(q) ==
    /\ q \in releases
    /\ \A c \in q.waits : status[c] # "none"
    /\ releases' = releases \ {q}
    /\ UNCHANGED <<binds>>
    /\ UNCHANGED sessVars /\ UNCHANGED cmdVars /\ UNCHANGED sub /\ UNCHANGED treeVars

-----------------------------------------------------------------------------
(* Commands *)

\* _execute: every component is present and held, the commands enter the table, finished
\* ones beyond KEPT leave it, and the task of the sequence is created.
Execute(s, e) ==
    LET t == table \cup CmdsOf(e) IN
    /\ Serves(s)
    /\ seq[e] = "unused" /\ \A f \in Execs : f < e => seq[f] # "unused"
    /\ CmdsOf(e) # {}
    /\ \A c \in CmdsOf(e) : Present(RefOf(c)) /\ Holds(s, RefOf(c))
    /\ owner' = [owner EXCEPT ![e] = s]
    /\ seq' = [seq EXCEPT ![e] = "created"]
    /\ at' = [at EXCEPT ![e] = 0]
    /\ table' = t \ Pruned(t)
    /\ source' = [c \in Commands |-> IF c \in CmdsOf(e) THEN GenOf(RefOf(c)) ELSE source[c]]
    /\ UNCHANGED <<binds, releases, status, task, ranOn, kept, notified>>
    /\ UNCHANGED sessVars /\ UNCHANGED sub /\ UNCHANGED treeVars

\* The task of _run_sequence takes its first step.
SequenceStarts(e) ==
    /\ seq[e] = "created"
    /\ seq' = [seq EXCEPT ![e] = "running"]
    /\ at' = [at EXCEPT ![e] = 1]
    /\ UNCHANGED <<binds, releases, owner, table, status, task, source, ranOn, kept, notified>>
    /\ UNCHANGED sessVars /\ UNCHANGED sub /\ UNCHANGED treeVars

\* A command whose turn it is: its sequence runs its item, and the commands before it in
\* its branch ended OK.
Turn(c) ==
    /\ seq[Plan[c].exec] = "running"
    /\ at[Plan[c].exec] = Plan[c].item
    /\ task[c] = "none" /\ status[c] = "none"
    /\ \A d \in Commands : After(c, d) => status[d] = "OK"

\* _run_unit starts the run of a command on the source its ref has now.
RunUnit(c) ==
    /\ Turn(c) /\ c \in table /\ Present(RefOf(c))
    /\ task' = [task EXCEPT ![c] = "running"]
    /\ ranOn' = [ranOn EXCEPT ![c] = GenOf(RefOf(c))]
    /\ UNCHANGED <<binds, releases, owner, seq, at, table, status, source, kept, notified>>
    /\ UNCHANGED sessVars /\ UNCHANGED sub /\ UNCHANGED treeVars

\* _run_unit on a component that is gone: ERROR, and the rest of the branch is skipped.
RunUnitGone(c) ==
    LET rest == Skipped({d \in Commands : After(d, c)}) IN
    /\ Turn(c) /\ (c \notin table \/ ~Present(RefOf(c)))
    /\ Complete({c} \cup rest, [d \in Commands |-> IF d = c THEN "ERROR" ELSE "ABORT"])
    /\ source' = [d \in Commands |-> IF d \in rest THEN 0 ELSE source[d]]
    /\ UNCHANGED <<binds, releases, owner, seq, at, table, task, ranOn, kept>>
    /\ UNCHANGED sessVars /\ UNCHANGED sub /\ UNCHANGED treeVars

\* A child that is detached, or whose command went over a connection that is gone.
LostRun(c) == /\ SourceOf[RefOf(c)] # Local
              /\ \/ child[SourceOf[RefOf(c)]] # "up"
                 \/ gen[SourceOf[RefOf(c)]] # ranOn[c]

\* The run of a command ends.  detach ends the runs on a lost child with ERROR, and a
\* cancelled run ends cancelled (ComponentContract.run).
RunEnds(c, st) ==
    /\ \/ task[c] = "running" /\ st \in RunResults /\ ~LostRun(c)
       \/ task[c] = "running" /\ st = "ERROR" /\ LostRun(c)
       \/ task[c] = "cancelling" /\ st = "CANCELLED"
    /\ task' = [task EXCEPT ![c] = st]
    /\ kept' = kept \ {c}
    /\ UNCHANGED <<binds, releases, owner, seq, at, table, status, source, ranOn, notified>>
    /\ UNCHANGED sessVars /\ UNCHANGED sub /\ UNCHANGED treeVars

\* A wrong Ended: the cancellation is recorded as it is.
EndedAsItIs(c) == task[c]

\* How _run_unit records the end of a run: a cancelled run, and any run of a sequence that
\* is cancelled itself, ends with ABORT.
Ended(c) ==
    IF task[c] = "CANCELLED" \/ seq[Plan[c].exec] = "cancelled" THEN "ABORT" ELSE task[c]

\* The commands _run_branch skips after c: none when c ended OK, and none when the whole
\* sequence is cancelled, which skips its commands itself.
RestOf(c) ==
    IF Ended(c) = "OK" \/ seq[Plan[c].exec] = "cancelled" THEN {}
    ELSE Skipped({d \in Commands : After(d, c)})

\* _run_unit wakes after the run, finishes the command, and _run_branch goes on or stops.
UnitEnds(c) ==
    /\ task[c] \in Statuses \cup {"CANCELLED"}
    /\ Complete({c} \cup RestOf(c), [d \in Commands |-> IF d = c THEN Ended(c) ELSE "ABORT"])
    /\ task' = [task EXCEPT ![c] = "none"]
    /\ source' = [d \in Commands |-> IF d \in RestOf(c) THEN 0 ELSE source[d]]
    /\ UNCHANGED <<binds, releases, owner, seq, at, table, ranOn, kept>>
    /\ UNCHANGED sessVars /\ UNCHANGED sub /\ UNCHANGED treeVars

ItemOf(e) == {c \in CmdsOf(e) : Plan[c].item = at[e]}
Later(e) == {c \in CmdsOf(e) : Plan[c].item > at[e]}

\* _run_sequence after an item whose branches ended OK: the next item, or the end.
SequenceAdvances(e) ==
    /\ seq[e] = "running"
    /\ \A c \in ItemOf(e) : status[c] = "OK"
    /\ at' = [at EXCEPT ![e] = @ + 1]
    /\ seq' = IF Later(e) = {} THEN [seq EXCEPT ![e] = "done"] ELSE seq
    /\ UNCHANGED <<binds, releases, owner, table, status, task, source, ranOn, kept, notified>>
    /\ UNCHANGED sessVars /\ UNCHANGED sub /\ UNCHANGED treeVars

\* A wrong SkippedAfterFailure: the sequence just returns.
SkippedAfterFailureNone(e) == {}

\* _run_sequence after an item in which a command ended otherwise: the later items are
\* skipped.
SkippedAfterFailure(e) == Skipped(Later(e))
SequenceStops(e) ==
    LET skip == SkippedAfterFailure(e) IN
    /\ seq[e] = "running"
    /\ \A c \in ItemOf(e) : status[c] # "none" /\ task[c] = "none"
    /\ \E c \in ItemOf(e) : status[c] # "OK"
    /\ Complete(skip, [d \in Commands |-> "ABORT"])
    /\ source' = [d \in Commands |-> IF d \in skip THEN 0 ELSE source[d]]
    /\ seq' = [seq EXCEPT ![e] = "done"]
    /\ UNCHANGED <<binds, releases, owner, at, table, task, ranOn, kept>>
    /\ UNCHANGED sessVars /\ UNCHANGED sub /\ UNCHANGED treeVars

\* A wrong SequenceUnwinds: it aborts the commands that ended too.
SequenceUnwindsAll(e) ==
    /\ seq[e] = "cancelled"
    /\ \A c \in CmdsOf(e) : task[c] = "none"
    /\ status' = [c \in Commands |-> IF c \in CmdsOf(e) THEN "ABORT" ELSE status[c]]
    /\ source' = [d \in Commands |-> IF d \in CmdsOf(e) THEN 0 ELSE source[d]]
    /\ seq' = [seq EXCEPT ![e] = "done"]
    /\ UNCHANGED <<binds, releases, owner, at, table, task, ranOn, kept, notified>>
    /\ UNCHANGED sessVars /\ UNCHANGED sub /\ UNCHANGED treeVars

\* _run_sequence after its task was cancelled and the runs below it ended: every command
\* that has not ended is skipped.
SequenceUnwinds(e) ==
    LET skip == Skipped(CmdsOf(e)) IN
    /\ seq[e] = "cancelled"
    /\ \A c \in CmdsOf(e) : task[c] = "none"
    /\ Complete(skip, [d \in Commands |-> "ABORT"])
    /\ source' = [d \in Commands |-> IF d \in skip THEN 0 ELSE source[d]]
    /\ seq' = [seq EXCEPT ![e] = "done"]
    /\ UNCHANGED <<binds, releases, owner, at, table, task, ranOn, kept>>
    /\ UNCHANGED sessVars /\ UNCHANGED sub /\ UNCHANGED treeVars

-----------------------------------------------------------------------------
(* Subscriptions *)

\* _subscribe up to its await: a client that holds the same subscription gets it again,
\* any other request goes to the source.
Subscribe(s, u) ==
    /\ Serves(s) /\ Present(SubRef[u])
    /\ sub[u].state = "unused"
    /\ s \in Trusted \/ \A v \in SubsOf(s) : KeyOf[v] # KeyOf[u]
    /\ sub' = [sub EXCEPT ![u] =
           [state |-> "asking", session |-> s, gen |-> GenOf(SubRef[u])]]
    /\ UNCHANGED <<binds, releases>>
    /\ UNCHANGED sessVars /\ UNCHANGED cmdVars /\ UNCHANGED treeVars

\* _subscribe after the source answered.  detach answers ERROR for a child that is gone.
SubscribeReturns(u, ok) ==
    /\ sub[u].state = "asking"
    /\ ok => InTree(SubRef[u]) /\ sub[u].gen = GenOf(SubRef[u])
    /\ sub' = [sub EXCEPT ![u] = [state |-> IF ok THEN "held" ELSE "ended",
                                  session |-> sub[u].session, gen |-> sub[u].gen]]
    /\ UNCHANGED <<binds, releases>>
    /\ UNCHANGED sessVars /\ UNCHANGED cmdVars /\ UNCHANGED treeVars

\* _unsubscribe
Unsubscribe(s, u) ==
    /\ Serves(s)
    /\ u \in SubsOf(s)
    /\ Pop({u})
    /\ UNCHANGED <<binds, releases>>
    /\ UNCHANGED sessVars /\ UNCHANGED cmdVars /\ UNCHANGED treeVars

-----------------------------------------------------------------------------
(* Child engines *)

\* add_child, after discovery.
AddChild(k) ==
    /\ child[k] = "down" /\ gen[k] < MaxGen[k]
    /\ child' = [child EXCEPT ![k] = "up"]
    /\ gen' = [gen EXCEPT ![k] = @ + 1]
    /\ \E refs \in Profiles[k] : offers' = [offers EXCEPT ![k] = refs]
    /\ UNCHANGED <<binds, releases>>
    /\ UNCHANGED sessVars /\ UNCHANGED cmdVars /\ UNCHANGED sub

\* ChildEngine._rediscover: the child sent a changed profile, which replaces the one before.
\* Binds on a ref that left it stay.
Rediscover(k) ==
    /\ child[k] = "up"
    /\ \E refs \in Profiles[k] \ {offers[k]} : offers' = [offers EXCEPT ![k] = refs]
    /\ UNCHANGED <<binds, releases, child, gen>>
    /\ UNCHANGED sessVars /\ UNCHANGED cmdVars /\ UNCHANGED sub

\* ChildEngine.detach, when the connection of a child closed.
DetachChild(k) ==
    /\ child[k] = "up"
    /\ child' = [child EXCEPT ![k] = "detached"]
    /\ UNCHANGED <<binds, releases, gen, offers>>
    /\ UNCHANGED sessVars /\ UNCHANGED cmdVars /\ UNCHANGED sub

\* remove_child: the child leaves the tree with the binds on the refs in its profile, and with
\* all its subscriptions.
RemoveChild(k) ==
    /\ child[k] = "detached"
    /\ child' = [child EXCEPT ![k] = "down"]
    /\ binds' = [r \in Refs |-> IF r \in offers[k] THEN {} ELSE binds[r]]
    /\ Pop({u \in Subs : sub[u].state = "held" /\ SourceOf[SubRef[u]] = k})
    /\ UNCHANGED <<releases, gen, offers>>
    /\ UNCHANGED sessVars /\ UNCHANGED cmdVars

-----------------------------------------------------------------------------

SessionNext ==
    \E s \in Sessions :
        \/ OpenSession(s) \/ Connect(s) \/ Disconnect(s) \/ ConnectionLost(s) \/ Close(s)
        \/ EndGathered(s) \/ EndGoesOn(s)

BindNext ==
    \/ \E s \in Sessions, r \in Refs : Bind(s, r) \/ Release(s, r)
    \/ \E q \in releases : ReleaseReplies(q)

CommandNext ==
    \/ \E s \in Sessions, e \in Execs : Execute(s, e)
    \/ \E e \in Execs : \/ SequenceStarts(e) \/ SequenceAdvances(e)
                        \/ SequenceStops(e) \/ SequenceUnwinds(e)
    \/ \E c \in Commands : \/ RunUnit(c) \/ RunUnitGone(c) \/ UnitEnds(c)
                           \/ \E st \in RunResults \cup {"ERROR", "CANCELLED"} : RunEnds(c, st)

SubscriptionNext ==
    \/ \E s \in Sessions, u \in Subs : Subscribe(s, u) \/ Unsubscribe(s, u)
    \/ \E u \in Subs, ok \in BOOLEAN : SubscribeReturns(u, ok)

ChildNext ==
    \E k \in Children : AddChild(k) \/ Rediscover(k) \/ DetachChild(k) \/ RemoveChild(k)

Next == SessionNext \/ BindNext \/ CommandNext \/ SubscriptionNext \/ ChildNext

Spec == Init /\ [][Next]_vars

\* The event loop runs every task that can go on, and a request to a child is answered or
\* times out.  A component may run a command for ever, but a run that is cancelled ends
\* (contract.py), so RunEnds is fair for cancelled runs only.  Clients may stop at any time.
Fairness ==
    /\ \A s \in Sessions : WF_vars(Close(s)) /\ WF_vars(EndGathered(s)) /\ WF_vars(EndGoesOn(s))
    /\ \A e \in Execs : /\ WF_vars(SequenceStarts(e)) /\ WF_vars(SequenceAdvances(e))
                        /\ WF_vars(SequenceStops(e)) /\ WF_vars(SequenceUnwinds(e))
    /\ \A c \in Commands : /\ WF_vars(RunUnit(c)) /\ WF_vars(RunUnitGone(c))
                           /\ WF_vars(UnitEnds(c)) /\ WF_vars(RunEnds(c, "CANCELLED"))
    /\ \A s \in Sessions, r \in Refs, cs \in SUBSET Commands :
           WF_vars(ReleaseReplies([session |-> s, ref |-> r, waits |-> cs]))
    /\ \A k \in Children : WF_vars(RemoveChild(k))

FairSpec == Spec /\ Fairness

-----------------------------------------------------------------------------
(* Properties *)

\* An actuation component has at most one holder, whatever sessions bind, release, vanish
\* and reconnect, and whatever children leave and come back (Engine._bind).
ActuationExclusive ==
    \A r \in Actuation : \A s, t \in binds[r] : s = t

\* component_status shows BUSY to exactly the sessions whose bind would be refused: the
\* value _as_seen_by derives agrees with what _bind decides.
BusyMeansRefused ==
    \A s \in Sessions, r \in Refs : AsSeenBy(s, r) = "BUSY" <=> ~CanBind(s, r)

\* A session that is not connected holds no bind and has no sequence that may still start
\* a command: after a disconnect "later items never run" (Engine._end_session).
DisconnectedHoldsNothing ==
    \A s \in Sessions : ~connected[s] =>
        /\ \A r \in Refs : s \notin binds[r]
        /\ SequencesOf(s) = {}

\* A command that ran or runs had every command of the earlier items, and every earlier
\* command of its branch, end OK before it (Engine._run_sequence, _run_branch).
Before(d, c) ==
    Plan[d].exec = Plan[c].exec /\ (Plan[d].item < Plan[c].item \/ After(c, d))
RunsInOrder ==
    \A c \in Commands : (task[c] # "none" \/ status[c] = "OK") =>
        \A d \in Commands : Before(d, c) => status[d] = "OK"

\* When the task of a sequence that started is done, every command of it has ended, so
\* none is left without a completion (Engine._run_sequence, _skip).
NothingLeftBehind ==
    \A e \in Execs : seq[e] = "done" /\ at[e] > 0 =>
        \A c \in CmdsOf(e) : status[c] # "none"

\* While its sequence runs, the session was told of the end of a command exactly once, and
\* of no command that has not ended (Engine._complete).
ToldOnce ==
    \A e \in Execs : seq[e] = "running" =>
        \A c \in CmdsOf(e) : notified[c] = IF status[c] = "none" THEN 0 ELSE 1

\* The status of a command never changes once it is set, and no second completed follows,
\* also when its sequence is aborted after it ended (Engine._complete).
StatusFinal ==
    [][\A c \in Commands : status[c] # "none" =>
           status'[c] = status[c] /\ notified'[c] = notified[c]]_vars

\* A command that has not ended keeps its entry in the command table, so a run finds it
\* and its end is recorded (Engine._prune_commands).
UnfinishedKept ==
    \A c \in Commands :
        seq[Plan[c].exec] # "unused" /\ status[c] = "none" => c \in table

\* A child engine that left the tree leaves no bind on the components it had when it left and
\* no subscription on any component it ever had behind, also when requests for them were under
\* way and whatever it left out of its profile before (Engine.remove_child).  A bind on a
\* component that had left the profile by then is the exception: it stays, against
\* docs/rois-reference.md:938.
GoneChildHoldsNothing ==
    \A k \in Children : child[k] = "down" =>
        /\ \A r \in offers[k] : binds[r] = {}
        /\ \A u \in Subs : SourceOf[SubRef[u]] = k => sub[u].state # "held"

\* A session close_session forgot leaves nothing behind: no bind, no subscription, no
\* request for one, and no sequence that still runs (Engine._end_session, serve_session).
ClosedLeavesNothing ==
    \A s \in Sessions : sess[s] = "closed" =>
        /\ \A r \in Refs : s \notin binds[r]
        /\ \A u \in Subs : sub[u].session = s => sub[u].state = "ended"
        /\ \A e \in Execs : owner[e] = s => seq[e] = "done"

\* A cancelled command on a child that another session holds is kept running there, so
\* "one client never aborts another's commands there" (Engine._spare_shared).
SharedRunsOn ==
    [][\A c \in Commands :
           /\ task[c] = "running" /\ task'[c] = "cancelling"
           /\ SourceOf[RefOf(c)] # Local
           /\ binds'[RefOf(c)] \ {OwnerOf(c)} # {}
           => c \in kept']_vars

\* Every command of an aborted sequence ends: a disconnect leaves nothing running.
AbortCompletes ==
    \A e \in Execs :
        seq[e] = "cancelled" ~> seq[e] = "done" /\ \A c \in CmdsOf(e) : status[c] # "none"

\* A session whose connection is gone reaches the end of close_session.
LostSessionEnds ==
    \A s \in Sessions : sess[s] = "closing" ~> sess[s] \in {"closed", "stuck"}

\* A release gets its reply, also when the sequence it aborts a command of is aborted too.
ReleaseReturns == []<>(releases = {})

\* Binding is exclusive, and what clients are shown of it is what bind decides.
BindsExclusive == ActuationExclusive /\ BusyMeansRefused

\* A sequence keeps its promises whatever interrupts it: its commands run in order, all of them
\* end, and each end is announced once.
SequencesKept == RunsInOrder /\ NothingLeftBehind /\ ToldOnce

\* Neither a child that left nor a session that closed leaves binds or subscriptions behind.
GoneLeavesNothing == GoneChildHoldsNothing /\ ClosedLeavesNothing

\* What is aborted ends: the commands of a cancelled sequence, and the releases that wait for
\* the commands they abort.
AbortsEnd == AbortCompletes /\ ReleaseReturns

-----------------------------------------------------------------------------
(* What the safety properties rest on: the inductive invariant of EngineProofs *)

\* A connected session has its connection, or lost it and waits for close_session.
ConnectedIsServed ==
    \A s \in Sessions : connected[s] => sess[s] \in {"open", "closing"}

\* Binds and sequences that may still start commands belong to connected sessions.
HoldersConnected == \A r \in Refs : \A s \in binds[r] : connected[s]
OwnersConnected ==
    \A e \in Execs : /\ seq[e] # "unused" => owner[e] \in Sessions
                     /\ seq[e] \in {"created", "running"} => connected[owner[e]]

\* No command of a sequence that has not started has begun or ended.
UnstartedUntouched ==
    \A e \in Execs : seq[e] \in {"unused", "created"} =>
        /\ at[e] = 0
        /\ \A c \in CmdsOf(e) : status[c] = "none" /\ task[c] = "none" /\ notified[c] = 0

\* A command with a run is an unended command of the item its sequence is at.
RunsAtItem ==
    \A c \in Commands : task[c] # "none" =>
        /\ status[c] = "none"
        /\ seq[Plan[c].exec] \in {"running", "cancelled"}
        /\ at[Plan[c].exec] = Plan[c].item

\* The commands of the items a sequence is past ended OK.
PastItemsOK ==
    \A c \in Commands : Plan[c].item < at[Plan[c].exec] => status[c] = "OK"

SessionInv == ConnectedIsServed /\ HoldersConnected /\ OwnersConnected /\ ActuationExclusive
CommandInv == /\ UnstartedUntouched /\ RunsAtItem /\ PastItemsOK /\ UnfinishedKept
              /\ RunsInOrder /\ NothingLeftBehind /\ ToldOnce

\* A subscribe under way has its connection, and an unused request has no session.
AskersOpen ==
    /\ \A u \in Subs : sub[u].state = "unused" => sub[u].session = NoSession
    /\ \A u \in Subs : sub[u].state # "unused" => sub[u].session \in Sessions
    /\ \A u \in Subs : sub[u].state = "asking" => sess[sub[u].session] = "open"

\* A cancelled sequence that has not unwound is waited for by the end of its session.
CancelledAwaited ==
    /\ \A e \in Execs : seq[e] = "unused" => owner[e] = NoSession
    /\ \A e \in Execs : seq[e] = "cancelled" =>
           ends[owner[e]].phase = "gather" /\ e \in ends[owner[e]].waits

\* close_session has every subscription of the session on its list.
ClosingListsAll ==
    \A s \in Sessions : sess[s] = "ending" =>
        \/ ends[s].phase = "gather"
        \/ ends[s].phase = "unsub" /\ SubsOf(s) \subseteq ends[s].mine

EndInv == AskersOpen /\ CancelledAwaited /\ ClosingListsAll /\ ClosedLeavesNothing

-----------------------------------------------------------------------------
(* What the documentation says and the code does not keep *)

\* An actuator never runs a command of a session that does not hold it: release "aborts
\* the caller's commands on that component ... so the next session cannot take an actuator
\* mid-motion" (docs/rois-reference.md:868).  Only commands with a task are aborted.
ActuatorRunByHolder ==
    \A c \in Commands :
        task[c] = "running" /\ RefOf(c) \in Actuation /\ OwnerOf(c) \notin Trusted
            => OwnerOf(c) \in binds[RefOf(c)]

=============================================================================
