--------------------------- MODULE LocalCommands ---------------------------
(***************************************************************************)
(* The commands of one component of this process                           *)
(* (LocalComponents.run in engine/src/openrois/engine/local.py): start,    *)
(* stop, suspend and resume, the commands a suspension holds, and the turn *)
(* a start takes over from the start before it.                            *)
(*                                                                         *)
(* The code between two awaits is one action.  The handlers of the         *)
(* component are the environment: a handler ends at any time, or never,    *)
(* and one that is cancelled unwinds for as long as it likes and then ends *)
(* cancelled.  A timeout may elapse at any moment a timed command waits.   *)
(* The engine may cancel a run at any await, and again while it halts.     *)
(* The component serves RoISCommon.  set_parameter, which none of these    *)
(* waits for, is left out.                                                 *)
(***************************************************************************)
EXTENDS Naturals

CONSTANTS
    Cmds,        \* commands, each run once
    Kind,        \* [Cmds -> {"start", "stop", "suspend", "resume", "other"}]
    Timed,       \* the commands whose profile gives a timeout
    Cancellable, \* bound: the commands whose run the engine may cancel
    Breaks,      \* bound: whether an ERROR may be raised
    None         \* no command

Kinds == {"start", "stop", "suspend", "resume", "other"}
Starts == {c \in Cmds : Kind[c] = "start"}

ASSUME KindAssumption == Kind \in [Cmds -> Kinds] /\ Timed \subseteq Cmds
ASSUME ConstantAssumption == None \notin Cmds /\ Breaks \in BOOLEAN

VARIABLES
    operable,   \* _operable: connected, and no ERROR raised
    started,    \* _Hosted.started
    start,      \* _Hosted.start: the latest start, which stop and a new start abort
    aborted,    \* _Hosted.aborted: commands that end with ABORT
    susp,       \* _Hosted.suspension, named by the suspend that made it
    hold,       \* each _Suspension: "none", "inforce", "released" or "aborted"
    found,      \* the suspension each held command waits for
    pc,         \* where the run of each command waits: "none", "held", "waiting" (a start,
                \* for its turn), "handling", "halting" (aborted), "done"
    result,     \* how the run ended
    cancels,    \* runs the engine cancelled
    handler,    \* the handler task of each command
    halts,      \* stop handlers that aborted starts run
    locked,     \* _Hosted.takeover is taken
    takeover,   \* the _take_over of each start: "none", "queued", "halting", "awaiting"
                \* (its handler cancelled), "ready", "over" (the lock is passed on)
    prev,       \* the start each start takes over from
    turn,       \* the place of each start in the queue for the lock
    turns,      \* how many starts queued
    captured    \* the start each stop cancels

envVars   == <<operable, cancels, halts, captured>>
startVars == <<started, start, aborted>>
holdVars  == <<susp, hold, found>>
lockVars  == <<locked, takeover, prev, turn, turns>>
vars == <<operable, started, start, aborted, susp, hold, found, pc, result, cancels,
          handler, halts, locked, takeover, prev, turn, turns, captured>>

Ran == {"OK", "FAIL", "CANCELLED"}
Unfinished == {"running", "cancelling"}
Results == {"none", "OK", "ERROR", "ABORT", "TIMEOUT", "CANCELLED"}

\* The types of the variables.
TypeOK ==
    /\ operable \in BOOLEAN /\ started \in BOOLEAN /\ locked \in BOOLEAN
    /\ start \in Starts \cup {None}
    /\ aborted \subseteq Cmds /\ cancels \subseteq Cmds /\ halts \subseteq Cmds
    /\ susp \in Cmds \cup {None}
    /\ hold \in [Cmds -> {"none", "inforce", "released", "aborted"}]
    /\ found \in [Cmds -> Cmds \cup {None}]
    /\ pc \in [Cmds -> {"none", "held", "waiting", "handling", "halting", "done"}]
    /\ result \in [Cmds -> Results]
    /\ handler \in [Cmds -> {"none"} \cup Unfinished \cup Ran]
    /\ takeover \in [Cmds -> {"none", "queued", "halting", "awaiting", "ready", "over"}]
    /\ prev \in [Cmds -> Starts \cup {None}]
    /\ turn \in [Cmds -> Nat] /\ turns \in Nat
    /\ captured \in [Cmds -> Starts \cup {None}]

Init ==
    /\ operable = TRUE /\ started = FALSE /\ locked = FALSE
    /\ start = None /\ susp = None
    /\ aborted = {} /\ cancels = {} /\ halts = {}
    /\ hold = [c \in Cmds |-> "none"]
    /\ found = [c \in Cmds |-> None]
    /\ pc = [c \in Cmds |-> "none"]
    /\ result = [c \in Cmds |-> "none"]
    /\ handler = [c \in Cmds |-> "none"]
    /\ takeover = [c \in Cmds |-> "none"]
    /\ prev = [c \in Cmds |-> None]
    /\ turn = [c \in Cmds |-> 0] /\ turns = 0
    /\ captured = [c \in Cmds |-> None]

-----------------------------------------------------------------------------
(* Helpers *)

Live(c) == pc[c] \in {"held", "waiting", "handling", "halting"}

\* A run that returns, or raises CancelledError.
Returns(c, st) ==
    /\ pc' = [pc EXCEPT ![c] = "done"]
    /\ result' = [result EXCEPT ![c] = st]

\* _begin, and the await of _end.
Begins(c) ==
    /\ handler' = [handler EXCEPT ![c] = "running"]
    /\ pc' = [pc EXCEPT ![c] = "handling"]
    /\ UNCHANGED result

\* Task.cancel on a handler: one that is done stays as it is.
Cancelled(c) ==
    IF c # None /\ handler[c] = "running" THEN [handler EXCEPT ![c] = "cancelling"]
    ELSE handler

\* _lift
Lift(how) ==
    /\ susp' = None
    /\ hold' = IF susp = None THEN hold ELSE [hold EXCEPT ![susp] = how]

\* The part of _start before its await: the new start replaces the latest one, which ends
\* with ABORT, and queues for its turn.
Queues(c) ==
    /\ prev' = [prev EXCEPT ![c] = start]
    /\ start' = c
    /\ started' = TRUE
    /\ aborted' = aborted \cup ({start} \ {None})
    /\ takeover' = [takeover EXCEPT ![c] = "queued"]
    /\ turns' = turns + 1
    /\ turn' = [turn EXCEPT ![c] = turns + 1]
    /\ pc' = [pc EXCEPT ![c] = "waiting"]
    /\ UNCHANGED <<locked, handler, result>>

\* run past the hold: a start queues, any other command begins.
Proceeds(c) ==
    \/ Kind[c] = "start" /\ Queues(c)
    \/ Kind[c] # "start" /\ Begins(c) /\ UNCHANGED startVars /\ UNCHANGED lockVars

\* A start that never began is forgotten.
Forgets(c) ==
    /\ aborted' = aborted \ {c}
    /\ start' = IF start = c THEN None ELSE start
    /\ started' = (started /\ start # c)

\* The finally of _end.  A start that ends other than OK ends started, unless a newer start
\* began.
Finishes(c, st) ==
    /\ Returns(c, st)
    /\ aborted' = aborted \ {c}
    /\ start' = IF start = c THEN None ELSE start
    /\ started' = (started /\ ~(Kind[c] = "start" /\ st # "OK" /\ start \in {c, None}))

-----------------------------------------------------------------------------
(* run *)

\* A component that takes no commands.
RunRefused(c) ==
    /\ pc[c] = "none" /\ ~operable
    /\ Returns(c, "ERROR")
    /\ UNCHANGED <<handler, startVars, holdVars, lockVars, envVars>>

\* suspend, resume and stop of a component that is not started.  A stop still reaches a
\* start that unwinds.
NoOp(c) == /\ ~started
           /\ \/ Kind[c] \in {"suspend", "resume"}
              \/ Kind[c] = "stop" /\ start = None
RunNoOp(c) ==
    /\ pc[c] = "none" /\ operable /\ NoOp(c)
    /\ Returns(c, "OK")
    /\ UNCHANGED <<handler, startVars, holdVars, lockVars, envVars>>

Runs(c, kinds) == pc[c] = "none" /\ operable /\ ~NoOp(c) /\ Kind[c] \in kinds

\* A start or other command under a suspension.
RunHeld(c) ==
    /\ Runs(c, {"start", "other"}) /\ susp # None
    /\ pc' = [pc EXCEPT ![c] = "held"]
    /\ found' = [found EXCEPT ![c] = susp]
    /\ UNCHANGED <<susp, hold, result, handler, startVars, lockVars, envVars>>

\* A command that is not held.
RunAtOnce(c) ==
    /\ Runs(c, {"start", "other"}) /\ susp = None
    /\ Proceeds(c)
    /\ UNCHANGED <<holdVars, envVars>>

\* A wrong RunStop: the start is not marked.
RunStopUnmarked(c) ==
    /\ Runs(c, {"stop"})
    /\ started' = FALSE
    /\ Lift("aborted")
    /\ captured' = [captured EXCEPT ![c] = start]
    /\ Begins(c)
    /\ UNCHANGED <<operable, start, aborted, found, cancels, halts, lockVars>>

\* A wrong RunStop: the suspension is left to the resume that will not come.
RunStopUnlifted(c) ==
    /\ Runs(c, {"stop"})
    /\ started' = FALSE
    /\ captured' = [captured EXCEPT ![c] = start]
    /\ aborted' = aborted \cup ({start} \ {None})
    /\ Begins(c)
    /\ UNCHANGED <<operable, start, holdVars, cancels, halts, lockVars>>

\* _stop up to its await: the suspension ends, the latest start is to end with ABORT.
RunStop(c) ==
    /\ Runs(c, {"stop"})
    /\ started' = FALSE
    /\ Lift("aborted")
    /\ captured' = [captured EXCEPT ![c] = start]
    /\ aborted' = aborted \cup ({start} \ {None})
    /\ Begins(c)
    /\ UNCHANGED <<operable, start, found, cancels, halts, lockVars>>

\* _suspend up to its await.
RunSuspend(c) ==
    /\ Runs(c, {"suspend"})
    /\ susp' = IF susp = None THEN c ELSE susp
    /\ hold' = IF susp = None THEN [hold EXCEPT ![c] = "inforce"] ELSE hold
    /\ Begins(c)
    /\ UNCHANGED <<found, startVars, lockVars, envVars>>

\* _resume up to its await.
RunResume(c) ==
    /\ Runs(c, {"resume"})
    /\ Begins(c)
    /\ UNCHANGED <<startVars, holdVars, lockVars, envVars>>

-----------------------------------------------------------------------------
(* _held *)

\* A held command that ends without starting: cancelled, timed out, or aborted by a stop.
HeldEnds(c, st) ==
    /\ pc[c] = "held"
    /\ \/ st = "CANCELLED" /\ c \in cancels
       \/ st = "TIMEOUT" /\ c \in Timed \ cancels
       \/ st = "ABORT" /\ hold[found[c]] = "aborted" /\ c \notin cancels
    /\ Returns(c, st)
    /\ UNCHANGED <<handler, startVars, holdVars, lockVars, envVars>>

\* A released command finds a new suspension.
HeldAgain(c) ==
    /\ pc[c] = "held" /\ c \notin cancels
    /\ hold[found[c]] = "released" /\ susp # None
    /\ found' = [found EXCEPT ![c] = susp]
    /\ UNCHANGED <<susp, hold, pc, result, handler, startVars, lockVars, envVars>>

\* A released command goes on, if the component still takes commands.
HeldGoesOn(c) ==
    /\ pc[c] = "held" /\ c \notin cancels
    /\ hold[found[c]] = "released" /\ susp = None
    /\ \/ operable /\ Proceeds(c)
       \/ /\ ~operable /\ Returns(c, "ERROR")
          /\ UNCHANGED handler /\ UNCHANGED startVars /\ UNCHANGED lockVars
    /\ UNCHANGED <<holdVars, envVars>>

-----------------------------------------------------------------------------
(* _start and _take_over *)

\* The lock is free and the start is the first that waits for it.  It halts the start
\* before it, if that one has a handler.
TakeOverAcquires(c) ==
    LET p == prev[c] IN
    /\ takeover[c] = "queued" /\ ~locked
    /\ \A d \in Cmds : takeover[d] = "queued" => turn[c] <= turn[d]
    /\ locked' = TRUE
    /\ takeover' = [takeover EXCEPT ![c] =
           IF p = None THEN "ready"
           ELSE IF handler[p] = "none" THEN "ready"
           ELSE IF handler[p] \in Ran THEN "awaiting" ELSE "halting"]
    /\ UNCHANGED <<pc, result, handler, prev, turn, turns, startVars, holdVars, envVars>>

\* _halt after the stop handler: the start before is cancelled.
TakeOverHalted(c) ==
    /\ takeover[c] = "halting"
    /\ takeover' = [takeover EXCEPT ![c] = "awaiting"]
    /\ handler' = Cancelled(prev[c])
    /\ UNCHANGED <<pc, result, locked, prev, turn, turns, startVars, holdVars, envVars>>

\* A wrong TakeOverEnds: a cancelled start counts as done.
TakeOverEndsAtOnce(c) ==
    /\ takeover[c] = "awaiting"
    /\ takeover' = [takeover EXCEPT ![c] = "ready"]
    /\ UNCHANGED <<pc, result, handler, locked, prev, turn, turns, startVars, holdVars,
                   envVars>>

\* The start before is done.
TakeOverEnds(c) ==
    /\ takeover[c] = "awaiting" /\ handler[prev[c]] \in Ran
    /\ takeover' = [takeover EXCEPT ![c] = "ready"]
    /\ UNCHANGED <<pc, result, handler, locked, prev, turn, turns, startVars, holdVars,
                   envVars>>

\* A wrong TakeOverPassesOn: nobody passes the lock on.
TakeOverKeepsLock(c) == FALSE

\* _release_after: the takeover of a start that gave up passes the lock on.
TakeOverPassesOn(c) ==
    /\ takeover[c] = "ready" /\ pc[c] = "done"
    /\ locked' = FALSE
    /\ takeover' = [takeover EXCEPT ![c] = "over"]
    /\ UNCHANGED <<pc, result, handler, prev, turn, turns, startVars, holdVars, envVars>>

\* _start in its turn: it begins, unless a stop or a later start aborted it.
StartTurn(c) ==
    /\ pc[c] = "waiting" /\ takeover[c] = "ready" /\ c \notin cancels
    /\ locked' = FALSE
    /\ takeover' = [takeover EXCEPT ![c] = "over"]
    /\ \/ c \notin aborted /\ Begins(c) /\ UNCHANGED startVars
       \/ c \in aborted /\ Returns(c, "ABORT") /\ Forgets(c) /\ UNCHANGED handler
    /\ UNCHANGED <<prev, turn, turns, holdVars, envVars>>

\* _start gives up its turn, timed out or cancelled.  Its takeover goes on without it.
StartGivesUp(c) ==
    /\ pc[c] = "waiting" /\ c \in Timed \cup cancels
    /\ Returns(c, IF c \in cancels THEN "CANCELLED" ELSE "TIMEOUT")
    /\ Forgets(c)
    /\ UNCHANGED <<handler, holdVars, lockVars, envVars>>

-----------------------------------------------------------------------------
(* _end, and what _stop, _suspend and _resume do after it *)

\* A wrong Ended: what the handler did is taken for a status.
EndedAsRaised(c) == IF c \in aborted THEN "ABORT" ELSE handler[c]

\* How a run that is not cancelled ends.
Ended(c) ==
    IF c \in aborted \/ handler[c] = "CANCELLED" THEN "ABORT"
    ELSE IF handler[c] = "OK" THEN "OK" ELSE "ERROR"

\* A suspend that failed lifts the hold it made, a resume that succeeded the one in force.
Lifts(c) ==
    \/ Kind[c] = "suspend" /\ Ended(c) # "OK" /\ susp = c
    \/ Kind[c] = "resume" /\ Ended(c) = "OK"

\* A wrong EndHandled: a run that is cancelled when its handler is done returns.
EndHandledAnyway(c) ==
    /\ pc[c] = "handling" /\ handler[c] \in Ran
    /\ Finishes(c, Ended(c))
    /\ handler' = IF Kind[c] = "stop" THEN Cancelled(captured[c]) ELSE handler
    /\ UNCHANGED <<holdVars, lockVars, envVars>>

\* The handler is done: the run returns, and a stop cancels the start it found.
EndHandled(c) ==
    /\ pc[c] = "handling" /\ handler[c] \in Ran /\ c \notin cancels
    /\ Finishes(c, Ended(c))
    /\ handler' = IF Kind[c] = "stop" THEN Cancelled(captured[c]) ELSE handler
    /\ \/ Lifts(c) /\ Lift("released") /\ UNCHANGED found
       \/ ~Lifts(c) /\ UNCHANGED holdVars
    /\ UNCHANGED <<lockVars, envVars>>

\* The handler of a run the engine cancelled is done.  A start halts its backend first.
EndCancelled(c) ==
    /\ pc[c] = "handling" /\ handler[c] \in Ran /\ c \in cancels
    /\ \/ /\ Kind[c] = "start"
          /\ halts' = halts \cup {c}
          /\ pc' = [pc EXCEPT ![c] = "halting"]
          /\ UNCHANGED result /\ UNCHANGED startVars
       \/ /\ Kind[c] # "start"
          /\ Finishes(c, "CANCELLED")
          /\ UNCHANGED halts
    /\ UNCHANGED <<operable, cancels, handler, captured, holdVars, lockVars>>

\* The aborted start is halted.
EndHalted(c) ==
    /\ pc[c] = "halting" /\ c \notin halts
    /\ Finishes(c, "CANCELLED")
    /\ UNCHANGED <<handler, holdVars, lockVars, envVars>>

\* The engine cancels the run again while it waits for its halt, which goes on without it.
CancelAgain(c) ==
    /\ pc[c] = "halting" /\ c \in halts
    /\ Finishes(c, "CANCELLED")
    /\ UNCHANGED <<handler, holdVars, lockVars, envVars>>

-----------------------------------------------------------------------------
(* The engine, the handlers and the backend *)

\* The engine cancels the run, and with it the handler the run awaits.
Cancel(c) ==
    /\ Live(c) /\ c \in Cancellable \ cancels
    /\ cancels' = cancels \cup {c}
    /\ handler' = IF pc[c] = "handling" THEN Cancelled(c) ELSE handler
    /\ UNCHANGED <<operable, pc, result, halts, captured, startVars, holdVars, lockVars>>

\* rois_command returns or raises.
HandlerEnds(c, r) ==
    /\ \/ handler[c] = "running" /\ r \in {"OK", "FAIL"}
       \/ handler[c] = "cancelling" /\ r = "CANCELLED"
    /\ handler' = [handler EXCEPT ![c] = r]
    /\ UNCHANGED <<pc, result, startVars, holdVars, lockVars, envVars>>

\* _halt_backend of an aborted start: its stop handler returns, fails or times out.
HaltEnds(c) ==
    /\ c \in halts
    /\ halts' = halts \ {c}
    /\ UNCHANGED <<operable, pc, result, cancels, handler, captured, startVars, holdVars,
                   lockVars>>

\* An ERROR is raised or cleared.
OperableChanges ==
    /\ Breaks
    /\ operable' = ~operable
    /\ UNCHANGED <<pc, result, cancels, handler, halts, captured, startVars, holdVars,
                   lockVars>>

-----------------------------------------------------------------------------
(* The specification *)

Run(c) ==
    \/ RunRefused(c) \/ RunNoOp(c) \/ RunHeld(c) \/ RunAtOnce(c)
    \/ RunStop(c) \/ RunSuspend(c) \/ RunResume(c)

\* What the event loop does next in the run of a command.
RunGoesOn(c) ==
    \/ \E st \in {"ABORT", "CANCELLED"} : HeldEnds(c, st)
    \/ HeldAgain(c) \/ HeldGoesOn(c) \/ StartTurn(c)
    \/ c \in cancels /\ StartGivesUp(c)
    \/ EndHandled(c) \/ EndCancelled(c) \/ EndHalted(c)

\* What it does next in the takeover of a start, which runs in a task of its own.
TakeOverGoesOn(c) == TakeOverAcquires(c) \/ TakeOverEnds(c) \/ TakeOverPassesOn(c)

TimesOut(c) == HeldEnds(c, "TIMEOUT") \/ StartGivesUp(c)

Next ==
    \/ \E c \in Cmds :
        \/ Run(c) \/ RunGoesOn(c) \/ TakeOverGoesOn(c) \/ TimesOut(c)
        \/ TakeOverHalted(c) \/ HaltEnds(c)
        \/ Cancel(c) \/ CancelAgain(c)
        \/ \E r \in Ran : HandlerEnds(c, r)
    \/ OperableChanges

Spec == Init /\ [][Next]_vars

\* The event loop runs what is ready.  A stop handler that halts a start ends, since it has
\* a timeout or is trusted to return, and a handler that is cancelled unwinds.  No other
\* handler needs to end.
Fairness ==
    \A c \in Cmds :
        /\ WF_vars(RunGoesOn(c)) /\ WF_vars(TakeOverGoesOn(c))
        /\ WF_vars(TakeOverHalted(c)) /\ WF_vars(HaltEnds(c))
        /\ WF_vars(HandlerEnds(c, "CANCELLED"))

FairSpec == Spec /\ Fairness

-----------------------------------------------------------------------------
(* Properties *)

\* A start never runs its handler next to the start it replaces, nor next to any other
\* (the comment on _Hosted.takeover), though starts give up their turn at any moment.
OneStartRuns ==
    \A a, b \in Starts : handler[a] \in Unfinished /\ handler[b] \in Unfinished => a = b

\* _Hosted.start and _Hosted.aborted name only starts whose run is under way: whichever of
\* the many ways a start ends, it leaves no mark that would abort a later one.
NothingStale ==
    \A c \in aborted \cup ({start} \ {None}) : Kind[c] = "start" /\ Live(c)

\* A stop reaches every start it must end: a start that was received and is not yet marked
\* for ABORT is the one _stop captures, and the component counts as started, so that the
\* stop is not taken for a no-op.
StopReachesStart ==
    \A c \in Starts : turn[c] > 0 /\ Live(c) /\ c \notin aborted => start = c /\ started

\* A start that a stop or a later start found under way never ends OK, even if its handler
\* returned before either could cancel it.
ReplacedNeverOK ==
    \A c, d \in Cmds : captured[d] = c \/ prev[d] = c => result[c] # "OK"

\* A held command waits for the suspension in force, not for one that was replaced, or it is
\* about to go on.
HoldsInForce ==
    \A c \in Cmds : pc[c] = "held" /\ hold[found[c]] = "inforce" => susp = found[c]

\* A suspension in force while the component is not started: suspend, resume and stop are
\* no-ops then, so only a resume or suspend already under way can still lift it.
OutOfReach == susp # None /\ ~started

\* A held command waits for the suspension in force, and that one stays in the reach of resume
\* and stop, however starts, stops, suspends and their failures interleave, except in one case:
\* a start that ends other than OK under the suspension takes it out of reach, and the commands
\* it holds may then wait for ever (_end and run in local.py, against what
\* docs/rois-reference.md:840 says of resume and stop).
SuspensionsReached ==
    /\ []HoldsInForce
    /\ [][~OutOfReach /\ OutOfReach' =>
             \E c \in Starts : pc[c] # "done" /\ pc'[c] = "done" /\ result'[c] # "OK"]_vars

\* Every start gets its turn or gives it up, and passes the lock on: a start that times out
\* while the start before it unwinds does not keep the lock.
TurnPasses == \A c \in Cmds : takeover[c] = "queued" ~> takeover[c] = "over"

\* A stop that was not itself cancelled ends the start it found, whether that start had
\* begun, waited for its turn or was unwinding.
StopEndsStart ==
    \A c, d \in Cmds :
        captured[d] = c /\ result[d] \in {"OK", "ERROR"} ~> pc[c] = "done"

\* Whatever order starts, stops and handlers end in, every start under way is accounted for: the
\* marks name live starts, a stop finds the start it must end, and what was stopped or replaced
\* never ends OK.
StartsAccounted == NothingStale /\ StopReachesStart /\ ReplacedNeverOK

\* Every start passes its turn on, and every stop ends the start it found.
CommandsEnd == TurnPasses /\ StopEndsStart

\* A call of run as its caller sees it.
RunState(c) ==
    IF pc[c] = "none" THEN "none"
    ELSE IF pc[c] = "done" THEN (IF result[c] = "CANCELLED" THEN "aborted" ELSE "ended")
    ELSE IF c \in cancels THEN "cancelling" ELSE "running"
Contract == INSTANCE RunContract WITH run <- [c \in Cmds |-> RunState(c)]

\* run keeps the contract of a source: a call ends once, and a call the engine cancels ends,
\* as a cancelled call.
ContractHolds == Contract!FairSpec

=============================================================================
