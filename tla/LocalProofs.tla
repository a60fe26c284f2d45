---------------------------- MODULE LocalProofs ----------------------------
(***************************************************************************)
(* The safety properties of LocalCommands, proved for any commands.        *)
(***************************************************************************)
EXTENDS LocalCommands, TLAPS

\* Where the parts of one command can be at the same time.
PlaceInv ==
    \A c \in Cmds :
        /\ takeover[c] # "none" => Kind[c] = "start"
        /\ takeover[c] = "none" <=> turn[c] = 0
        /\ takeover[c] = "none" => prev[c] = None
        /\ pc[c] \in {"none", "held"} => takeover[c] = "none" /\ handler[c] = "none"
        /\ pc[c] = "held" => Kind[c] \in {"start", "other"} /\ found[c] \in Cmds
        /\ pc[c] = "waiting" =>
               takeover[c] \in {"queued", "halting", "awaiting", "ready"} /\ handler[c] = "none"
        /\ pc[c] = "handling" /\ Kind[c] = "start" => takeover[c] = "over"
        /\ pc[c] = "halting" => takeover[c] = "over"
        /\ pc[c] \in {"halting", "done"} => handler[c] \notin Unfinished
        /\ Kind[c] = "start" /\ handler[c] # "none" => takeover[c] = "over"
        /\ result[c] = "none" <=> pc[c] # "done"

\* start and aborted name starts that are under way, a start that is not aborted is the
\* latest, and one that was replaced or found by a stop is aborted until it is done.
MarkInv ==
    /\ \A c \in Cmds : c \in aborted \/ start = c =>
           Kind[c] = "start" /\ pc[c] \in {"waiting", "handling", "halting"}
    /\ start # None => turn[start] = turns
    /\ StopReachesStart
    /\ \A c, d \in Cmds : captured[d] = c \/ prev[d] = c =>
           c \in aborted \/ (pc[c] = "done" /\ result[c] # "OK")

\* Starts take over one at a time and in the order they came.
OrderInv ==
    /\ \A c \in Cmds : turn[c] <= turns
    /\ \A c, d \in Cmds : turn[c] = turn[d] /\ turn[c] > 0 => c = d
    /\ \A c, d \in Cmds : prev[d] = c => turn[c] > 0 /\ turn[d] = turn[c] + 1
    /\ \A c \in Cmds : takeover[c] \in {"halting", "awaiting", "ready"} => locked
    /\ \A c, d \in Cmds :
           takeover[d] \notin {"none", "queued"} /\ turn[c] > 0 /\ turn[c] < turn[d] =>
               takeover[c] = "over"

\* A start whose handler runs is the latest, or the one after it has yet to end it.
SuccessorInv ==
    \A c \in Starts : handler[c] \in Unfinished =>
        \/ start = c
        \/ \E d \in Cmds : prev[d] = c /\ takeover[d] \in {"queued", "halting", "awaiting"}

\* Only the suspension in force holds.
HoldInv == \A c \in Cmds : hold[c] = "inforce" => susp = c

-----------------------------------------------------------------------------
(* Type correctness *)

\* A command that goes on keeps the types.
LEMMA ProceedsType ==
    ASSUME TypeOK, NEW c \in Cmds, Proceeds(c)
    PROVE  /\ started' \in BOOLEAN /\ start' \in Starts \cup {None} /\ aborted' \subseteq Cmds
           /\ pc' \in [Cmds -> {"none", "held", "waiting", "handling", "halting", "done"}]
           /\ result' \in [Cmds -> Results]
           /\ handler' \in [Cmds -> {"none"} \cup Unfinished \cup Ran]
           /\ takeover' \in
                  [Cmds -> {"none", "queued", "halting", "awaiting", "ready", "over"}]
           /\ prev' \in [Cmds -> Starts \cup {None}]
           /\ turn' \in [Cmds -> Nat] /\ turns' \in Nat /\ locked' \in BOOLEAN
<1>1. CASE Kind[c] = "start" /\ Queues(c)
  BY <1>1 DEF Queues, TypeOK, Starts
<1>2. CASE Kind[c] # "start" /\ Begins(c) /\ UNCHANGED startVars /\ UNCHANGED lockVars
  BY <1>2 DEF Begins, startVars, lockVars, TypeOK, Unfinished
<1> QED BY <1>1, <1>2 DEF Proceeds

\* Every step keeps the types.
LEMMA TypeStep ==
    ASSUME TypeOK, [Next]_vars
    PROVE  TypeOK'
<1> USE KindAssumption DEF
      TypeOK, Ran, Unfinished, Results, Starts, envVars, startVars, holdVars, lockVars
<1>1. ASSUME NEW c \in Cmds, RunRefused(c)  PROVE TypeOK'
  BY <1>1 DEF RunRefused, Returns
<1>2. ASSUME NEW c \in Cmds, RunNoOp(c)  PROVE TypeOK'
  BY <1>2 DEF RunNoOp, Returns
<1>3. ASSUME NEW c \in Cmds, RunHeld(c)  PROVE TypeOK'
  BY <1>3 DEF RunHeld, Runs
<1>4. ASSUME NEW c \in Cmds, RunAtOnce(c)  PROVE TypeOK'
  BY <1>4, ProceedsType DEF RunAtOnce
<1>5. ASSUME NEW c \in Cmds, RunStop(c)  PROVE TypeOK'
  BY <1>5 DEF RunStop, Runs, Lift, Begins
<1>6. ASSUME NEW c \in Cmds, RunSuspend(c)  PROVE TypeOK'
  BY <1>6 DEF RunSuspend, Runs, Begins
<1>7. ASSUME NEW c \in Cmds, RunResume(c)  PROVE TypeOK'
  BY <1>7 DEF RunResume, Runs, Begins
<1>8. ASSUME NEW c \in Cmds, NEW st \in {"ABORT", "CANCELLED", "TIMEOUT"}, HeldEnds(c, st)
      PROVE TypeOK'
  BY <1>8 DEF HeldEnds, Returns
<1>9. ASSUME NEW c \in Cmds, HeldAgain(c)  PROVE TypeOK'
  BY <1>9 DEF HeldAgain
<1>10. ASSUME NEW c \in Cmds, HeldGoesOn(c)  PROVE TypeOK'
  <2>1. CASE Proceeds(c)
    BY <1>10, <2>1, ProceedsType DEF HeldGoesOn
  <2>2. CASE ~Proceeds(c)
    BY <1>10, <2>2 DEF HeldGoesOn, Returns
  <2> QED BY <2>1, <2>2
<1>11. ASSUME NEW c \in Cmds, StartTurn(c)  PROVE TypeOK'
  BY <1>11 DEF StartTurn, Begins, Returns, Forgets
<1>12. ASSUME NEW c \in Cmds, StartGivesUp(c)  PROVE TypeOK'
  BY <1>12 DEF StartGivesUp, Returns, Forgets
<1>13. ASSUME NEW c \in Cmds, EndHandled(c)  PROVE TypeOK'
  BY <1>13 DEF EndHandled, Finishes, Returns, Ended, Lift, Cancelled
<1>14. ASSUME NEW c \in Cmds, EndCancelled(c)  PROVE TypeOK'
  BY <1>14 DEF EndCancelled, Finishes, Returns
<1>15. ASSUME NEW c \in Cmds, EndHalted(c)  PROVE TypeOK'
  BY <1>15 DEF EndHalted, Finishes, Returns
<1>16. ASSUME NEW c \in Cmds, TakeOverAcquires(c)  PROVE TypeOK'
  BY <1>16 DEF TakeOverAcquires
<1>17. ASSUME NEW c \in Cmds, TakeOverEnds(c)  PROVE TypeOK'
  BY <1>17 DEF TakeOverEnds
<1>18. ASSUME NEW c \in Cmds, TakeOverPassesOn(c)  PROVE TypeOK'
  BY <1>18 DEF TakeOverPassesOn
<1>19. ASSUME NEW c \in Cmds, TakeOverHalted(c)  PROVE TypeOK'
  BY <1>19 DEF TakeOverHalted, Cancelled
<1>20. ASSUME NEW c \in Cmds, HaltEnds(c)  PROVE TypeOK'
  BY <1>20 DEF HaltEnds
<1>21. ASSUME NEW c \in Cmds, Cancel(c)  PROVE TypeOK'
  BY <1>21 DEF Cancel, Cancelled
<1>22. ASSUME NEW c \in Cmds, CancelAgain(c)  PROVE TypeOK'
  BY <1>22 DEF CancelAgain, Finishes, Returns
<1>23. ASSUME NEW c \in Cmds, NEW r \in Ran, HandlerEnds(c, r)  PROVE TypeOK'
  BY <1>23 DEF HandlerEnds
<1>24. ASSUME OperableChanges  PROVE TypeOK'
  BY <1>24 DEF OperableChanges
<1>25. CASE UNCHANGED vars
  BY <1>25 DEF vars
<1> HIDE DEF TypeOK
<1> QED
  BY <1>1, <1>2, <1>3, <1>4, <1>5, <1>6, <1>7, <1>8, <1>9, <1>10, <1>11, <1>12,
     <1>13, <1>14, <1>15, <1>16, <1>17, <1>18, <1>19, <1>20, <1>21, <1>22, <1>23, <1>24, <1>25
  DEF Next, Run, RunGoesOn, TakeOverGoesOn, TimesOut

-----------------------------------------------------------------------------
(* The parts of a command *)

\* Every step keeps the parts of each command in step.
LEMMA PlaceStep ==
    ASSUME TypeOK, PlaceInv, [Next]_vars
    PROVE  PlaceInv'
<1> USE KindAssumption, ConstantAssumption DEF
      PlaceInv, TypeOK, Ran, Unfinished, Results, Starts, envVars, startVars,
      holdVars, lockVars
<1>1. ASSUME NEW c \in Cmds, RunRefused(c)  PROVE PlaceInv'
  BY <1>1 DEF RunRefused, Returns
<1>2. ASSUME NEW c \in Cmds, RunNoOp(c)  PROVE PlaceInv'
  BY <1>2 DEF RunNoOp, Returns
<1>3. ASSUME NEW c \in Cmds, RunHeld(c)  PROVE PlaceInv'
  BY <1>3 DEF RunHeld, Runs
<1>4. ASSUME NEW c \in Cmds, RunAtOnce(c)  PROVE PlaceInv'
  BY <1>4 DEF RunAtOnce, Runs, Proceeds, Queues, Begins
<1>5. ASSUME NEW c \in Cmds, RunStop(c)  PROVE PlaceInv'
  BY <1>5 DEF RunStop, Runs, Lift, Begins
<1>6. ASSUME NEW c \in Cmds, RunSuspend(c)  PROVE PlaceInv'
  BY <1>6 DEF RunSuspend, Runs, Begins
<1>7. ASSUME NEW c \in Cmds, RunResume(c)  PROVE PlaceInv'
  BY <1>7 DEF RunResume, Runs, Begins
<1>8. ASSUME NEW c \in Cmds, NEW st \in {"ABORT", "CANCELLED", "TIMEOUT"}, HeldEnds(c, st)
      PROVE PlaceInv'
  BY <1>8 DEF HeldEnds, Returns
<1>9. ASSUME NEW c \in Cmds, HeldAgain(c)  PROVE PlaceInv'
  BY <1>9 DEF HeldAgain
<1>10. ASSUME NEW c \in Cmds, HeldGoesOn(c)  PROVE PlaceInv'
  BY <1>10 DEF HeldGoesOn, Proceeds, Queues, Begins, Returns
<1>11. ASSUME NEW c \in Cmds, StartTurn(c)  PROVE PlaceInv'
  BY <1>11 DEF StartTurn, Begins, Returns, Forgets
<1>12. ASSUME NEW c \in Cmds, StartGivesUp(c)  PROVE PlaceInv'
  BY <1>12 DEF StartGivesUp, Returns, Forgets
<1>13. ASSUME NEW c \in Cmds, EndHandled(c)  PROVE PlaceInv'
  BY <1>13 DEF EndHandled, Finishes, Returns, Ended, Lift, Cancelled
<1>14. ASSUME NEW c \in Cmds, EndCancelled(c)  PROVE PlaceInv'
  BY <1>14 DEF EndCancelled, Finishes, Returns
<1>15. ASSUME NEW c \in Cmds, EndHalted(c)  PROVE PlaceInv'
  BY <1>15 DEF EndHalted, Finishes, Returns
<1>16. ASSUME NEW c \in Cmds, TakeOverAcquires(c)  PROVE PlaceInv'
  BY <1>16 DEF TakeOverAcquires
<1>17. ASSUME NEW c \in Cmds, TakeOverEnds(c)  PROVE PlaceInv'
  BY <1>17 DEF TakeOverEnds
<1>18. ASSUME NEW c \in Cmds, TakeOverPassesOn(c)  PROVE PlaceInv'
  BY <1>18 DEF TakeOverPassesOn
<1>19. ASSUME NEW c \in Cmds, TakeOverHalted(c)  PROVE PlaceInv'
  BY <1>19 DEF TakeOverHalted, Cancelled
<1>20. ASSUME NEW c \in Cmds, HaltEnds(c)  PROVE PlaceInv'
  BY <1>20 DEF HaltEnds
<1>21. ASSUME NEW c \in Cmds, Cancel(c)  PROVE PlaceInv'
  BY <1>21 DEF Cancel, Cancelled
<1>22. ASSUME NEW c \in Cmds, CancelAgain(c)  PROVE PlaceInv'
  BY <1>22 DEF CancelAgain, Finishes, Returns
<1>23. ASSUME NEW c \in Cmds, NEW r \in Ran, HandlerEnds(c, r)  PROVE PlaceInv'
  BY <1>23 DEF HandlerEnds
<1>24. ASSUME OperableChanges  PROVE PlaceInv'
  BY <1>24 DEF OperableChanges
<1>25. CASE UNCHANGED vars
  BY <1>25 DEF vars
<1> HIDE DEF PlaceInv
<1> QED
  BY <1>1, <1>2, <1>3, <1>4, <1>5, <1>6, <1>7, <1>8, <1>9, <1>10, <1>11, <1>12,
     <1>13, <1>14, <1>15, <1>16, <1>17, <1>18, <1>19, <1>20, <1>21, <1>22, <1>23, <1>24, <1>25
  DEF Next, Run, RunGoesOn, TakeOverGoesOn, TimesOut

-----------------------------------------------------------------------------
(* Marks *)

\* Every step keeps the marks: a start is replaced or found by a stop only when it is
\* marked, and its end, which is then never OK, removes the mark.
LEMMA MarkStep ==
    ASSUME TypeOK, PlaceInv, MarkInv, [Next]_vars
    PROVE  MarkInv'
<1> USE KindAssumption, ConstantAssumption DEF
      MarkInv, StopReachesStart, PlaceInv, TypeOK, Live, Ran, Unfinished, Starts,
      envVars, startVars, holdVars, lockVars
<1>1. ASSUME NEW c \in Cmds, RunRefused(c)  PROVE MarkInv'
  BY <1>1 DEF RunRefused, Returns
<1>2. ASSUME NEW c \in Cmds, RunNoOp(c)  PROVE MarkInv'
  BY <1>2 DEF RunNoOp, Returns
<1>3. ASSUME NEW c \in Cmds, RunHeld(c)  PROVE MarkInv'
  BY <1>3 DEF RunHeld, Runs
<1>4. ASSUME NEW c \in Cmds, RunAtOnce(c)  PROVE MarkInv'
  BY <1>4 DEF RunAtOnce, Runs, Proceeds, Queues, Begins
<1>5. ASSUME NEW c \in Cmds, RunStop(c)  PROVE MarkInv'
  BY <1>5 DEF RunStop, Runs, Lift, Begins
<1>6. ASSUME NEW c \in Cmds, RunSuspend(c)  PROVE MarkInv'
  BY <1>6 DEF RunSuspend, Runs, Begins
<1>7. ASSUME NEW c \in Cmds, RunResume(c)  PROVE MarkInv'
  BY <1>7 DEF RunResume, Runs, Begins
<1>8. ASSUME NEW c \in Cmds, NEW st \in {"ABORT", "CANCELLED", "TIMEOUT"}, HeldEnds(c, st)
      PROVE MarkInv'
  BY <1>8 DEF HeldEnds, Returns
<1>9. ASSUME NEW c \in Cmds, HeldAgain(c)  PROVE MarkInv'
  BY <1>9 DEF HeldAgain
<1>10. ASSUME NEW c \in Cmds, HeldGoesOn(c)  PROVE MarkInv'
  BY <1>10 DEF HeldGoesOn, Proceeds, Queues, Begins, Returns
<1>11. ASSUME NEW c \in Cmds, StartTurn(c)  PROVE MarkInv'
  BY <1>11 DEF StartTurn, Begins, Returns, Forgets
<1>12. ASSUME NEW c \in Cmds, StartGivesUp(c)  PROVE MarkInv'
  BY <1>12 DEF StartGivesUp, Returns, Forgets
<1>13. ASSUME NEW c \in Cmds, EndHandled(c)  PROVE MarkInv'
  BY <1>13 DEF EndHandled, Finishes, Returns, Ended, Lift, Cancelled
<1>14. ASSUME NEW c \in Cmds, EndCancelled(c)  PROVE MarkInv'
  BY <1>14 DEF EndCancelled, Finishes, Returns
<1>15. ASSUME NEW c \in Cmds, EndHalted(c)  PROVE MarkInv'
  BY <1>15 DEF EndHalted, Finishes, Returns
<1>16. ASSUME NEW c \in Cmds, TakeOverAcquires(c)  PROVE MarkInv'
  BY <1>16 DEF TakeOverAcquires
<1>17. ASSUME NEW c \in Cmds, TakeOverEnds(c)  PROVE MarkInv'
  BY <1>17 DEF TakeOverEnds
<1>18. ASSUME NEW c \in Cmds, TakeOverPassesOn(c)  PROVE MarkInv'
  BY <1>18 DEF TakeOverPassesOn
<1>19. ASSUME NEW c \in Cmds, TakeOverHalted(c)  PROVE MarkInv'
  BY <1>19 DEF TakeOverHalted, Cancelled
<1>20. ASSUME NEW c \in Cmds, HaltEnds(c)  PROVE MarkInv'
  BY <1>20 DEF HaltEnds
<1>21. ASSUME NEW c \in Cmds, Cancel(c)  PROVE MarkInv'
  BY <1>21 DEF Cancel, Cancelled
<1>22. ASSUME NEW c \in Cmds, CancelAgain(c)  PROVE MarkInv'
  BY <1>22 DEF CancelAgain, Finishes, Returns
<1>23. ASSUME NEW c \in Cmds, NEW r \in Ran, HandlerEnds(c, r)  PROVE MarkInv'
  BY <1>23 DEF HandlerEnds
<1>24. ASSUME OperableChanges  PROVE MarkInv'
  BY <1>24 DEF OperableChanges
<1>25. CASE UNCHANGED vars
  BY <1>25 DEF vars
<1> HIDE DEF MarkInv
<1> QED
  BY <1>1, <1>2, <1>3, <1>4, <1>5, <1>6, <1>7, <1>8, <1>9, <1>10, <1>11, <1>12,
     <1>13, <1>14, <1>15, <1>16, <1>17, <1>18, <1>19, <1>20, <1>21, <1>22, <1>23, <1>24, <1>25
  DEF Next, Run, RunGoesOn, TakeOverGoesOn, TimesOut

-----------------------------------------------------------------------------
(* The order of the takeovers *)

\* The lock has one holder: of two takeovers under way the earlier would be over.
LEMMA OneHolds ==
    ASSUME TypeOK, PlaceInv, OrderInv, NEW c \in Cmds, NEW d \in Cmds,
           takeover[c] \in {"halting", "awaiting", "ready"},
           takeover[d] \in {"halting", "awaiting", "ready"}
    PROVE  c = d
<1>1. turn[c] \in Nat /\ turn[d] \in Nat /\ turn[c] > 0 /\ turn[d] > 0
  BY DEF TypeOK, PlaceInv
<1>2. ~(turn[c] < turn[d]) /\ ~(turn[d] < turn[c])
  BY <1>1 DEF OrderInv
<1> QED BY <1>1, <1>2 DEF OrderInv

\* A start that queues is the last.
LEMMA QueuesOrder ==
    ASSUME TypeOK, PlaceInv, MarkInv, OrderInv, NEW c \in Cmds, Queues(c),
           pc[c] \in {"none", "held"}
    PROVE  OrderInv'
<1> USE DEF TypeOK, PlaceInv, Queues
<1>1. takeover[c] = "none" /\ turn[c] = 0 /\ start # c
  BY DEF MarkInv
<1>2. /\ turns \in Nat /\ turns' = turns + 1
      /\ turn' = [turn EXCEPT ![c] = turns + 1]
      /\ \A d \in Cmds : turn[d] \in Nat /\ turn[d] <= turns
  BY DEF OrderInv
<1>3. /\ (\A d \in Cmds : turn[d] <= turns)'
      /\ (\A d, e \in Cmds : turn[d] = turn[e] /\ turn[d] > 0 => d = e)'
  BY <1>1, <1>2 DEF OrderInv
<1>4. start # None => start \in Cmds /\ turn[start] = turns /\ turn[start] > 0
  <2> SUFFICES ASSUME start # None  PROVE start \in Cmds /\ turn[start] = turns /\ turn[start] > 0
    OBVIOUS
  <2>1. start \in Cmds  BY DEF Starts
  <2>2. takeover[start] # "none"  BY <2>1 DEF MarkInv
  <2> QED BY <2>1, <2>2 DEF MarkInv
<1>5. (\A d, e \in Cmds : prev[e] = d => turn[d] > 0 /\ turn[e] = turn[d] + 1)'
  <2> SUFFICES ASSUME NEW d \in Cmds, NEW e \in Cmds, prev'[e] = d
               PROVE  turn'[d] > 0 /\ turn'[e] = turn'[d] + 1
    OBVIOUS
  <2>1. CASE e = c
    <3>1. d = start /\ d # c  BY <1>1, <2>1
    <3>2. start # None  BY <3>1, ConstantAssumption
    <3> QED BY <1>2, <1>4, <2>1, <3>1, <3>2
  <2>2. CASE e # c
    <3>1. prev[e] = d  BY <2>2
    <3>2. turn[d] > 0 /\ turn[e] = turn[d] + 1  BY <3>1 DEF OrderInv
    <3>3. d # c  BY <1>1, <3>2
    <3> QED BY <1>2, <2>2, <3>2, <3>3
  <2> QED BY <2>1, <2>2
<1>6. (\A d \in Cmds : takeover[d] \in {"halting", "awaiting", "ready"} => locked)'
  BY DEF OrderInv
<1>7. (\A d, e \in Cmds :
           takeover[e] \notin {"none", "queued"} /\ turn[d] > 0 /\ turn[d] < turn[e] =>
               takeover[d] = "over")'
  <2> SUFFICES ASSUME NEW d \in Cmds, NEW e \in Cmds,
                      takeover'[e] \notin {"none", "queued"}, turn'[d] > 0, turn'[d] < turn'[e]
               PROVE  takeover'[d] = "over"
    OBVIOUS
  <2>1. e # c /\ turn'[e] = turn[e] /\ takeover[e] = takeover'[e]  OBVIOUS
  <2>2. d # c  BY <1>2, <2>1
  <2> QED BY <2>1, <2>2 DEF OrderInv
<1> QED BY <1>3, <1>5, <1>6, <1>7 DEF OrderInv

\* Every step keeps the takeovers in order.
LEMMA OrderStep ==
    ASSUME TypeOK, PlaceInv, MarkInv, OrderInv, [Next]_vars
    PROVE  OrderInv'
<1> USE KindAssumption, ConstantAssumption DEF
      OrderInv, MarkInv, PlaceInv, TypeOK, Ran, Unfinished, Starts, envVars,
      startVars, holdVars, lockVars
<1>1. ASSUME NEW c \in Cmds, RunRefused(c)  PROVE OrderInv'
  BY <1>1 DEF RunRefused, Returns
<1>2. ASSUME NEW c \in Cmds, RunNoOp(c)  PROVE OrderInv'
  BY <1>2 DEF RunNoOp, Returns
<1>3. ASSUME NEW c \in Cmds, RunHeld(c)  PROVE OrderInv'
  BY <1>3 DEF RunHeld, Runs
<1>4. ASSUME NEW c \in Cmds, RunAtOnce(c)  PROVE OrderInv'
  <2>1. CASE Queues(c)
    BY <1>4, <2>1, QueuesOrder DEF RunAtOnce, Runs
  <2>2. CASE ~Queues(c)
    BY <1>4, <2>2 DEF RunAtOnce, Proceeds
  <2> QED BY <2>1, <2>2
<1>5. ASSUME NEW c \in Cmds, RunStop(c)  PROVE OrderInv'
  BY <1>5 DEF RunStop, Runs, Lift, Begins
<1>6. ASSUME NEW c \in Cmds, RunSuspend(c)  PROVE OrderInv'
  BY <1>6 DEF RunSuspend, Runs, Begins
<1>7. ASSUME NEW c \in Cmds, RunResume(c)  PROVE OrderInv'
  BY <1>7 DEF RunResume, Runs, Begins
<1>8. ASSUME NEW c \in Cmds, NEW st \in {"ABORT", "CANCELLED", "TIMEOUT"}, HeldEnds(c, st)
      PROVE OrderInv'
  BY <1>8 DEF HeldEnds, Returns
<1>9. ASSUME NEW c \in Cmds, HeldAgain(c)  PROVE OrderInv'
  BY <1>9 DEF HeldAgain
<1>10. ASSUME NEW c \in Cmds, HeldGoesOn(c)  PROVE OrderInv'
  <2>1. CASE Queues(c)
    BY <1>10, <2>1, QueuesOrder DEF HeldGoesOn
  <2>2. CASE ~Queues(c)
    BY <1>10, <2>2 DEF HeldGoesOn, Proceeds
  <2> QED BY <2>1, <2>2
<1>11. ASSUME NEW c \in Cmds, StartTurn(c)  PROVE OrderInv'
  <2>1. \A d \in Cmds : takeover[d] \in {"halting", "awaiting", "ready"} => d = c
    BY <1>11, OneHolds DEF StartTurn
  <2> QED BY <1>11, <2>1 DEF StartTurn, Begins, Returns, Forgets
<1>12. ASSUME NEW c \in Cmds, StartGivesUp(c)  PROVE OrderInv'
  BY <1>12 DEF StartGivesUp, Returns, Forgets
<1>13. ASSUME NEW c \in Cmds, EndHandled(c)  PROVE OrderInv'
  BY <1>13 DEF EndHandled, Finishes, Returns, Ended, Lift, Cancelled
<1>14. ASSUME NEW c \in Cmds, EndCancelled(c)  PROVE OrderInv'
  BY <1>14 DEF EndCancelled, Finishes, Returns
<1>15. ASSUME NEW c \in Cmds, EndHalted(c)  PROVE OrderInv'
  BY <1>15 DEF EndHalted, Finishes, Returns
<1>16. ASSUME NEW c \in Cmds, TakeOverAcquires(c)  PROVE OrderInv'
  BY <1>16 DEF TakeOverAcquires
<1>17. ASSUME NEW c \in Cmds, TakeOverEnds(c)  PROVE OrderInv'
  BY <1>17 DEF TakeOverEnds
<1>18. ASSUME NEW c \in Cmds, TakeOverPassesOn(c)  PROVE OrderInv'
  <2>1. \A d \in Cmds : takeover[d] \in {"halting", "awaiting", "ready"} => d = c
    BY <1>18, OneHolds DEF TakeOverPassesOn
  <2> QED BY <1>18, <2>1 DEF TakeOverPassesOn
<1>19. ASSUME NEW c \in Cmds, TakeOverHalted(c)  PROVE OrderInv'
  BY <1>19 DEF TakeOverHalted, Cancelled
<1>20. ASSUME NEW c \in Cmds, HaltEnds(c)  PROVE OrderInv'
  BY <1>20 DEF HaltEnds
<1>21. ASSUME NEW c \in Cmds, Cancel(c)  PROVE OrderInv'
  BY <1>21 DEF Cancel, Cancelled
<1>22. ASSUME NEW c \in Cmds, CancelAgain(c)  PROVE OrderInv'
  BY <1>22 DEF CancelAgain, Finishes, Returns
<1>23. ASSUME NEW c \in Cmds, NEW r \in Ran, HandlerEnds(c, r)  PROVE OrderInv'
  BY <1>23 DEF HandlerEnds
<1>24. ASSUME OperableChanges  PROVE OrderInv'
  BY <1>24 DEF OperableChanges
<1>25. CASE UNCHANGED vars
  BY <1>25 DEF vars
<1> HIDE DEF OrderInv
<1> QED
  BY <1>1, <1>2, <1>3, <1>4, <1>5, <1>6, <1>7, <1>8, <1>9, <1>10, <1>11, <1>12,
     <1>13, <1>14, <1>15, <1>16, <1>17, <1>18, <1>19, <1>20, <1>21, <1>22, <1>23, <1>24, <1>25
  DEF Next, Run, RunGoesOn, TakeOverGoesOn, TimesOut

-----------------------------------------------------------------------------
(* The starts take turns *)

\* Every step keeps an end in sight for a start that runs: a takeover is ready only when
\* the start before it is done, or never began.
LEMMA SuccessorStep ==
    ASSUME TypeOK, PlaceInv, MarkInv, OrderInv, SuccessorInv, [Next]_vars
    PROVE  SuccessorInv'
<1> USE KindAssumption, ConstantAssumption DEF
      SuccessorInv, OrderInv, MarkInv, StopReachesStart, PlaceInv, TypeOK, Live, Ran,
      Unfinished, Starts, envVars, startVars, holdVars, lockVars
<1>1. ASSUME NEW c \in Cmds, RunRefused(c)  PROVE SuccessorInv'
  BY <1>1 DEF RunRefused, Returns
<1>2. ASSUME NEW c \in Cmds, RunNoOp(c)  PROVE SuccessorInv'
  BY <1>2 DEF RunNoOp, Returns
<1>3. ASSUME NEW c \in Cmds, RunHeld(c)  PROVE SuccessorInv'
  BY <1>3 DEF RunHeld, Runs
<1>4. ASSUME NEW c \in Cmds, RunAtOnce(c)  PROVE SuccessorInv'
  BY <1>4 DEF RunAtOnce, Runs, Proceeds, Queues, Begins
<1>5. ASSUME NEW c \in Cmds, RunStop(c)  PROVE SuccessorInv'
  BY <1>5 DEF RunStop, Runs, Lift, Begins
<1>6. ASSUME NEW c \in Cmds, RunSuspend(c)  PROVE SuccessorInv'
  BY <1>6 DEF RunSuspend, Runs, Begins
<1>7. ASSUME NEW c \in Cmds, RunResume(c)  PROVE SuccessorInv'
  BY <1>7 DEF RunResume, Runs, Begins
<1>8. ASSUME NEW c \in Cmds, NEW st \in {"ABORT", "CANCELLED", "TIMEOUT"}, HeldEnds(c, st)
      PROVE SuccessorInv'
  BY <1>8 DEF HeldEnds, Returns
<1>9. ASSUME NEW c \in Cmds, HeldAgain(c)  PROVE SuccessorInv'
  BY <1>9 DEF HeldAgain
<1>10. ASSUME NEW c \in Cmds, HeldGoesOn(c)  PROVE SuccessorInv'
  BY <1>10 DEF HeldGoesOn, Proceeds, Queues, Begins, Returns
<1>11. ASSUME NEW c \in Cmds, StartTurn(c)  PROVE SuccessorInv'
  BY <1>11 DEF StartTurn, Begins, Returns, Forgets
<1>12. ASSUME NEW c \in Cmds, StartGivesUp(c)  PROVE SuccessorInv'
  BY <1>12 DEF StartGivesUp, Returns, Forgets
<1>13. ASSUME NEW c \in Cmds, EndHandled(c)  PROVE SuccessorInv'
  BY <1>13 DEF EndHandled, Finishes, Returns, Ended, Lift, Cancelled
<1>14. ASSUME NEW c \in Cmds, EndCancelled(c)  PROVE SuccessorInv'
  BY <1>14 DEF EndCancelled, Finishes, Returns
<1>15. ASSUME NEW c \in Cmds, EndHalted(c)  PROVE SuccessorInv'
  BY <1>15 DEF EndHalted, Finishes, Returns
<1>16. ASSUME NEW c \in Cmds, TakeOverAcquires(c)  PROVE SuccessorInv'
  BY <1>16 DEF TakeOverAcquires
<1>17. ASSUME NEW c \in Cmds, TakeOverEnds(c)  PROVE SuccessorInv'
  BY <1>17 DEF TakeOverEnds
<1>18. ASSUME NEW c \in Cmds, TakeOverPassesOn(c)  PROVE SuccessorInv'
  BY <1>18 DEF TakeOverPassesOn
<1>19. ASSUME NEW c \in Cmds, TakeOverHalted(c)  PROVE SuccessorInv'
  BY <1>19 DEF TakeOverHalted, Cancelled
<1>20. ASSUME NEW c \in Cmds, HaltEnds(c)  PROVE SuccessorInv'
  BY <1>20 DEF HaltEnds
<1>21. ASSUME NEW c \in Cmds, Cancel(c)  PROVE SuccessorInv'
  BY <1>21 DEF Cancel, Cancelled
<1>22. ASSUME NEW c \in Cmds, CancelAgain(c)  PROVE SuccessorInv'
  BY <1>22 DEF CancelAgain, Finishes, Returns
<1>23. ASSUME NEW c \in Cmds, NEW r \in Ran, HandlerEnds(c, r)  PROVE SuccessorInv'
  BY <1>23 DEF HandlerEnds
<1>24. ASSUME OperableChanges  PROVE SuccessorInv'
  BY <1>24 DEF OperableChanges
<1>25. CASE UNCHANGED vars
  BY <1>25 DEF vars
<1> HIDE DEF SuccessorInv
<1> QED
  BY <1>1, <1>2, <1>3, <1>4, <1>5, <1>6, <1>7, <1>8, <1>9, <1>10, <1>11, <1>12,
     <1>13, <1>14, <1>15, <1>16, <1>17, <1>18, <1>19, <1>20, <1>21, <1>22, <1>23, <1>24, <1>25
  DEF Next, Run, RunGoesOn, TakeOverGoesOn, TimesOut

\* When a start that is not aborted has its turn, no other start runs: one that runs would
\* be the latest itself, or the start after it would have to come before this one.
LEMMA NoneRuns ==
    ASSUME TypeOK, PlaceInv, MarkInv, OrderInv, SuccessorInv, NEW c \in Cmds,
           pc[c] = "waiting", takeover[c] = "ready", c \notin aborted,
           NEW a \in Starts, handler[a] \in Unfinished
    PROVE  FALSE
<1>1. a \in Cmds /\ takeover[a] = "over" /\ turn[a] > 0 /\ a # c
  BY DEF Starts, PlaceInv, TypeOK, Unfinished
<1>2. c \in Starts /\ turn[c] > 0
  BY DEF Starts, PlaceInv, TypeOK
<1>3. start = c
  BY <1>2 DEF MarkInv, StopReachesStart, Live
<1>4. PICK d \in Cmds : prev[d] = a /\ takeover[d] \in {"queued", "halting", "awaiting"}
  BY <1>1, <1>3 DEF SuccessorInv
<1>5. turn[d] = turn[a] + 1 /\ turn[a] \in Nat /\ turn[c] \in Nat /\ turn[d] \in Nat
  BY <1>1, <1>4 DEF OrderInv, TypeOK
<1>6. d # c  BY <1>4
<1>7. ~(turn[d] < turn[c])
  BY <1>4, <1>5 DEF OrderInv
<1>8. turn[d] # turn[c] /\ turn[a] # turn[c]
  BY <1>1, <1>2, <1>6 DEF OrderInv
<1>9. turn[c] < turn[a]
  BY <1>5, <1>7, <1>8
<1> QED BY <1>1, <1>2, <1>9 DEF OrderInv

\* Only StartTurn lets a handler of a start run, and then none does.
LEMMA OneStartStep ==
    ASSUME TypeOK, PlaceInv, MarkInv, OrderInv, SuccessorInv, OneStartRuns, [Next]_vars
    PROVE  OneStartRuns'
<1> USE KindAssumption, ConstantAssumption DEF
      OneStartRuns, SuccessorInv, OrderInv, MarkInv, StopReachesStart, PlaceInv,
      TypeOK, Live, Ran, Unfinished, Starts, envVars, startVars, holdVars, lockVars
<1>1. ASSUME NEW c \in Cmds, RunRefused(c)  PROVE OneStartRuns'
  BY <1>1 DEF RunRefused, Returns
<1>2. ASSUME NEW c \in Cmds, RunNoOp(c)  PROVE OneStartRuns'
  BY <1>2 DEF RunNoOp, Returns
<1>3. ASSUME NEW c \in Cmds, RunHeld(c)  PROVE OneStartRuns'
  BY <1>3 DEF RunHeld, Runs
<1>4. ASSUME NEW c \in Cmds, RunAtOnce(c)  PROVE OneStartRuns'
  BY <1>4 DEF RunAtOnce, Runs, Proceeds, Queues, Begins
<1>5. ASSUME NEW c \in Cmds, RunStop(c)  PROVE OneStartRuns'
  BY <1>5 DEF RunStop, Runs, Lift, Begins
<1>6. ASSUME NEW c \in Cmds, RunSuspend(c)  PROVE OneStartRuns'
  BY <1>6 DEF RunSuspend, Runs, Begins
<1>7. ASSUME NEW c \in Cmds, RunResume(c)  PROVE OneStartRuns'
  BY <1>7 DEF RunResume, Runs, Begins
<1>8. ASSUME NEW c \in Cmds, NEW st \in {"ABORT", "CANCELLED", "TIMEOUT"}, HeldEnds(c, st)
      PROVE OneStartRuns'
  BY <1>8 DEF HeldEnds, Returns
<1>9. ASSUME NEW c \in Cmds, HeldAgain(c)  PROVE OneStartRuns'
  BY <1>9 DEF HeldAgain
<1>10. ASSUME NEW c \in Cmds, HeldGoesOn(c)  PROVE OneStartRuns'
  BY <1>10 DEF HeldGoesOn, Proceeds, Queues, Begins, Returns
<1>11. ASSUME NEW c \in Cmds, StartTurn(c)  PROVE OneStartRuns'
  <2>1. CASE c \in aborted
    BY <1>11, <2>1 DEF StartTurn, Returns
  <2>2. CASE c \notin aborted
    <3>1. \A a \in Starts : handler[a] \notin Unfinished
      <4> HIDE DEF TypeOK, PlaceInv, MarkInv, OrderInv, SuccessorInv, Unfinished
      <4> QED BY <1>11, <2>2, NoneRuns DEF StartTurn
    <3> QED BY <1>11, <2>2, <3>1 DEF StartTurn, Begins
  <2> QED BY <2>1, <2>2
<1>12. ASSUME NEW c \in Cmds, StartGivesUp(c)  PROVE OneStartRuns'
  BY <1>12 DEF StartGivesUp, Returns, Forgets
<1>13. ASSUME NEW c \in Cmds, EndHandled(c)  PROVE OneStartRuns'
  BY <1>13 DEF EndHandled, Finishes, Returns, Ended, Lift, Cancelled
<1>14. ASSUME NEW c \in Cmds, EndCancelled(c)  PROVE OneStartRuns'
  BY <1>14 DEF EndCancelled, Finishes, Returns
<1>15. ASSUME NEW c \in Cmds, EndHalted(c)  PROVE OneStartRuns'
  BY <1>15 DEF EndHalted, Finishes, Returns
<1>16. ASSUME NEW c \in Cmds, TakeOverAcquires(c)  PROVE OneStartRuns'
  BY <1>16 DEF TakeOverAcquires
<1>17. ASSUME NEW c \in Cmds, TakeOverEnds(c)  PROVE OneStartRuns'
  BY <1>17 DEF TakeOverEnds
<1>18. ASSUME NEW c \in Cmds, TakeOverPassesOn(c)  PROVE OneStartRuns'
  BY <1>18 DEF TakeOverPassesOn
<1>19. ASSUME NEW c \in Cmds, TakeOverHalted(c)  PROVE OneStartRuns'
  BY <1>19 DEF TakeOverHalted, Cancelled
<1>20. ASSUME NEW c \in Cmds, HaltEnds(c)  PROVE OneStartRuns'
  BY <1>20 DEF HaltEnds
<1>21. ASSUME NEW c \in Cmds, Cancel(c)  PROVE OneStartRuns'
  BY <1>21 DEF Cancel, Cancelled
<1>22. ASSUME NEW c \in Cmds, CancelAgain(c)  PROVE OneStartRuns'
  BY <1>22 DEF CancelAgain, Finishes, Returns
<1>23. ASSUME NEW c \in Cmds, NEW r \in Ran, HandlerEnds(c, r)  PROVE OneStartRuns'
  BY <1>23 DEF HandlerEnds
<1>24. ASSUME OperableChanges  PROVE OneStartRuns'
  BY <1>24 DEF OperableChanges
<1>25. CASE UNCHANGED vars
  BY <1>25 DEF vars
<1> HIDE DEF OneStartRuns
<1> QED
  BY <1>1, <1>2, <1>3, <1>4, <1>5, <1>6, <1>7, <1>8, <1>9, <1>10, <1>11, <1>12,
     <1>13, <1>14, <1>15, <1>16, <1>17, <1>18, <1>19, <1>20, <1>21, <1>22, <1>23, <1>24, <1>25
  DEF Next, Run, RunGoesOn, TakeOverGoesOn, TimesOut

-----------------------------------------------------------------------------
(* Suspensions *)

\* Every step keeps at most one suspension in force.
LEMMA HoldStep ==
    ASSUME TypeOK, PlaceInv, HoldInv, [Next]_vars
    PROVE  HoldInv'
<1> USE ConstantAssumption DEF
      HoldInv, PlaceInv, TypeOK, envVars, startVars, holdVars, lockVars
<1>1. ASSUME NEW c \in Cmds, RunRefused(c)  PROVE HoldInv'
  BY <1>1 DEF RunRefused, Returns
<1>2. ASSUME NEW c \in Cmds, RunNoOp(c)  PROVE HoldInv'
  BY <1>2 DEF RunNoOp, Returns
<1>3. ASSUME NEW c \in Cmds, RunHeld(c)  PROVE HoldInv'
  BY <1>3 DEF RunHeld, Runs
<1>4. ASSUME NEW c \in Cmds, RunAtOnce(c)  PROVE HoldInv'
  BY <1>4 DEF RunAtOnce, Runs, Proceeds, Queues, Begins
<1>5. ASSUME NEW c \in Cmds, RunStop(c)  PROVE HoldInv'
  BY <1>5 DEF RunStop, Runs, Lift, Begins
<1>6. ASSUME NEW c \in Cmds, RunSuspend(c)  PROVE HoldInv'
  BY <1>6 DEF RunSuspend, Runs, Begins
<1>7. ASSUME NEW c \in Cmds, RunResume(c)  PROVE HoldInv'
  BY <1>7 DEF RunResume, Runs, Begins
<1>8. ASSUME NEW c \in Cmds, NEW st \in {"ABORT", "CANCELLED", "TIMEOUT"}, HeldEnds(c, st)
      PROVE HoldInv'
  BY <1>8 DEF HeldEnds, Returns
<1>9. ASSUME NEW c \in Cmds, HeldAgain(c)  PROVE HoldInv'
  BY <1>9 DEF HeldAgain
<1>10. ASSUME NEW c \in Cmds, HeldGoesOn(c)  PROVE HoldInv'
  BY <1>10 DEF HeldGoesOn, Proceeds, Queues, Begins, Returns
<1>11. ASSUME NEW c \in Cmds, StartTurn(c)  PROVE HoldInv'
  BY <1>11 DEF StartTurn, Begins, Returns, Forgets
<1>12. ASSUME NEW c \in Cmds, StartGivesUp(c)  PROVE HoldInv'
  BY <1>12 DEF StartGivesUp, Returns, Forgets
<1>13. ASSUME NEW c \in Cmds, EndHandled(c)  PROVE HoldInv'
  BY <1>13 DEF EndHandled, Finishes, Returns, Ended, Lift, Cancelled
<1>14. ASSUME NEW c \in Cmds, EndCancelled(c)  PROVE HoldInv'
  BY <1>14 DEF EndCancelled, Finishes, Returns
<1>15. ASSUME NEW c \in Cmds, EndHalted(c)  PROVE HoldInv'
  BY <1>15 DEF EndHalted, Finishes, Returns
<1>16. ASSUME NEW c \in Cmds, TakeOverAcquires(c)  PROVE HoldInv'
  BY <1>16 DEF TakeOverAcquires
<1>17. ASSUME NEW c \in Cmds, TakeOverEnds(c)  PROVE HoldInv'
  BY <1>17 DEF TakeOverEnds
<1>18. ASSUME NEW c \in Cmds, TakeOverPassesOn(c)  PROVE HoldInv'
  BY <1>18 DEF TakeOverPassesOn
<1>19. ASSUME NEW c \in Cmds, TakeOverHalted(c)  PROVE HoldInv'
  BY <1>19 DEF TakeOverHalted, Cancelled
<1>20. ASSUME NEW c \in Cmds, HaltEnds(c)  PROVE HoldInv'
  BY <1>20 DEF HaltEnds
<1>21. ASSUME NEW c \in Cmds, Cancel(c)  PROVE HoldInv'
  BY <1>21 DEF Cancel, Cancelled
<1>22. ASSUME NEW c \in Cmds, CancelAgain(c)  PROVE HoldInv'
  BY <1>22 DEF CancelAgain, Finishes, Returns
<1>23. ASSUME NEW c \in Cmds, NEW r \in Ran, HandlerEnds(c, r)  PROVE HoldInv'
  BY <1>23 DEF HandlerEnds
<1>24. ASSUME OperableChanges  PROVE HoldInv'
  BY <1>24 DEF OperableChanges
<1>25. CASE UNCHANGED vars
  BY <1>25 DEF vars
<1> HIDE DEF HoldInv
<1> QED
  BY <1>1, <1>2, <1>3, <1>4, <1>5, <1>6, <1>7, <1>8, <1>9, <1>10, <1>11, <1>12,
     <1>13, <1>14, <1>15, <1>16, <1>17, <1>18, <1>19, <1>20, <1>21, <1>22, <1>23, <1>24, <1>25
  DEF Next, Run, RunGoesOn, TakeOverGoesOn, TimesOut

\* What SuspensionsReached says of one step.
ReachStep ==
    ~OutOfReach /\ OutOfReach' =>
        \E c \in Starts : pc[c] # "done" /\ pc'[c] = "done" /\ result'[c] # "OK"

\* Only the end of a start, and never as OK, takes a suspension out of reach.
LEMMA ReachKept ==
    ASSUME TypeOK, PlaceInv, HoldInv, [Next]_vars
    PROVE  ReachStep
<1> USE ConstantAssumption DEF
      ReachStep, OutOfReach, PlaceInv, TypeOK, Starts, envVars, startVars, holdVars, lockVars
<1>1. ASSUME NEW c \in Cmds, RunRefused(c)  PROVE ReachStep
  BY <1>1 DEF RunRefused
<1>2. ASSUME NEW c \in Cmds, RunNoOp(c)  PROVE ReachStep
  BY <1>2 DEF RunNoOp
<1>3. ASSUME NEW c \in Cmds, RunHeld(c)  PROVE ReachStep
  BY <1>3 DEF RunHeld
<1>4. ASSUME NEW c \in Cmds, RunAtOnce(c)  PROVE ReachStep
  BY <1>4 DEF RunAtOnce, Proceeds, Queues
<1>5. ASSUME NEW c \in Cmds, RunStop(c)  PROVE ReachStep
  BY <1>5 DEF RunStop, Lift
<1>6. ASSUME NEW c \in Cmds, RunSuspend(c)  PROVE ReachStep
  BY <1>6 DEF RunSuspend, Runs, NoOp
<1>7. ASSUME NEW c \in Cmds, RunResume(c)  PROVE ReachStep
  BY <1>7 DEF RunResume
<1>8. ASSUME NEW c \in Cmds, NEW st \in {"ABORT", "CANCELLED", "TIMEOUT"}, HeldEnds(c, st)
      PROVE ReachStep
  BY <1>8 DEF HeldEnds
<1>9. ASSUME NEW c \in Cmds, HeldAgain(c)  PROVE ReachStep
  BY <1>9 DEF HeldAgain
<1>10. ASSUME NEW c \in Cmds, HeldGoesOn(c)  PROVE ReachStep
  BY <1>10 DEF HeldGoesOn, Proceeds, Queues
<1>11. ASSUME NEW c \in Cmds, StartTurn(c)  PROVE ReachStep
  BY <1>11 DEF StartTurn, Returns, Forgets
<1>12. ASSUME NEW c \in Cmds, StartGivesUp(c)  PROVE ReachStep
  BY <1>12 DEF StartGivesUp, Returns, Forgets
<1>13. ASSUME NEW c \in Cmds, EndHandled(c)  PROVE ReachStep
  BY <1>13 DEF EndHandled, Finishes, Returns, Lift
<1>14. ASSUME NEW c \in Cmds, EndCancelled(c)  PROVE ReachStep
  BY <1>14 DEF EndCancelled, Finishes, Returns
<1>15. ASSUME NEW c \in Cmds, EndHalted(c)  PROVE ReachStep
  BY <1>15 DEF EndHalted, Finishes, Returns
<1>16. ASSUME NEW c \in Cmds, TakeOverAcquires(c)  PROVE ReachStep
  BY <1>16 DEF TakeOverAcquires
<1>17. ASSUME NEW c \in Cmds, TakeOverEnds(c)  PROVE ReachStep
  BY <1>17 DEF TakeOverEnds
<1>18. ASSUME NEW c \in Cmds, TakeOverPassesOn(c)  PROVE ReachStep
  BY <1>18 DEF TakeOverPassesOn
<1>19. ASSUME NEW c \in Cmds, TakeOverHalted(c)  PROVE ReachStep
  BY <1>19 DEF TakeOverHalted
<1>20. ASSUME NEW c \in Cmds, HaltEnds(c)  PROVE ReachStep
  BY <1>20 DEF HaltEnds
<1>21. ASSUME NEW c \in Cmds, Cancel(c)  PROVE ReachStep
  BY <1>21 DEF Cancel
<1>22. ASSUME NEW c \in Cmds, CancelAgain(c)  PROVE ReachStep
  BY <1>22 DEF CancelAgain, Finishes, Returns
<1>23. ASSUME NEW c \in Cmds, NEW r \in Ran, HandlerEnds(c, r)  PROVE ReachStep
  BY <1>23 DEF HandlerEnds
<1>24. ASSUME OperableChanges  PROVE ReachStep
  BY <1>24 DEF OperableChanges
<1>25. CASE UNCHANGED vars
  BY <1>25 DEF vars
<1> HIDE DEF ReachStep
<1> QED
  BY <1>1, <1>2, <1>3, <1>4, <1>5, <1>6, <1>7, <1>8, <1>9, <1>10, <1>11, <1>12,
     <1>13, <1>14, <1>15, <1>16, <1>17, <1>18, <1>19, <1>20, <1>21, <1>22, <1>23, <1>24, <1>25
  DEF Next, Run, RunGoesOn, TakeOverGoesOn, TimesOut

-----------------------------------------------------------------------------
(* The theorems *)

Inv == TypeOK /\ PlaceInv /\ MarkInv /\ OrderInv /\ SuccessorInv /\ OneStartRuns /\ HoldInv

\* The invariant holds when the component is created.
LEMMA InitInv == Init => Inv
<1> SUFFICES ASSUME Init  PROVE Inv
  OBVIOUS
<1> USE ConstantAssumption DEF Init
<1>1. TypeOK  BY DEF TypeOK, Starts, Results, Ran, Unfinished
<1>2. PlaceInv  BY DEF PlaceInv, Unfinished
<1>3. MarkInv  BY DEF MarkInv, StopReachesStart, Live, Starts
<1>4. OrderInv  BY DEF OrderInv
<1>5. SuccessorInv /\ OneStartRuns  BY DEF SuccessorInv, OneStartRuns, Starts, Unfinished
<1>6. HoldInv  BY DEF HoldInv
<1> QED BY <1>1, <1>2, <1>3, <1>4, <1>5, <1>6 DEF Inv

\* The conjunction is inductive.
LEMMA InvInvariant == Spec => []Inv
<1>1. Inv /\ [Next]_vars => Inv'
  BY TypeStep, PlaceStep, MarkStep, OrderStep, SuccessorStep, OneStartStep, HoldStep DEF Inv
<1> QED BY <1>1, InitInv, PTL DEF Spec

\* Every reachable state is well typed, whatever commands the component gets.
THEOREM LocalTypeCorrect == Spec => []TypeOK
<1>1. Inv => TypeOK  BY DEF Inv
<1> QED BY <1>1, InvInvariant, PTL

\* The takeover lock keeps the handlers of starts apart, for any number of starts.
THEOREM StartsTakeTurns == Spec => []OneStartRuns
<1>1. Inv => OneStartRuns  BY DEF Inv
<1> QED BY <1>1, InvInvariant, PTL

\* No end of a start leaves it in _Hosted.start or _Hosted.aborted.
THEOREM MarksEnd == Spec => []NothingStale
<1>1. Inv => NothingStale
  BY DEF Inv, MarkInv, NothingStale, Live, TypeOK, Starts
<1> QED BY <1>1, InvInvariant, PTL

\* A stop finds every start that is not yet to be aborted.
THEOREM StopReaches == Spec => []StopReachesStart
<1>1. Inv => StopReachesStart  BY DEF Inv, MarkInv
<1> QED BY <1>1, InvInvariant, PTL

\* A start that was stopped or replaced never ends OK.
THEOREM ReplacedAborts == Spec => []ReplacedNeverOK
<1>1. Inv => ReplacedNeverOK
  BY DEF Inv, MarkInv, PlaceInv, TypeOK, ReplacedNeverOK
<1> QED BY <1>1, InvInvariant, PTL

\* A suspension gets out of the reach of resume and stop only with a start that ends other than
\* OK, and what a held command waits for is the suspension in force.
THEOREM HoldsAreReached == Spec => SuspensionsReached
<1>1. Inv => HoldsInForce
  BY DEF Inv, HoldInv, PlaceInv, HoldsInForce
<1>2. ASSUME Inv, [Next]_vars
      PROVE  [ReachStep]_vars
  BY <1>2, ReachKept DEF Inv
<1>3. Spec => [][ReachStep]_vars
  BY <1>2, InvInvariant, PTL DEF Spec
<1> QED BY <1>1, <1>3, InvInvariant, PTL DEF SuspensionsReached, ReachStep

-----------------------------------------------------------------------------
(* The contract *)

\* Only a call under way is cancelled, and only the run of a cancelled start halts.
CancelInv ==
    \A c \in Cmds :
        /\ pc[c] = "none" => c \notin cancels
        /\ pc[c] = "halting" => c \in cancels

\* What one step may do to the call of c.
CallStep(c) ==
    \/ RunState(c) = "none" /\ RunState(c)' \in {"running", "ended"}
    \/ RunState(c) = "running" /\ RunState(c)' \in {"cancelling", "ended"}
    \/ RunState(c) = "cancelling" /\ RunState(c)' = "aborted"

\* A step changes one call at most.
ContractStep ==
    \/ \A d \in Cmds : RunState(d)' = RunState(d)
    \/ \E c \in Cmds : CallStep(c) /\ \A d \in Cmds \ {c} : RunState(d)' = RunState(d)

\* Every step keeps the cancelled calls in step.
LEMMA CancelStep ==
    ASSUME TypeOK, PlaceInv, CancelInv, [Next]_vars
    PROVE  CancelInv'
<1> USE DEF CancelInv, PlaceInv, TypeOK, envVars, startVars, holdVars, lockVars
<1>1. ASSUME NEW c \in Cmds, RunRefused(c)  PROVE CancelInv'
  BY <1>1 DEF RunRefused, Returns
<1>2. ASSUME NEW c \in Cmds, RunNoOp(c)  PROVE CancelInv'
  BY <1>2 DEF RunNoOp, Returns
<1>3. ASSUME NEW c \in Cmds, RunHeld(c)  PROVE CancelInv'
  BY <1>3 DEF RunHeld, Runs
<1>4. ASSUME NEW c \in Cmds, RunAtOnce(c)  PROVE CancelInv'
  BY <1>4 DEF RunAtOnce, Runs, Proceeds, Queues, Begins
<1>5. ASSUME NEW c \in Cmds, RunStop(c)  PROVE CancelInv'
  BY <1>5 DEF RunStop, Runs, Lift, Begins
<1>6. ASSUME NEW c \in Cmds, RunSuspend(c)  PROVE CancelInv'
  BY <1>6 DEF RunSuspend, Runs, Begins
<1>7. ASSUME NEW c \in Cmds, RunResume(c)  PROVE CancelInv'
  BY <1>7 DEF RunResume, Runs, Begins
<1>8. ASSUME NEW c \in Cmds, NEW st \in {"ABORT", "CANCELLED", "TIMEOUT"}, HeldEnds(c, st)
      PROVE CancelInv'
  BY <1>8 DEF HeldEnds, Returns
<1>9. ASSUME NEW c \in Cmds, HeldAgain(c)  PROVE CancelInv'
  BY <1>9 DEF HeldAgain
<1>10. ASSUME NEW c \in Cmds, HeldGoesOn(c)  PROVE CancelInv'
  BY <1>10 DEF HeldGoesOn, Proceeds, Queues, Begins, Returns
<1>11. ASSUME NEW c \in Cmds, StartTurn(c)  PROVE CancelInv'
  BY <1>11 DEF StartTurn, Begins, Returns, Forgets
<1>12. ASSUME NEW c \in Cmds, StartGivesUp(c)  PROVE CancelInv'
  BY <1>12 DEF StartGivesUp, Returns, Forgets
<1>13. ASSUME NEW c \in Cmds, EndHandled(c)  PROVE CancelInv'
  BY <1>13 DEF EndHandled, Finishes, Returns, Ended, Lift, Cancelled
<1>14. ASSUME NEW c \in Cmds, EndCancelled(c)  PROVE CancelInv'
  BY <1>14 DEF EndCancelled, Finishes, Returns
<1>15. ASSUME NEW c \in Cmds, EndHalted(c)  PROVE CancelInv'
  BY <1>15 DEF EndHalted, Finishes, Returns
<1>16. ASSUME NEW c \in Cmds, TakeOverAcquires(c)  PROVE CancelInv'
  BY <1>16 DEF TakeOverAcquires
<1>17. ASSUME NEW c \in Cmds, TakeOverEnds(c)  PROVE CancelInv'
  BY <1>17 DEF TakeOverEnds
<1>18. ASSUME NEW c \in Cmds, TakeOverPassesOn(c)  PROVE CancelInv'
  BY <1>18 DEF TakeOverPassesOn
<1>19. ASSUME NEW c \in Cmds, TakeOverHalted(c)  PROVE CancelInv'
  BY <1>19 DEF TakeOverHalted, Cancelled
<1>20. ASSUME NEW c \in Cmds, HaltEnds(c)  PROVE CancelInv'
  BY <1>20 DEF HaltEnds
<1>21. ASSUME NEW c \in Cmds, Cancel(c)  PROVE CancelInv'
  BY <1>21 DEF Cancel, Cancelled, Live
<1>22. ASSUME NEW c \in Cmds, CancelAgain(c)  PROVE CancelInv'
  BY <1>22 DEF CancelAgain, Finishes, Returns
<1>23. ASSUME NEW c \in Cmds, NEW r \in Ran, HandlerEnds(c, r)  PROVE CancelInv'
  BY <1>23 DEF HandlerEnds
<1>24. ASSUME OperableChanges  PROVE CancelInv'
  BY <1>24 DEF OperableChanges
<1>25. CASE UNCHANGED vars
  BY <1>25 DEF vars
<1> HIDE DEF CancelInv
<1> QED
  BY <1>1, <1>2, <1>3, <1>4, <1>5, <1>6, <1>7, <1>8, <1>9, <1>10, <1>11, <1>12,
     <1>13, <1>14, <1>15, <1>16, <1>17, <1>18, <1>19, <1>20, <1>21, <1>22, <1>23, <1>24, <1>25
  DEF Next, Run, RunGoesOn, TakeOverGoesOn, TimesOut

\* Every step is a step of the contract, or none.
LEMMA CallsStep ==
    ASSUME TypeOK, PlaceInv, CancelInv, [Next]_vars
    PROVE  ContractStep
<1> USE DEF ContractStep, CallStep, RunState, CancelInv, PlaceInv, TypeOK, envVars,
            startVars, holdVars, lockVars
<1>1. ASSUME NEW c \in Cmds, RunRefused(c)  PROVE ContractStep
  BY <1>1 DEF RunRefused, Returns
<1>2. ASSUME NEW c \in Cmds, RunNoOp(c)  PROVE ContractStep
  BY <1>2 DEF RunNoOp, Returns
<1>3. ASSUME NEW c \in Cmds, RunHeld(c)  PROVE ContractStep
  BY <1>3 DEF RunHeld, Runs
<1>4. ASSUME NEW c \in Cmds, RunAtOnce(c)  PROVE ContractStep
  BY <1>4 DEF RunAtOnce, Runs, Proceeds, Queues, Begins
<1>5. ASSUME NEW c \in Cmds, RunStop(c)  PROVE ContractStep
  BY <1>5 DEF RunStop, Runs, Lift, Begins
<1>6. ASSUME NEW c \in Cmds, RunSuspend(c)  PROVE ContractStep
  BY <1>6 DEF RunSuspend, Runs, Begins
<1>7. ASSUME NEW c \in Cmds, RunResume(c)  PROVE ContractStep
  BY <1>7 DEF RunResume, Runs, Begins
<1>8. ASSUME NEW c \in Cmds, NEW st \in {"ABORT", "CANCELLED", "TIMEOUT"}, HeldEnds(c, st)
      PROVE ContractStep
  BY <1>8 DEF HeldEnds, Returns
<1>9. ASSUME NEW c \in Cmds, HeldAgain(c)  PROVE ContractStep
  BY <1>9 DEF HeldAgain
<1>10. ASSUME NEW c \in Cmds, HeldGoesOn(c)  PROVE ContractStep
  BY <1>10 DEF HeldGoesOn, Proceeds, Queues, Begins, Returns
<1>11. ASSUME NEW c \in Cmds, StartTurn(c)  PROVE ContractStep
  BY <1>11 DEF StartTurn, Begins, Returns, Forgets
<1>12. ASSUME NEW c \in Cmds, StartGivesUp(c)  PROVE ContractStep
  BY <1>12 DEF StartGivesUp, Returns, Forgets
<1>13. ASSUME NEW c \in Cmds, EndHandled(c)  PROVE ContractStep
  BY <1>13 DEF EndHandled, Finishes, Returns, Ended, Lift, Cancelled
<1>14. ASSUME NEW c \in Cmds, EndCancelled(c)  PROVE ContractStep
  BY <1>14 DEF EndCancelled, Finishes, Returns
<1>15. ASSUME NEW c \in Cmds, EndHalted(c)  PROVE ContractStep
  BY <1>15 DEF EndHalted, Finishes, Returns
<1>16. ASSUME NEW c \in Cmds, TakeOverAcquires(c)  PROVE ContractStep
  BY <1>16 DEF TakeOverAcquires
<1>17. ASSUME NEW c \in Cmds, TakeOverEnds(c)  PROVE ContractStep
  BY <1>17 DEF TakeOverEnds
<1>18. ASSUME NEW c \in Cmds, TakeOverPassesOn(c)  PROVE ContractStep
  BY <1>18 DEF TakeOverPassesOn
<1>19. ASSUME NEW c \in Cmds, TakeOverHalted(c)  PROVE ContractStep
  BY <1>19 DEF TakeOverHalted, Cancelled
<1>20. ASSUME NEW c \in Cmds, HaltEnds(c)  PROVE ContractStep
  BY <1>20 DEF HaltEnds
<1>21. ASSUME NEW c \in Cmds, Cancel(c)  PROVE ContractStep
  BY <1>21 DEF Cancel, Cancelled
<1>22. ASSUME NEW c \in Cmds, CancelAgain(c)  PROVE ContractStep
  BY <1>22 DEF CancelAgain, Finishes, Returns
<1>23. ASSUME NEW c \in Cmds, NEW r \in Ran, HandlerEnds(c, r)  PROVE ContractStep
  BY <1>23 DEF HandlerEnds
<1>24. ASSUME OperableChanges  PROVE ContractStep
  BY <1>24 DEF OperableChanges
<1>25. CASE UNCHANGED vars
  BY <1>25 DEF vars
<1> HIDE DEF ContractStep
<1> QED
  BY <1>1, <1>2, <1>3, <1>4, <1>5, <1>6, <1>7, <1>8, <1>9, <1>10, <1>11, <1>12,
     <1>13, <1>14, <1>15, <1>16, <1>17, <1>18, <1>19, <1>20, <1>21, <1>22, <1>23, <1>24, <1>25
  DEF Next, Run, RunGoesOn, TakeOverGoesOn, TimesOut

\* run implements RunContract: whatever the handlers do, a call ends once, and one that was
\* cancelled never returns a status.
THEOREM ImplementsContract == Spec => Contract!Spec
<1> DEFINE run == [c \in Cmds |-> RunState(c)]
<1>1. Init => Contract!Init
  BY DEF Init, Contract!Init, RunState
<1>2. Inv /\ CancelInv /\ [Next]_vars => [Contract!Next]_run
  <2> SUFFICES ASSUME Inv, CancelInv, [Next]_vars  PROVE [Contract!Next]_run
    OBVIOUS
  <2>1. ContractStep  BY CallsStep DEF Inv
  <2>2. CASE \A d \in Cmds : RunState(d)' = RunState(d)
    BY <2>2
  <2>3. ASSUME NEW c \in Cmds, CallStep(c),
               \A d \in Cmds \ {c} : RunState(d)' = RunState(d)
        PROVE  Contract!Next
    <3>1. run' = [run EXCEPT ![c] = RunState(c)']  BY <2>3
    <3>2. run[c] = RunState(c)  OBVIOUS
    <3> HIDE DEF run
    <3> QED BY <2>3, <3>1, <3>2 DEF CallStep, Contract!Next, Contract!Call, Contract!Cancel,
               Contract!End, Contract!EndCancelled, run
  <2> QED BY <2>1, <2>2, <2>3 DEF ContractStep
<1>3. Spec => []CancelInv
  <2>1. Init => CancelInv  BY DEF Init, CancelInv
  <2>2. Inv /\ CancelInv /\ [Next]_vars => CancelInv'  BY CancelStep DEF Inv
  <2> QED BY <2>1, <2>2, InvInvariant, PTL DEF Spec
<1> QED BY <1>1, <1>2, <1>3, InvInvariant, PTL DEF Spec, Contract!Spec

\* Every start under way is the one a stop finds or is marked for ABORT, and no other start is
\* marked; what was stopped or replaced never ends OK.
THEOREM StartsAreAccounted == Spec => []StartsAccounted
BY MarksEnd, StopReaches, ReplacedAborts, PTL DEF StartsAccounted
=============================================================================
