---------------------------- MODULE EngineProofs ----------------------------
(***************************************************************************)
(* Proofs about Engine, for every set of sessions, components, children    *)
(* and commands, and every plan.                                           *)
(***************************************************************************)
EXTENDS Engine, TLAPS

LEMMA CancelRunsType ==
    ASSUME TypeOK, NEW cs
    PROVE  CancelRuns(cs) \in [Commands -> TaskStates]
  BY DEF TypeOK, CancelRuns, TaskStates

LEMMA CompleteType ==
    ASSUME TypeOK, NEW cs, NEW st \in [Commands -> Statuses], Complete(cs, st)
    PROVE  /\ status' \in [Commands -> {"none"} \cup Statuses]
           /\ notified' \in [Commands -> Nat]
  BY DEF TypeOK, Complete

LEMMA PopType ==
    ASSUME TypeOK, NEW us, Pop(us)
    PROVE  sub' \in [Subs -> SubRecords]
  BY DEF TypeOK, Pop, Over, SubRecords

LEMMA EndSubscriptionsType ==
    ASSUME TypeOK, NEW s \in Sessions, NEW mine \in SUBSET Subs, NEW closing \in BOOLEAN,
           EndSubscriptions(s, mine, closing)
    PROVE  /\ sess' \in [Sessions -> SessionStates]
           /\ ends' \in [Sessions -> EndRecords]
           /\ sub' \in [Subs -> SubRecords]
<1>1. CASE UnsubscribeWaits(s, mine, closing)
  <2>1. PICK u \in mine, us \in SUBSET mine :
          /\ Pop(us \cup {u})
          /\ ends' = [ends EXCEPT ![s] =
                [phase |-> "unsub", waits |-> {}, mine |-> mine \ (us \cup {u})]]
          /\ sess' = IF closing THEN [sess EXCEPT ![s] = "ending"] ELSE sess
    BY <1>1 DEF UnsubscribeWaits
  <2> QED BY <2>1, PopType DEF TypeOK, EndRecords, SessionStates
<1>2. CASE UnsubscribeEnds(s, mine, closing)
  BY <1>2, PopType DEF TypeOK, UnsubscribeEnds, Idle, EndRecords, SessionStates
<1>3. CASE UnsubscribeFails(s, mine, closing)
  <2>1. PICK us : Pop(us)  BY <1>3 DEF UnsubscribeFails
  <2> QED BY <1>3, <2>1, PopType DEF TypeOK, UnsubscribeFails, Idle, EndRecords, SessionStates
<1> QED BY <1>1, <1>2, <1>3 DEF EndSubscriptions

LEMMA EndSessionType ==
    ASSUME TypeOK, NEW s \in Sessions, NEW closing \in BOOLEAN, EndSession(s, closing)
    PROVE  /\ sess' \in [Sessions -> SessionStates]
           /\ ends' \in [Sessions -> EndRecords]
           /\ sub' \in [Subs -> SubRecords]
           /\ connected' \in [Sessions -> BOOLEAN]
           /\ binds' \in [Refs -> SUBSET Sessions]
           /\ kept' \subseteq Commands
           /\ seq' \in [Execs -> SequenceStates]
           /\ task' \in [Commands -> TaskStates]
<1>1. BeginEnd(s)  BY DEF EndSession
<1>2. /\ connected' \in [Sessions -> BOOLEAN]
      /\ binds' \in [Refs -> SUBSET Sessions]
      /\ kept' \subseteq Commands
      /\ seq' \in [Execs -> SequenceStates]
  BY <1>1 DEF TypeOK, BeginEnd, CancelSequences, Spared, SequenceStates
<1>3. task' \in [Commands -> TaskStates]
  BY <1>1, CancelRunsType DEF BeginEnd, CancelSequences
<1>4. CASE SequencesOf(s) # {}
  <2>1. /\ ends' \in [Sessions -> EndRecords] /\ sess' \in [Sessions -> SessionStates]
        /\ sub' \in [Subs -> SubRecords]
    <3>1. SequencesOf(s) \in SUBSET Execs  BY DEF SequencesOf
    <3>2. PICK waits \in SUBSET Execs :
              ends' = [ends EXCEPT ![s] = [phase |-> "gather", waits |-> waits, mine |-> {}]]
      BY <1>4, <3>1 DEF EndSession
    <3>3. ends' \in [Sessions -> EndRecords]  BY <3>2 DEF TypeOK, EndRecords
    <3>4. sess' \in [Sessions -> SessionStates] /\ UNCHANGED sub
      BY <1>4 DEF TypeOK, EndSession, SessionStates
    <3> QED BY <3>3, <3>4 DEF TypeOK
  <2> QED BY <1>2, <1>3, <2>1
<1>5. CASE SequencesOf(s) = {}
  <2>1. EndSubscriptions(s, SubsOf(s), closing)  BY <1>5 DEF EndSession
  <2>2. SubsOf(s) \in SUBSET Subs  BY DEF SubsOf
  <2> QED BY <1>2, <1>3, <2>1, <2>2, EndSubscriptionsType
<1> QED BY <1>4, <1>5

-----------------------------------------------------------------------------
(* Type correctness *)

LEMMA TypeInit == Init => TypeOK
  BY SessionAssumption DEF Init, TypeOK, Idle, NoSub, SessionStates, SequenceStates, TaskStates,
     EndRecords, SubRecords

LEMMA SessionTypes ==
    ASSUME TypeOK, SessionNext
    PROVE  TypeOK'
<1> PICK s \in Sessions :
      \/ OpenSession(s) \/ Connect(s) \/ Disconnect(s) \/ ConnectionLost(s) \/ Close(s)
      \/ EndGathered(s) \/ EndGoesOn(s)
  BY DEF SessionNext
<1>1. CASE OpenSession(s)
  BY <1>1 DEF TypeOK, OpenSession, SessionStates, cmdVars, treeVars
<1>2. CASE Connect(s)
  BY <1>2 DEF TypeOK, Connect, cmdVars, treeVars
<1>3. CASE Disconnect(s)
  <2>1. EndSession(s, FALSE)  BY <1>3 DEF Disconnect
  <2> QED BY <1>3, <2>1, EndSessionType DEF TypeOK, Disconnect, treeVars
<1>4. CASE ConnectionLost(s)
  <2>1. sub' \in [Subs -> SubRecords]  BY <1>4, PopType DEF ConnectionLost
  <2> QED BY <1>4, <2>1 DEF TypeOK, ConnectionLost, SessionStates, EndRecords, Idle, cmdVars,
          treeVars
<1>5. CASE Close(s)
  <2>1. EndSession(s, TRUE)  BY <1>5 DEF Close
  <2> QED BY <1>5, <2>1, EndSessionType DEF TypeOK, Close, treeVars
<1>6. CASE EndGathered(s)
  <2>1. CASE sess[s] = "closing"
    BY <1>6, <2>1, SMTT(30) DEF TypeOK, EndGathered, EndRecords, Idle, cmdVars, treeVars
  <2>2. CASE sess[s] # "closing"
    <3>1. EndSubscriptions(s, SubsOf(s), sess[s] = "ending")
      BY <1>6, <2>2 DEF EndGathered
    <3>2. SubsOf(s) \in SUBSET Subs  BY DEF SubsOf
    <3> QED BY <1>6, <3>1, <3>2, EndSubscriptionsType DEF TypeOK, EndGathered, cmdVars, treeVars
  <2> QED BY <2>1, <2>2
<1>7. CASE EndGoesOn(s)
  <2>1. EndSubscriptions(s, ends[s].mine, sess[s] = "ending")  BY <1>7 DEF EndGoesOn
  <2>2. ends[s].mine \in SUBSET Subs  BY DEF TypeOK, EndRecords
  <2> QED BY <1>7, <2>1, <2>2, EndSubscriptionsType DEF TypeOK, EndGoesOn, cmdVars, treeVars
<1> QED BY <1>1, <1>2, <1>3, <1>4, <1>5, <1>6, <1>7

LEMMA BindTypes ==
    ASSUME TypeOK, BindNext
    PROVE  TypeOK'
<1>1. ASSUME NEW s \in Sessions, NEW r \in Refs, Bind(s, r)
      PROVE  TypeOK'
  BY <1>1 DEF TypeOK, Bind, sessVars, cmdVars, treeVars
<1>2. ASSUME NEW s \in Sessions, NEW r \in Refs, Release(s, r)
      PROVE  TypeOK'
  <2>1. task' \in [Commands -> TaskStates]  BY <1>2, CancelRunsType DEF Release
  <2>2. binds' \in [Refs -> SUBSET Sessions] /\ kept' \subseteq Commands
    BY <1>2 DEF TypeOK, Release, Spared
  <2>3. releases' \subseteq [session : Sessions, ref : Refs, waits : SUBSET Commands]
    BY <1>2 DEF TypeOK, Release
  <2> QED BY <1>2, <2>1, <2>2, <2>3 DEF TypeOK, Release, sessVars, treeVars
<1>3. ASSUME NEW q \in releases, ReleaseReplies(q)
      PROVE  TypeOK'
  BY <1>3 DEF TypeOK, ReleaseReplies, sessVars, cmdVars, treeVars
<1> QED BY <1>1, <1>2, <1>3 DEF BindNext

LEMMA CommandTypes ==
    ASSUME TypeOK, CommandNext
    PROVE  TypeOK'
<1>1. ASSUME NEW s \in Sessions, NEW e \in Execs, Execute(s, e)
      PROVE  TypeOK'
  <2>1. source' \in [Commands -> Nat]
    BY <1>1, PlanAssumption, SourceAssumption DEF TypeOK, Execute, GenOf, RefOf, CmdsOf
  <2>2. table' \subseteq Commands  BY <1>1 DEF TypeOK, Execute, CmdsOf
  <2> QED BY <1>1, <2>1, <2>2 DEF TypeOK, Execute, SequenceStates, sessVars, treeVars
<1>2. ASSUME NEW e \in Execs, SequenceStarts(e)
      PROVE  TypeOK'
  BY <1>2 DEF TypeOK, SequenceStarts, SequenceStates, sessVars, treeVars
<1>3. ASSUME NEW e \in Execs, SequenceAdvances(e)
      PROVE  TypeOK'
  BY <1>3 DEF TypeOK, SequenceAdvances, SequenceStates, sessVars, treeVars
<1> DEFINE aborts == [d \in Commands |-> "ABORT"]
<1>a. aborts \in [Commands -> Statuses]  BY DEF Statuses
<1>4. ASSUME NEW e \in Execs, SequenceStops(e)
      PROVE  TypeOK'
  <2>1. Complete(SkippedAfterFailure(e), aborts)  BY <1>4 DEF SequenceStops
  <2> HIDE DEF aborts
  <2>2. /\ status' \in [Commands -> {"none"} \cup Statuses]
        /\ notified' \in [Commands -> Nat]
    BY <1>a, <2>1, CompleteType
  <2> QED BY <1>4, <2>2 DEF TypeOK, SequenceStops, SequenceStates, sessVars, treeVars
<1>5. ASSUME NEW e \in Execs, SequenceUnwinds(e)
      PROVE  TypeOK'
  <2>1. Complete(Skipped(CmdsOf(e)), aborts)  BY <1>5 DEF SequenceUnwinds
  <2> HIDE DEF aborts
  <2>2. /\ status' \in [Commands -> {"none"} \cup Statuses]
        /\ notified' \in [Commands -> Nat]
    BY <1>a, <2>1, CompleteType
  <2> QED BY <1>5, <2>2 DEF TypeOK, SequenceUnwinds, SequenceStates, sessVars, treeVars
<1>6. ASSUME NEW c \in Commands, RunUnit(c)
      PROVE  TypeOK'
  <2>1. GenOf(RefOf(c)) \in Nat
    BY PlanAssumption, SourceAssumption DEF TypeOK, GenOf, RefOf
  <2> QED BY <1>6, <2>1 DEF TypeOK, RunUnit, TaskStates, sessVars, treeVars
<1>7. ASSUME NEW c \in Commands, RunUnitGone(c)
      PROVE  TypeOK'
  <2> DEFINE st == [d \in Commands |-> IF d = c THEN "ERROR" ELSE "ABORT"]
  <2>1. Complete({c} \cup Skipped({d \in Commands : After(d, c)}), st)
    BY <1>7 DEF RunUnitGone
  <2>2. st \in [Commands -> Statuses]  BY DEF Statuses
  <2> HIDE DEF st
  <2>3. /\ status' \in [Commands -> {"none"} \cup Statuses]
        /\ notified' \in [Commands -> Nat]
    BY <2>1, <2>2, CompleteType
  <2> QED BY <1>7, <2>3 DEF TypeOK, RunUnitGone, sessVars, treeVars
<1>8. ASSUME NEW c \in Commands, UnitEnds(c)
      PROVE  TypeOK'
  <2> DEFINE st == [d \in Commands |-> IF d = c THEN Ended(c) ELSE "ABORT"]
  <2>1. Complete({c} \cup RestOf(c), st)  BY <1>8 DEF UnitEnds
  <2>2. Ended(c) \in Statuses  BY <1>8 DEF UnitEnds, Ended, Statuses
  <2>3. st \in [Commands -> Statuses]  BY <2>2 DEF Statuses
  <2> HIDE DEF st
  <2>4. /\ status' \in [Commands -> {"none"} \cup Statuses]
        /\ notified' \in [Commands -> Nat]
    BY <2>1, <2>3, CompleteType
  <2> QED BY <1>8, <2>4 DEF TypeOK, UnitEnds, TaskStates, sessVars, treeVars
<1>9. ASSUME NEW c \in Commands, NEW st \in RunResults \cup {"ERROR", "CANCELLED"}, RunEnds(c, st)
      PROVE  TypeOK'
  <2>1. st \in TaskStates  BY PlanAssumption DEF TaskStates, Statuses
  <2> QED BY <1>9, <2>1 DEF TypeOK, RunEnds, sessVars, treeVars
<1> QED BY <1>1, <1>2, <1>3, <1>4, <1>5, <1>6, <1>7, <1>8, <1>9 DEF CommandNext

LEMMA SubscriptionTypes ==
    ASSUME TypeOK, SubscriptionNext
    PROVE  TypeOK'
<1>1. ASSUME NEW s \in Sessions, NEW u \in Subs, Subscribe(s, u)
      PROVE  TypeOK'
  <2>1. GenOf(SubRef[u]) \in Nat  BY SourceAssumption DEF TypeOK, GenOf
  <2> QED BY <1>1, <2>1 DEF TypeOK, Subscribe, SubRecords, sessVars, cmdVars, treeVars
<1>2. ASSUME NEW s \in Sessions, NEW u \in Subs, Unsubscribe(s, u)
      PROVE  TypeOK'
  <2>1. sub' \in [Subs -> SubRecords]  BY <1>2, PopType DEF Unsubscribe
  <2> QED BY <1>2, <2>1 DEF TypeOK, Unsubscribe, sessVars, cmdVars, treeVars
<1>3. ASSUME NEW u \in Subs, NEW ok \in BOOLEAN, SubscribeReturns(u, ok)
      PROVE  TypeOK'
  BY <1>3 DEF TypeOK, SubscribeReturns, SubRecords, sessVars, cmdVars, treeVars
<1> QED BY <1>1, <1>2, <1>3 DEF SubscriptionNext

LEMMA ChildTypes ==
    ASSUME TypeOK, ChildNext
    PROVE  TypeOK'
<1>1. ASSUME NEW k \in Children, AddChild(k)
      PROVE  TypeOK'
  <2>1. /\ child' \in [Children -> {"up", "detached", "down"}]
        /\ gen' \in [Children -> Nat]
    BY <1>1 DEF TypeOK, AddChild
  <2>2. /\ offers' \in [Children -> SUBSET Refs]
        /\ \A l \in Children : \A r \in offers'[l] : SourceOf[r] = l
    <3>1. PICK refs \in Profiles[k] : offers' = [offers EXCEPT ![k] = refs]
      BY <1>1 DEF AddChild
    <3>2. refs \in SUBSET Refs /\ \A r \in refs : SourceOf[r] = k  BY SourceAssumption
    <3> QED BY <3>1, <3>2 DEF TypeOK
  <2>3. UNCHANGED <<sess, connected, ends, binds, releases, sub, owner, seq, at, table, status,
                    task, source, ranOn, kept, notified>>
    BY <1>1 DEF AddChild, sessVars, cmdVars
  <2> QED BY <2>1, <2>2, <2>3, SMTT(30) DEF TypeOK
<1>2. ASSUME NEW k \in Children, DetachChild(k)
      PROVE  TypeOK'
  BY <1>2 DEF TypeOK, DetachChild, sessVars, cmdVars
<1>4. ASSUME NEW k \in Children, Rediscover(k)
      PROVE  TypeOK'
  <2>1. PICK refs \in Profiles[k] : offers' = [offers EXCEPT ![k] = refs]
    BY <1>4 DEF Rediscover
  <2>2. refs \in SUBSET Refs /\ \A r \in refs : SourceOf[r] = k  BY SourceAssumption
  <2>3. /\ offers' \in [Children -> SUBSET Refs]
        /\ \A l \in Children : \A r \in offers'[l] : SourceOf[r] = l
    BY <2>1, <2>2 DEF TypeOK
  <2> QED BY <1>4, <2>3 DEF TypeOK, Rediscover, sessVars, cmdVars
<1>3. ASSUME NEW k \in Children, RemoveChild(k)
      PROVE  TypeOK'
  <2>1. sub' \in [Subs -> SubRecords]  BY <1>3, PopType DEF RemoveChild
  <2> QED BY <1>3, <2>1 DEF TypeOK, RemoveChild, sessVars, cmdVars
<1> QED BY <1>1, <1>2, <1>3, <1>4 DEF ChildNext

LEMMA TypeStep == TypeOK /\ [Next]_vars => TypeOK'
<1> SUFFICES ASSUME TypeOK, [Next]_vars  PROVE TypeOK'  OBVIOUS
<1>1. CASE UNCHANGED vars  BY <1>1 DEF TypeOK, vars
<1> QED BY <1>1, SessionTypes, BindTypes, CommandTypes, SubscriptionTypes, ChildTypes DEF Next

\* Every reachable state is well typed, whatever the sessions, components and plans are.
THEOREM TypeCorrect == Spec => []TypeOK
  BY TypeInit, TypeStep, PTL DEF Spec

-----------------------------------------------------------------------------
(* Sessions, binds and the owners of sequences *)

LEMMA SessionInvInit == Init => SessionInv
  BY SessionAssumption DEF Init, SessionInv, ConnectedIsServed, HoldersConnected, OwnersConnected,
         ActuationExclusive

\* A step that only lets sequences go on or end keeps the session invariant.
LEMMA SessionFrame ==
    ASSUME TypeOK, SessionInv, UNCHANGED <<sess, connected, binds, owner>>,
           \A e \in Execs : \/ seq'[e] = seq[e]
                            \/ seq[e] # "unused" /\ seq'[e] \in {"cancelled", "done"}
                            \/ seq[e] = "created" /\ seq'[e] = "running"
    PROVE  SessionInv'
  BY DEF SessionInv, ConnectedIsServed, HoldersConnected, OwnersConnected, ActuationExclusive

\* The loop over the subscriptions changes no session but the one that ends.
LEMMA EndSubscriptionsSession ==
    ASSUME TypeOK, NEW s \in Sessions, NEW mine, NEW closing \in BOOLEAN,
           EndSubscriptions(s, mine, closing)
    PROVE  /\ \A t \in Sessions : t # s => sess'[t] = sess[t]
           /\ ~closing => sess' = sess
  BY DEF TypeOK, EndSubscriptions, UnsubscribeWaits, UnsubscribeEnds, UnsubscribeFails

LEMMA EndSessionKeeps ==
    ASSUME TypeOK, SessionInv, NEW s \in Sessions, NEW closing \in BOOLEAN,
           EndSession(s, closing), UNCHANGED owner
    PROVE  SessionInv'
<1>1. \A t \in Sessions : t # s => sess'[t] = sess[t]
  BY EndSubscriptionsSession DEF EndSession, TypeOK
<1>2. /\ connected' = [connected EXCEPT ![s] = FALSE]
      /\ \A r \in Refs : binds'[r] = binds[r] \ {s}
      /\ \A e \in Execs : seq'[e] \in {"created", "running"} =>
              seq'[e] = seq[e] /\ owner[e] # s
      /\ \A e \in Execs : seq'[e] # "unused" => seq[e] # "unused"
  BY DEF EndSession, BeginEnd, CancelSequences, SequencesOf
<1>3. ConnectedIsServed'
  BY <1>1, <1>2 DEF SessionInv, ConnectedIsServed, TypeOK
<1>4. HoldersConnected'
  BY <1>2 DEF SessionInv, HoldersConnected, TypeOK
<1>5. OwnersConnected'
  BY <1>2 DEF SessionInv, OwnersConnected, TypeOK
<1>6. ActuationExclusive'
  BY <1>2, SessionAssumption DEF SessionInv, ActuationExclusive
<1> QED BY <1>3, <1>4, <1>5, <1>6 DEF SessionInv

LEMMA EndLoopKeeps ==
    ASSUME TypeOK, SessionInv, NEW s \in Sessions, NEW mine,
           EndSubscriptions(s, mine, sess[s] = "ending"),
           UNCHANGED <<connected, binds, owner, seq>>
    PROVE  SessionInv'
<1>1. /\ \A t \in Sessions : t # s => sess'[t] = sess[t]
      /\ sess[s] # "ending" => sess' = sess
  BY EndSubscriptionsSession
<1>2. ConnectedIsServed'
  BY <1>1 DEF SessionInv, ConnectedIsServed, TypeOK
<1> QED BY <1>2 DEF SessionInv, HoldersConnected, OwnersConnected, ActuationExclusive

LEMMA SessionInvSessions ==
    ASSUME TypeOK, SessionInv, SessionNext
    PROVE  SessionInv'
<1> PICK s \in Sessions :
      \/ OpenSession(s) \/ Connect(s) \/ Disconnect(s) \/ ConnectionLost(s) \/ Close(s)
      \/ EndGathered(s) \/ EndGoesOn(s)
  BY DEF SessionNext
<1>1. CASE OpenSession(s)
  BY <1>1 DEF TypeOK, SessionInv, OpenSession, ConnectedIsServed, HoldersConnected,
     OwnersConnected, ActuationExclusive, cmdVars
<1>2. CASE Connect(s)
  BY <1>2 DEF TypeOK, SessionInv, Connect, ConnectedIsServed, HoldersConnected,
     OwnersConnected, ActuationExclusive, cmdVars
<1>3. CASE Disconnect(s)
  BY <1>3, EndSessionKeeps DEF Disconnect
<1>4. CASE ConnectionLost(s)
  BY <1>4 DEF TypeOK, SessionInv, ConnectionLost, ConnectedIsServed, HoldersConnected,
     OwnersConnected, ActuationExclusive, cmdVars
<1>5. CASE Close(s)
  BY <1>5, EndSessionKeeps DEF Close
<1>6. CASE EndGathered(s)
  <2>1. UNCHANGED <<connected, binds, owner, seq>>  BY <1>6 DEF EndGathered, cmdVars
  <2>2. CASE sess[s] = "closing"
    <3>1. UNCHANGED sess  BY <1>6, <2>2 DEF EndGathered
    <3> QED BY <2>1, <3>1, SessionFrame
  <2>3. CASE sess[s] # "closing"
    <3>1. EndSubscriptions(s, SubsOf(s), sess[s] = "ending")
      BY <1>6, <2>3 DEF EndGathered
    <3> QED BY <2>1, <3>1, EndLoopKeeps
  <2> QED BY <2>2, <2>3
<1>7. CASE EndGoesOn(s)
  <2>1. UNCHANGED <<connected, binds, owner, seq>>  BY <1>7 DEF EndGoesOn, cmdVars
  <2> QED BY <1>7, <2>1, EndLoopKeeps DEF EndGoesOn
<1> QED BY <1>1, <1>2, <1>3, <1>4, <1>5, <1>6, <1>7

LEMMA SessionInvBinds ==
    ASSUME TypeOK, SessionInv, BindNext
    PROVE  SessionInv'
<1>1. ASSUME NEW s \in Sessions, NEW r \in Refs, Bind(s, r)
      PROVE  SessionInv'
  <2>1. UNCHANGED <<sess, connected, owner, seq>>  BY <1>1 DEF Bind, sessVars, cmdVars
  <2>2. HoldersConnected'
    BY <1>1, <2>1 DEF TypeOK, SessionInv, HoldersConnected, Bind, Serves
  <2>3. ActuationExclusive'
    BY <1>1, SessionAssumption DEF TypeOK, SessionInv, ActuationExclusive, Bind, CanBind
  <2> QED BY <2>1, <2>2, <2>3 DEF SessionInv, ConnectedIsServed, OwnersConnected
<1>2. ASSUME NEW s \in Sessions, NEW r \in Refs, Release(s, r)
      PROVE  SessionInv'
  <2>1. UNCHANGED <<sess, connected, owner, seq>>  BY <1>2 DEF Release, sessVars
  <2>2. \A t \in Refs : binds'[t] \subseteq binds[t]  BY <1>2 DEF TypeOK, Release
  <2> QED BY <2>1, <2>2, SessionAssumption
          DEF SessionInv, ConnectedIsServed, HoldersConnected, OwnersConnected,
              ActuationExclusive
<1>3. ASSUME NEW q \in releases, ReleaseReplies(q)
      PROVE  SessionInv'
  BY <1>3, SessionFrame DEF ReleaseReplies, sessVars, cmdVars
<1> QED BY <1>1, <1>2, <1>3 DEF BindNext

LEMMA SessionInvCommands ==
    ASSUME TypeOK, SessionInv, CommandNext
    PROVE  SessionInv'
<1>1. ASSUME NEW s \in Sessions, NEW e \in Execs, Execute(s, e)
      PROVE  SessionInv'
  <2>1. UNCHANGED <<sess, connected, binds>>  BY <1>1 DEF Execute, sessVars
  <2>2. OwnersConnected'
    BY <1>1, <2>1 DEF TypeOK, SessionInv, OwnersConnected, Execute, Serves
  <2> QED BY <2>1, <2>2 DEF SessionInv, ConnectedIsServed, HoldersConnected, ActuationExclusive
<1>2. ASSUME NEW e \in Execs,
             SequenceStarts(e) \/ SequenceAdvances(e) \/ SequenceStops(e) \/ SequenceUnwinds(e)
      PROVE  SessionInv'
  <2>1. UNCHANGED <<sess, connected, binds, owner>>
    BY <1>2 DEF SequenceStarts, SequenceAdvances, SequenceStops, SequenceUnwinds, sessVars
  <2>2. \A f \in Execs : \/ seq'[f] = seq[f]
                         \/ seq[f] # "unused" /\ seq'[f] \in {"cancelled", "done"}
                         \/ seq[f] = "created" /\ seq'[f] = "running"
    BY <1>2 DEF TypeOK, SequenceStarts, SequenceAdvances, SequenceStops, SequenceUnwinds
  <2> QED BY <2>1, <2>2, SessionFrame
<1>3. ASSUME NEW c \in Commands, RunUnit(c) \/ RunUnitGone(c) \/ UnitEnds(c)
      PROVE  SessionInv'
  <2>1. UNCHANGED <<sess, connected, binds, owner, seq>>
    BY <1>3 DEF RunUnit, RunUnitGone, UnitEnds, sessVars
  <2> QED BY <2>1, SessionFrame
<1>4. ASSUME NEW c \in Commands, NEW st, RunEnds(c, st)
      PROVE  SessionInv'
  BY <1>4, SessionFrame DEF RunEnds, sessVars
<1> QED BY <1>1, <1>2, <1>3, <1>4 DEF CommandNext

LEMMA SessionInvRest ==
    ASSUME TypeOK, SessionInv, SubscriptionNext \/ ChildNext
    PROVE  SessionInv'
<1>1. CASE SubscriptionNext
  <2>1. UNCHANGED <<sess, connected, binds, owner, seq>>
    BY <1>1 DEF SubscriptionNext, Subscribe, Unsubscribe, SubscribeReturns, sessVars, cmdVars
  <2> QED BY <2>1, SessionFrame
<1>2. CASE ChildNext
  <2>1. /\ UNCHANGED <<sess, connected, owner, seq>>
        /\ \A r \in Refs : binds'[r] \subseteq binds[r]
    BY <1>2 DEF TypeOK, ChildNext, AddChild, Rediscover, DetachChild, RemoveChild, sessVars, cmdVars
  <2> QED BY <2>1, SessionAssumption
          DEF SessionInv, ConnectedIsServed, HoldersConnected, OwnersConnected,
              ActuationExclusive
<1> QED BY <1>1, <1>2

LEMMA SessionInvStep == TypeOK /\ SessionInv /\ [Next]_vars => SessionInv'
<1> SUFFICES ASSUME TypeOK, SessionInv, [Next]_vars  PROVE SessionInv'  OBVIOUS
<1>1. CASE UNCHANGED vars  BY <1>1, SessionFrame DEF vars
<1> QED BY <1>1, SessionInvSessions, SessionInvBinds, SessionInvCommands, SessionInvRest DEF Next

LEMMA SessionInvHolds == Spec => []SessionInv
  BY SessionInvInit, SessionInvStep, TypeCorrect, PTL DEF Spec

\* An actuation component never has two holders, for any number of sessions and children.
THEOREM ActuationIsExclusive == Spec => []ActuationExclusive
<1>1. SessionInv => ActuationExclusive  BY DEF SessionInv
<1> QED BY <1>1, SessionInvHolds, PTL

\* A session that is not connected holds no bind and has no sequence that starts commands.
THEOREM DisconnectReleases == Spec => []DisconnectedHoldsNothing
<1>1. SessionInv => DisconnectedHoldsNothing
  BY DEF SessionInv, DisconnectedHoldsNothing, HoldersConnected, OwnersConnected, SequencesOf
<1> QED BY <1>1, SessionInvHolds, PTL

\* BUSY is shown to exactly the sessions whose bind would be refused.
THEOREM BusyIsExact == Spec => []BusyMeansRefused
<1>1. TypeOK /\ SessionInv => BusyMeansRefused
  BY SessionAssumption
     DEF TypeOK, SessionInv, ActuationExclusive, BusyMeansRefused, AsSeenBy, CanBind
<1> QED BY <1>1, TypeCorrect, SessionInvHolds, PTL

-----------------------------------------------------------------------------
(* Commands and sequences *)

LEMMA PlanType ==
    ASSUME NEW c \in Commands
    PROVE  Plan[c].exec \in Execs /\ Plan[c].item \in Nat /\ Plan[c].item > 0
  BY PlanAssumption

LEMMA CommandInvInit == Init => CommandInv
  BY PlanType
     DEF Init, CommandInv, UnstartedUntouched, RunsAtItem, PastItemsOK, UnfinishedKept,
         RunsInOrder, NothingLeftBehind, ToldOnce, CmdsOf

LEMMA CommandFrame ==
    ASSUME CommandInv, UNCHANGED <<seq, at, table, status, task, notified>>
    PROVE  CommandInv'
  BY DEF CommandInv, UnstartedUntouched, RunsAtItem, PastItemsOK, UnfinishedKept,
         RunsInOrder, NothingLeftBehind, ToldOnce, CmdsOf, Before, After

\* What _complete does to each command.
LEMMA CompleteEffect ==
    ASSUME TypeOK, NEW cs, NEW st, Complete(cs, st), NEW c \in Commands
    PROVE  /\ status'[c] = IF c \in cs /\ c \in table /\ status[c] = "none"
                           THEN st[c] ELSE status[c]
           /\ notified'[c] = IF /\ c \in cs /\ c \in table /\ status[c] = "none"
                                /\ connected[OwnerOf(c)] /\ InSessions(OwnerOf(c))
                             THEN notified[c] + 1 ELSE notified[c]
  BY DEF Complete

\* A step that completes commands of sequences that run or unwind keeps the invariant, if
\* only a command that ran ends OK, and a sequence that is done has no command left.
LEMMA CompletingKeeps ==
    ASSUME TypeOK, SessionInv, CommandInv,
           NEW cs \in SUBSET Commands, NEW st \in [Commands -> Statuses], Complete(cs, st),
           UNCHANGED <<at, table>>,
           \A c \in cs : /\ seq[Plan[c].exec] \in {"running", "cancelled"}
                         /\ st[c] = "OK" => task[c] # "none",
           \A c \in Commands : task'[c] # "none" => task[c] # "none" /\ c \notin cs,
           \A e \in Execs :
               \/ seq'[e] = seq[e]
               \/ /\ seq[e] \in {"running", "cancelled"} /\ seq'[e] = "done"
                  /\ \A c \in CmdsOf(e) : task[c] = "none" /\ status'[c] # "none"
    PROVE  CommandInv'
<1>1. ASSUME NEW c \in Commands
      PROVE  /\ status[c] # "none" => status'[c] = status[c] /\ notified'[c] = notified[c]
             /\ c \notin cs => status'[c] = status[c] /\ notified'[c] = notified[c]
             /\ status'[c] = "OK" => status[c] = "OK" \/ task[c] # "none"
             /\ status'[c] = "none" => status[c] = "none"
  BY CompleteEffect
<1>2. UnstartedUntouched'
  <2> SUFFICES ASSUME NEW e \in Execs, seq'[e] \in {"unused", "created"}
               PROVE  /\ at'[e] = 0
                      /\ \A c \in CmdsOf(e) : /\ status'[c] = "none" /\ task'[c] = "none"
                                              /\ notified'[c] = 0
    BY DEF UnstartedUntouched, CmdsOf
  <2>1. seq[e] \in {"unused", "created"} /\ at[e] = 0  BY DEF CommandInv, UnstartedUntouched
  <2>2. ASSUME NEW c \in CmdsOf(e)
        PROVE  status'[c] = "none" /\ task'[c] = "none" /\ notified'[c] = 0
    <3>1. c \in Commands /\ Plan[c].exec = e /\ c \notin cs  BY <2>1, <2>2 DEF CmdsOf
    <3> QED BY <1>1, <2>1, <2>2, <3>1 DEF CommandInv, UnstartedUntouched
  <2> QED BY <2>1, <2>2
<1>3. RunsAtItem'
  BY <1>1, PlanType DEF CommandInv, RunsAtItem, CmdsOf
<1>4. PastItemsOK'
  BY <1>1 DEF CommandInv, PastItemsOK
<1>5. UnfinishedKept'
  BY <1>1, PlanType DEF CommandInv, UnfinishedKept
<1>6. RunsInOrder'
  BY <1>1 DEF CommandInv, RunsInOrder, Before, After
<1>7. NothingLeftBehind'
  BY <1>1 DEF CommandInv, NothingLeftBehind, CmdsOf
<1>8. ToldOnce'
  <2> SUFFICES ASSUME NEW e \in Execs, seq'[e] = "running", NEW c \in CmdsOf(e)
               PROVE  notified'[c] = IF status'[c] = "none" THEN 0 ELSE 1
    BY DEF ToldOnce, CmdsOf
  <2>1. c \in Commands /\ Plan[c].exec = e /\ seq[e] = "running"  BY DEF CmdsOf
  <2>2. notified[c] = IF status[c] = "none" THEN 0 ELSE 1
    BY <2>1 DEF CommandInv, ToldOnce
  <2>3. connected[OwnerOf(c)] /\ InSessions(OwnerOf(c))
    BY <2>1 DEF SessionInv, OwnersConnected, ConnectedIsServed, InSessions, OwnerOf
  <2>4. st[c] \in Statuses /\ st[c] # "none"  BY <2>1 DEF Statuses
  <2> QED BY <2>1, <2>2, <2>3, <2>4, CompleteEffect
<1> QED BY <1>2, <1>3, <1>4, <1>5, <1>6, <1>7, <1>8 DEF CommandInv

LEMMA CancelKeeps ==
    ASSUME TypeOK, CommandInv, NEW s \in Sessions, CancelSequences(s),
           UNCHANGED <<at, table, status, notified>>
    PROVE  CommandInv'
<1>1. \A c \in Commands : task'[c] # "none" => task[c] # "none"
  BY DEF CancelSequences, CancelRuns
<1>2. \A e \in Execs : \/ seq'[e] = seq[e]
                       \/ seq[e] = "created" /\ seq'[e] = "done"
                       \/ seq[e] = "running" /\ seq'[e] = "cancelled"
  BY DEF TypeOK, CancelSequences, SequencesOf
<1>3. UnstartedUntouched'
  BY <1>1, <1>2 DEF CommandInv, UnstartedUntouched, CmdsOf
<1>4. RunsAtItem'
  BY <1>1, <1>2, PlanType DEF CommandInv, RunsAtItem
<1>5. PastItemsOK' /\ RunsInOrder'
  BY <1>1 DEF CommandInv, PastItemsOK, RunsInOrder, Before, After
<1>6. UnfinishedKept'
  BY <1>2, PlanType DEF CommandInv, UnfinishedKept
<1>7. NothingLeftBehind'
  BY <1>2 DEF CommandInv, NothingLeftBehind, UnstartedUntouched, CmdsOf
<1>8. ToldOnce'
  BY <1>2 DEF CommandInv, ToldOnce, CmdsOf
<1> QED BY <1>3, <1>4, <1>5, <1>6, <1>7, <1>8 DEF CommandInv

LEMMA ExecuteKeeps ==
    ASSUME TypeOK, CommandInv, NEW s \in Sessions, NEW e \in Execs, Execute(s, e)
    PROVE  CommandInv'
<1>1. /\ seq[e] = "unused" /\ seq' = [seq EXCEPT ![e] = "created"]
      /\ at' = [at EXCEPT ![e] = 0]
      /\ UNCHANGED <<status, task, notified>>
      /\ \A c \in Commands : c \in table \/ c \in CmdsOf(e) => c \in table' \/ status[c] # "none"
  BY DEF Execute, Pruned
<1>2. at[e] = 0 /\ \A f \in Execs : at'[f] = at[f]
  BY <1>1 DEF TypeOK, CommandInv, UnstartedUntouched
<1>3. \A f \in Execs : f # e => seq'[f] = seq[f]
  BY <1>1 DEF TypeOK
<1>4. seq'[e] = "created"  BY <1>1 DEF TypeOK
<1>5. UnstartedUntouched'
  BY <1>1, <1>2, <1>3 DEF CommandInv, UnstartedUntouched, CmdsOf
<1>6. RunsAtItem'
  BY <1>1, <1>2, <1>3, PlanType DEF CommandInv, RunsAtItem
<1>7. PastItemsOK'
  BY <1>1, <1>2, PlanType DEF CommandInv, PastItemsOK
<1>8. RunsInOrder'
  BY <1>1 DEF CommandInv, RunsInOrder, Before, After
<1>9. UnfinishedKept'
  BY <1>1, <1>3, PlanType DEF CommandInv, UnfinishedKept, CmdsOf
<1>10. NothingLeftBehind'
  BY <1>1, <1>2, <1>3, <1>4 DEF CommandInv, NothingLeftBehind, CmdsOf
<1>11. ToldOnce'
  BY <1>1, <1>3, <1>4 DEF CommandInv, ToldOnce, CmdsOf
<1> QED BY <1>5, <1>6, <1>7, <1>8, <1>9, <1>10, <1>11 DEF CommandInv

LEMMA SequenceStartsKeeps ==
    ASSUME TypeOK, CommandInv, NEW e \in Execs, SequenceStarts(e)
    PROVE  CommandInv'
<1>1. /\ seq[e] = "created" /\ seq' = [seq EXCEPT ![e] = "running"]
      /\ at' = [at EXCEPT ![e] = 1]
      /\ UNCHANGED <<table, status, task, notified>>
  BY DEF SequenceStarts
<1>2. \A f \in Execs : f # e => seq'[f] = seq[f] /\ at'[f] = at[f]
  BY <1>1 DEF TypeOK
<1>3. seq'[e] = "running" /\ at'[e] = 1  BY <1>1 DEF TypeOK
<1>4. \A c \in CmdsOf(e) : status[c] = "none" /\ task[c] = "none" /\ notified[c] = 0
  BY <1>1 DEF CommandInv, UnstartedUntouched
<1>5. UnstartedUntouched'
  BY <1>1, <1>2, <1>3 DEF CommandInv, UnstartedUntouched, CmdsOf
<1>6. RunsAtItem'
  BY <1>1, <1>2, <1>4, PlanType DEF CommandInv, RunsAtItem, CmdsOf
<1>7. PastItemsOK'
  BY <1>1, <1>2, <1>3, PlanType DEF CommandInv, PastItemsOK
<1>8. RunsInOrder'
  BY <1>1 DEF CommandInv, RunsInOrder, Before, After
<1>9. UnfinishedKept'
  BY <1>1, <1>2, PlanType DEF CommandInv, UnfinishedKept
<1>10. NothingLeftBehind'
  BY <1>1, <1>2, <1>3 DEF CommandInv, NothingLeftBehind, CmdsOf
<1>11. ToldOnce'
  BY <1>1, <1>2, <1>4 DEF CommandInv, ToldOnce, CmdsOf
<1> QED BY <1>5, <1>6, <1>7, <1>8, <1>9, <1>10, <1>11 DEF CommandInv

LEMMA SequenceAdvancesKeeps ==
    ASSUME TypeOK, CommandInv, NEW e \in Execs, SequenceAdvances(e)
    PROVE  CommandInv'
<1>1. /\ seq[e] = "running" /\ at' = [at EXCEPT ![e] = @ + 1]
      /\ UNCHANGED <<table, status, task, notified>>
      /\ \A c \in CmdsOf(e) : Plan[c].item = at[e] => status[c] = "OK"
  BY DEF SequenceAdvances, ItemOf
<1>2. /\ \A f \in Execs : f # e => seq'[f] = seq[f] /\ at'[f] = at[f]
      /\ at'[e] = at[e] + 1
      /\ \/ seq'[e] = "running"
         \/ seq'[e] = "done" /\ \A c \in CmdsOf(e) : ~(Plan[c].item > at[e])
  BY <1>1 DEF TypeOK, SequenceAdvances, Later
<1>3. ASSUME NEW c \in CmdsOf(e), Plan[c].item < at'[e]
      PROVE  status[c] = "OK"
  <2>1. c \in Commands /\ Plan[c].exec = e  BY DEF CmdsOf
  <2>3. at'[e] = at[e] + 1 /\ at[e] \in Nat  BY <1>2 DEF TypeOK
  <2>4. Plan[c].item \in Nat  BY <2>1, PlanType
  <2>2. Plan[c].item < at[e] \/ Plan[c].item = at[e]
    BY <1>3, <2>3, <2>4
  <2> QED BY <1>1, <2>1, <2>2 DEF CommandInv, PastItemsOK
<1>4. \A c \in CmdsOf(e) : task[c] = "none"
  BY <1>1 DEF CommandInv, RunsAtItem, CmdsOf
<1>5. UnstartedUntouched'
  BY <1>1, <1>2 DEF CommandInv, UnstartedUntouched, CmdsOf
<1>6. RunsAtItem'
  BY <1>1, <1>2, <1>4, PlanType DEF CommandInv, RunsAtItem, CmdsOf
<1>7. PastItemsOK'
  BY <1>1, <1>2, <1>3, PlanType DEF CommandInv, PastItemsOK, CmdsOf
<1>8. RunsInOrder'
  BY <1>1 DEF CommandInv, RunsInOrder, Before, After
<1>9. UnfinishedKept'
  BY <1>1, <1>2, PlanType DEF CommandInv, UnfinishedKept
<1>10. NothingLeftBehind'
  <2>1. seq'[e] = "done" => \A c \in CmdsOf(e) : status[c] # "none"
    BY <1>2, <1>3, PlanType DEF TypeOK, CmdsOf
  <2> QED BY <1>1, <1>2, <2>1 DEF CommandInv, NothingLeftBehind, CmdsOf
<1>11. ToldOnce'
  BY <1>1, <1>2 DEF CommandInv, ToldOnce, CmdsOf
<1> QED BY <1>5, <1>6, <1>7, <1>8, <1>9, <1>10, <1>11 DEF CommandInv

LEMMA SequenceStopsKeeps ==
    ASSUME TypeOK, SessionInv, CommandInv, NEW e \in Execs, SequenceStops(e)
    PROVE  CommandInv'
<1> DEFINE cs == SkippedAfterFailure(e)
           st == [d \in Commands |-> "ABORT"]
<1>1. /\ seq[e] = "running" /\ seq' = [seq EXCEPT ![e] = "done"]
      /\ UNCHANGED <<at, table, task>> /\ Complete(cs, st)
      /\ \A c \in CmdsOf(e) : Plan[c].item = at[e] => status[c] # "none" /\ task[c] = "none"
  BY DEF SequenceStops, ItemOf
<1>2. \A c \in cs : c \in Commands /\ Plan[c].exec = e /\ task[c] = "none"
  BY DEF SkippedAfterFailure, Skipped, Later, CmdsOf
<1>3. ASSUME NEW c \in CmdsOf(e)
      PROVE  task[c] = "none" /\ status'[c] # "none"
  <2>1. c \in Commands /\ Plan[c].exec = e  BY DEF CmdsOf
  <2>2. task[c] = "none"
    BY <1>1, <2>1 DEF CommandInv, RunsAtItem
  <2>3. CASE status[c] # "none"
    BY <1>1, <2>1, <2>2, <2>3, CompleteEffect
  <2>4. CASE status[c] = "none"
    <3>1. Plan[c].item > at[e]
      <4>1. Plan[c].item \in Nat /\ at[e] \in Nat  BY <2>1, PlanType DEF TypeOK
      <4>2. PastItemsOK  BY DEF CommandInv
      <4> QED BY <1>1, <2>1, <2>4, <4>1, <4>2 DEF PastItemsOK
    <3>2. c \in cs /\ c \in table
      BY <1>1, <2>1, <2>2, <2>4, <3>1
         DEF SkippedAfterFailure, Skipped, Later, CommandInv, UnfinishedKept
    <3>3. status'[c] = st[c]
      BY <1>1, <2>1, <2>4, <3>2, CompleteEffect
    <3> QED BY <2>1, <2>2, <3>3
  <2> QED BY <2>2, <2>3, <2>4
<1>4. st \in [Commands -> Statuses]  BY DEF Statuses
<1>5. \A c \in cs : seq[Plan[c].exec] \in {"running", "cancelled"} /\ st[c] # "OK"
  BY <1>1, <1>2
<1>6. \A f \in Execs : \/ seq'[f] = seq[f]
                       \/ /\ seq[f] \in {"running", "cancelled"} /\ seq'[f] = "done"
                          /\ \A c \in CmdsOf(f) : task[c] = "none" /\ status'[c] # "none"
  BY <1>1, <1>3 DEF TypeOK
<1>7. cs \in SUBSET Commands  BY <1>2
<1>8. \A c \in Commands : task'[c] # "none" => task[c] # "none" /\ c \notin cs
  BY <1>1, <1>2
<1> HIDE DEF cs, st
<1> QED BY <1>1, <1>4, <1>5, <1>6, <1>7, <1>8, CompletingKeeps

LEMMA SequenceUnwindsKeeps ==
    ASSUME TypeOK, SessionInv, CommandInv, NEW e \in Execs, SequenceUnwinds(e)
    PROVE  CommandInv'
<1> DEFINE cs == Skipped(CmdsOf(e))
           st == [d \in Commands |-> "ABORT"]
<1>1. /\ seq[e] = "cancelled" /\ seq' = [seq EXCEPT ![e] = "done"]
      /\ UNCHANGED <<at, table, task>> /\ Complete(cs, st)
      /\ \A c \in CmdsOf(e) : task[c] = "none"
  BY DEF SequenceUnwinds
<1>2. \A c \in cs : c \in Commands /\ Plan[c].exec = e /\ task[c] = "none"
  BY DEF Skipped, CmdsOf
<1>3. ASSUME NEW c \in CmdsOf(e)
      PROVE  task[c] = "none" /\ status'[c] # "none"
  <2>1. c \in Commands /\ Plan[c].exec = e /\ task[c] = "none"  BY <1>1 DEF CmdsOf
  <2>2. CASE status[c] # "none"
    BY <1>1, <2>1, <2>2, CompleteEffect
  <2>3. CASE status[c] = "none"
    <3>1. c \in cs /\ c \in table
      BY <1>1, <2>1, <2>3 DEF Skipped, CommandInv, UnfinishedKept
    <3>2. status'[c] = st[c]
      BY <1>1, <2>1, <2>3, <3>1, CompleteEffect
    <3> QED BY <2>1, <3>2
  <2> QED BY <2>1, <2>2, <2>3
<1>4. st \in [Commands -> Statuses]  BY DEF Statuses
<1>5. \A c \in cs : seq[Plan[c].exec] \in {"running", "cancelled"} /\ st[c] # "OK"
  BY <1>1, <1>2
<1>6. \A f \in Execs : \/ seq'[f] = seq[f]
                       \/ /\ seq[f] \in {"running", "cancelled"} /\ seq'[f] = "done"
                          /\ \A c \in CmdsOf(f) : task[c] = "none" /\ status'[c] # "none"
  BY <1>1, <1>3 DEF TypeOK
<1>7. cs \in SUBSET Commands  BY <1>2
<1>8. \A c \in Commands : task'[c] # "none" => task[c] # "none" /\ c \notin cs
  BY <1>1, <1>2
<1> HIDE DEF cs, st
<1> QED BY <1>1, <1>4, <1>5, <1>6, <1>7, <1>8, CompletingKeeps

LEMMA RunUnitKeeps ==
    ASSUME TypeOK, CommandInv, NEW c \in Commands, RunUnit(c)
    PROVE  CommandInv'
<1>1. /\ Turn(c) /\ task' = [task EXCEPT ![c] = "running"]
      /\ UNCHANGED <<seq, at, table, status, notified>>
  BY DEF RunUnit
<1>2. \A d \in Commands : d # c => task'[d] = task[d]
  BY <1>1 DEF TypeOK
<1>3. UnstartedUntouched'
  BY <1>1, <1>2 DEF CommandInv, UnstartedUntouched, Turn, CmdsOf
<1>4. RunsAtItem'
  BY <1>1, <1>2 DEF CommandInv, RunsAtItem, Turn
<1>5. RunsInOrder'
  <2>1. ASSUME NEW d \in Commands, Before(d, c)  PROVE status[d] = "OK"
    BY <1>1, <2>1 DEF CommandInv, PastItemsOK, Before, Turn
  <2> QED BY <1>1, <1>2, <2>1 DEF CommandInv, RunsInOrder, Before, After
<1>6. PastItemsOK' /\ UnfinishedKept' /\ NothingLeftBehind' /\ ToldOnce'
  BY <1>1 DEF CommandInv, PastItemsOK, UnfinishedKept, NothingLeftBehind, ToldOnce, CmdsOf
<1> QED BY <1>3, <1>4, <1>5, <1>6 DEF CommandInv

LEMMA RunUnitGoneKeeps ==
    ASSUME TypeOK, SessionInv, CommandInv, NEW c \in Commands, RunUnitGone(c)
    PROVE  CommandInv'
<1> DEFINE cs == {c} \cup Skipped({d \in Commands : After(d, c)})
           st == [d \in Commands |-> IF d = c THEN "ERROR" ELSE "ABORT"]
<1>1. /\ Turn(c) /\ UNCHANGED <<seq, at, table, task>> /\ Complete(cs, st)
  BY DEF RunUnitGone
<1>2. \A d \in cs : d \in Commands /\ Plan[d].exec = Plan[c].exec /\ task[d] = "none"
  BY <1>1 DEF Skipped, After, Turn
<1>3. st \in [Commands -> Statuses]  BY DEF Statuses
<1>4. \A d \in cs : seq[Plan[d].exec] \in {"running", "cancelled"} /\ st[d] # "OK"
  BY <1>1, <1>2 DEF Turn
<1>5. cs \in SUBSET Commands  BY <1>2
<1>6. \A d \in Commands : task'[d] # "none" => task[d] # "none" /\ d \notin cs
  BY <1>1, <1>2
<1> HIDE DEF cs, st
<1> QED BY <1>1, <1>3, <1>4, <1>5, <1>6, CompletingKeeps

LEMMA UnitEndsKeeps ==
    ASSUME TypeOK, SessionInv, CommandInv, NEW c \in Commands, UnitEnds(c)
    PROVE  CommandInv'
<1> DEFINE cs == {c} \cup RestOf(c)
           st == [d \in Commands |-> IF d = c THEN Ended(c) ELSE "ABORT"]
<1>1. /\ task[c] \in Statuses \cup {"CANCELLED"} /\ task' = [task EXCEPT ![c] = "none"]
      /\ UNCHANGED <<seq, at, table>> /\ Complete(cs, st)
  BY DEF UnitEnds
<1>2. task[c] # "none" /\ Ended(c) \in Statuses
  BY <1>1 DEF Ended, Statuses
<1>3. \A d \in RestOf(c) : d \in Commands /\ Plan[d].exec = Plan[c].exec /\ task[d] = "none"
  BY DEF RestOf, Skipped, After
<1>4. st \in [Commands -> Statuses]  BY <1>2 DEF Statuses
<1>5. seq[Plan[c].exec] \in {"running", "cancelled"}
  BY <1>2 DEF CommandInv, RunsAtItem
<1>6. \A d \in cs : /\ seq[Plan[d].exec] \in {"running", "cancelled"}
                    /\ st[d] = "OK" => task[d] # "none"
  BY <1>2, <1>3, <1>5
<1>7. cs \in SUBSET Commands  BY <1>3
<1>8. \A d \in Commands : task'[d] # "none" => task[d] # "none" /\ d \notin cs
  BY <1>1, <1>3 DEF TypeOK
<1> HIDE DEF cs, st
<1> QED BY <1>1, <1>4, <1>6, <1>7, <1>8, CompletingKeeps

\* A step that changes how runs stand, and which runs are cancelled, but nothing else.
LEMMA RunsChange ==
    ASSUME TypeOK, CommandInv, UNCHANGED <<seq, at, table, status, notified>>,
           \A c \in Commands : task'[c] # "none" => task[c] # "none",
           \A c \in Commands : task[c] # "none" => task'[c] # "none"
    PROVE  CommandInv'
  BY DEF CommandInv, UnstartedUntouched, RunsAtItem, PastItemsOK, UnfinishedKept,
         RunsInOrder, NothingLeftBehind, ToldOnce, CmdsOf, Before, After

LEMMA CommandInvStep == TypeOK /\ SessionInv /\ CommandInv /\ [Next]_vars => CommandInv'
<1> SUFFICES ASSUME TypeOK, SessionInv, CommandInv, [Next]_vars  PROVE CommandInv'  OBVIOUS
<1>1. CASE UNCHANGED vars  BY <1>1, CommandFrame DEF vars
<1>2. CASE SessionNext
  <2> PICK s \in Sessions :
        \/ OpenSession(s) \/ Connect(s) \/ Disconnect(s) \/ ConnectionLost(s) \/ Close(s)
        \/ EndGathered(s) \/ EndGoesOn(s)
    BY <1>2 DEF SessionNext
  <2>1. CASE Disconnect(s) \/ Close(s)
    BY <2>1, CancelKeeps DEF Disconnect, Close, EndSession, BeginEnd
  <2>2. CASE \/ OpenSession(s) \/ Connect(s) \/ ConnectionLost(s)
             \/ EndGathered(s) \/ EndGoesOn(s)
    BY <2>2, CommandFrame
       DEF OpenSession, Connect, ConnectionLost, EndGathered, EndGoesOn, cmdVars
  <2> QED BY <2>1, <2>2
<1>3. CASE BindNext
  <2>1. ASSUME NEW s \in Sessions, NEW r \in Refs, Release(s, r)
        PROVE  CommandInv'
    BY <2>1, RunsChange DEF Release, CancelRuns
  <2>2. ASSUME NEW s \in Sessions, NEW r \in Refs, Bind(s, r)
        PROVE  CommandInv'
    BY <2>2, CommandFrame DEF Bind, cmdVars
  <2>3. ASSUME NEW q \in releases, ReleaseReplies(q)
        PROVE  CommandInv'
    BY <2>3, CommandFrame DEF ReleaseReplies, cmdVars
  <2> QED BY <1>3, <2>1, <2>2, <2>3 DEF BindNext
<1>4. CASE CommandNext
  <2>1. ASSUME NEW c \in Commands, NEW st \in RunResults \cup {"ERROR", "CANCELLED"},
               RunEnds(c, st)
        PROVE  CommandInv'
    <3>1. st # "none"  BY PlanAssumption DEF Statuses
    <3> QED BY <2>1, <3>1, RunsChange DEF TypeOK, RunEnds
  <2> QED BY <1>4, <2>1, ExecuteKeeps, SequenceStartsKeeps, SequenceAdvancesKeeps,
          SequenceStopsKeeps, SequenceUnwindsKeeps, RunUnitKeeps, RunUnitGoneKeeps,
          UnitEndsKeeps DEF CommandNext
<1>5. CASE SubscriptionNext \/ ChildNext
  BY <1>5, CommandFrame DEF SubscriptionNext, Subscribe, Unsubscribe, SubscribeReturns,
     ChildNext, AddChild, Rediscover, DetachChild, RemoveChild, cmdVars
<1> QED BY <1>1, <1>2, <1>3, <1>4, <1>5 DEF Next

LEMMA CommandInvHolds == Spec => []CommandInv
  BY CommandInvInit, CommandInvStep, TypeCorrect, SessionInvHolds, PTL DEF Spec

\* Commands run in the order of their execute, for every plan of items and branches.
THEOREM CommandsRunInOrder == Spec => []RunsInOrder
<1>1. CommandInv => RunsInOrder  BY DEF CommandInv
<1> QED BY <1>1, CommandInvHolds, PTL

\* A sequence that started leaves no command without an end.
THEOREM SequencesEndWhole == Spec => []NothingLeftBehind
<1>1. CommandInv => NothingLeftBehind  BY DEF CommandInv
<1> QED BY <1>1, CommandInvHolds, PTL

\* While a sequence runs, its session was told exactly once of every command that ended.
THEOREM CompletionsAreTold == Spec => []ToldOnce
<1>1. CommandInv => ToldOnce  BY DEF CommandInv
<1> QED BY <1>1, CommandInvHolds, PTL

\* Pruning never removes a command that has not ended.
THEOREM UnfinishedStay == Spec => []UnfinishedKept
<1>1. CommandInv => UnfinishedKept  BY DEF CommandInv
<1> QED BY <1>1, CommandInvHolds, PTL

\* An ended command keeps its status and is not announced again, whatever step follows.
THEOREM StatusIsFinal == Spec => StatusFinal
<1> DEFINE Final == \A c \in Commands : status[c] # "none" =>
                        status'[c] = status[c] /\ notified'[c] = notified[c]
<1>1. ASSUME TypeOK, [Next]_vars  PROVE Final
  <2>1. ASSUME NEW cs, NEW st, Complete(cs, st)  PROVE Final
    BY <1>1, <2>1, CompleteEffect
  <2>2. CASE UNCHANGED <<status, notified>>  BY <2>2
  <2>3. CASE CommandNext
    <3>1. ASSUME NEW c \in Commands, RunUnitGone(c) \/ UnitEnds(c)  PROVE Final
      BY <2>1, <3>1 DEF RunUnitGone, UnitEnds
    <3>2. ASSUME NEW e \in Execs, SequenceStops(e) \/ SequenceUnwinds(e)  PROVE Final
      BY <2>1, <3>2 DEF SequenceStops, SequenceUnwinds
    <3> QED BY <2>2, <2>3, <3>1, <3>2
            DEF CommandNext, Execute, SequenceStarts, SequenceAdvances, RunUnit, RunEnds
  <2>4. CASE SessionNext \/ BindNext
    BY <2>2, <2>4 DEF SessionNext, OpenSession, Connect, Disconnect, ConnectionLost, Close,
       EndGathered, EndGoesOn, BindNext, Bind, Release, ReleaseReplies, cmdVars
  <2>5. CASE SubscriptionNext \/ ChildNext
    BY <2>2, <2>5 DEF SubscriptionNext, Subscribe, Unsubscribe, SubscribeReturns, ChildNext,
       AddChild, Rediscover, DetachChild, RemoveChild, cmdVars
  <2>6. CASE UNCHANGED vars  BY <2>2, <2>6 DEF vars
  <2> QED BY <1>1, <2>3, <2>4, <2>5, <2>6 DEF Next
<1>2. TypeOK /\ [Next]_vars => [Final]_vars  BY <1>1
<1> QED BY <1>2, TypeCorrect, PTL DEF Spec, StatusFinal

-----------------------------------------------------------------------------
(* Children that leave *)

LEMMA GoneChildStep == TypeOK /\ GoneChildHoldsNothing /\ [Next]_vars => GoneChildHoldsNothing'
<1> SUFFICES ASSUME TypeOK, GoneChildHoldsNothing, [Next]_vars
             PROVE  GoneChildHoldsNothing'
  OBVIOUS
\* A step that takes binds and subscriptions away, and removes no child.
<1>1. ASSUME \A k \in Children : child'[k] = "down" =>
                child[k] = "down" /\ offers'[k] = offers[k],
             \A r \in Refs : binds'[r] \subseteq binds[r],
             \A u \in Subs : sub'[u].state = "held" => sub[u].state = "held"
      PROVE  GoneChildHoldsNothing'
  BY <1>1 DEF TypeOK, GoneChildHoldsNothing
<1>2. ASSUME NEW us, Pop(us), NEW u \in Subs, sub'[u].state = "held"
      PROVE  sub[u].state = "held"
  BY <1>2 DEF Pop, Over
<1>3. CASE SessionNext
  <2> PICK s \in Sessions :
        \/ OpenSession(s) \/ Connect(s) \/ Disconnect(s) \/ ConnectionLost(s) \/ Close(s)
        \/ EndGathered(s) \/ EndGoesOn(s)
    BY <1>3 DEF SessionNext
  <2>1. ASSUME NEW mine, NEW closing, EndSubscriptions(s, mine, closing), NEW u \in Subs,
               sub'[u].state = "held"
        PROVE  sub[u].state = "held"
    BY <1>2, <2>1 DEF EndSubscriptions, UnsubscribeWaits, UnsubscribeEnds, UnsubscribeFails
  <2>2. CASE OpenSession(s) \/ Connect(s)
    BY <1>1, <2>2 DEF OpenSession, Connect, treeVars
  <2>3. CASE Disconnect(s) \/ Close(s)
    <3>1. UNCHANGED <<child, offers>> /\ \A r \in Refs : binds'[r] \subseteq binds[r]
      BY <2>3 DEF Disconnect, Close, EndSession, BeginEnd, treeVars
    <3>2. \A u \in Subs : sub'[u].state = "held" => sub[u].state = "held"
      BY <2>1, <2>3 DEF Disconnect, Close, EndSession
    <3> QED BY <1>1, <3>1, <3>2
  <2>4. CASE ConnectionLost(s) \/ EndGathered(s) \/ EndGoesOn(s)
    <3>1. UNCHANGED <<child, offers, binds>>
      BY <2>4 DEF ConnectionLost, EndGathered, EndGoesOn, treeVars
    <3>2. \A u \in Subs : sub'[u].state = "held" => sub[u].state = "held"
      BY <1>2, <2>1, <2>4 DEF ConnectionLost, EndGathered, EndGoesOn
    <3> QED BY <1>1, <3>1, <3>2
  <2> QED BY <2>2, <2>3, <2>4
<1>4. CASE BindNext
  <2>1. UNCHANGED <<child, offers, sub>>
    BY <1>4 DEF BindNext, Bind, Release, ReleaseReplies, treeVars
  <2>2. ASSUME NEW s \in Sessions, NEW r \in Refs, Bind(s, r)
        PROVE  GoneChildHoldsNothing'
    BY <2>1, <2>2, SourceAssumption DEF TypeOK, GoneChildHoldsNothing, Bind, Present, InTree
  <2>3. ASSUME NEW s \in Sessions, NEW r \in Refs, Release(s, r)
        PROVE  GoneChildHoldsNothing'
    <3>1. \A t \in Refs : binds'[t] \subseteq binds[t]  BY <2>3 DEF TypeOK, Release
    <3> QED BY <1>1, <2>1, <3>1
  <2>4. ASSUME NEW q \in releases, ReleaseReplies(q)
        PROVE  GoneChildHoldsNothing'
    BY <1>1, <2>1, <2>4 DEF ReleaseReplies
  <2> QED BY <1>4, <2>2, <2>3, <2>4 DEF BindNext
<1>5. CASE CommandNext
  <2>1. UNCHANGED <<child, offers, binds, sub>>
    BY <1>5 DEF CommandNext, Execute, SequenceStarts, SequenceAdvances, SequenceStops,
       SequenceUnwinds, RunUnit, RunUnitGone, UnitEnds, RunEnds, treeVars
  <2> QED BY <1>1, <2>1
<1>6. CASE SubscriptionNext
  <2>1. UNCHANGED <<child, offers, binds>>
    BY <1>6 DEF SubscriptionNext, Subscribe, Unsubscribe, SubscribeReturns, treeVars
  <2>2. ASSUME NEW s \in Sessions, NEW u \in Subs, Subscribe(s, u)
        PROVE  GoneChildHoldsNothing'
    <3>1. \A v \in Subs : sub'[v].state = "held" => sub[v].state = "held"
      BY <2>2 DEF TypeOK, Subscribe
    <3> QED BY <1>1, <2>1, <3>1
  <2>3. ASSUME NEW s \in Sessions, NEW u \in Subs, Unsubscribe(s, u)
        PROVE  GoneChildHoldsNothing'
    BY <1>1, <1>2, <2>1, <2>3 DEF Unsubscribe
  <2>4. ASSUME NEW u \in Subs, NEW ok \in BOOLEAN, SubscribeReturns(u, ok)
        PROVE  GoneChildHoldsNothing'
    <3>1. \A v \in Subs : sub'[v].state = "held" =>
              sub[v].state = "held" \/ (v = u /\ InTree(SubRef[u]))
      BY <2>4 DEF TypeOK, SubscribeReturns
    <3> QED BY <2>1, <3>1, SourceAssumption DEF GoneChildHoldsNothing, InTree
  <2> QED BY <1>6, <2>2, <2>3, <2>4 DEF SubscriptionNext
<1>7. CASE ChildNext
  <2>1. ASSUME NEW k \in Children, AddChild(k) \/ Rediscover(k) \/ DetachChild(k)
        PROVE  GoneChildHoldsNothing'
    <3>1. UNCHANGED <<binds, sub>>
      BY <2>1 DEF AddChild, Rediscover, DetachChild
    <3>2. ASSUME NEW l \in Children, child'[l] = "down"
          PROVE  child[l] = "down" /\ offers'[l] = offers[l]
      BY <2>1, <3>2 DEF TypeOK, AddChild, Rediscover, DetachChild
    <3> QED BY <1>1, <3>1, <3>2
  <2>2. ASSUME NEW k \in Children, RemoveChild(k)
        PROVE  GoneChildHoldsNothing'
    <3>1. UNCHANGED offers /\ \A l \in Children : l # k => child'[l] = child[l]
      BY <2>2 DEF TypeOK, RemoveChild
    <3>2. \A r \in Refs : binds'[r] = IF r \in offers[k] THEN {} ELSE binds[r]
      BY <2>2 DEF RemoveChild
    <3>3. \A u \in Subs : sub'[u].state = "held" =>
              sub[u].state = "held" /\ SourceOf[SubRef[u]] # k
      BY <2>2 DEF RemoveChild, Pop, Over
    <3> QED BY <3>1, <3>2, <3>3 DEF TypeOK, GoneChildHoldsNothing
  <2> QED BY <1>7, <2>1, <2>2 DEF ChildNext
<1>8. CASE UNCHANGED vars  BY <1>1, <1>8 DEF vars
<1> QED BY <1>3, <1>4, <1>5, <1>6, <1>7, <1>8 DEF Next

\* A child engine that is gone leaves no bind and no subscription, for any tree of children.
THEOREM GoneChildLeavesNothing == Spec => []GoneChildHoldsNothing
<1>1. Init => GoneChildHoldsNothing
  BY SourceAssumption DEF Init, GoneChildHoldsNothing, NoSub
<1> QED BY <1>1, GoneChildStep, TypeCorrect, PTL DEF Spec

-----------------------------------------------------------------------------
(* Sessions that close *)

LEMMA PopEffect ==
    ASSUME TypeOK, NEW us, Pop(us), NEW u \in Subs
    PROVE  /\ sub'[u].session = sub[u].session
           /\ sub'[u].state = IF u \in us THEN "ended" ELSE sub[u].state
  BY DEF Pop, Over

\* What the loop over the subscriptions does: it ends some of them, and the session is
\* closed only with none of the list left.
LEMMA EndSubscriptionsEffect ==
    ASSUME TypeOK, NEW s \in Sessions, NEW mine \in SUBSET Subs, NEW closing \in BOOLEAN,
           EndSubscriptions(s, mine, closing)
    PROVE  /\ \A t \in Sessions : t # s => sess'[t] = sess[t] /\ ends'[t] = ends[t]
           /\ ~closing => sess' = sess
           /\ closing => sess'[s] \in {"ending", "closed", "stuck"}
           /\ \A u \in Subs :
                 /\ sub'[u].session = sub[u].session
                 /\ \/ sub'[u].state = sub[u].state
                    \/ u \in mine /\ sub[u].state = "held" /\ sub'[u].state = "ended"
           /\ closing /\ sess'[s] = "ending" =>
                 /\ ends'[s].phase = "unsub"
                 /\ \A u \in mine : sub'[u].state = "held" => u \in ends'[s].mine
           /\ closing /\ sess'[s] = "closed" => \A u \in mine : sub'[u].state = "ended"
<1>1. CASE UnsubscribeWaits(s, mine, closing)
  <2>1. PICK u \in mine, us \in SUBSET mine :
          /\ sub[u].state = "held" /\ \A v \in us : sub[v].state = "held"
          /\ Pop(us \cup {u})
          /\ ends' = [ends EXCEPT ![s] =
                [phase |-> "unsub", waits |-> {}, mine |-> mine \ (us \cup {u})]]
          /\ sess' = IF closing THEN [sess EXCEPT ![s] = "ending"] ELSE sess
    BY <1>1 DEF UnsubscribeWaits
  <2>2. \A v \in Subs :
           /\ sub'[v].session = sub[v].session
           /\ sub'[v].state = IF v \in us \cup {u} THEN "ended" ELSE sub[v].state
    BY <2>1, PopEffect
  <2>3. /\ \A t \in Sessions : t # s => sess'[t] = sess[t] /\ ends'[t] = ends[t]
        /\ ends'[s].phase = "unsub" /\ ends'[s].mine = mine \ (us \cup {u})
        /\ ~closing => sess' = sess
        /\ closing => sess'[s] = "ending"
    BY <2>1 DEF TypeOK
  <2>4. \A v \in Subs :
           /\ sub'[v].session = sub[v].session
           /\ \/ sub'[v].state = sub[v].state
              \/ v \in mine /\ sub[v].state = "held" /\ sub'[v].state = "ended"
    BY <2>1, <2>2
  <2>5. \A v \in mine : sub'[v].state = "held" => v \in ends'[s].mine
    BY <2>2, <2>3
  <2>6. sess'[s] = "ending" => sess'[s] # "closed"  OBVIOUS
  <2> QED BY <2>3, <2>4, <2>5, <2>6
<1>2. CASE UnsubscribeEnds(s, mine, closing)
  <2>1. \A v \in Subs :
           /\ sub'[v].session = sub[v].session
           /\ sub'[v].state = IF v \in mine THEN "ended" ELSE sub[v].state
    BY <1>2, PopEffect DEF UnsubscribeEnds
  <2>2. /\ \A t \in Sessions : t # s => sess'[t] = sess[t] /\ ends'[t] = ends[t]
        /\ ~closing => sess' = sess
        /\ closing => sess'[s] = "closed"
        /\ \A u \in mine : sub[u].state = "held"
    BY <1>2 DEF TypeOK, UnsubscribeEnds
  <2>3. /\ \A v \in Subs :
              /\ sub'[v].session = sub[v].session
              /\ \/ sub'[v].state = sub[v].state
                 \/ v \in mine /\ sub[v].state = "held" /\ sub'[v].state = "ended"
        /\ \A v \in mine : sub'[v].state = "ended"
    BY <2>1, <2>2
  <2>4. sess'[s] = "closed" => sess'[s] # "ending"  OBVIOUS
  <2> QED BY <2>2, <2>3, <2>4
<1>3. CASE UnsubscribeFails(s, mine, closing)
  <2>1. PICK us \in SUBSET {u \in mine : sub[u].state = "held" /\ ~Waits(u)} : Pop(us)
    BY <1>3 DEF UnsubscribeFails
  <2>2. \A v \in Subs :
           /\ sub'[v].session = sub[v].session
           /\ sub'[v].state = IF v \in us THEN "ended" ELSE sub[v].state
    BY <2>1, PopEffect
  <2>3. /\ \A t \in Sessions : t # s => sess'[t] = sess[t] /\ ends'[t] = ends[t]
        /\ ~closing => sess' = sess
        /\ closing => sess'[s] = "stuck"
    BY <1>3 DEF TypeOK, UnsubscribeFails
  <2>4. \A v \in Subs :
           /\ sub'[v].session = sub[v].session
           /\ \/ sub'[v].state = sub[v].state
              \/ v \in mine /\ sub[v].state = "held" /\ sub'[v].state = "ended"
    BY <2>1, <2>2
  <2>5. sess'[s] = "stuck" => sess'[s] # "closed" /\ sess'[s] # "ending"  OBVIOUS
  <2> QED BY <2>3, <2>4, <2>5
<1> QED BY <1>1, <1>2, <1>3 DEF EndSubscriptions

\* Steps that end no session, open no request for a subscription and leave every other
\* subscription with its session.
LEMMA EndFrame ==
    ASSUME TypeOK, EndInv, UNCHANGED <<sess, ends>>,
           \A s \in Sessions : sess[s] = "closed" => \A r \in Refs : s \notin binds'[r],
           \A u \in Subs : /\ sub'[u].session = sub[u].session
                           /\ \/ sub'[u].state = sub[u].state
                              \/ sub[u].state \in {"asking", "held"} /\ sub'[u].state = "ended"
                              \/ sub[u].state = "asking" /\ sub'[u].state = "held",
           \A e \in Execs : \/ seq'[e] = seq[e] /\ owner'[e] = owner[e]
                            \/ /\ seq[e] \in {"created", "running", "cancelled"}
                               /\ seq'[e] \in {"running", "done"} /\ owner'[e] = owner[e]
                            \/ /\ seq'[e] = "created" /\ owner'[e] \in Sessions
                               /\ sess[owner'[e]] = "open"
    PROVE  EndInv'
<1>1. AskersOpen'
  BY DEF TypeOK, EndInv, AskersOpen, SubRecords
<1>2. CancelledAwaited'
  BY DEF EndInv, CancelledAwaited
<1>3. ClosingListsAll'
  BY DEF EndInv, ClosingListsAll, AskersOpen, SubsOf
<1>4. ClosedLeavesNothing'
  BY DEF EndInv, ClosedLeavesNothing, AskersOpen
<1> QED BY <1>1, <1>2, <1>3, <1>4 DEF EndInv

\* The rest of _end_session, once no sequence of the session is left to wait for.
LEMMA EndLoopCloses ==
    ASSUME TypeOK, OwnersConnected, EndInv, NEW s \in Sessions, NEW mine \in SUBSET Subs,
           NEW closing \in BOOLEAN, EndSubscriptions(s, mine, closing),
           closing => SubsOf(s) \subseteq mine /\ sess[s] \in {"closing", "ending"},
           ~closing => sess[s] # "ending",
           UNCHANGED owner,
           \A r \in Refs : /\ binds'[r] \subseteq binds[r]
                           /\ closing => s \notin binds'[r],
           \A e \in Execs : seq'[e] = seq[e],
           \A e \in Execs : owner[e] = s => seq[e] # "cancelled",
           \A e \in Execs : owner[e] = s /\ closing => seq[e] \in {"unused", "done"}
    PROVE  EndInv'
<1>1. /\ \A t \in Sessions : t # s => sess'[t] = sess[t] /\ ends'[t] = ends[t]
      /\ \A u \in Subs :
            /\ sub'[u].session = sub[u].session
            /\ \/ sub'[u].state = sub[u].state
               \/ u \in mine /\ sub[u].state = "held" /\ sub'[u].state = "ended"
      /\ ~closing => sess' = sess
      /\ closing => sess'[s] \in {"ending", "closed", "stuck"}
      /\ closing /\ sess'[s] = "ending" =>
            /\ ends'[s].phase = "unsub"
            /\ \A u \in mine : sub'[u].state = "held" => u \in ends'[s].mine
      /\ closing /\ sess'[s] = "closed" => \A u \in mine : sub'[u].state = "ended"
  BY EndSubscriptionsEffect
<1>2. \A u \in Subs : /\ sub'[u].state = "asking" => sub[u].state = "asking"
                      /\ sub'[u].state = "unused" <=> sub[u].state = "unused"
                      /\ sub'[u].state = "held" => sub[u].state = "held"
  BY <1>1
<1>3. AskersOpen'
  <2>1. ASSUME NEW u \in Subs, sub'[u].state = "asking"
        PROVE  sess'[sub'[u].session] = "open"
    <3>1. /\ sub'[u].session = sub[u].session /\ sub[u].session \in Sessions
          /\ sess[sub[u].session] = "open"
      BY <1>1, <1>2, <2>1 DEF EndInv, AskersOpen
    <3>2. CASE closing  BY <1>1, <3>1, <3>2
    <3>3. CASE ~closing  BY <1>1, <3>1, <3>3
    <3> QED BY <3>2, <3>3
  <2> QED BY <1>1, <1>2, <2>1 DEF EndInv, AskersOpen
<1>4. CancelledAwaited'
  <2>1. ASSUME NEW e \in Execs, seq'[e] = "cancelled"
        PROVE  ends'[owner[e]].phase = "gather" /\ e \in ends'[owner[e]].waits
    <3>a. seq'[e] = seq[e]  OBVIOUS
    <3>b. seq[e] = "cancelled"  BY <2>1, <3>a
    <3>1. seq[e] = "cancelled" /\ owner[e] # s  BY <3>b
    <3>2. /\ ends[owner[e]].phase = "gather" /\ e \in ends[owner[e]].waits
      BY <3>1 DEF EndInv, CancelledAwaited
    <3>3. owner[e] \in Sessions  BY <3>b DEF OwnersConnected
    <3> QED BY <1>1, <3>1, <3>2, <3>3
  <2> QED BY <2>1 DEF EndInv, CancelledAwaited
<1>5. ClosingListsAll'
  <2> SUFFICES ASSUME NEW t \in Sessions, sess'[t] = "ending"
               PROVE  \/ ends'[t].phase = "gather"
                      \/ ends'[t].phase = "unsub" /\ SubsOf(t)' \subseteq ends'[t].mine
    BY DEF ClosingListsAll
  <2>1. CASE t # s
    BY <1>1, <1>2, <2>1 DEF EndInv, ClosingListsAll, SubsOf
  <2>2. CASE t = s
    <3>1. closing  BY <1>1, <2>2
    <3>2. /\ ends'[s].phase = "unsub"
          /\ \A u \in mine : sub'[u].state = "held" => u \in ends'[s].mine
      BY <1>1, <2>2, <3>1
    <3>3. SubsOf(s)' \subseteq mine  BY <1>1, <1>2, <3>1 DEF SubsOf
    <3> QED BY <2>2, <3>2, <3>3 DEF SubsOf
  <2> QED BY <2>1, <2>2
<1>6. ClosedLeavesNothing'
  <2> SUFFICES ASSUME NEW t \in Sessions, sess'[t] = "closed"
               PROVE  /\ \A r \in Refs : t \notin binds'[r]
                      /\ \A u \in Subs : sub'[u].session = t => sub'[u].state = "ended"
                      /\ \A e \in Execs : owner'[e] = t => seq'[e] = "done"
    BY DEF ClosedLeavesNothing
  <2>1. CASE sess[t] = "closed"
    BY <1>1, <2>1 DEF EndInv, ClosedLeavesNothing
  <2>2. CASE sess[t] # "closed"
    <3>1. t = s /\ closing  BY <1>1, <2>2
    <3>2. \A u \in mine : sub'[u].state = "ended"  BY <1>1, <3>1
    <3>3. ASSUME NEW u \in Subs, sub'[u].session = s
          PROVE  sub'[u].state = "ended"
      <4>1. sub[u].session = s  BY <1>1, <3>3
      <4>2. sub[u].state # "unused"
        BY <4>1, SessionAssumption DEF EndInv, AskersOpen
      <4>3. sub[u].state # "asking"
        BY <3>1, <4>1 DEF EndInv, AskersOpen
      <4>4. CASE sub[u].state = "held"
        BY <3>1, <3>2, <4>1, <4>4 DEF SubsOf
      <4>5. CASE sub[u].state = "ended"
        BY <1>1, <4>5
      <4> QED BY <4>2, <4>3, <4>4, <4>5 DEF TypeOK, SubRecords
    <3>4. ASSUME NEW e \in Execs, owner'[e] = s
          PROVE  seq'[e] = "done"
      BY <3>1, <3>4, SessionAssumption DEF EndInv, CancelledAwaited
    <3> QED BY <3>1, <3>3, <3>4
  <2> QED BY <2>1, <2>2
<1> QED BY <1>3, <1>4, <1>5, <1>6 DEF EndInv

LEMMA EndInvInit == Init => EndInv
<1> SUFFICES ASSUME Init  PROVE EndInv  OBVIOUS
<1>1. AskersOpen  BY DEF Init, AskersOpen, NoSub
<1>2. CancelledAwaited  BY DEF Init, CancelledAwaited
<1>3. ClosingListsAll /\ ClosedLeavesNothing
  BY DEF Init, ClosingListsAll, ClosedLeavesNothing
<1> QED BY <1>1, <1>2, <1>3 DEF EndInv

\* _end_session starts: either it waits for sequences, or it reaches its loop at once.
LEMMA EndBegins ==
    ASSUME TypeOK, SessionInv, EndInv, NEW s \in Sessions, NEW closing \in BOOLEAN,
           EndSession(s, closing), UNCHANGED owner, ends[s].phase = "idle",
           sess[s] = IF closing THEN "closing" ELSE "open"
    PROVE  EndInv'
<1>1. /\ \A r \in Refs : binds'[r] = binds[r] \ {s}
      /\ \A e \in Execs : seq'[e] =
            IF e \notin SequencesOf(s) THEN seq[e]
            ELSE IF seq[e] = "created" THEN "done" ELSE "cancelled"
  BY DEF EndSession, BeginEnd, CancelSequences
<1>2. \A e \in Execs : owner[e] = s => seq[e] # "cancelled"
  BY DEF EndInv, CancelledAwaited
<1>3. CASE SequencesOf(s) = {}
  <2>1. EndSubscriptions(s, SubsOf(s), closing)  BY <1>3 DEF EndSession
  <2>2. \A e \in Execs : seq'[e] = seq[e]  BY <1>1, <1>3
  <2>3. \A e \in Execs : owner[e] = s => seq[e] \in {"unused", "done"}
    BY <1>2, <1>3 DEF SequencesOf, TypeOK, SequenceStates
  <2>4. SubsOf(s) \in SUBSET Subs  BY DEF SubsOf
  <2> QED BY <1>1, <1>2, <2>1, <2>2, <2>3, <2>4, EndLoopCloses DEF SessionInv
<1>4. CASE SequencesOf(s) # {}
  <2>1. /\ sub' = sub
        /\ ends'[s].phase = "gather" /\ ends'[s].waits = SequencesOf(s)
        /\ \A t \in Sessions : t # s => sess'[t] = sess[t] /\ ends'[t] = ends[t]
        /\ sess'[s] \in {"open", "ending"} /\ (closing <=> sess'[s] = "ending")
    <3>1. \/ SequencesOf(s) # {} /\ sub' = sub
            /\ ends' = [ends EXCEPT ![s] =
                 [phase |-> "gather", waits |-> SequencesOf(s), mine |-> {}]]
            /\ sess' = IF closing THEN [sess EXCEPT ![s] = "ending"] ELSE sess
      BY <1>4 DEF EndSession
    <3> QED BY <3>1 DEF TypeOK
  <2>2. AskersOpen'
    BY <2>1 DEF EndInv, AskersOpen
  <2>3. CancelledAwaited'
    <3>1. ASSUME NEW e \in Execs, seq'[e] = "cancelled"
          PROVE  ends'[owner[e]].phase = "gather" /\ e \in ends'[owner[e]].waits
      <4>1. CASE e \in SequencesOf(s)  BY <2>1, <4>1 DEF SequencesOf
      <4>2. CASE e \notin SequencesOf(s)
        <5>1. seq[e] = "cancelled"  BY <1>1, <3>1, <4>2
        <5>2. owner[e] # s /\ owner[e] \in Sessions
          BY <1>2, <5>1 DEF SessionInv, OwnersConnected
        <5> QED BY <2>1, <5>1, <5>2 DEF EndInv, CancelledAwaited
      <4> QED BY <4>1, <4>2
    <3>2. \A e \in Execs : seq'[e] = "unused" => seq[e] = "unused"  BY <1>1
    <3> QED BY <3>1, <3>2 DEF EndInv, CancelledAwaited
  <2>4. ClosingListsAll'
    BY <2>1 DEF EndInv, ClosingListsAll, SubsOf
  <2>5. ClosedLeavesNothing'
    <3>1. ASSUME NEW t \in Sessions, sess'[t] = "closed"
          PROVE  t # s /\ sess[t] = "closed"
      BY <2>1, <3>1
    <3>2. \A e \in Execs : owner[e] # s => seq'[e] = seq[e]  BY <1>1 DEF SequencesOf
    <3> QED BY <1>1, <2>1, <3>1, <3>2 DEF EndInv, ClosedLeavesNothing
  <2> QED BY <2>2, <2>3, <2>4, <2>5 DEF EndInv
<1> QED BY <1>3, <1>4

LEMMA EndInvSessions ==
    ASSUME TypeOK, SessionInv, EndInv, SessionNext
    PROVE  EndInv'
<1> PICK s \in Sessions :
      \/ OpenSession(s) \/ Connect(s) \/ Disconnect(s) \/ ConnectionLost(s) \/ Close(s)
      \/ EndGathered(s) \/ EndGoesOn(s)
  BY DEF SessionNext
<1>1. CASE OpenSession(s)
  BY <1>1 DEF OpenSession, TypeOK, EndInv, AskersOpen, CancelledAwaited, ClosingListsAll,
     ClosedLeavesNothing, SubsOf, cmdVars
<1>2. CASE Connect(s)
  BY <1>2 DEF Connect, EndInv, AskersOpen, CancelledAwaited, ClosingListsAll,
     ClosedLeavesNothing, SubsOf, cmdVars
<1>3. CASE Disconnect(s)
  <2>1. /\ EndSession(s, FALSE) /\ UNCHANGED owner /\ ends[s].phase = "idle"
        /\ sess[s] = "open"
    BY <1>3 DEF Disconnect, Serves
  <2> QED BY <2>1, EndBegins
<1>4. CASE ConnectionLost(s)
  <2> DEFINE asked == {u \in Subs : sub[u].state = "asking" /\ sub[u].session = s}
  <2>1. Pop(asked)  BY <1>4 DEF ConnectionLost
  <2>2. \A u \in Subs : /\ sub'[u].session = sub[u].session
                        /\ sub'[u].state = IF u \in asked THEN "ended" ELSE sub[u].state
    BY <2>1, PopEffect
  <2>3. /\ sess[s] = "open" /\ sess'[s] = "closing"
        /\ \A t \in Sessions : t # s => sess'[t] = sess[t] /\ ends'[t] = ends[t]
        /\ ends[s].phase = "gather" => ends'[s] = ends[s]
        /\ UNCHANGED <<binds, seq, owner>>
    BY <1>4 DEF ConnectionLost, TypeOK, cmdVars
  <2>4. AskersOpen'  BY <2>2, <2>3 DEF EndInv, AskersOpen
  <2>5. CancelledAwaited'
    BY <2>3 DEF SessionInv, OwnersConnected, EndInv, CancelledAwaited
  <2>6. ClosingListsAll'  BY <2>2, <2>3 DEF EndInv, ClosingListsAll, SubsOf
  <2>7. ClosedLeavesNothing'  BY <2>2, <2>3 DEF EndInv, ClosedLeavesNothing
  <2> QED BY <2>4, <2>5, <2>6, <2>7 DEF EndInv
<1>5. CASE Close(s)
  <2>1. /\ EndSession(s, TRUE) /\ UNCHANGED owner /\ ends[s].phase = "idle"
        /\ sess[s] = "closing"
    BY <1>5 DEF Close
  <2> QED BY <2>1, EndBegins
<1>a. sess[s] = "ending" => /\ \A r \in Refs : s \notin binds[r]
                            /\ \A e \in Execs : owner[e] = s =>
                                   seq[e] \in {"unused", "cancelled", "done"}
  BY DEF SessionInv, ConnectedIsServed, HoldersConnected, OwnersConnected, TypeOK,
     SequenceStates
<1>6. CASE EndGathered(s)
  <2>1. UNCHANGED <<binds, owner, seq>>  BY <1>6 DEF EndGathered, cmdVars
  <2>2. \A e \in Execs : owner[e] = s => seq[e] # "cancelled"
    BY <1>6 DEF EndGathered, EndInv, CancelledAwaited
  <2>3. CASE sess[s] = "closing"
    <3>1. /\ UNCHANGED <<sess, sub>>
          /\ \A t \in Sessions : t # s => ends'[t] = ends[t]
      BY <1>6, <2>3 DEF EndGathered, TypeOK
    <3>2. CancelledAwaited'
      BY <2>1, <2>2, <3>1 DEF SessionInv, OwnersConnected, EndInv, CancelledAwaited
    <3>3. AskersOpen'  BY <3>1 DEF EndInv, AskersOpen
    <3>4. ClosingListsAll'  BY <2>3, <3>1 DEF EndInv, ClosingListsAll, SubsOf
    <3>5. ClosedLeavesNothing'  BY <2>1, <3>1 DEF EndInv, ClosedLeavesNothing
    <3> QED BY <3>2, <3>3, <3>4, <3>5 DEF EndInv
  <2>4. CASE sess[s] # "closing"
    <3> DEFINE closing == sess[s] = "ending"
    <3>1. EndSubscriptions(s, SubsOf(s), closing)
      BY <1>6, <2>4 DEF EndGathered
    <3>2. SubsOf(s) \in SUBSET Subs /\ closing \in BOOLEAN  BY DEF SubsOf
    <3>3. \A r \in Refs : /\ binds'[r] \subseteq binds[r]
                          /\ closing => s \notin binds'[r]
      BY <1>a, <2>1
    <3>4. \A e \in Execs : seq'[e] = seq[e]  BY <2>1
    <3>5. \A e \in Execs : owner[e] = s /\ closing => seq[e] \in {"unused", "done"}
      BY <1>a, <2>2
    <3>6. /\ closing => SubsOf(s) \subseteq SubsOf(s) /\ sess[s] \in {"closing", "ending"}
          /\ ~closing => sess[s] # "ending"
      OBVIOUS
    <3>7. UNCHANGED owner  BY <2>1
    <3> HIDE DEF closing
    <3> QED BY <2>2, <3>1, <3>2, <3>3, <3>4, <3>5, <3>6, <3>7, EndLoopCloses DEF SessionInv
  <2> QED BY <2>3, <2>4
<1>7. CASE EndGoesOn(s)
  <2> DEFINE closing == sess[s] = "ending"
             mine == ends[s].mine
  <2>1. UNCHANGED <<binds, owner, seq>>  BY <1>7 DEF EndGoesOn, cmdVars
  <2>2. \A e \in Execs : owner[e] = s => seq[e] # "cancelled"
    BY <1>7 DEF EndGoesOn, EndInv, CancelledAwaited
  <2>3. EndSubscriptions(s, mine, closing)  BY <1>7 DEF EndGoesOn
  <2>4. mine \in SUBSET Subs /\ closing \in BOOLEAN  BY DEF TypeOK, EndRecords
  <2>5. closing => SubsOf(s) \subseteq mine
    BY <1>7 DEF EndGoesOn, EndInv, ClosingListsAll
  <2>6. \A r \in Refs : /\ binds'[r] \subseteq binds[r]
                        /\ closing => s \notin binds'[r]
    BY <1>a, <2>1
  <2>7. \A e \in Execs : owner[e] = s /\ closing => seq[e] \in {"unused", "done"}
    BY <1>a, <2>2
  <2>8. \A e \in Execs : seq'[e] = seq[e]  BY <2>1
  <2>9. closing <=> sess[s] = "ending"  OBVIOUS
  <2>10. UNCHANGED owner  BY <2>1
  <2> HIDE DEF closing, mine
  <2> QED BY <2>2, <2>3, <2>4, <2>5, <2>6, <2>7, <2>8, <2>9, <2>10, EndLoopCloses
          DEF SessionInv
<1> QED BY <1>1, <1>2, <1>3, <1>4, <1>5, <1>6, <1>7

LEMMA EndInvRest ==
    ASSUME TypeOK, SessionInv, EndInv, BindNext \/ CommandNext \/ SubscriptionNext \/ ChildNext
    PROVE  EndInv'
<1> DEFINE BindsFree ==
             \A s \in Sessions : sess[s] = "closed" => \A r \in Refs : s \notin binds'[r]
           SubsGoOn == \A u \in Subs :
             /\ sub'[u].session = sub[u].session
             /\ \/ sub'[u].state = sub[u].state
                \/ sub[u].state \in {"asking", "held"} /\ sub'[u].state = "ended"
                \/ sub[u].state = "asking" /\ sub'[u].state = "held"
           SequencesGoOn == \A e \in Execs :
             \/ seq'[e] = seq[e] /\ owner'[e] = owner[e]
             \/ /\ seq[e] \in {"created", "running", "cancelled"}
                /\ seq'[e] \in {"running", "done"} /\ owner'[e] = owner[e]
             \/ /\ seq'[e] = "created" /\ owner'[e] \in Sessions
                /\ sess[owner'[e]] = "open"
<1>a. UNCHANGED binds => BindsFree  BY DEF EndInv, ClosedLeavesNothing
<1>b. UNCHANGED sub => SubsGoOn  OBVIOUS
<1>c. UNCHANGED <<seq, owner>> => SequencesGoOn  OBVIOUS
<1>d. UNCHANGED <<sess, ends>> /\ BindsFree /\ SubsGoOn /\ SequencesGoOn => EndInv'
  BY EndFrame
<1>1. CASE BindNext
  <2>1. UNCHANGED <<sess, ends, sub, seq, owner>>
    BY <1>1 DEF BindNext, Bind, Release, ReleaseReplies, sessVars, cmdVars
  <2>2. BindsFree
    <3>1. ASSUME NEW s \in Sessions, NEW r \in Refs, Bind(s, r)  PROVE BindsFree
      BY <3>1 DEF Bind, Serves, TypeOK, EndInv, ClosedLeavesNothing
    <3>2. ASSUME NEW s \in Sessions, NEW r \in Refs, Release(s, r)  PROVE BindsFree
      BY <3>2 DEF Release, TypeOK, EndInv, ClosedLeavesNothing
    <3>3. ASSUME NEW q \in releases, ReleaseReplies(q)  PROVE BindsFree
      BY <3>3, <1>a DEF ReleaseReplies
    <3> QED BY <1>1, <3>1, <3>2, <3>3 DEF BindNext
  <2> HIDE DEF BindsFree, SubsGoOn, SequencesGoOn
  <2> QED BY <1>b, <1>c, <1>d, <2>1, <2>2
<1>2. CASE CommandNext
  <2>1. UNCHANGED <<sess, ends, sub, binds>>
    BY <1>2 DEF CommandNext, Execute, SequenceStarts, SequenceAdvances, SequenceStops,
       SequenceUnwinds, RunUnit, RunUnitGone, UnitEnds, RunEnds, sessVars
  <2>2. SequencesGoOn
    <3>1. ASSUME NEW s \in Sessions, NEW e \in Execs, Execute(s, e)  PROVE SequencesGoOn
      BY <3>1 DEF Execute, Serves, TypeOK
    <3>2. ASSUME NEW e \in Execs, SequenceStarts(e)  PROVE SequencesGoOn
      BY <3>2 DEF SequenceStarts, TypeOK
    <3>3. ASSUME NEW e \in Execs, SequenceAdvances(e)  PROVE SequencesGoOn
      BY <3>3 DEF SequenceAdvances, TypeOK
    <3>4. ASSUME NEW e \in Execs, SequenceStops(e)  PROVE SequencesGoOn
      BY <3>4 DEF SequenceStops, TypeOK
    <3>5. ASSUME NEW e \in Execs, SequenceUnwinds(e)  PROVE SequencesGoOn
      BY <3>5 DEF SequenceUnwinds, TypeOK
    <3>6. ASSUME NEW c \in Commands, RunUnit(c) \/ RunUnitGone(c) \/ UnitEnds(c)
          PROVE  SequencesGoOn
      BY <3>6 DEF RunUnit, RunUnitGone, UnitEnds
    <3>7. ASSUME NEW c \in Commands, NEW st, RunEnds(c, st)  PROVE SequencesGoOn
      BY <3>7 DEF RunEnds
    <3> HIDE DEF SequencesGoOn
    <3> QED BY <1>2, <3>1, <3>2, <3>3, <3>4, <3>5, <3>6, <3>7 DEF CommandNext
  <2> HIDE DEF BindsFree, SubsGoOn, SequencesGoOn
  <2> QED BY <1>a, <1>b, <1>d, <2>1, <2>2
<1>3. CASE SubscriptionNext
  <2>1. UNCHANGED <<sess, ends, binds, seq, owner>>
    BY <1>3 DEF SubscriptionNext, Subscribe, SubscribeReturns, Unsubscribe, sessVars, cmdVars
  <2>2. ASSUME NEW s \in Sessions, NEW u \in Subs, Subscribe(s, u)
        PROVE  EndInv'
    <3>1. /\ sess[s] = "open" /\ sub'[u].session = s /\ sub'[u].state = "asking"
          /\ sub[u].state = "unused"
          /\ \A v \in Subs : v # u => sub'[v] = sub[v]
      BY <2>2 DEF Subscribe, Serves, TypeOK
    <3>2. AskersOpen'  BY <2>1, <3>1 DEF EndInv, AskersOpen
    <3>3. CancelledAwaited'  BY <2>1 DEF EndInv, CancelledAwaited
    <3>4. ClosingListsAll'  BY <2>1, <3>1 DEF EndInv, ClosingListsAll, SubsOf
    <3>5. ClosedLeavesNothing'  BY <2>1, <3>1 DEF EndInv, ClosedLeavesNothing
    <3> QED BY <3>2, <3>3, <3>4, <3>5 DEF EndInv
  <2>3. ASSUME NEW u \in Subs, NEW ok \in BOOLEAN, SubscribeReturns(u, ok)
        PROVE  SubsGoOn
    BY <2>3 DEF SubscribeReturns, TypeOK
  <2>4. ASSUME NEW s \in Sessions, NEW u \in Subs, Unsubscribe(s, u)
        PROVE  SubsGoOn
    BY <2>4, PopEffect DEF Unsubscribe, SubsOf
  <2> HIDE DEF BindsFree, SubsGoOn, SequencesGoOn
  <2> QED BY <1>3, <1>a, <1>c, <1>d, <2>1, <2>2, <2>3, <2>4 DEF SubscriptionNext
<1>4. CASE ChildNext
  <2>1. UNCHANGED <<sess, ends, seq, owner>>
    BY <1>4 DEF ChildNext, AddChild, Rediscover, DetachChild, RemoveChild, sessVars, cmdVars
  <2>2. ASSUME NEW k \in Children, AddChild(k) \/ Rediscover(k) \/ DetachChild(k)
        PROVE  BindsFree /\ SubsGoOn
    BY <2>2, <1>a DEF AddChild, Rediscover, DetachChild
  <2>3. ASSUME NEW k \in Children, RemoveChild(k)
        PROVE  BindsFree /\ SubsGoOn
    <3>1. BindsFree  BY <2>3 DEF RemoveChild, EndInv, ClosedLeavesNothing
    <3>2. SubsGoOn  BY <2>3, PopEffect DEF RemoveChild
    <3> QED BY <3>1, <3>2
  <2> HIDE DEF BindsFree, SubsGoOn, SequencesGoOn
  <2> QED BY <1>4, <1>c, <1>d, <2>1, <2>2, <2>3 DEF ChildNext
<1> QED BY <1>1, <1>2, <1>3, <1>4

LEMMA EndInvStep == TypeOK /\ SessionInv /\ EndInv /\ [Next]_vars => EndInv'
<1> SUFFICES ASSUME TypeOK, SessionInv, EndInv, [Next]_vars  PROVE EndInv'  OBVIOUS
<1>1. CASE UNCHANGED vars
  BY <1>1 DEF vars, EndInv, AskersOpen, CancelledAwaited, ClosingListsAll,
     ClosedLeavesNothing, SubsOf
<1> QED BY <1>1, EndInvSessions, EndInvRest DEF Next

\* A session close_session forgot leaves no bind, subscription, request or sequence behind,
\* however disconnects, closing connections, replies and leaving children interleave.
THEOREM ClosedSessionsLeaveNothing == Spec => []ClosedLeavesNothing
<1>1. EndInv => ClosedLeavesNothing  BY DEF EndInv
<1> QED BY <1>1, EndInvInit, EndInvStep, TypeCorrect, SessionInvHolds, PTL DEF Spec

\* An actuator has one holder, and component_status shows exactly who bind would refuse.
THEOREM BindingIsExclusive == Spec => []BindsExclusive
BY ActuationIsExclusive, BusyIsExact, PTL DEF BindsExclusive

\* Whatever interrupts a sequence, its commands run in order, all end and are announced once.
THEOREM SequencesAreKept == Spec => []SequencesKept
BY CommandsRunInOrder, SequencesEndWhole, CompletionsAreTold, PTL DEF SequencesKept

\* Children that left and sessions that closed leave no binds and no subscriptions.
THEOREM NothingOutlives == Spec => []GoneLeavesNothing
BY GoneChildLeavesNothing, ClosedSessionsLeaveNothing, PTL DEF GoneLeavesNothing

-----------------------------------------------------------------------------
(* Commands that others share *)

\* With one connection per child, a command that has not ended names that connection, and a
\* run goes over it.
SourceInv ==
    /\ \A k \in Children : gen[k] <= 1 /\ (child[k] # "down" => gen[k] = 1)
    /\ \A c \in Commands :
           seq[Plan[c].exec] # "unused" /\ status[c] = "none" => source[c] = 1
    /\ \A c \in Commands : task[c] # "none" => ranOn[c] = 1

LEMMA SourceInvInit == Init => SourceInv
  BY PlanType DEF Init, SourceInv

\* A component that is reached is reached over the first connection.
LEMMA PresentOnFirst ==
    ASSUME TypeOK, SourceInv, NEW c \in Commands, Present(RefOf(c))
    PROVE  GenOf(RefOf(c)) = 1
  BY PlanAssumption, SourceAssumption DEF SourceInv, Present, InTree, GenOf, RefOf

\* A step that sends nothing and gives no command a source.
LEMMA SourceFrame ==
    ASSUME SourceInv, UNCHANGED <<child, gen, ranOn>>,
           \A c \in Commands : seq'[Plan[c].exec] # "unused" /\ status'[c] = "none" =>
               seq[Plan[c].exec] # "unused" /\ status[c] = "none" /\ source'[c] = source[c],
           \A c \in Commands : task'[c] # "none" => task[c] # "none"
    PROVE  SourceInv'
  BY DEF SourceInv

\* The end of commands takes the source of the skipped ones, which have all ended then.
LEMMA CompletingKeepsSource ==
    ASSUME TypeOK, CommandInv, SourceInv, NEW cs, NEW st \in [Commands -> Statuses],
           Complete(cs, st), NEW skip \in SUBSET cs,
           source' = [d \in Commands |-> IF d \in skip THEN 0 ELSE source[d]],
           UNCHANGED <<child, gen, ranOn>>,
           \A e \in Execs : seq'[e] # "unused" => seq[e] # "unused",
           \A c \in Commands : task'[c] # "none" => task[c] # "none"
    PROVE  SourceInv'
<1>1. ASSUME NEW c \in Commands, seq'[Plan[c].exec] # "unused", status'[c] = "none"
      PROVE  seq[Plan[c].exec] # "unused" /\ status[c] = "none" /\ source'[c] = source[c]
  <2>1. seq[Plan[c].exec] # "unused"  BY <1>1, PlanType
  <2>2. status[c] = "none" /\ ~(c \in cs /\ c \in table)
    <3>1. st[c] # "none"  BY DEF Statuses
    <3> QED BY <1>1, <3>1, CompleteEffect
  <2>3. c \in table  BY <2>1, <2>2 DEF CommandInv, UnfinishedKept
  <2> QED BY <2>1, <2>2, <2>3
<1> QED BY <1>1, SourceFrame

LEMMA SourceInvCommands ==
    ASSUME TypeOK, CommandInv, SourceInv, CommandNext
    PROVE  SourceInv'
<1> DEFINE aborts == [d \in Commands |-> "ABORT"]
<1>a. aborts \in [Commands -> Statuses]  BY DEF Statuses
<1>1. ASSUME NEW s \in Sessions, NEW e \in Execs, Execute(s, e)  PROVE SourceInv'
  <2>1. \A c \in CmdsOf(e) : source'[c] = 1
    BY <1>1, PresentOnFirst DEF Execute, CmdsOf
  <2>2. \A c \in Commands : c \notin CmdsOf(e) =>
            source'[c] = source[c] /\ seq'[Plan[c].exec] = seq[Plan[c].exec]
    BY <1>1, PlanType DEF TypeOK, Execute, CmdsOf
  <2>3. UNCHANGED <<status, task, ranOn, child, gen>>  BY <1>1 DEF Execute, treeVars
  <2> QED BY <2>1, <2>2, <2>3 DEF SourceInv
<1>2. ASSUME NEW e \in Execs, SequenceStarts(e) \/ SequenceAdvances(e)  PROVE SourceInv'
  <2>1. /\ UNCHANGED <<status, source, task, ranOn, child, gen>>
        /\ \A f \in Execs : seq'[f] # "unused" => seq[f] # "unused"
    BY <1>2 DEF TypeOK, SequenceStarts, SequenceAdvances, treeVars
  <2> QED BY <2>1, SourceFrame, PlanType
<1>3. ASSUME NEW e \in Execs, SequenceStops(e) \/ SequenceUnwinds(e)  PROVE SourceInv'
  <2>1. PICK skip : /\ Complete(skip, aborts)
                    /\ source' = [d \in Commands |-> IF d \in skip THEN 0 ELSE source[d]]
    BY <1>3 DEF SequenceStops, SequenceUnwinds
  <2>2. /\ UNCHANGED <<task, ranOn, child, gen>>
        /\ \A f \in Execs : seq'[f] # "unused" => seq[f] # "unused"
    BY <1>3 DEF TypeOK, SequenceStops, SequenceUnwinds, treeVars
  <2> HIDE DEF aborts
  <2> QED BY <1>a, <2>1, <2>2, CompletingKeepsSource
<1>4. ASSUME NEW c \in Commands, RunUnit(c)  PROVE SourceInv'
  <2>1. ranOn' = [ranOn EXCEPT ![c] = 1] /\ task' = [task EXCEPT ![c] = "running"]
    BY <1>4, PresentOnFirst DEF RunUnit
  <2>2. UNCHANGED <<seq, status, source, child, gen>>  BY <1>4 DEF RunUnit, treeVars
  <2> QED BY <2>1, <2>2 DEF SourceInv, TypeOK
<1>5. ASSUME NEW c \in Commands, RunUnitGone(c)  PROVE SourceInv'
  <2> DEFINE st == [d \in Commands |-> IF d = c THEN "ERROR" ELSE "ABORT"]
             rest == Skipped({d \in Commands : After(d, c)})
  <2>1. /\ Complete({c} \cup rest, st)
        /\ source' = [d \in Commands |-> IF d \in rest THEN 0 ELSE source[d]]
        /\ UNCHANGED <<seq, task, ranOn, child, gen>>
    BY <1>5 DEF RunUnitGone, treeVars
  <2>2. st \in [Commands -> Statuses]  BY DEF Statuses
  <2> HIDE DEF st, rest
  <2> QED BY <2>1, <2>2, CompletingKeepsSource
<1>6. ASSUME NEW c \in Commands, UnitEnds(c)  PROVE SourceInv'
  <2> DEFINE st == [d \in Commands |-> IF d = c THEN Ended(c) ELSE "ABORT"]
             rest == RestOf(c)
  <2>1. /\ Complete({c} \cup rest, st)
        /\ source' = [d \in Commands |-> IF d \in rest THEN 0 ELSE source[d]]
        /\ UNCHANGED <<seq, ranOn, child, gen>>
        /\ \A d \in Commands : task'[d] # "none" => task[d] # "none"
    BY <1>6 DEF TypeOK, UnitEnds, treeVars
  <2>2. Ended(c) \in Statuses  BY <1>6 DEF UnitEnds, Ended, Statuses
  <2>3. st \in [Commands -> Statuses]  BY <2>2 DEF Statuses
  <2> HIDE DEF st, rest
  <2> QED BY <2>1, <2>3, CompletingKeepsSource
<1>7. ASSUME NEW c \in Commands, NEW st, RunEnds(c, st)  PROVE SourceInv'
  <2>1. /\ UNCHANGED <<seq, status, source, ranOn, child, gen>>
        /\ \A d \in Commands : task'[d] # "none" => task[d] # "none"
    BY <1>7 DEF TypeOK, RunEnds, treeVars
  <2> QED BY <2>1, SourceFrame
<1> HIDE DEF aborts
<1> QED BY <1>1, <1>2, <1>3, <1>4, <1>5, <1>6, <1>7 DEF CommandNext

\* No child connects twice.
ConnectsOnce == \A k \in Children : MaxGen[k] <= 1

LEMMA SourceInvStep ==
    ASSUME ConnectsOnce, TypeOK, CommandInv, SourceInv, [Next]_vars
    PROVE  SourceInv'
<1>1. CASE UNCHANGED vars  BY <1>1, SourceFrame DEF vars
<1>2. CASE SessionNext
  <2>1. /\ UNCHANGED <<status, source, ranOn, child, gen>>
        /\ \A e \in Execs : seq'[e] # "unused" => seq[e] # "unused"
        /\ \A c \in Commands : task'[c] # "none" => task[c] # "none"
    BY <1>2 DEF SessionNext, OpenSession, Connect, Disconnect, ConnectionLost, Close,
       EndGathered, EndGoesOn, EndSession, BeginEnd, CancelSequences, SequencesOf, CancelRuns,
       cmdVars, treeVars
  <2> QED BY <2>1, SourceFrame, PlanType
<1>3. CASE BindNext \/ SubscriptionNext
  <2>1. /\ UNCHANGED <<seq, status, source, ranOn, child, gen>>
        /\ \A c \in Commands : task'[c] # "none" => task[c] # "none"
    BY <1>3 DEF BindNext, Bind, Release, ReleaseReplies, CancelRuns, SubscriptionNext,
       Subscribe, Unsubscribe, SubscribeReturns, cmdVars, treeVars
  <2> QED BY <2>1, SourceFrame
<1>4. CASE ChildNext
  <2>1. UNCHANGED <<seq, status, source, task, ranOn>>
    BY <1>4 DEF ChildNext, AddChild, Rediscover, DetachChild, RemoveChild, cmdVars
  <2>2. \A k \in Children : gen'[k] <= 1 /\ (child'[k] # "down" => gen'[k] = 1)
    <3>1. ASSUME NEW k \in Children, AddChild(k)
          PROVE  gen[k] = 0 /\ gen' = [gen EXCEPT ![k] = 1] /\ child' = [child EXCEPT ![k] = "up"]
      <4>1. gen[k] \in Nat /\ gen[k] < MaxGen[k]  BY <3>1 DEF TypeOK, AddChild
      <4>2. gen[k] = 0  BY <4>1, KeptAssumption DEF ConnectsOnce
      <4> QED BY <3>1, <4>2 DEF AddChild
    <3>2. ASSUME NEW k \in Children, Rediscover(k) \/ DetachChild(k) \/ RemoveChild(k)
          PROVE  UNCHANGED gen /\ \A l \in Children : child'[l] # "down" => child[l] # "down"
      BY <3>2 DEF TypeOK, Rediscover, DetachChild, RemoveChild
    <3> QED BY <1>4, <3>1, <3>2 DEF ChildNext, SourceInv, TypeOK
  <2> QED BY <2>1, <2>2 DEF SourceInv
<1> QED BY <1>1, <1>2, <1>3, <1>4, SourceInvCommands DEF Next

\* A running command of a set being cancelled whose child others hold is among the spared.
LEMMA RunningSpared ==
    ASSUME TypeOK, CommandInv, SourceInv, NEW s, NEW cs, NEW b, NEW c \in cs, c \in Commands,
           task[c] = "running", SourceOf[RefOf(c)] # Local, b[RefOf(c)] \ {s} # {}
    PROVE  c \in Spared(s, cs, b)
<1>1. status[c] = "none" /\ seq[Plan[c].exec] # "unused"  BY DEF CommandInv, RunsAtItem
<1>2. source[c] = 1 /\ ranOn[c] = 1  BY <1>1 DEF SourceInv
<1> QED BY <1>1, <1>2 DEF Spared, Live

\* A command on a child that another session holds too is kept running there when its session
\* releases the component, disconnects or is gone, as long as children connect once.
THEOREM SharedCommandsRunOn == ConnectsOnce => (Spec => SharedRunsOn)
<1> SUFFICES ASSUME ConnectsOnce  PROVE Spec => SharedRunsOn  OBVIOUS
<1> DEFINE RunsOn == \A c \in Commands :
               /\ task[c] = "running" /\ task'[c] = "cancelling"
               /\ SourceOf[RefOf(c)] # Local
               /\ binds'[RefOf(c)] \ {OwnerOf(c)} # {}
               => c \in kept'
<1>1. ASSUME TypeOK, CommandInv, SourceInv, [Next]_vars  PROVE RunsOn
  <2> SUFFICES ASSUME NEW c \in Commands, task[c] = "running", task'[c] = "cancelling",
                      SourceOf[RefOf(c)] # Local, binds'[RefOf(c)] \ {OwnerOf(c)} # {}
               PROVE  c \in kept'
    OBVIOUS
  <2>a. c \in table  BY <1>1 DEF CommandInv, RunsAtItem, UnfinishedKept
  <2>1. ASSUME NEW s \in Sessions, BeginEnd(s)  PROVE c \in kept'
    <3>1. OwnerOf(c) = s
      BY <2>1 DEF BeginEnd, CancelSequences, CancelRuns, SequencesOf, OwnerOf
    <3>2. PICK cs : cs = {d \in table : OwnerOf(d) = s}  OBVIOUS
    <3>3. PICK b : b = [r \in Refs |-> binds[r] \ {s}]  OBVIOUS
    <3>4. binds' = b /\ kept' = kept \cup Spared(s, cs, b)
      BY <2>1, <3>2, <3>3 DEF BeginEnd
    <3>5. c \in cs  BY <2>a, <3>1, <3>2
    <3> QED BY <1>1, <3>1, <3>4, <3>5, RunningSpared
  <2>2. ASSUME NEW s \in Sessions, NEW r \in Refs, Release(s, r)  PROVE c \in kept'
    <3>2. PICK cs : cs = {d \in table : OwnerOf(d) = s /\ RefOf(d) = r /\ Live(d)}  OBVIOUS
    <3>3. PICK b : b = [binds EXCEPT ![r] = @ \ {s}]  OBVIOUS
    <3>4. binds' = b /\ kept' = kept \cup Spared(s, cs, b) /\ task' = CancelRuns(cs)
      BY <2>2, <3>2, <3>3 DEF Release
    <3>5. c \in cs /\ OwnerOf(c) = s  BY <3>2, <3>4 DEF CancelRuns
    <3> QED BY <1>1, <3>4, <3>5, RunningSpared
  <2>3. CASE UNCHANGED task  BY <2>3
  <2>4. CASE SessionNext
    BY <2>1, <2>3, <2>4 DEF SessionNext, OpenSession, Connect, Disconnect, ConnectionLost, Close,
       EndGathered, EndGoesOn, EndSession, cmdVars
  <2>5. CASE BindNext
    BY <2>2, <2>3, <2>5 DEF BindNext, Bind, ReleaseReplies, cmdVars
  <2>6. CASE CommandNext
    <3>1. ASSUME NEW d \in Commands, RunUnit(d) \/ UnitEnds(d)  PROVE FALSE
      BY <1>1, <3>1 DEF TypeOK, RunUnit, UnitEnds
    <3>2. ASSUME NEW d \in Commands, NEW st \in RunResults \cup {"ERROR", "CANCELLED"},
                 RunEnds(d, st)
          PROVE  FALSE
      <4>1. st # "cancelling"  BY PlanAssumption DEF Statuses
      <4> QED BY <1>1, <3>2, <4>1 DEF TypeOK, RunEnds
    <3> QED BY <2>3, <2>6, <3>1, <3>2 DEF CommandNext, Execute, SequenceStarts,
            SequenceAdvances, SequenceStops, SequenceUnwinds, RunUnitGone
  <2>7. CASE SubscriptionNext \/ ChildNext
    BY <2>3, <2>7 DEF SubscriptionNext, Subscribe, Unsubscribe, SubscribeReturns, ChildNext,
       AddChild, Rediscover, DetachChild, RemoveChild, cmdVars
  <2>8. CASE UNCHANGED vars  BY <2>3, <2>8 DEF vars
  <2> QED BY <1>1, <2>4, <2>5, <2>6, <2>7, <2>8 DEF Next
<1>2. TypeOK /\ CommandInv /\ SourceInv /\ [Next]_vars => [RunsOn]_vars  BY <1>1
<1>3. TypeOK /\ CommandInv /\ SourceInv /\ [Next]_vars => SourceInv'  BY SourceInvStep
<1> HIDE DEF RunsOn
<1>4. Spec => [][RunsOn]_vars
  BY <1>2, <1>3, SourceInvInit, TypeCorrect, CommandInvHolds, PTL DEF Spec
<1> QED BY <1>4 DEF SharedRunsOn, RunsOn
=============================================================================
