----------------------------- MODULE LinkProofs -----------------------------
(***************************************************************************)
(* The safety properties of AdapterLink, proved for any adapters, profiles *)
(* and bounds.                                                             *)
(***************************************************************************)
EXTENDS AdapterLink, SequenceTheorems, TLAPS

\* A connection has an adapter as long as its handler runs, which is at least as long as it
\* is open.
HandlerInv ==
    /\ profile \in [Adapters -> SUBSET EngineIds]
    /\ \A k \in Conns :
          /\ handler[k] = "none" => wire[k] \in {"free", "closed"}
          /\ handler[k] \in {"none", "connect"} => inbox[k] = <<>> /\ asks[k] = 0
          /\ handler[k] # "none" => wire[k] # "free" /\ peer[k] # None
          /\ handler[k] = "serving" => k \in children

LinkInv == TypeOK /\ IdsUnique /\ ChildHasHandler /\ HandlerInv

\* On a connection that went past its connect the message that came last is as new as the
\* profile, and a profile the gateway does not know yet is asked for or on its way.
Current(k) ==
    wire[k] = "open" /\ handler[k] # "connect" =>
        /\ inbox[k] # <<>> => inbox[k][Len(inbox[k])] \in {Changed, profile[peer[k]]}
        /\ handler[k] # "refusing" /\ k \notin missed =>
               asks[k] > 0 \/ inbox[k] # <<>> \/ ids[k] = profile[peer[k]]

\* While an adapter pauses its short connections are one ahead of its delay; the pause makes
\* up for that, unless the delay is as long as it may be.
DelayInv ==
    \A a \in Adapters :
        /\ client[a] = "pausing" => shorts[a] <= delay[a] + 1
        /\ client[a] \in {"connecting", "serving"} => shorts[a] <= delay[a] \/ delay[a] = MAX_DELAY

-----------------------------------------------------------------------------
(* Type correctness, and the handlers of connections *)

\* What is left of a queue is a queue, with the same last message.
LEMMA TailKeepsLast ==
    ASSUME NEW S, NEW s \in Seq(S), s # <<>>
    PROVE  /\ Head(s) \in S /\ Tail(s) \in Seq(S)
           /\ Tail(s) # <<>> => Tail(s)[Len(Tail(s))] = s[Len(s)]
           /\ Tail(s) = <<>> => Head(s) = s[Len(s)]
<1>1. Head(s) \in S /\ Tail(s) \in Seq(S) /\ Len(Tail(s)) = Len(s) - 1
  BY HeadTailProperties
<1>2. Len(s) \in Nat \ {0} /\ Head(s) = s[1]
  BY EmptySeq
<1>3. \A i \in 1..Len(Tail(s)) : Tail(s)[i] = s[i + 1]
  BY HeadTailProperties
<1>4. Tail(s) = <<>> => Len(s) = 1
  BY <1>1, <1>2
<1>5. Tail(s) # <<>> => Len(Tail(s)) \in 1..Len(Tail(s))
  BY <1>1, <1>2, EmptySeq
<1> QED BY <1>1, <1>2, <1>3, <1>4, <1>5

\* The programs begin with nothing connected.
LEMMA InitLink == Init => LinkInv
<1> SUFFICES ASSUME Init  PROVE LinkInv
  OBVIOUS
<1>1. TypeOK
  BY BoundAssumption DEF Init, TypeOK
<1>2. IdsUnique /\ ChildHasHandler /\ HandlerInv
  BY DEF Init, IdsUnique, ChildHasHandler, HandlerInv
<1> QED BY <1>1, <1>2 DEF LinkInv

\* Every step keeps the types, and the handlers in step with the connections.
LEMMA LinkStep ==
    ASSUME LinkInv, [Next]_vars
    PROVE  LinkInv'
<1> USE ProfilesAssumption, BoundAssumption, NoneAssumption
    DEF LinkInv, TypeOK, IdsUnique, ChildHasHandler, HandlerInv, serverVars, clientVars, linkVars,
        boundVars
<1>1. ASSUME NEW a \in Adapters, Connects(a)  PROVE LinkInv'
  <2> DEFINE k == CHOOSE k \in Conns : wire[k] = "free"
  <2>1. k \in Conns /\ wire[k] = "free"  BY <1>1 DEF Connects
  <2> HIDE DEF k
  <2>2. /\ wire' = [wire EXCEPT ![k] = "open"] /\ peer' = [peer EXCEPT ![k] = a]
        /\ handler' = [handler EXCEPT ![k] = "connect"]
        /\ conn' = [conn EXCEPT ![a] = k]
    BY <1>1 DEF Connects, k
  <2>3. handler[k] = "none" /\ k \notin children  BY <2>1
  <2>4. TypeOK'  BY <1>1, <2>1, <2>2 DEF Connects
  <2>5. IdsUnique' /\ ChildHasHandler' /\ HandlerInv'  BY <1>1, <2>1, <2>2, <2>3 DEF Connects
  <2> QED BY <2>4, <2>5
<1>2. ASSUME NEW a \in Adapters, BecomesStable(a)  PROVE LinkInv'
  BY <1>2 DEF BecomesStable
<1>3. ASSUME NEW a \in Adapters, ServeEnds(a)  PROVE LinkInv'
  <2>1. conn[a] \in Conns /\ None \notin Conns  BY <1>3 DEF ServeEnds
  <2>2. TypeOK'  BY <1>3, <2>1 DEF ServeEnds, LetGo, DelayAfter, Min
  <2>3. IdsUnique' /\ ChildHasHandler' /\ HandlerInv'  BY <1>3, <2>1 DEF ServeEnds, LetGo
  <2> QED BY <2>2, <2>3
<1>4. ASSUME NEW a \in Adapters, PauseEnds(a)  PROVE LinkInv'
  BY <1>4 DEF PauseEnds, Min
<1>5. ASSUME NEW a \in Adapters, ClientStops(a)  PROVE LinkInv'
  BY <1>5 DEF ClientStops, LetGo
<1>6. ASSUME NEW a \in Adapters, NEW p \in Profiles[a], ProfileChanges(a, p)  PROVE LinkInv'
  <2>1. p \in SUBSET EngineIds /\ Changed \in SUBSET EngineIds  BY DEF Changed
  <2>2. TypeOK'
    <3> HIDE DEF Changed
    <3> QED BY <1>6, <2>1 DEF ProfileChanges
  <2>3. IdsUnique' /\ ChildHasHandler' /\ HandlerInv'  BY <1>6, <2>1 DEF ProfileChanges
  <2> QED BY <2>2, <2>3
<1>7. ASSUME NEW k \in Conns, AdapterAnswers(k)  PROVE LinkInv'
  <2>1. handler[k] # "none"  BY <1>7 DEF AdapterAnswers
  <2>2. peer[k] \in Adapters  BY <2>1
  <2>3. profile[peer[k]] \in SUBSET EngineIds  BY <2>2
  <2>4. TypeOK'  BY <1>7, <2>3, SMTT(30) DEF AdapterAnswers
  <2>5. IdsUnique' /\ ChildHasHandler' /\ HandlerInv'  BY <1>7, <2>3 DEF AdapterAnswers
  <2> QED BY <2>4, <2>5
<1>8. ASSUME NEW k \in Conns, DiscoverConnected(k)  PROVE LinkInv'
  BY <1>8 DEF DiscoverConnected
<1>9. ASSUME NEW k \in Conns, DiscoverFails(k)  PROVE LinkInv'
  BY <1>9 DEF DiscoverFails
<1>10. ASSUME NEW k \in Conns, ProfileApplied(k)  PROVE LinkInv'
  <2>1. Head(inbox[k]) \in SUBSET EngineIds /\ Tail(inbox[k]) \in Seq(SUBSET EngineIds)
    BY <1>10, TailKeepsLast DEF ProfileApplied
  <2>2. TypeOK'  BY <1>10, <2>1 DEF ProfileApplied
  <2>3. IdsUnique'  BY <1>10, <2>1, SMTT(30) DEF ProfileApplied, IdsFree
  <2>4. ChildHasHandler' /\ HandlerInv'  BY <1>10, <2>1 DEF ProfileApplied
  <2> QED BY <2>2, <2>3, <2>4
<1>11. ASSUME NEW k \in Conns, ProfileRefused(k)  PROVE LinkInv'
  BY <1>11, TailKeepsLast, SMTT(30) DEF ProfileRefused
<1>12. ASSUME NEW k \in Conns, Rediscovers(k)  PROVE LinkInv'
  <2>1. Tail(inbox[k]) \in Seq(SUBSET EngineIds)  BY <1>12, TailKeepsLast DEF Rediscovers
  <2>2. TypeOK'  BY <1>12, <2>1, SMTT(30) DEF Rediscovers
  <2>3. IdsUnique' /\ ChildHasHandler' /\ HandlerInv'  BY <1>12, <2>1 DEF Rediscovers
  <2> QED BY <2>2, <2>3
<1>13. ASSUME NEW k \in Conns, RediscoverFails(k)  PROVE LinkInv'
  BY <1>13, SMTT(30) DEF RediscoverFails
<1>14. ASSUME NEW k \in Conns, RefuseCloses(k)  PROVE LinkInv'
  BY <1>14 DEF RefuseCloses
<1>15. ASSUME NEW k \in Conns, HandlerEnds(k)  PROVE LinkInv'
  BY <1>15 DEF HandlerEnds
<1>16. ASSUME NEW k \in Conns, Breaks(k)  PROVE LinkInv'
  BY <1>16 DEF Breaks
<1>17. ASSUME GatewayStops  PROVE LinkInv'
  BY <1>17 DEF GatewayStops
<1>18. ASSUME GatewayStopped  PROVE LinkInv'
  BY <1>18 DEF GatewayStopped
<1>19. ASSUME GatewayStarts  PROVE LinkInv'
  BY <1>19 DEF GatewayStarts
<1>20. CASE UNCHANGED vars
  BY <1>20 DEF vars
<1> HIDE DEF LinkInv
<1> QED
  BY <1>1, <1>2, <1>3, <1>4, <1>5, <1>6, <1>7, <1>8, <1>9, <1>10, <1>11, <1>12, <1>13, <1>14,
     <1>15, <1>16, <1>17, <1>18, <1>19, <1>20 DEF Next

LEMMA LinkInvariant == Spec => []LinkInv
BY InitLink, LinkStep, PTL DEF Spec

\* The engines of the tree have different ids, whichever adapters come, go, change their
\* profiles or come back at once, and every child has a handler that will remove it.
THEOREM TreeIsSound == Spec => []TreeSound
<1>1. LinkInv => TreeSound  BY DEF LinkInv, TreeSound
<1> QED BY <1>1, LinkInvariant, PTL

-----------------------------------------------------------------------------
(* The profiles the gateway knows *)

\* Every step keeps what is known of every profile, or on its way.
LEMMA CurrentStep ==
    ASSUME LinkInv, [Next]_vars, NEW k \in Conns, Current(k)
    PROVE  Current(k)'
<1> USE DEF Current, serverVars, clientVars, linkVars, boundVars
<1>1. ASSUME NEW a \in Adapters, Connects(a)  PROVE Current(k)'
  BY <1>1 DEF Connects, LinkInv, TypeOK
<1>2. ASSUME NEW a \in Adapters, BecomesStable(a)  PROVE Current(k)'
  BY <1>2 DEF BecomesStable
<1>3. ASSUME NEW a \in Adapters, ServeEnds(a)  PROVE Current(k)'
  BY <1>3 DEF ServeEnds, LetGo, LinkInv, TypeOK
<1>4. ASSUME NEW a \in Adapters, PauseEnds(a)  PROVE Current(k)'
  BY <1>4 DEF PauseEnds
<1>5. ASSUME NEW a \in Adapters, ClientStops(a)  PROVE Current(k)'
  BY <1>5 DEF ClientStops, LetGo, LinkInv, TypeOK
<1>6. ASSUME NEW a \in Adapters, NEW p \in Profiles[a], ProfileChanges(a, p)  PROVE Current(k)'
  <2>1. CASE peer[k] = a /\ wire[k] = "open" /\ handler[k] \notin {"none", "connect"}
    <3>1. inbox'[k] = Append(inbox[k], Changed)  BY <1>6, <2>1 DEF ProfileChanges
    <3>2. inbox[k] \in Seq(SUBSET EngineIds) /\ Changed \in SUBSET EngineIds
      BY DEF LinkInv, TypeOK, Changed
    <3>3. inbox'[k] # <<>> /\ inbox'[k][Len(inbox'[k])] = Changed
      BY <3>1, <3>2, AppendProperties
    <3> QED BY <3>3
  <2>2. CASE peer[k] # a /\ wire[k] = "open"
    BY <1>6, <2>2 DEF ProfileChanges, LinkInv, HandlerInv
  <2> QED BY <1>6, <2>1, <2>2 DEF ProfileChanges, LinkInv, HandlerInv
<1>7. ASSUME NEW j \in Conns, AdapterAnswers(j)  PROVE Current(k)'
  BY <1>7 DEF AdapterAnswers, LinkInv, TypeOK
<1>8. ASSUME NEW j \in Conns, DiscoverConnected(j)  PROVE Current(k)'
  BY <1>8 DEF DiscoverConnected, LinkInv, TypeOK, HandlerInv
<1>9. ASSUME NEW j \in Conns, DiscoverFails(j)  PROVE Current(k)'
  BY <1>9 DEF DiscoverFails, LinkInv, TypeOK, HandlerInv
<1>10. ASSUME NEW j \in Conns, ProfileApplied(j)  PROVE Current(k)'
  <2>1. CASE j = k
    <3>1. inbox'[k] = Tail(inbox[k]) /\ inbox[k] # <<>> /\ inbox[k] \in Seq(SUBSET EngineIds)
      BY <1>10, <2>1 DEF ProfileApplied, LinkInv, TypeOK
    <3>2. /\ Tail(inbox[k]) # <<>> => Tail(inbox[k])[Len(Tail(inbox[k]))] = inbox[k][Len(inbox[k])]
          /\ Tail(inbox[k]) = <<>> => Head(inbox[k]) = inbox[k][Len(inbox[k])]
      BY <3>1, TailKeepsLast
    <3>3. ids'[k] = Head(inbox[k]) /\ Head(inbox[k]) # Changed
      BY <1>10, <2>1 DEF ProfileApplied, LinkInv, TypeOK
    <3>4. CASE handler[k] = "connect"
      BY <1>10, <2>1, <3>4 DEF ProfileApplied, LinkInv, HandlerInv
    <3>5. CASE handler[k] # "connect"
      BY <1>10, <2>1, <3>1, <3>2, <3>3, <3>5 DEF ProfileApplied, LinkInv, TypeOK
    <3> QED BY <3>4, <3>5
  <2>2. CASE j # k
    BY <1>10, <2>2 DEF ProfileApplied, LinkInv, TypeOK
  <2> QED BY <2>1, <2>2
<1>11. ASSUME NEW j \in Conns, ProfileRefused(j)  PROVE Current(k)'
  <2>1. CASE j = k
    <3>1. inbox'[k] = Tail(inbox[k]) /\ inbox[k] # <<>> /\ inbox[k] \in Seq(SUBSET EngineIds)
      BY <1>11, <2>1 DEF ProfileRefused, LinkInv, TypeOK
    <3>2. /\ Tail(inbox[k]) # <<>> => Tail(inbox[k])[Len(Tail(inbox[k]))] = inbox[k][Len(inbox[k])]
          /\ Tail(inbox[k]) = <<>> => Head(inbox[k]) = inbox[k][Len(inbox[k])]
      BY <3>1, TailKeepsLast
    <3>3. handler'[k] = "refusing" /\ wire' = wire /\ profile' = profile /\ peer' = peer
      BY <1>11, <2>1 DEF ProfileRefused, LinkInv, TypeOK
    <3>4. handler[k] # "connect"
      BY <1>11, <2>1 DEF ProfileRefused, LinkInv, HandlerInv
    <3> QED BY <3>1, <3>2, <3>3, <3>4
  <2>2. CASE j # k
    BY <1>11, <2>2 DEF ProfileRefused, LinkInv, TypeOK
  <2> QED BY <2>1, <2>2
<1>12. ASSUME NEW j \in Conns, Rediscovers(j)  PROVE Current(k)'
  BY <1>12, TailKeepsLast DEF Rediscovers, LinkInv, TypeOK
<1>13. ASSUME NEW j \in Conns, RediscoverFails(j)  PROVE Current(k)'
  BY <1>13 DEF RediscoverFails, LinkInv, TypeOK
<1>14. ASSUME NEW j \in Conns, RefuseCloses(j)  PROVE Current(k)'
  BY <1>14 DEF RefuseCloses, LinkInv, TypeOK
<1>15. ASSUME NEW j \in Conns, HandlerEnds(j)  PROVE Current(k)'
  BY <1>15 DEF HandlerEnds, LinkInv, TypeOK
<1>16. ASSUME NEW j \in Conns, Breaks(j)  PROVE Current(k)'
  BY <1>16 DEF Breaks, LinkInv, TypeOK
<1>17. ASSUME GatewayStops  PROVE Current(k)'
  BY <1>17 DEF GatewayStops
<1>18. ASSUME GatewayStopped  PROVE Current(k)'
  BY <1>18 DEF GatewayStopped
<1>19. ASSUME GatewayStarts  PROVE Current(k)'
  BY <1>19 DEF GatewayStarts
<1>20. CASE UNCHANGED vars
  BY <1>20 DEF vars
<1> HIDE DEF Current
<1> QED
  BY <1>1, <1>2, <1>3, <1>4, <1>5, <1>6, <1>7, <1>8, <1>9, <1>10, <1>11, <1>12, <1>13, <1>14,
     <1>15, <1>16, <1>17, <1>18, <1>19, <1>20 DEF Next

\* Once no request for the profile of a child is open and nothing it sent waits to be read, the
\* gateway has its profile as it is now, unless a request for it failed.
THEOREM ProfilesAreCurrent == Spec => []ProfileCurrent
<1> DEFINE CurrentInv == \A k \in Conns : Current(k)
<1>1. Init => CurrentInv
  BY DEF Init, Current
<1>2. LinkInv /\ CurrentInv /\ [Next]_vars => CurrentInv'
  BY CurrentStep
<1>3. LinkInv /\ CurrentInv => ProfileCurrent
  <2> SUFFICES ASSUME LinkInv, CurrentInv, NEW k \in children, wire[k] = "open",
                      handler[k] = "serving", k \notin missed, asks[k] = 0, inbox[k] = <<>>
               PROVE  ids[k] = profile[peer[k]]
    BY DEF ProfileCurrent
  <2>1. Current(k)  BY DEF LinkInv, TypeOK
  <2> QED BY <2>1 DEF Current
<1> QED BY <1>1, <1>2, <1>3, LinkInvariant, PTL DEF Spec

-----------------------------------------------------------------------------
(* The pauses *)

\* Every step keeps the delay as far as the connections that did not last.
LEMMA DelayStep ==
    ASSUME LinkInv, DelayInv, [Next]_vars
    PROVE  DelayInv'
<1> USE BoundAssumption DEF DelayInv, LinkInv, TypeOK, serverVars, clientVars, linkVars, boundVars
<1>1. ASSUME NEW a \in Adapters, Connects(a)  PROVE DelayInv'
  BY <1>1 DEF Connects
<1>2. ASSUME NEW a \in Adapters, BecomesStable(a)  PROVE DelayInv'
  BY <1>2 DEF BecomesStable
<1>3. ASSUME NEW a \in Adapters, ServeEnds(a)  PROVE DelayInv'
  BY <1>3 DEF ServeEnds, DelayAfter, Min
<1>4. ASSUME NEW a \in Adapters, PauseEnds(a)  PROVE DelayInv'
  BY <1>4 DEF PauseEnds, Min
<1>5. ASSUME NEW a \in Adapters, ClientStops(a)  PROVE DelayInv'
  BY <1>5 DEF ClientStops
<1>6. CASE UNCHANGED clientVars
  BY <1>6
<1> HIDE DEF DelayInv, LinkInv, TypeOK
<1> QED
  BY <1>1, <1>2, <1>3, <1>4, <1>5, <1>6
  DEF Next, vars, ProfileChanges, AdapterAnswers, DiscoverConnected, DiscoverFails,
      ProfileApplied, ProfileRefused, Rediscovers, RediscoverFails, RefuseCloses, HandlerEnds,
      Breaks, GatewayStops, GatewayStopped, GatewayStarts

\* An adapter that is refused again and again pauses ever longer.
THEOREM RefusedAdaptersBackOff == Spec => []RefusalsBackOff
<1>1. Init => DelayInv  BY DEF Init, DelayInv
<1>2. LinkInv /\ DelayInv /\ [Next]_vars => DelayInv'  BY DelayStep
<1>3. DelayInv => RefusalsBackOff  BY DEF DelayInv, RefusalsBackOff
<1> QED BY <1>1, <1>2, <1>3, LinkInvariant, PTL DEF Spec
=============================================================================
