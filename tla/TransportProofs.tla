--------------------------- MODULE TransportProofs ---------------------------
(***************************************************************************)
(* The safety properties of Transport, proved for any requests, tasks and  *)
(* bounds on the attempts to connect and the interruptions.                *)
(***************************************************************************)
EXTENDS Transport, SequenceTheorems, FiniteSetTheorems, TLAPS

\* The state of a transport says what its attempt to connect and its reader do.
ConnInv ==
    /\ attempt # "none" => reader = 0 /\ gen # 0 /\ state \in {"CONNECTING", "CLOSING"}
    /\ state = "CONNECTED" => reader # 0
    /\ state = "CONNECTING" => attempt # "none"
    /\ state = "CLOSING" => attempt # "none" \/ reader # 0
    /\ state = "DISCONNECTED" => reader = 0

\* A future is as good as its request: only what was interrupted is cancelled, and only what was
\* sent is pending.
FutureInv ==
    /\ \A r \in Calls : future[r] = "cancelled" => interrupt[r] # "none"
    /\ \A r \in pending : future[r] # "none"
    /\ \A r \in Calls : future[r] = "none" => interrupt[r] = "none"

\* The disconnect request is made once, by a client that is up, which is down afterwards.
ByeInv ==
    /\ byes = 0 => future[Bye] = "none" /\ outcome[Bye] = "none"
    /\ byes # 0 => byes = 1 /\ (ending = "calling" \/ client = "down")
    /\ ending # "none" => client # "none"
    /\ ending = "closing" => client = "down" /\ closes[End] # 0
    /\ client # "none" => gen # 0 /\ (gen # 1 \/ attempt = "none")
    /\ client = "down" => reader # 1 \/ ending = "closing"

\* What is told was ahead of nobody, and what a close waits for does not come back.
CloseInv ==
    /\ \A g \in Conns : told[g] = 1 => g <= gen /\ (g = gen => attempt = "none")
    /\ \A k \in Closers \cup {End} :
           /\ closes[k] <= gen
           /\ closes[k] = gen /\ closer[k] = "attempt" =>
                  reader = 0 /\ (attempt = "none" \/ state = "CLOSING")
           /\ closes[k] = gen /\ closer[k] \in {"reader", "done"} => attempt = "none"

TransportInv ==
    /\ TypeOK /\ ConnInv /\ FutureInv /\ NoOrphanWait /\ PendingWaits
    /\ ByeInv /\ CloseInv /\ SocketsOwned /\ CloseToldOnce /\ DisconnectedOnce

-----------------------------------------------------------------------------
(* The replies that come late *)

\* A request whose reply is on its way, on a connection that lasts, is pending, or it timed out,
\* or it is remembered.
ReplyInv ==
    /\ asked \cap replies = {} /\ (reader = 0 => asked \cup replies = {})
    /\ state = "CONNECTED" => \A r \in asked \cup replies :
           /\ future[r] \in {"waiting", "cancelled"}
           /\ \/ r \in pending
              \/ outcome[r] = "timeout"
              \/ \E i \in DOMAIN abandoned : abandoned[i] = r
    /\ \A r \in asked \cup replies : future[r] # "none"

\* The requests that were interrupted, and those that are remembered.
Interrupted == {r \in Calls : interrupt[r] # "none"}
Remembered == {abandoned[i] : i \in DOMAIN abandoned}

\* What is remembered was cancelled, and there is room for all of it.
CountInv ==
    /\ IsFiniteSet(Interrupted) /\ Cardinality(Interrupted) = interrupts
    /\ IsFiniteSet(Remembered) /\ Cardinality(Remembered) = Len(abandoned)
    /\ \A r \in Remembered : interrupt[r] = "cancel" /\ outcome[r] # "none"

LateInv == ReplyInv /\ CountInv /\ FaultsAreLate
-----------------------------------------------------------------------------
LEMMA InitTransport == Init => TransportInv
BY NameAssumption, BoundAssumption
   DEF Init, TransportInv, TypeOK, ConnInv, FutureInv, NoOrphanWait, PendingWaits, ByeInv,
       CloseInv, SocketsOwned, CloseToldOnce, DisconnectedOnce, Calls, Conns

\* A step keeps the types.
LEMMA TypeStep ==
    ASSUME TypeOK, ConnInv, FutureInv, [Next]_vars
    PROVE  TypeOK'
<1> USE BoundAssumption, NameAssumption DEF requestVars, closeVars, clientVars, TypeOK,
        ConnInv, FutureInv, Calls, Conns
<1>0. (reader # 0 \/ attempt # "none" => gen \in Conns) /\ aside \subseteq Conns
  OBVIOUS
<1>1. ASSUME Connect  PROVE TypeOK'
  BY <1>1 DEF Connect
<1>2. ASSUME HandshakeEnds  PROVE TypeOK'
  BY <1>2 DEF HandshakeEnds
<1>3. ASSUME ConnectFails  PROVE TypeOK'
  BY <1>3 DEF ConnectFails
<1>4. ASSUME Connected  PROVE TypeOK'
  <2>1. CASE state = "CLOSING"
    <3>1. aside' = aside \cup {gen} /\ gen \in Conns  BY <1>4, <1>0, <2>1 DEF Connected, ClosedLate
    <3>2. aside' \subseteq Conns  BY ONLY <3>1, <1>0
    <3> QED BY <1>4, <2>1, <3>2 DEF Connected
  <2>2. CASE state # "CLOSING"  BY <1>4, <2>2 DEF Connected
  <2> QED BY <2>1, <2>2
<1>5. ASSUME PeerCloses  PROVE TypeOK'
  BY <1>5 DEF PeerCloses
<1>6. ASSUME Finish  PROVE TypeOK'
  <2>1. pending' \subseteq Calls
        /\ future' \in [Calls -> {"none", "waiting", "result", "lost", "cancelled"}]
    BY <1>6 DEF Finish, FailPending
  <2>2. wire' \in [Conns -> {"none", "open", "closed"}] /\ told' \in [Conns -> Nat]
    BY <1>6 DEF Finish
  <2> QED BY <1>6, <2>1, <2>2 DEF Finish
<1>7. ASSUME NEW r \in Calls, Send(r)  PROVE TypeOK'
  BY <1>7, SMTT(30) DEF Send, SendTo
<1>8. ASSUME NEW r \in Calls, EngineAnswers(r)  PROVE TypeOK'
  BY <1>8 DEF EngineAnswers
<1>9. ASSUME NEW r \in Calls, Reads(r)  PROVE TypeOK'
  <2>1. pending' \subseteq Calls /\ faults' \subseteq Calls /\ replies' \subseteq Calls
        /\ future' \in [Calls -> {"none", "waiting", "result", "lost", "cancelled"}]
    BY <1>9 DEF Reads
  <2> QED BY <1>9, <2>1 DEF Reads
<1>10. ASSUME NEW r \in Calls, Wakes(r)  PROVE TypeOK'
  <2> DEFINE all == Append(abandoned, r)
  <2>1. abandoned \in Seq(Calls) /\ Len(abandoned) <= MAX_ABANDONED_REQUESTS
        /\ MAX_ABANDONED_REQUESTS \in Nat
    OBVIOUS
  <2>2. all \in Seq(Calls) /\ Len(all) = Len(abandoned) + 1 /\ all # <<>> /\ Len(abandoned) \in Nat
    <3>1. \A a \in Seq(Calls) : Append(a, r) \in Seq(Calls) /\ Len(Append(a, r)) = Len(a) + 1
                                /\ Append(a, r) # <<>> /\ Len(a) \in Nat
      BY ONLY r \in Calls, AppendProperties, LenProperties
    <3> QED BY ONLY <2>1, <3>1 DEF all
  <2>3. Tail(all) \in Seq(Calls) /\ Len(Tail(all)) = Len(abandoned)
    BY <2>2, HeadTailProperties
  <2> HIDE DEF all
  <2>4. abandoned' \in {abandoned, all, Tail(all)}
        /\ (abandoned' = all => Len(all) <= MAX_ABANDONED_REQUESTS)
    BY <1>10 DEF Wakes, all
  <2>5. abandoned' \in Seq(Calls) /\ Len(abandoned') <= MAX_ABANDONED_REQUESTS
    BY ONLY <2>1, <2>2, <2>3, <2>4
  <2>6. outcome' \in [Calls -> {"none", "result", "lost", "timeout", "cancel"}]
    BY <1>10 DEF Wakes
  <2> QED BY <1>10, <2>5, <2>6 DEF Wakes
<1>11. ASSUME NEW r \in Calls, NEW how \in {"timeout", "cancel"}, Interrupt(r, how)  PROVE TypeOK'
  BY <1>11, SMTT(30) DEF Interrupt
<1>12. ASSUME NEW k \in Closers \cup {End}, Close(k)  PROVE TypeOK'
  <2>1. pending' \subseteq Calls
        /\ future' \in [Calls -> {"none", "waiting", "result", "lost", "cancelled"}]
    BY <1>12 DEF Close, CloseBy, FailPending
  <2>2. closer' \in [Closers \cup {End} -> {"idle", "attempt", "reader", "done"}]
        /\ closes' \in [Closers \cup {End} -> 0..MaxConns]
    BY <1>12 DEF Close, CloseBy
  <2>3. state' \in {"DISCONNECTED", "CONNECTING", "CONNECTED", "CLOSING"} /\ aside' \subseteq Conns
    <3>1. aside' = aside \/ (aside' = aside \cup {gen} /\ gen \in Conns)  BY <1>0, <1>12 DEF Close, CloseBy
    <3>2. aside' \subseteq Conns  BY ONLY <3>1, <1>0
    <3> QED BY <1>12, <3>2 DEF Close, CloseBy
  <2> QED BY <1>12, <2>1, <2>2, <2>3 DEF Close
<1>13. ASSUME NEW k \in Closers \cup {End}, CloseReturns(k)  PROVE TypeOK'
  BY <1>13 DEF CloseReturns
<1>14. ASSUME NEW g \in Conns, AsideCloses(g)  PROVE TypeOK'
  BY <1>14 DEF AsideCloses
<1>15. ASSUME NEW d \in Leavers, Disconnect(d)  PROVE TypeOK'
  BY <1>15 DEF Disconnect
<1>16. ASSUME EndCalls  PROVE TypeOK'
  BY <1>16, SMTT(30) DEF EndCalls, SendTo
<1>17. ASSUME EndCloses  PROVE TypeOK'
  <2>1. pending' \subseteq Calls
        /\ future' \in [Calls -> {"none", "waiting", "result", "lost", "cancelled"}]
    BY <1>17 DEF EndCloses, CloseBy, FailPending, ClosesAfter
  <2>2. closer' \in [Closers \cup {End} -> {"idle", "attempt", "reader", "done"}]
        /\ closes' \in [Closers \cup {End} -> 0..MaxConns]
    BY <1>17 DEF EndCloses, ClosesAfter, CloseBy
  <2>3. state' \in {"DISCONNECTED", "CONNECTING", "CONNECTED", "CLOSING"} /\ aside' \subseteq Conns
    <3>1. aside' = aside \/ (aside' = aside \cup {gen} /\ gen \in Conns)  BY <1>0, <1>17 DEF EndCloses, ClosesAfter, CloseBy
    <3>2. aside' \subseteq Conns  BY ONLY <3>1, <1>0
    <3> QED BY <1>17, <3>2 DEF EndCloses, ClosesAfter, CloseBy
  <2> QED BY <1>17, <2>1, <2>2, <2>3 DEF EndCloses
<1>18. ASSUME EndReturns  PROVE TypeOK'
  BY <1>18 DEF EndReturns
<1>19. CASE UNCHANGED vars
  BY <1>19 DEF vars
<1> HIDE DEF TypeOK, ConnInv, FutureInv, Calls, Conns
<1> QED
  BY <1>1, <1>2, <1>3, <1>4, <1>5, <1>6, <1>7, <1>8, <1>9, <1>10,
     <1>11, <1>12, <1>13, <1>14, <1>15, <1>16, <1>17, <1>18, <1>19 DEF Next

\* The transport's state moves with its attempt and its reader.
LEMMA ConnStep ==
    ASSUME TypeOK, ConnInv, [Next]_vars
    PROVE  ConnInv'
<1> USE BoundAssumption DEF requestVars, closeVars, clientVars, TypeOK, ConnInv, Conns
<1>1. ASSUME Connect  PROVE ConnInv'
  BY <1>1 DEF Connect
<1>2. ASSUME HandshakeEnds  PROVE ConnInv'
  BY <1>2 DEF HandshakeEnds
<1>3. ASSUME ConnectFails  PROVE ConnInv'
  BY <1>3 DEF ConnectFails
<1>4. ASSUME Connected  PROVE ConnInv'
  BY <1>4 DEF Connected, ClosedLate
<1>5. ASSUME PeerCloses  PROVE ConnInv'
  BY <1>5 DEF PeerCloses
<1>6. ASSUME Finish  PROVE ConnInv'
  BY <1>6 DEF Finish, FailPending
<1>7. ASSUME NEW r \in Calls, Send(r)  PROVE ConnInv'
  BY <1>7 DEF Send, SendTo
<1>8. ASSUME NEW r \in Calls, EngineAnswers(r)  PROVE ConnInv'
  BY <1>8 DEF EngineAnswers
<1>9. ASSUME NEW r \in Calls, Reads(r)  PROVE ConnInv'
  BY <1>9 DEF Reads, IsFault
<1>10. ASSUME NEW r \in Calls, Wakes(r)  PROVE ConnInv'
  BY <1>10 DEF Wakes
<1>11. ASSUME NEW r \in Calls, NEW how \in {"timeout", "cancel"}, Interrupt(r, how)  PROVE ConnInv'
  BY <1>11 DEF Interrupt
<1>12. ASSUME NEW k \in Closers \cup {End}, Close(k)  PROVE ConnInv'
  BY <1>12 DEF Close, CloseBy, FailPending
<1>13. ASSUME NEW k \in Closers \cup {End}, CloseReturns(k)  PROVE ConnInv'
  BY <1>13 DEF CloseReturns
<1>14. ASSUME NEW g \in Conns, AsideCloses(g)  PROVE ConnInv'
  BY <1>14 DEF AsideCloses
<1>15. ASSUME NEW d \in Leavers, Disconnect(d)  PROVE ConnInv'
  BY <1>15 DEF Disconnect
<1>16. ASSUME EndCalls  PROVE ConnInv'
  BY <1>16 DEF EndCalls, SendTo
<1>17. ASSUME EndCloses  PROVE ConnInv'
  BY <1>17 DEF EndCloses, ClosesAfter, CloseBy, FailPending
<1>18. ASSUME EndReturns  PROVE ConnInv'
  BY <1>18 DEF EndReturns
<1>19. CASE UNCHANGED vars
  BY <1>19 DEF vars
<1> HIDE DEF TypeOK, ConnInv, Conns
<1> QED
  BY <1>1, <1>2, <1>3, <1>4, <1>5, <1>6, <1>7, <1>8, <1>9, <1>10,
     <1>11, <1>12, <1>13, <1>14, <1>15, <1>16, <1>17, <1>18, <1>19 DEF Next

\* A request that is over leaves nothing behind, and one that waits has a reader.
LEMMA FutureStep ==
    ASSUME TypeOK, ConnInv, FutureInv, NoOrphanWait, PendingWaits, ByeInv, [Next]_vars
    PROVE  (FutureInv /\ NoOrphanWait /\ PendingWaits)'
<1> USE BoundAssumption, NameAssumption DEF requestVars, closeVars, clientVars, TypeOK,
        ConnInv, FutureInv, NoOrphanWait, PendingWaits, ByeInv, Calls, Conns
<1>1. ASSUME Connect  PROVE (FutureInv /\ NoOrphanWait /\ PendingWaits)'
  BY <1>1 DEF Connect
<1>2. ASSUME HandshakeEnds  PROVE (FutureInv /\ NoOrphanWait /\ PendingWaits)'
  BY <1>2 DEF HandshakeEnds
<1>3. ASSUME ConnectFails  PROVE (FutureInv /\ NoOrphanWait /\ PendingWaits)'
  BY <1>3 DEF ConnectFails
<1>4. ASSUME Connected  PROVE (FutureInv /\ NoOrphanWait /\ PendingWaits)'
  BY <1>4 DEF Connected, ClosedLate
<1>5. ASSUME PeerCloses  PROVE (FutureInv /\ NoOrphanWait /\ PendingWaits)'
  BY <1>5 DEF PeerCloses
<1>6. ASSUME Finish  PROVE (FutureInv /\ NoOrphanWait /\ PendingWaits)'
  BY <1>6 DEF Finish, FailPending
<1>7. ASSUME NEW r \in Calls, Send(r)  PROVE (FutureInv /\ NoOrphanWait /\ PendingWaits)'
  BY <1>7 DEF Send, SendTo
<1>8. ASSUME NEW r \in Calls, EngineAnswers(r)  PROVE (FutureInv /\ NoOrphanWait /\ PendingWaits)'
  BY <1>8 DEF EngineAnswers
<1>9. ASSUME NEW r \in Calls, Reads(r)  PROVE (FutureInv /\ NoOrphanWait /\ PendingWaits)'
  BY <1>9 DEF Reads, IsFault
<1>10. ASSUME NEW r \in Calls, Wakes(r)  PROVE (FutureInv /\ NoOrphanWait /\ PendingWaits)'
  BY <1>10 DEF Wakes
<1>11. ASSUME NEW r \in Calls, NEW how \in {"timeout", "cancel"}, Interrupt(r, how)  PROVE (FutureInv /\ NoOrphanWait /\ PendingWaits)'
  BY <1>11 DEF Interrupt
<1>12. ASSUME NEW k \in Closers \cup {End}, Close(k)  PROVE (FutureInv /\ NoOrphanWait /\ PendingWaits)'
  BY <1>12 DEF Close, CloseBy, FailPending
<1>13. ASSUME NEW k \in Closers \cup {End}, CloseReturns(k)  PROVE (FutureInv /\ NoOrphanWait /\ PendingWaits)'
  BY <1>13 DEF CloseReturns
<1>14. ASSUME NEW g \in Conns, AsideCloses(g)  PROVE (FutureInv /\ NoOrphanWait /\ PendingWaits)'
  BY <1>14 DEF AsideCloses
<1>15. ASSUME NEW d \in Leavers, Disconnect(d)  PROVE (FutureInv /\ NoOrphanWait /\ PendingWaits)'
  BY <1>15 DEF Disconnect
<1>16. ASSUME EndCalls  PROVE (FutureInv /\ NoOrphanWait /\ PendingWaits)'
  <2>1. byes = 0 /\ Bye \in Calls  BY <1>16 DEF EndCalls
  <2>2. future[Bye] = "none" /\ outcome[Bye] = "none" /\ reader = gen /\ gen # 0  BY <1>16, <2>1 DEF EndCalls
  <2>3. FutureInv'  BY <1>16, <2>2 DEF EndCalls, SendTo
  <2>4. NoOrphanWait'  BY <1>16, <2>2 DEF EndCalls, SendTo
  <2>5. PendingWaits'  BY <1>16, <2>2 DEF EndCalls, SendTo
  <2> QED BY <2>3, <2>4, <2>5
<1>17. ASSUME EndCloses  PROVE (FutureInv /\ NoOrphanWait /\ PendingWaits)'
  BY <1>17 DEF EndCloses, ClosesAfter, CloseBy, FailPending
<1>18. ASSUME EndReturns  PROVE (FutureInv /\ NoOrphanWait /\ PendingWaits)'
  BY <1>18 DEF EndReturns
<1>19. CASE UNCHANGED vars
  BY <1>19 DEF vars
<1> HIDE DEF TypeOK, ConnInv, FutureInv, NoOrphanWait, PendingWaits, ByeInv, Calls, Conns
<1> QED
  BY <1>1, <1>2, <1>3, <1>4, <1>5, <1>6, <1>7, <1>8, <1>9, <1>10,
     <1>11, <1>12, <1>13, <1>14, <1>15, <1>16, <1>17, <1>18, <1>19 DEF Next

\* The client disconnects once.
LEMMA ByeStep ==
    ASSUME TypeOK, ConnInv, CloseInv, CloseToldOnce, ByeInv, DisconnectedOnce, [Next]_vars
    PROVE  (ByeInv /\ DisconnectedOnce)'
<1> USE BoundAssumption, NameAssumption DEF requestVars, closeVars, clientVars, TypeOK,
        ConnInv, ByeInv, DisconnectedOnce, CloseInv, CloseToldOnce, Calls, Conns
<1>1. ASSUME Connect  PROVE (ByeInv /\ DisconnectedOnce)'
  BY <1>1 DEF Connect
<1>2. ASSUME HandshakeEnds  PROVE (ByeInv /\ DisconnectedOnce)'
  BY <1>2 DEF HandshakeEnds
<1>3. ASSUME ConnectFails  PROVE (ByeInv /\ DisconnectedOnce)'
  BY <1>3 DEF ConnectFails
<1>4. ASSUME Connected  PROVE (ByeInv /\ DisconnectedOnce)'
  BY <1>4 DEF Connected, ClosedLate
<1>5. ASSUME PeerCloses  PROVE (ByeInv /\ DisconnectedOnce)'
  BY <1>5 DEF PeerCloses
<1>6. ASSUME Finish  PROVE (ByeInv /\ DisconnectedOnce)'
  BY <1>6 DEF Finish, FailPending
<1>7. ASSUME NEW r \in Calls, Send(r)  PROVE (ByeInv /\ DisconnectedOnce)'
  BY <1>7 DEF Send, SendTo
<1>8. ASSUME NEW r \in Calls, EngineAnswers(r)  PROVE (ByeInv /\ DisconnectedOnce)'
  BY <1>8 DEF EngineAnswers
<1>9. ASSUME NEW r \in Calls, Reads(r)  PROVE (ByeInv /\ DisconnectedOnce)'
  BY <1>9 DEF Reads, IsFault
<1>10. ASSUME NEW r \in Calls, Wakes(r)  PROVE (ByeInv /\ DisconnectedOnce)'
  BY <1>10 DEF Wakes
<1>11. ASSUME NEW r \in Calls, NEW how \in {"timeout", "cancel"}, Interrupt(r, how)  PROVE (ByeInv /\ DisconnectedOnce)'
  BY <1>11 DEF Interrupt
<1>12. ASSUME NEW k \in Closers \cup {End}, Close(k)  PROVE (ByeInv /\ DisconnectedOnce)'
  BY <1>12 DEF Close, CloseBy, FailPending
<1>13. ASSUME NEW k \in Closers \cup {End}, CloseReturns(k)  PROVE (ByeInv /\ DisconnectedOnce)'
  BY <1>13 DEF CloseReturns
<1>14. ASSUME NEW g \in Conns, AsideCloses(g)  PROVE (ByeInv /\ DisconnectedOnce)'
  BY <1>14 DEF AsideCloses
<1>15. ASSUME NEW d \in Leavers, Disconnect(d)  PROVE (ByeInv /\ DisconnectedOnce)'
  BY <1>15 DEF Disconnect
<1>16. ASSUME EndCalls  PROVE (ByeInv /\ DisconnectedOnce)'
  BY <1>16 DEF EndCalls, SendTo
<1>17. ASSUME EndCloses  PROVE (ByeInv /\ DisconnectedOnce)'
  BY <1>17 DEF EndCloses, ClosesAfter, CloseBy, FailPending
<1>18. ASSUME EndReturns  PROVE (ByeInv /\ DisconnectedOnce)'
  BY <1>18 DEF EndReturns
<1>19. CASE UNCHANGED vars
  BY <1>19 DEF vars
<1> HIDE DEF TypeOK, ConnInv, ByeInv, DisconnectedOnce, CloseInv, CloseToldOnce, Calls, Conns
<1> QED
  BY <1>1, <1>2, <1>3, <1>4, <1>5, <1>6, <1>7, <1>8, <1>9, <1>10,
     <1>11, <1>12, <1>13, <1>14, <1>15, <1>16, <1>17, <1>18, <1>19 DEF Next

\* The end of a connection is told once.
LEMMA CloseStep ==
    ASSUME TypeOK, ConnInv, CloseInv, CloseToldOnce, [Next]_vars
    PROVE  (CloseInv /\ CloseToldOnce)'
<1> USE BoundAssumption, NameAssumption DEF requestVars, closeVars, clientVars, TypeOK,
        ConnInv, CloseInv, CloseToldOnce, Conns
<1>1. ASSUME Connect  PROVE (CloseInv /\ CloseToldOnce)'
  BY <1>1 DEF Connect
<1>2. ASSUME HandshakeEnds  PROVE (CloseInv /\ CloseToldOnce)'
  BY <1>2 DEF HandshakeEnds
<1>3. ASSUME ConnectFails  PROVE (CloseInv /\ CloseToldOnce)'
  BY <1>3 DEF ConnectFails
<1>4. ASSUME Connected  PROVE (CloseInv /\ CloseToldOnce)'
  BY <1>4 DEF Connected, ClosedLate
<1>5. ASSUME PeerCloses  PROVE (CloseInv /\ CloseToldOnce)'
  BY <1>5 DEF PeerCloses
<1>6. ASSUME Finish  PROVE (CloseInv /\ CloseToldOnce)'
  BY <1>6 DEF Finish, FailPending
<1>7. ASSUME NEW r \in Calls, Send(r)  PROVE (CloseInv /\ CloseToldOnce)'
  BY <1>7 DEF Send, SendTo
<1>8. ASSUME NEW r \in Calls, EngineAnswers(r)  PROVE (CloseInv /\ CloseToldOnce)'
  BY <1>8 DEF EngineAnswers
<1>9. ASSUME NEW r \in Calls, Reads(r)  PROVE (CloseInv /\ CloseToldOnce)'
  BY <1>9 DEF Reads, IsFault
<1>10. ASSUME NEW r \in Calls, Wakes(r)  PROVE (CloseInv /\ CloseToldOnce)'
  BY <1>10 DEF Wakes
<1>11. ASSUME NEW r \in Calls, NEW how \in {"timeout", "cancel"}, Interrupt(r, how)  PROVE (CloseInv /\ CloseToldOnce)'
  BY <1>11 DEF Interrupt
<1>12. ASSUME NEW k \in Closers \cup {End}, Close(k)  PROVE (CloseInv /\ CloseToldOnce)'
  BY <1>12 DEF Close, CloseBy, FailPending
<1>13. ASSUME NEW k \in Closers \cup {End}, CloseReturns(k)  PROVE (CloseInv /\ CloseToldOnce)'
  BY <1>13 DEF CloseReturns
<1>14. ASSUME NEW g \in Conns, AsideCloses(g)  PROVE (CloseInv /\ CloseToldOnce)'
  BY <1>14 DEF AsideCloses
<1>15. ASSUME NEW d \in Leavers, Disconnect(d)  PROVE (CloseInv /\ CloseToldOnce)'
  BY <1>15 DEF Disconnect
<1>16. ASSUME EndCalls  PROVE (CloseInv /\ CloseToldOnce)'
  BY <1>16 DEF EndCalls, SendTo
<1>17. ASSUME EndCloses  PROVE (CloseInv /\ CloseToldOnce)'
  BY <1>17 DEF EndCloses, ClosesAfter, CloseBy, FailPending
<1>18. ASSUME EndReturns  PROVE (CloseInv /\ CloseToldOnce)'
  BY <1>18 DEF EndReturns
<1>19. CASE UNCHANGED vars
  BY <1>19 DEF vars
<1> HIDE DEF TypeOK, ConnInv, CloseInv, CloseToldOnce, Conns
<1> QED
  BY <1>1, <1>2, <1>3, <1>4, <1>5, <1>6, <1>7, <1>8, <1>9, <1>10,
     <1>11, <1>12, <1>13, <1>14, <1>15, <1>16, <1>17, <1>18, <1>19 DEF Next

\* A socket changes owner while it is open.
LEMMA SocketStep ==
    ASSUME TypeOK, ConnInv, SocketsOwned, [Next]_vars
    PROVE  SocketsOwned'
<1> USE BoundAssumption DEF requestVars, closeVars, clientVars, TypeOK, ConnInv, SocketsOwned,
        Conns
<1>1. ASSUME Connect  PROVE SocketsOwned'
  BY <1>1 DEF Connect
<1>2. ASSUME HandshakeEnds  PROVE SocketsOwned'
  BY <1>2 DEF HandshakeEnds
<1>3. ASSUME ConnectFails  PROVE SocketsOwned'
  BY <1>3 DEF ConnectFails
<1>4. ASSUME Connected  PROVE SocketsOwned'
  BY <1>4 DEF Connected, ClosedLate
<1>5. ASSUME PeerCloses  PROVE SocketsOwned'
  BY <1>5 DEF PeerCloses
<1>6. ASSUME Finish  PROVE SocketsOwned'
  BY <1>6 DEF Finish, FailPending
<1>7. ASSUME NEW r \in Calls, Send(r)  PROVE SocketsOwned'
  BY <1>7 DEF Send, SendTo
<1>8. ASSUME NEW r \in Calls, EngineAnswers(r)  PROVE SocketsOwned'
  BY <1>8 DEF EngineAnswers
<1>9. ASSUME NEW r \in Calls, Reads(r)  PROVE SocketsOwned'
  BY <1>9 DEF Reads, IsFault
<1>10. ASSUME NEW r \in Calls, Wakes(r)  PROVE SocketsOwned'
  BY <1>10 DEF Wakes
<1>11. ASSUME NEW r \in Calls, NEW how \in {"timeout", "cancel"}, Interrupt(r, how)  PROVE SocketsOwned'
  BY <1>11 DEF Interrupt
<1>12. ASSUME NEW k \in Closers \cup {End}, Close(k)  PROVE SocketsOwned'
  BY <1>12 DEF Close, CloseBy, FailPending
<1>13. ASSUME NEW k \in Closers \cup {End}, CloseReturns(k)  PROVE SocketsOwned'
  BY <1>13 DEF CloseReturns
<1>14. ASSUME NEW g \in Conns, AsideCloses(g)  PROVE SocketsOwned'
  BY <1>14 DEF AsideCloses
<1>15. ASSUME NEW d \in Leavers, Disconnect(d)  PROVE SocketsOwned'
  BY <1>15 DEF Disconnect
<1>16. ASSUME EndCalls  PROVE SocketsOwned'
  BY <1>16 DEF EndCalls, SendTo
<1>17. ASSUME EndCloses  PROVE SocketsOwned'
  BY <1>17 DEF EndCloses, ClosesAfter, CloseBy, FailPending
<1>18. ASSUME EndReturns  PROVE SocketsOwned'
  BY <1>18 DEF EndReturns
<1>19. CASE UNCHANGED vars
  BY <1>19 DEF vars
<1> HIDE DEF TypeOK, ConnInv, SocketsOwned, Conns
<1> QED
  BY <1>1, <1>2, <1>3, <1>4, <1>5, <1>6, <1>7, <1>8, <1>9, <1>10,
     <1>11, <1>12, <1>13, <1>14, <1>15, <1>16, <1>17, <1>18, <1>19 DEF Next

LEMMA TransportStep == TransportInv /\ [Next]_vars => TransportInv'
BY TypeStep, ConnStep, FutureStep, ByeStep, CloseStep, SocketStep DEF TransportInv

LEMMA TransportInvariant == Spec => []TransportInv
BY InitTransport, TransportStep, PTL DEF Spec

\* However many tasks connect, close and disconnect at once, an open socket has one owner who
\* closes it, the end of a connection is told once and before any close returns, and the client
\* sends one rois.system.disconnect and is disconnected when its callers go on.
THEOREM ConnectionsEndOnce == Spec => []EndedOnce
<1>1. TransportInv => EndedOnce  BY DEF TransportInv, EndedOnce
<1> QED BY <1>1, TransportInvariant, PTL

\* In whatever order a reply, its timeout, a cancel and the end of the connection come, a request
\* that waits is one somebody will settle, and one that is over leaves nothing behind.
THEOREM NobodyWaitsAlone == Spec => [](TypeOK /\ NoOrphanWait /\ PendingWaits)
<1>1. TransportInv => TypeOK /\ NoOrphanWait /\ PendingWaits  BY DEF TransportInv
<1> QED BY <1>1, TransportInvariant, PTL

-----------------------------------------------------------------------------
(* The replies that come late *)

LEMMA InitLate == Init => LateInv
<1> SUFFICES ASSUME Init  PROVE LateInv
  OBVIOUS
<1>1. Interrupted = {} /\ Remembered = {}  BY DEF Init, Interrupted, Remembered
<1>2. Len(abandoned) = 0  BY DEF Init
<1>3. CountInv  BY <1>1, <1>2, FS_EmptySet DEF Init, CountInv
<1>4. ReplyInv /\ FaultsAreLate  BY DEF Init, ReplyInv, FaultsAreLate
<1> QED BY <1>3, <1>4 DEF LateInv

\* As many requests are cancelled as are remembered, and no more than may be interrupted: none of
\* them has to go to make place for another.
LEMMA NoneGoes ==
    ASSUME MaxInterrupts <= MAX_ABANDONED_REQUESTS, TransportInv, CountInv,
           NEW r \in Calls, Wakes(r)
    PROVE  \/ abandoned' = abandoned /\ (interrupt[r] # "cancel" \/ r \notin pending)
           \/ /\ interrupt[r] = "cancel" /\ r \in pending
              /\ abandoned' = Append(abandoned, r) /\ Remembered' = Remembered \cup {r}
              /\ r \notin Remembered /\ Len(abandoned') = Len(abandoned) + 1
              /\ \A i \in DOMAIN abandoned : i \in DOMAIN abandoned' /\ abandoned'[i] = abandoned[i]
              /\ \E i \in DOMAIN abandoned' : abandoned'[i] = r
<1>1. CASE interrupt[r] # "cancel" \/ r \notin pending
  BY <1>1 DEF Wakes
<1>2. CASE interrupt[r] = "cancel" /\ r \in pending
  <2> DEFINE all == Append(abandoned, r)
  <2>1. abandoned \in Seq(Calls)  BY DEF TransportInv, TypeOK
  <2>2. /\ DOMAIN abandoned = 1..Len(abandoned) /\ Len(abandoned) \in Nat
        /\ Len(all) = Len(abandoned) + 1 /\ DOMAIN all = 1..Len(abandoned) + 1
        /\ \A i \in 1..Len(abandoned) : all[i] = abandoned[i]
        /\ all[Len(abandoned) + 1] = r
    BY <2>1, AppendProperties, LenProperties
  <2>3. r \notin Remembered  BY DEF Wakes, CountInv
  <2>4. Len(all) <= MAX_ABANDONED_REQUESTS
    <3>1. Remembered \cup {r} \subseteq Interrupted
      BY <1>2, <2>1, ElementOfSeq DEF CountInv, Interrupted, Remembered
    <3>2. Cardinality(Remembered \cup {r}) = Len(abandoned) + 1
      BY <2>3, FS_AddElement DEF CountInv
    <3>3. Cardinality(Remembered \cup {r}) <= interrupts
      BY <3>1, FS_Subset DEF CountInv
    <3>4. interrupts \in Nat /\ interrupts <= MaxInterrupts
          /\ MaxInterrupts \in Nat /\ MAX_ABANDONED_REQUESTS \in Nat
      BY BoundAssumption DEF TransportInv, TypeOK
    <3> QED BY <2>2, <3>2, <3>3, <3>4
  <2>5. abandoned' = all  BY <1>2, <2>4 DEF Wakes
  <2>6. Remembered = {abandoned[i] : i \in 1..Len(abandoned)}  BY <2>2 DEF Remembered
  <2>7. Remembered' = {all[i] : i \in 1..Len(abandoned) + 1}  BY <2>2, <2>5 DEF Remembered
  <2>8. DOMAIN abandoned' = 1..Len(abandoned) + 1 /\ abandoned'[Len(abandoned) + 1] = r
        /\ \A i \in 1..Len(abandoned) : abandoned'[i] = abandoned[i]
        /\ Len(abandoned') = Len(abandoned) + 1
    BY <2>2, <2>5
  <2> HIDE DEF all
  <2>9. Remembered' = Remembered \cup {r}  BY <2>2, <2>6, <2>7
  <2>10. \A i \in DOMAIN abandoned : i \in DOMAIN abandoned' /\ abandoned'[i] = abandoned[i]
    BY <2>2, <2>8
  <2>11. \E i \in DOMAIN abandoned' : abandoned'[i] = r  BY <2>2, <2>8
  <2> QED BY <1>2, <2>3, <2>5, <2>8, <2>9, <2>10, <2>11 DEF all
<1> QED BY <1>1, <1>2

\* A reply that is on its way to a connection that lasts meets its request, or its timeout, or is
\* remembered.
LEMMA ReplyStep ==
    ASSUME MaxInterrupts <= MAX_ABANDONED_REQUESTS, TransportInv, LateInv, [Next]_vars
    PROVE  ReplyInv'
<1> USE BoundAssumption, NameAssumption DEF requestVars, closeVars, clientVars, TransportInv,
        LateInv, ReplyInv, TypeOK, ConnInv, FutureInv, NoOrphanWait, PendingWaits, ByeInv,
        Calls, Conns
<1>1. ASSUME Connect  PROVE ReplyInv'
  BY <1>1 DEF Connect
<1>2. ASSUME HandshakeEnds  PROVE ReplyInv'
  BY <1>2 DEF HandshakeEnds
<1>3. ASSUME ConnectFails  PROVE ReplyInv'
  BY <1>3 DEF ConnectFails
<1>4. ASSUME Connected  PROVE ReplyInv'
  BY <1>4 DEF Connected, ClosedLate
<1>5. ASSUME PeerCloses  PROVE ReplyInv'
  BY <1>5 DEF PeerCloses
<1>6. ASSUME Finish  PROVE ReplyInv'
  BY <1>6 DEF Finish, FailPending
<1>7. ASSUME NEW r \in Calls, Send(r)  PROVE ReplyInv'
  BY <1>7 DEF Send, SendTo
<1>8. ASSUME NEW r \in Calls, EngineAnswers(r)  PROVE ReplyInv'
  BY <1>8 DEF EngineAnswers
<1>9. ASSUME NEW r \in Calls, Reads(r)  PROVE ReplyInv'
  BY <1>9 DEF Reads, IsFault
<1>10. ASSUME NEW r \in Calls, Wakes(r)  PROVE ReplyInv'
  <2>a. \A q : (\E i \in DOMAIN abandoned : abandoned[i] = q)
                    => \E i \in DOMAIN abandoned' : abandoned'[i] = q
    BY <1>10, NoneGoes
  <2>b. interrupt[r] = "cancel" /\ r \in pending => \E i \in DOMAIN abandoned' : abandoned'[i] = r
    BY <1>10, NoneGoes
  <2>1. CASE state # "CONNECTED" \/ r \notin asked \cup replies
    <3> SUFFICES ASSUME state = "CONNECTED", NEW q \in asked \cup replies
                 PROVE  /\ future[q] \in {"waiting", "cancelled"}
                        /\ \/ q \in pending'
                           \/ outcome'[q] = "timeout"
                           \/ \E i \in DOMAIN abandoned' : abandoned'[i] = q
      BY <1>10 DEF Wakes
    <3>1. q # r  BY <2>1
    <3>2. (q \in pending => q \in pending') /\ outcome'[q] = outcome[q] /\ UNCHANGED future
      BY <1>10, <3>1 DEF Wakes
    <3> QED BY <2>a, <3>2
  <2>2. CASE state = "CONNECTED" /\ r \in asked \cup replies
    <3>1. future[r] = "cancelled" /\ outcome[r] = "none" /\ interrupt[r] # "none"
      BY <1>10, <2>2 DEF Wakes, FutureInv
    <3>2. r \in pending  BY <2>2, <3>1 DEF CountInv, Remembered
    <3>3. outcome'[r] = interrupt[r] /\ UNCHANGED future
          /\ \A q \in Calls : q # r => outcome'[q] = outcome[q] /\ (q \in pending => q \in pending')
      BY <1>10, <3>1 DEF Wakes
    <3>4. interrupt[r] = "timeout" \/ \E i \in DOMAIN abandoned' : abandoned'[i] = r
      BY <2>b, <3>1, <3>2
    <3>5. \A q \in asked \cup replies : q # r =>
              \/ q \in pending' \/ outcome'[q] = "timeout"
              \/ \E i \in DOMAIN abandoned' : abandoned'[i] = q
      <4>1. asked \cup replies \subseteq Calls  OBVIOUS
      <4>2. \A q \in asked \cup replies :
                \/ q \in pending \/ outcome[q] = "timeout"
                \/ \E i \in DOMAIN abandoned : abandoned[i] = q
        BY <2>2
      <4> QED BY ONLY <2>a, <3>3, <4>1, <4>2
    <3>6. UNCHANGED <<asked, replies, reader, state>>  BY <1>10 DEF Wakes
    <3>7. \/ outcome'[r] = "timeout" \/ \E i \in DOMAIN abandoned' : abandoned'[i] = r
      BY ONLY <3>3, <3>4
    <3>8. \A q \in asked \cup replies :
              \/ q \in pending' \/ outcome'[q] = "timeout"
              \/ \E i \in DOMAIN abandoned' : abandoned'[i] = q
      BY ONLY <3>5, <3>7
    <3> HIDE DEF TypeOK, ConnInv, NoOrphanWait, PendingWaits, ByeInv, FutureInv
    <3> QED BY <3>3, <3>6, <3>8
  <2> QED BY <2>1, <2>2
<1>11. ASSUME NEW r \in Calls, NEW how \in {"timeout", "cancel"}, Interrupt(r, how)  PROVE ReplyInv'
  BY <1>11 DEF Interrupt
<1>12. ASSUME NEW k \in Closers \cup {End}, Close(k)  PROVE ReplyInv'
  BY <1>12 DEF Close, CloseBy, FailPending
<1>13. ASSUME NEW k \in Closers \cup {End}, CloseReturns(k)  PROVE ReplyInv'
  BY <1>13 DEF CloseReturns
<1>14. ASSUME NEW g \in Conns, AsideCloses(g)  PROVE ReplyInv'
  BY <1>14 DEF AsideCloses
<1>15. ASSUME NEW d \in Leavers, Disconnect(d)  PROVE ReplyInv'
  BY <1>15 DEF Disconnect
<1>16. ASSUME EndCalls  PROVE ReplyInv'
  BY <1>16 DEF EndCalls, SendTo
<1>17. ASSUME EndCloses  PROVE ReplyInv'
  BY <1>17 DEF EndCloses, ClosesAfter, CloseBy, FailPending
<1>18. ASSUME EndReturns  PROVE ReplyInv'
  BY <1>18 DEF EndReturns
<1>19. CASE UNCHANGED vars
  BY <1>19 DEF vars
<1> HIDE DEF TransportInv, LateInv, ReplyInv, TypeOK, ConnInv, FutureInv, NoOrphanWait, PendingWaits, ByeInv, Calls, Conns
<1> QED
  BY <1>1, <1>2, <1>3, <1>4, <1>5, <1>6, <1>7, <1>8, <1>9, <1>10,
     <1>11, <1>12, <1>13, <1>14, <1>15, <1>16, <1>17, <1>18, <1>19 DEF Next

\* A fault is the reply of a request that timed out.
LEMMA FaultStep ==
    ASSUME MaxInterrupts <= MAX_ABANDONED_REQUESTS, TransportInv, LateInv, [Next]_vars
    PROVE  FaultsAreLate'
<1> USE BoundAssumption, NameAssumption DEF requestVars, closeVars, clientVars, TransportInv,
        LateInv, ReplyInv, TypeOK, ConnInv, FaultsAreLate, FutureInv, PendingWaits, ByeInv,
        Calls, Conns
<1>1. ASSUME Connect  PROVE FaultsAreLate'
  BY <1>1 DEF Connect
<1>2. ASSUME HandshakeEnds  PROVE FaultsAreLate'
  BY <1>2 DEF HandshakeEnds
<1>3. ASSUME ConnectFails  PROVE FaultsAreLate'
  BY <1>3 DEF ConnectFails
<1>4. ASSUME Connected  PROVE FaultsAreLate'
  BY <1>4 DEF Connected, ClosedLate
<1>5. ASSUME PeerCloses  PROVE FaultsAreLate'
  BY <1>5 DEF PeerCloses
<1>6. ASSUME Finish  PROVE FaultsAreLate'
  BY <1>6 DEF Finish, FailPending
<1>7. ASSUME NEW r \in Calls, Send(r)  PROVE FaultsAreLate'
  BY <1>7 DEF Send, SendTo
<1>8. ASSUME NEW r \in Calls, EngineAnswers(r)  PROVE FaultsAreLate'
  BY <1>8 DEF EngineAnswers
<1>9. ASSUME NEW r \in Calls, Reads(r)  PROVE FaultsAreLate'
  BY <1>9 DEF Reads, IsFault
<1>10. ASSUME NEW r \in Calls, Wakes(r)  PROVE FaultsAreLate'
  BY <1>10 DEF Wakes
<1>11. ASSUME NEW r \in Calls, NEW how \in {"timeout", "cancel"}, Interrupt(r, how)  PROVE FaultsAreLate'
  BY <1>11 DEF Interrupt
<1>12. ASSUME NEW k \in Closers \cup {End}, Close(k)  PROVE FaultsAreLate'
  BY <1>12 DEF Close, CloseBy, FailPending
<1>13. ASSUME NEW k \in Closers \cup {End}, CloseReturns(k)  PROVE FaultsAreLate'
  BY <1>13 DEF CloseReturns
<1>14. ASSUME NEW g \in Conns, AsideCloses(g)  PROVE FaultsAreLate'
  BY <1>14 DEF AsideCloses
<1>15. ASSUME NEW d \in Leavers, Disconnect(d)  PROVE FaultsAreLate'
  BY <1>15 DEF Disconnect
<1>16. ASSUME EndCalls  PROVE FaultsAreLate'
  BY <1>16 DEF EndCalls, SendTo
<1>17. ASSUME EndCloses  PROVE FaultsAreLate'
  BY <1>17 DEF EndCloses, ClosesAfter, CloseBy, FailPending
<1>18. ASSUME EndReturns  PROVE FaultsAreLate'
  BY <1>18 DEF EndReturns
<1>19. CASE UNCHANGED vars
  BY <1>19 DEF vars
<1> HIDE DEF TransportInv, LateInv, ReplyInv, TypeOK, ConnInv, FaultsAreLate, FutureInv, PendingWaits, ByeInv, Calls, Conns
<1> QED
  BY <1>1, <1>2, <1>3, <1>4, <1>5, <1>6, <1>7, <1>8, <1>9, <1>10,
     <1>11, <1>12, <1>13, <1>14, <1>15, <1>16, <1>17, <1>18, <1>19 DEF Next

\* What is remembered was interrupted, and is counted with it.
LEMMA CountStep ==
    ASSUME MaxInterrupts <= MAX_ABANDONED_REQUESTS, TransportInv, LateInv, [Next]_vars
    PROVE  CountInv'
<1> USE DEF LateInv
<1>1. ASSUME NEW r \in Calls, NEW how \in {"timeout", "cancel"}, Interrupt(r, how)
      PROVE  CountInv'
  <2>1. /\ interrupts' = interrupts + 1 /\ interrupt' = [interrupt EXCEPT ![r] = how]
        /\ UNCHANGED <<outcome, abandoned>> /\ interrupt[r] = "none" /\ how # "none"
        /\ interrupt \in [Calls -> {"none", "timeout", "cancel"}] /\ interrupts \in Nat
    BY <1>1, BoundAssumption DEF Interrupt, TransportInv, TypeOK
  <2>2. Interrupted' = Interrupted \cup {r} /\ r \notin Interrupted
    BY <2>1 DEF Interrupted
  <2>3. IsFiniteSet(Interrupted') /\ Cardinality(Interrupted') = interrupts'
    BY <2>1, <2>2, FS_AddElement DEF CountInv
  <2>4. Remembered' = Remembered  BY <2>1 DEF Remembered
  <2>5. \A q \in Remembered : interrupt'[q] = "cancel" /\ outcome'[q] # "none"
    BY <2>1 DEF CountInv
  <2> QED BY <2>1, <2>3, <2>4, <2>5 DEF CountInv
<1>2. ASSUME NEW r \in Calls, Wakes(r)  PROVE CountInv'
  <2>1. UNCHANGED <<interrupt, interrupts>> /\ Interrupted' = Interrupted
    BY <1>2 DEF Wakes, Interrupted
  <2>2. /\ outcome \in [Calls -> {"none", "result", "lost", "timeout", "cancel"}]
        /\ future[r] \in {"result", "lost", "cancelled"}
        /\ interrupt \in [Calls -> {"none", "timeout", "cancel"}]
    BY <1>2 DEF Wakes, TransportInv, TypeOK
  <2>3. outcome'[r] # "none" /\ \A q \in Calls \ {r} : outcome'[q] = outcome[q]
    BY <1>2, <2>2 DEF Wakes
  <2>4. Remembered \subseteq Calls
    BY ElementOfSeq, LenProperties DEF Remembered, TransportInv, TypeOK
  <2>5. \A q \in Remembered : interrupt'[q] = "cancel" /\ outcome'[q] # "none"
    BY <2>1, <2>3, <2>4 DEF CountInv
  <2>6. CASE abandoned' = abandoned
    BY <2>1, <2>5, <2>6 DEF CountInv, Remembered
  <2>7. CASE /\ interrupt[r] = "cancel" /\ Remembered' = Remembered \cup {r}
             /\ r \notin Remembered /\ Len(abandoned') = Len(abandoned) + 1
    <3>1. IsFiniteSet(Remembered') /\ Cardinality(Remembered') = Len(abandoned')
      BY <2>7, FS_AddElement DEF CountInv
    <3> QED BY <2>1, <2>3, <2>5, <2>7, <3>1 DEF CountInv
  <2> QED BY <1>2, <2>6, <2>7, NoneGoes
<1>3. CASE /\ UNCHANGED <<interrupt, interrupts, abandoned>>
           /\ \A q \in Calls : outcome[q] # "none" => outcome'[q] # "none"
  <2>1. Remembered \subseteq Calls
    BY ElementOfSeq, LenProperties DEF Remembered, TransportInv, TypeOK
  <2>2. Interrupted' = Interrupted /\ Remembered' = Remembered
    BY <1>3 DEF Interrupted, Remembered
  <2> QED BY <1>3, <2>1, <2>2 DEF CountInv
<1>4. \/ \E r \in Calls : Wakes(r) \/ \E how \in {"timeout", "cancel"} : Interrupt(r, how)
      \/ /\ UNCHANGED <<interrupt, interrupts, abandoned>>
         /\ \A q \in Calls : outcome[q] # "none" => outcome'[q] # "none"
  <2>1. outcome \in [Calls -> {"none", "result", "lost", "timeout", "cancel"}]
    BY DEF TransportInv, TypeOK
  <2> QED
    BY <2>1
    DEF Next, vars, requestVars, closeVars, clientVars, Connect, HandshakeEnds, ConnectFails,
        Connected, PeerCloses, Finish, Send, SendTo, EngineAnswers, Reads, Close, CloseBy,
        CloseReturns, AsideCloses, Disconnect, EndCalls, EndCloses, EndReturns
<1> QED BY <1>1, <1>2, <1>3, <1>4

\* When no more requests can be interrupted than the transport remembers, a reply nobody waits
\* for is a fault only after a timeout: a caller who cancelled is spared it, wherever the reply
\* meets the cancellation.
THEOREM EveryWaitIsSettled ==
    MaxInterrupts <= MAX_ABANDONED_REQUESTS => (Spec => []PendingSettled)
<1> SUFFICES ASSUME MaxInterrupts <= MAX_ABANDONED_REQUESTS  PROVE Spec => []PendingSettled
  OBVIOUS
<1>1. Init => TransportInv /\ LateInv  BY InitTransport, InitLate
<1>2. TransportInv /\ LateInv /\ [Next]_vars => (TransportInv /\ LateInv)'
  BY TransportStep, ReplyStep, CountStep, FaultStep DEF LateInv
<1>3. TransportInv /\ LateInv => PendingSettled
  BY DEF TransportInv, LateInv, PendingSettled
<1> QED BY <1>1, <1>2, <1>3, PTL DEF Spec
=============================================================================
