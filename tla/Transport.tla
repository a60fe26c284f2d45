----------------------------- MODULE Transport -----------------------------
(***************************************************************************)
(* The Python client SDK: a WebSocket transport that opens and closes one  *)
(* connection at a time and matches replies to requests (transport.py),    *)
(* and the session of a client over its first connection (client.py).      *)
(*                                                                         *)
(* The code between two awaits is one action.  A request that was          *)
(* interrupted or answered has not run on yet: its future is done, and it  *)
(* wakes in a step of its own, so a reply may come between the two.        *)
(***************************************************************************)
EXTENDS Naturals, Sequences, FiniteSets

CONSTANTS
    Requests,       \* requests of the application
    Bye,            \* the rois.system.disconnect of the client
    Closers,        \* tasks that call close
    End,            \* the task of _end_session, which calls close too
    Leavers,        \* tasks that call disconnect
    MaxConns,       \* bound: attempts to connect
    MaxInterrupts,  \* bound: timeouts and cancellations of requests
    MAX_ABANDONED_REQUESTS

Calls == Requests \cup {Bye}
Conns == 1..MaxConns

\* The client makes its disconnect request, and the close that follows it, itself.
ASSUME NameAssumption == Bye \notin Requests /\ End \notin Closers
ASSUME BoundAssumption ==
    MaxConns \in Nat \ {0} /\ {MaxInterrupts, MAX_ABANDONED_REQUESTS} \subseteq Nat

VARIABLES
    state,      \* TransportState
    gen,        \* the attempt to connect, or the connection
    attempt,    \* connect: "none", "handshake", or "opened" before the task runs on
    reader,     \* the connection the reader task reads, or 0
    wire,       \* each connection: "none", "open", "closed"
    aside,      \* connections whose closing handshake runs apart from any caller
    pending,    \* WebSocketTransport._pending
    future,     \* the reply of each request: "none", "waiting", "result", "lost", "cancelled"
    interrupt,  \* what interrupted each request: "none", "timeout", "cancel"
    outcome,    \* how each request ended: "none", "result", "lost", "timeout", "cancel"
    asked,      \* requests the engine has not answered
    replies,    \* replies on their way
    abandoned,  \* WebSocketTransport._abandoned
    faults,     \* requests whose reply was reported as a fault
    closer,     \* what each task that closes waits on: "idle", "attempt", "reader", "done"
    closes,     \* the connection or the attempt it waits on
    told,       \* close events of each connection
    client,     \* RoISClient: "none", "up", "down"
    ending,     \* _disconnecting: "none", "begun", "calling", "closing"
    byes,       \* rois.system.disconnect requests sent
    leaver,     \* each task that disconnects: "idle", "waiting", "done"
    interrupts

requestVars == <<pending, future, interrupt, outcome, asked, replies, abandoned, faults>>
clientVars  == <<client, ending, byes, leaver>>
closeVars   == <<closer, closes>>
vars == <<state, gen, attempt, reader, wire, aside, pending, future, interrupt, outcome, asked,
          replies, abandoned, faults, closer, closes, told, client, ending, byes, leaver,
          interrupts>>

TypeOK ==
    /\ state \in {"DISCONNECTED", "CONNECTING", "CONNECTED", "CLOSING"} /\ gen \in 0..MaxConns
    /\ attempt \in {"none", "handshake", "opened"} /\ reader \in {0, gen}
    /\ wire \in [Conns -> {"none", "open", "closed"}] /\ aside \subseteq Conns
    /\ pending \cup asked \cup replies \cup faults \subseteq Calls
    /\ future \in [Calls -> {"none", "waiting", "result", "lost", "cancelled"}]
    /\ interrupt \in [Calls -> {"none", "timeout", "cancel"}]
    /\ outcome \in [Calls -> {"none", "result", "lost", "timeout", "cancel"}]
    /\ abandoned \in Seq(Calls) /\ Len(abandoned) <= MAX_ABANDONED_REQUESTS
    /\ closer \in [Closers \cup {End} -> {"idle", "attempt", "reader", "done"}]
    /\ closes \in [Closers \cup {End} -> 0..MaxConns] /\ told \in [Conns -> Nat]
    /\ client \in {"none", "up", "down"} /\ byes \in Nat /\ interrupts \in 0..MaxInterrupts
    /\ ending \in {"none", "begun", "calling", "closing"}
    /\ leaver \in [Leavers -> {"idle", "waiting", "done"}]

Init ==
    /\ state = "DISCONNECTED" /\ gen = 0 /\ attempt = "none" /\ reader = 0 /\ aside = {}
    /\ wire = [g \in Conns |-> "none"] /\ told = [g \in Conns |-> 0]
    /\ pending = {} /\ asked = {} /\ replies = {} /\ abandoned = <<>> /\ faults = {}
    /\ future = [r \in Calls |-> "none"] /\ interrupt = [r \in Calls |-> "none"]
    /\ outcome = [r \in Calls |-> "none"]
    /\ closer = [k \in Closers \cup {End} |-> "idle"]
    /\ closes = [k \in Closers \cup {End} |-> 0]
    /\ client = "none" /\ ending = "none" /\ byes = 0 /\ leaver = [d \in Leavers |-> "idle"]
    /\ interrupts = 0
-----------------------------------------------------------------------------
(* connect *)

Connect ==
    /\ state = "DISCONNECTED" /\ gen < MaxConns
    /\ state' = "CONNECTING" /\ gen' = gen + 1 /\ attempt' = "handshake"
    /\ UNCHANGED <<reader, wire, aside, requestVars, closeVars, told, clientVars, interrupts>>

\* The handshake ends, and the task of connect has not run on yet.
HandshakeEnds ==
    /\ attempt = "handshake" /\ attempt' = "opened" /\ wire' = [wire EXCEPT ![gen] = "open"]
    /\ UNCHANGED <<state, gen, reader, aside, requestVars, closeVars, told, clientVars,
                   interrupts>>

\* The handshake fails, times out, is aborted by close, or its caller is cancelled; the
\* library drops the socket.
ConnectFails ==
    /\ attempt # "none" /\ attempt' = "none" /\ state' = "DISCONNECTED"
    /\ wire' = [wire EXCEPT ![gen] = "closed"]
    /\ UNCHANGED <<gen, reader, aside, requestVars, closeVars, told, clientVars, interrupts>>

\* A socket that opened although close ran meanwhile is closed apart.
ClosedLate == aside \cup {gen}

\* connect runs on with its socket.  The first connection is the one of the client.
Connected ==
    /\ attempt = "opened" /\ attempt' = "none"
    /\ IF state = "CLOSING"
       THEN state' = "DISCONNECTED" /\ aside' = ClosedLate /\ UNCHANGED <<reader, client>>
       ELSE /\ state' = "CONNECTED" /\ reader' = gen /\ UNCHANGED aside
            /\ client' = IF client = "none" THEN "up" ELSE client
    /\ UNCHANGED <<gen, wire, requestVars, closeVars, told, ending, byes, leaver, interrupts>>
-----------------------------------------------------------------------------
(* Requests *)

\* send registers the request before it goes out.  On a socket that is closed, while the
\* reader has not ended, it fails at once.
SendTo(r) ==
    /\ outcome' = [outcome EXCEPT ![r] = IF wire[gen] = "open" THEN @ ELSE "lost"]
    /\ IF wire[gen] = "open"
       THEN /\ pending' = pending \cup {r} /\ future' = [future EXCEPT ![r] = "waiting"]
            /\ asked' = asked \cup {r}
       ELSE UNCHANGED <<pending, future, asked>>
    /\ UNCHANGED <<interrupt, replies, abandoned, faults>>

Send(r) ==
    /\ r \in Requests /\ future[r] = "none" /\ outcome[r] = "none" /\ state = "CONNECTED"
    /\ SendTo(r)
    /\ UNCHANGED <<state, gen, attempt, reader, wire, aside, closeVars, told, clientVars,
                   interrupts>>

EngineAnswers(r) ==
    /\ r \in asked /\ wire[gen] = "open"
    /\ asked' = asked \ {r} /\ replies' = replies \cup {r}
    /\ UNCHANGED <<state, gen, attempt, reader, wire, aside, pending, future, interrupt, outcome,
                   abandoned, faults, closeVars, told, clientVars, interrupts>>

\* A reply to a request that is no longer pending is a fault, unless it was abandoned.
IsFault(r) == r \notin pending /\ \A i \in DOMAIN abandoned : abandoned[i] # r

\* The reader reads a reply: _settle_request, unless the transport is closing.
Reads(r) ==
    /\ reader # 0 /\ r \in replies /\ replies' = replies \ {r}
    /\ IF state = "CONNECTED"
       THEN /\ pending' = pending \ {r}
            /\ future' = [future EXCEPT ![r] =
                             IF r \in pending /\ @ = "waiting" THEN "result" ELSE @]
            /\ faults' = IF IsFault(r) THEN faults \cup {r} ELSE faults
       ELSE UNCHANGED <<pending, future, faults>>
    /\ UNCHANGED <<state, gen, attempt, reader, wire, aside, interrupt, outcome, asked, abandoned,
                   closeVars, told, clientVars, interrupts>>

\* A wrong timer: it covers the send, and not the wait for the reply.
InterruptSend(r, how) ==
    /\ future[r] # "none" /\ outcome[r] = "none" /\ interrupt[r] = "none" /\ how = "cancel"
    /\ interrupts < MaxInterrupts /\ interrupts' = interrupts + 1
    /\ interrupt' = [interrupt EXCEPT ![r] = how]
    /\ future' = [future EXCEPT ![r] = IF @ = "waiting" THEN "cancelled" ELSE @]
    /\ UNCHANGED <<state, gen, attempt, reader, wire, aside, pending, outcome, asked, replies,
                   abandoned, faults, closeVars, told, clientVars>>

\* The timer of a request fires, or its caller is cancelled.
Interrupt(r, how) ==
    /\ future[r] # "none" /\ outcome[r] = "none" /\ interrupt[r] = "none"
    /\ interrupts < MaxInterrupts /\ interrupts' = interrupts + 1
    /\ interrupt' = [interrupt EXCEPT ![r] = how]
    /\ future' = [future EXCEPT ![r] = IF @ = "waiting" THEN "cancelled" ELSE @]
    /\ UNCHANGED <<state, gen, attempt, reader, wire, aside, pending, outcome, asked, replies,
                   abandoned, faults, closeVars, told, clientVars>>

\* send runs on.  A cancelled request that was not answered is remembered.
Wakes(r) ==
    /\ future[r] \notin {"none", "waiting"} /\ outcome[r] = "none"
    /\ outcome' = [outcome EXCEPT ![r] = IF interrupt[r] = "none" THEN future[r] ELSE interrupt[r]]
    /\ LET all == Append(abandoned, r) IN
       abandoned' = IF interrupt[r] # "cancel" \/ r \notin pending THEN abandoned
                    ELSE IF Len(all) <= MAX_ABANDONED_REQUESTS THEN all ELSE Tail(all)
    /\ pending' = pending \ {r}
    /\ UNCHANGED <<state, gen, attempt, reader, wire, aside, future, interrupt, asked, replies,
                   faults, closeVars, told, clientVars, interrupts>>
-----------------------------------------------------------------------------
(* The end of a connection *)

\* A wrong end: what still waits is forgotten, and not failed.
FailPendingForgets == pending' = {} /\ UNCHANGED future

\* _fail_pending.
FailPending ==
    /\ pending' = {}
    /\ future' = [r \in Calls |-> IF r \in pending /\ future[r] = "waiting" THEN "lost" ELSE future[r]]

\* close by a task: it aborts an attempt to connect, or begins the closing handshake, and
\* waits for the end of either.
CloseBy(k) ==
    /\ closes' = [closes EXCEPT ![k] = gen]
    /\ closer' = [closer EXCEPT ![k] = IF attempt # "none" THEN "attempt"
                                       ELSE IF reader # 0 THEN "reader" ELSE "done"]
    /\ IF attempt # "none"
       THEN state' = "CLOSING" /\ UNCHANGED <<aside, pending, future>>
       ELSE IF state = "CONNECTED"
       THEN state' = "CLOSING" /\ aside' = aside \cup {gen} /\ FailPending
       ELSE UNCHANGED <<state, aside, pending, future>>

Close(k) ==
    /\ k \in Closers /\ closer[k] = "idle" /\ CloseBy(k)
    /\ UNCHANGED <<gen, attempt, reader, wire, interrupt, outcome, asked, replies, abandoned,
                   faults, told, clientVars, interrupts>>

\* A wrong wait: close returns once the closing handshake has begun.
CloseReturnsAtOnce(k) ==
    /\ closer[k] \in {"attempt", "reader"} /\ closer' = [closer EXCEPT ![k] = "done"]
    /\ UNCHANGED <<state, gen, attempt, reader, wire, aside, requestVars, closes, told, clientVars,
                   interrupts>>

\* What a task waits on in close has ended.
CloseReturns(k) ==
    /\ \/ closer[k] = "attempt" /\ (attempt = "none" \/ gen > closes[k])
       \/ closer[k] = "reader" /\ (reader = 0 \/ gen > closes[k])
    /\ closer' = [closer EXCEPT ![k] = "done"]
    /\ UNCHANGED <<state, gen, attempt, reader, wire, aside, requestVars, closes, told, clientVars,
                   interrupts>>

\* A closing handshake ends, or the library gives up waiting for it.
AsideCloses(g) ==
    /\ g \in aside /\ aside' = aside \ {g} /\ wire' = [wire EXCEPT ![g] = "closed"]
    /\ UNCHANGED <<state, gen, attempt, reader, requestVars, closeVars, told, clientVars, interrupts>>

\* The engine closes the connection, or it breaks.
PeerCloses ==
    /\ reader # 0 /\ wire[gen] = "open" /\ wire' = [wire EXCEPT ![gen] = "closed"]
    /\ UNCHANGED <<state, gen, attempt, reader, aside, requestVars, closeVars, told, clientVars,
                   interrupts>>

\* The reader ends with its connection, or is cancelled and aborts it: _finish, and _on_close
\* of the client.
Finish ==
    /\ reader # 0 /\ reader' = 0 /\ FailPending
    /\ wire' = [wire EXCEPT ![gen] = "closed"]
    /\ asked' = {} /\ replies' = {}
    /\ state' = "DISCONNECTED" /\ told' = [told EXCEPT ![gen] = @ + 1]
    /\ client' = IF client = "up" THEN "down" ELSE client
    /\ UNCHANGED <<gen, attempt, aside, interrupt, outcome, abandoned, faults, closeVars, ending,
                   byes, leaver, interrupts>>
-----------------------------------------------------------------------------
(* The session of a client *)

\* disconnect: calls that overlap share one _end_session.
Disconnect(d) ==
    /\ leaver[d] = "idle" /\ client # "none" /\ leaver' = [leaver EXCEPT ![d] = "waiting"]
    /\ ending' = IF ending = "none" THEN "begun" ELSE ending
    /\ UNCHANGED <<state, gen, attempt, reader, wire, aside, requestVars, closeVars, told, client,
                   byes, interrupts>>

\* _end_session of a client that is connected sends rois.system.disconnect.
EndCalls ==
    /\ ending = "begun" /\ client = "up" /\ state = "CONNECTED"
    /\ ending' = "calling" /\ byes' = byes + 1 /\ SendTo(Bye)
    /\ UNCHANGED <<state, gen, attempt, reader, wire, aside, closeVars, told, client, leaver,
                   interrupts>>

\* A wrong end: a disconnect that fails leaves the connection open.
ClosesAfterOk == outcome[Bye] = "result"

\* The connection is closed however the disconnect ended.
ClosesAfter == TRUE

\* The disconnect ended, or could not be sent: the client is down, and its transport closes.
EndCloses ==
    /\ \/ ending = "calling" /\ outcome[Bye] # "none"
       \/ ending = "begun" /\ client = "up" /\ state # "CONNECTED"
    /\ client' = "down" /\ ending' = "closing"
    /\ IF ClosesAfter
       THEN CloseBy(End)
       ELSE closer' = [closer EXCEPT ![End] = "done"] /\ UNCHANGED <<closes, state, aside, pending, future>>
    /\ UNCHANGED <<gen, attempt, reader, wire, interrupt, outcome, asked, replies, abandoned,
                   faults, told, byes, leaver, interrupts>>

\* _end_session is over, and every task that waits for it goes on.
EndReturns ==
    /\ \/ ending = "closing" /\ closer[End] = "done"
       \/ ending = "begun" /\ client = "down"
    /\ ending' = "none"
    /\ leaver' = [d \in Leavers |-> IF leaver[d] = "waiting" THEN "done" ELSE leaver[d]]
    /\ UNCHANGED <<state, gen, attempt, reader, wire, aside, requestVars, closeVars, told, client,
                   byes, interrupts>>
-----------------------------------------------------------------------------
Next ==
    \/ Connect \/ HandshakeEnds \/ ConnectFails \/ Connected \/ PeerCloses \/ Finish
    \/ \E r \in Calls :
          \/ Send(r) \/ EngineAnswers(r) \/ Reads(r) \/ Wakes(r)
          \/ \E how \in {"timeout", "cancel"} : Interrupt(r, how)
    \/ \E k \in Closers \cup {End} : Close(k) \/ CloseReturns(k)
    \/ \E g \in Conns : AsideCloses(g)
    \/ \E d \in Leavers : Disconnect(d)
    \/ EndCalls \/ EndCloses \/ EndReturns

Spec == Init /\ [][Next]_vars

\* Tasks run on, the library ends a handshake in time, a closing one too, and a connection
\* that closed is noticed.  The engine need not answer: a request has its timer.
FairSpec ==
    /\ Spec
    /\ WF_vars(Connected \/ ConnectFails) /\ WF_vars(reader # 0 /\ wire[gen] = "closed" /\ Finish)
    /\ \A r \in Calls : WF_vars(Wakes(r)) /\ WF_vars(Interrupt(r, "timeout"))
    /\ \A k \in Closers \cup {End} : WF_vars(CloseReturns(k))
    /\ \A g \in Conns : WF_vars(AsideCloses(g))
    /\ WF_vars(EndCalls) /\ WF_vars(EndCloses) /\ WF_vars(EndReturns)
-----------------------------------------------------------------------------
(* Properties *)

\* Nothing waits for a reply that nobody can deliver: a request whose future is open is
\* registered, and the reader of its connection runs.
NoOrphanWait ==
    \A r \in Calls : future[r] = "waiting" => r \in pending /\ reader # 0 /\ state = "CONNECTED"

\* A reply is a fault only for a request that timed out: a caller who cancelled is spared it,
\* wherever the reply meets the cancellation, within the memory of the transport.
FaultsAreLate == \A r \in faults : outcome[r] = "timeout"

\* Requests that are over leave nothing behind in the transport.
PendingWaits == \A r \in pending : outcome[r] = "none"

\* An open socket has an owner: the attempt that opened it, the reader, or a closing handshake.
SocketsOwned ==
    \A g \in Conns : wire[g] = "open" => (g = gen /\ attempt # "none") \/ reader = g \/ g \in aside

\* Listeners are told of the end of a connection once, and of an attempt that close ended
\* never; close returns only after that.
CloseToldOnce ==
    /\ \A g \in Conns : told[g] <= 1 /\ (told[g] = 1 => wire[g] = "closed" /\ reader # g)
    /\ \A k \in Closers \cup {End} : closer[k] = "done" => (closes[k] # gen \/ reader = 0)

\* However many tasks disconnect, the engine gets one rois.system.disconnect, and none of
\* them returns while the connection of the client is open.
DisconnectedOnce ==
    /\ byes <= 1
    /\ \A d \in Leavers : leaver[d] = "done" => client = "down" /\ reader # 1

\* Every request, close and disconnect ends, when the engine never answers, too.
EverythingEnds ==
    /\ \A r \in Requests : (future[r] = "waiting") ~> (outcome[r] # "none")
    /\ \A k \in Closers : (closer[k] # "idle") ~> (closer[k] = "done")
    /\ (\E d \in Leavers : leaver[d] = "waiting") ~> (\A d \in Leavers : leaver[d] # "waiting")

\* Every request that waits is one somebody will settle, in whatever order its reply, its timeout,
\* a cancel and the end of the connection come, and a reply nobody waits for is a fault only
\* after a timeout.
PendingSettled == TypeOK /\ NoOrphanWait /\ PendingWaits /\ FaultsAreLate

\* However many tasks connect, close and disconnect at once, a connection has one owner, who
\* closes it; the end is told once, and the disconnect request is sent once.
EndedOnce == SocketsOwned /\ CloseToldOnce /\ DisconnectedOnce
=============================================================================
