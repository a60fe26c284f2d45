---------------------------- MODULE AdapterLink ----------------------------
(***************************************************************************)
(* Adapters and their gateway: the client of an adapter that reconnects    *)
(* (ws_client.py), the server that discovers, adds and removes child       *)
(* engines (ws_server.py), the profile of a child and its changes          *)
(* (child.py), the engine ids of the tree (engine.py) and the start and    *)
(* stop of the gateway (gateway/app.py).                                   *)
(*                                                                         *)
(* The code between two awaits is one action.  A connection may break      *)
(* without either end noticing at once, so an adapter may come back while  *)
(* the gateway still holds the connection it lost.                         *)
(***************************************************************************)
EXTENDS Naturals, Sequences, FiniteSets

CONSTANTS
    Adapters,   \* engines that connect to the gateway as children
    Conns,      \* connections of the gateway, used again once they are over
    EngineIds,  \* ids of engines
    GatewayId,  \* the id of the gateway's own engine
    Profiles,   \* [Adapters -> sets of engine ids]: the profiles each adapter may have
    None,       \* no connection
    MAX_DELAY,  \* _RECONNECT_MAX_DELAY, in steps of the backoff
    MaxFaults,  \* bound: losses, timeouts, stops
    MaxChanges  \* bound: changes of profiles

ASSUME ProfilesAssumption ==
    /\ Profiles \in [Adapters -> SUBSET SUBSET EngineIds]
    /\ \A a \in Adapters : Profiles[a] # {} /\ {} \notin Profiles[a]
ASSUME BoundAssumption == {MAX_DELAY, MaxFaults, MaxChanges} \subseteq Nat
ASSUME NoneAssumption == None \notin Conns \cup Adapters

VARIABLES
    gateway,   \* "up", "stopping" or "down"
    children,  \* Engine._children: connections whose child was added
    handler,   \* _handle_child of each connection: "none", "connect" and "profile" (the
               \* requests of discover), "serving", "refusing"
    ids,       \* ChildEngine.engine_ids of each connection
    asks,      \* get_profile requests the adapter has not answered
    inbox,     \* messages of the adapter: profiles, and Changed notifications
    missed,    \* a changed profile was not read in time
    wire,      \* each connection: "free", "open", "broken" (nobody noticed), "closed"
    peer,      \* the adapter of each connection
    client,    \* run_async of each adapter: "connecting", "serving", "pausing", "stopped"
    conn,      \* the connection each adapter serves
    stable,    \* the connection lasted _STABLE_CONNECTION_SECONDS
    delay,     \* the delay of run_async, in steps
    shorts,    \* connections in a row that did not become stable
    profile,   \* the engine ids each adapter has now
    faults, changes

serverVars == <<gateway, children, handler, ids, asks, missed>>
clientVars == <<client, conn, stable, delay, shorts>>
linkVars   == <<inbox, wire, peer>>
boundVars  == <<faults, changes>>
vars == <<gateway, children, handler, ids, asks, inbox, missed, wire, peer, client, conn,
          stable, delay, shorts, profile, faults, changes>>

\* The notification profile_changed.  A profile has the id of its own engine at least.
Changed == {}

Min(m, n) == IF m < n THEN m ELSE n

TypeOK ==
    /\ gateway \in {"up", "stopping", "down"} /\ children \subseteq Conns
    /\ handler \in [Conns -> {"none", "connect", "profile", "serving", "refusing"}]
    /\ ids \in [Conns -> SUBSET EngineIds] /\ asks \in [Conns -> Nat]
    /\ inbox \in [Conns -> Seq(SUBSET EngineIds)]
    /\ missed \subseteq Conns
    /\ wire \in [Conns -> {"free", "open", "broken", "closed"}]
    /\ peer \in [Conns -> Adapters \cup {None}]
    /\ client \in [Adapters -> {"connecting", "serving", "pausing", "stopped"}]
    /\ conn \in [Adapters -> Conns \cup {None}] /\ stable \subseteq Adapters
    /\ delay \in [Adapters -> 0..MAX_DELAY]
    /\ shorts \in [Adapters -> 0..MAX_DELAY + 1]
    /\ \A a \in Adapters : profile[a] \in Profiles[a] /\ (client[a] = "serving" <=> conn[a] # None)
    /\ faults \in 0..MaxFaults /\ changes \in 0..MaxChanges

Init ==
    /\ gateway = "up" /\ children = {} /\ missed = {} /\ stable = {}
    /\ handler = [k \in Conns |-> "none"] /\ ids = [k \in Conns |-> {}]
    /\ asks = [k \in Conns |-> 0] /\ inbox = [k \in Conns |-> <<>>]
    /\ wire = [k \in Conns |-> "free"] /\ peer = [k \in Conns |-> None]
    /\ client = [a \in Adapters |-> "connecting"] /\ conn = [a \in Adapters |-> None]
    /\ delay = [a \in Adapters |-> 0]
    /\ shorts = [a \in Adapters |-> 0]
    /\ profile \in [Adapters -> SUBSET EngineIds]
    /\ \A a \in Adapters : profile[a] \in Profiles[a]
    /\ faults = 0 /\ changes = 0
-----------------------------------------------------------------------------
(* The client of an adapter *)

\* _connect, which tries until the gateway answers, reaches it, whose server starts _handle_child: the reader runs, and
\* discover sends its connect.
Connects(a) ==
    /\ client[a] = "connecting" /\ gateway = "up"
    /\ \E k \in Conns : wire[k] = "free"
    /\ LET k == CHOOSE k \in Conns : wire[k] = "free" IN
       /\ wire' = [wire EXCEPT ![k] = "open"] /\ peer' = [peer EXCEPT ![k] = a]
       /\ handler' = [handler EXCEPT ![k] = "connect"]
       /\ conn' = [conn EXCEPT ![a] = k]
    /\ client' = [client EXCEPT ![a] = "serving"]
    /\ UNCHANGED <<gateway, children, ids, asks, missed, inbox, stable, delay, shorts,
                   profile, boundVars>>

\* A connection lasts long enough to count as stable.
BecomesStable(a) ==
    /\ client[a] = "serving" /\ a \notin stable
    /\ stable' = stable \cup {a}
    /\ UNCHANGED <<serverVars, linkVars, client, conn, delay, shorts, profile,
                   boundVars>>

\* A wrong _serve end: every connection that opened resets the delay.
DelayAfterAnyway(a) == 0

\* The delay of the pause after a connection.
DelayAfter(a) == IF a \in stable THEN 0 ELSE delay[a]

\* A connection the adapter closed is over once its handler has ended, too.
LetGo(k) == IF handler[k] = "none" THEN "free" ELSE "closed"

\* The connection of an adapter ends: serve_session closes the session, and run_async pauses.
ServeEnds(a) ==
    /\ client[a] = "serving" /\ wire[conn[a]] \in {"broken", "closed"}
    /\ wire' = [wire EXCEPT ![conn[a]] = LetGo(conn[a])]
    /\ client' = [client EXCEPT ![a] = "pausing"] /\ conn' = [conn EXCEPT ![a] = None]
    /\ delay' = [delay EXCEPT ![a] = DelayAfter(a)]
    /\ shorts' = [shorts EXCEPT ![a] = IF a \in stable THEN 0 ELSE Min(@ + 1, MAX_DELAY + 1)]
    /\ stable' = stable \ {a}
    /\ UNCHANGED <<serverVars, inbox, peer, profile, boundVars>>

\* The pause is over, and _connect begins.
PauseEnds(a) ==
    /\ client[a] = "pausing"
    /\ client' = [client EXCEPT ![a] = "connecting"]
    /\ delay' = [delay EXCEPT ![a] = Min(@ + 1, MAX_DELAY)]
    /\ UNCHANGED <<serverVars, linkVars, conn, stable, shorts, profile, boundVars>>

\* run_async is cancelled: the connection is closed and the engine stops.
ClientStops(a) ==
    /\ client[a] # "stopped" /\ faults < MaxFaults
    /\ client' = [client EXCEPT ![a] = "stopped"] /\ conn' = [conn EXCEPT ![a] = None]
    /\ wire' = IF conn[a] = None THEN wire ELSE [wire EXCEPT ![conn[a]] = LetGo(conn[a])]
    /\ faults' = faults + 1
    /\ UNCHANGED <<serverVars, inbox, peer, stable, delay, shorts, profile, changes>>

\* The adapter answers a get_profile.
AdapterAnswers(k) ==
    /\ wire[k] = "open" /\ asks[k] > 0
    /\ asks' = [asks EXCEPT ![k] = @ - 1]
    /\ inbox' = [inbox EXCEPT ![k] = Append(@, profile[peer[k]])]
    /\ UNCHANGED <<gateway, children, handler, ids, missed, wire, peer, clientVars, profile,
                   boundVars>>

\* A wrong change: only a session whose profile was read before is told.
ProfileChangesAttached(a, p) ==
    /\ changes < MaxChanges /\ p \in Profiles[a] \ {profile[a]}
    /\ profile' = [profile EXCEPT ![a] = p] /\ changes' = changes + 1
    /\ inbox' = [k \in Conns |->
                    IF peer[k] = a /\ wire[k] = "open" /\ k \in children
                    THEN Append(inbox[k], Changed) ELSE inbox[k]]
    /\ UNCHANGED <<serverVars, wire, peer, clientVars, faults>>

\* The profile of an adapter changes (a child of a lower gateway came or left): its engine
\* tells its connected sessions.
ProfileChanges(a, p) ==
    /\ changes < MaxChanges /\ p \in Profiles[a] \ {profile[a]}
    /\ profile' = [profile EXCEPT ![a] = p] /\ changes' = changes + 1
    /\ inbox' = [k \in Conns |->
                    IF peer[k] = a /\ wire[k] = "open" /\ handler[k] \notin {"none", "connect"}
                    THEN Append(inbox[k], Changed) ELSE inbox[k]]
    /\ UNCHANGED <<serverVars, wire, peer, clientVars, faults>>
-----------------------------------------------------------------------------
(* The server *)

\* discover: the connect is answered, and get_profile is sent.
DiscoverConnected(k) ==
    /\ handler[k] = "connect" /\ wire[k] = "open"
    /\ handler' = [handler EXCEPT ![k] = "profile"] /\ asks' = [asks EXCEPT ![k] = @ + 1]
    /\ UNCHANGED <<gateway, children, ids, missed, linkVars, clientVars, profile, boundVars>>

\* discover: a request is refused or times out.
DiscoverFails(k) ==
    /\ handler[k] \in {"connect", "profile"} /\ faults < MaxFaults
    /\ handler' = [handler EXCEPT ![k] = "refusing"] /\ faults' = faults + 1
    /\ UNCHANGED <<gateway, children, ids, asks, missed, linkVars, clientVars, profile,
                   changes>>

\* A wrong check: only the ids of the gateway itself are refused.
IdsFreeHere(k, p) == GatewayId \notin p

\* Engine.check_engine_ids: no id of the gateway, or of another child.
IdsFree(k, p) == GatewayId \notin p /\ \A j \in children \ {k} : ids[j] \cap p = {}

\* _apply_profile of a profile that breaks no rule, for discovery, which goes on to
\* add_child, and for a changed profile.
ProfileApplied(k) ==
    /\ handler[k] # "none" /\ inbox[k] # <<>> /\ Head(inbox[k]) # Changed
    /\ IdsFree(k, Head(inbox[k]))
    /\ ids' = [ids EXCEPT ![k] = Head(inbox[k])]
    /\ handler' = [handler EXCEPT ![k] = IF @ = "profile" THEN "serving" ELSE @]
    /\ children' = IF handler[k] = "profile" THEN children \cup {k} ELSE children
    /\ missed' = missed \ {k}
    /\ inbox' = [inbox EXCEPT ![k] = Tail(@)]
    /\ UNCHANGED <<gateway, asks, wire, peer, clientVars, profile, boundVars>>

\* A profile is refused, at discovery or when it changed: the connection will be closed.
ProfileRefused(k) ==
    /\ handler[k] # "none" /\ inbox[k] # <<>> /\ Head(inbox[k]) # Changed
    /\ ~IdsFree(k, Head(inbox[k]))
    /\ handler' = [handler EXCEPT ![k] = "refusing"]
    /\ inbox' = [inbox EXCEPT ![k] = Tail(@)]
    /\ UNCHANGED <<gateway, children, ids, asks, missed, wire, peer, clientVars, profile,
                   boundVars>>

\* A notification that the profile changed starts _rediscover, which asks for it again.
Rediscovers(k) ==
    /\ handler[k] # "none" /\ inbox[k] # <<>> /\ Head(inbox[k]) = Changed
    /\ asks' = [asks EXCEPT ![k] = @ + 1]
    /\ inbox' = [inbox EXCEPT ![k] = Tail(@)]
    /\ UNCHANGED <<gateway, children, handler, ids, missed, wire, peer, clientVars, profile,
                   boundVars>>

\* _rediscover gets no answer in time, and the old profile stays.
RediscoverFails(k) ==
    /\ k \in children /\ asks[k] > 0 /\ faults < MaxFaults
    /\ asks' = [asks EXCEPT ![k] = @ - 1] /\ missed' = missed \cup {k}
    /\ faults' = faults + 1
    /\ UNCHANGED <<gateway, children, handler, ids, linkVars, clientVars, profile, changes>>

\* A wrong refusal: the connection of a child that was never added stays open.
RefuseClosesAdded(k) ==
    /\ handler[k] = "refusing" /\ wire[k] = "open" /\ k \in children
    /\ wire' = [wire EXCEPT ![k] = "closed"]
    /\ UNCHANGED <<serverVars, inbox, peer, clientVars, profile, boundVars>>

\* refuse closes the connection with code 1008.
RefuseCloses(k) ==
    /\ handler[k] = "refusing" /\ wire[k] = "open"
    /\ wire' = [wire EXCEPT ![k] = "closed"]
    /\ UNCHANGED <<serverVars, inbox, peer, clientVars, profile, boundVars>>

\* The reader finds the connection closed and has passed on every message: detach fails a
\* discovery under way, and remove_child removes a child that was added.
HandlerEnds(k) ==
    /\ handler[k] # "none" /\ wire[k] \in {"broken", "closed"}
    /\ inbox[k] = <<>>
    /\ handler' = [handler EXCEPT ![k] = "none"] /\ asks' = [asks EXCEPT ![k] = 0]
    /\ wire' = [wire EXCEPT ![k] = IF \E a \in Adapters : conn[a] = k THEN "closed" ELSE "free"]
    /\ ids' = [ids EXCEPT ![k] = {}] /\ peer' = [peer EXCEPT ![k] = None]
    /\ children' = children \ {k} /\ missed' = missed \ {k}
    /\ UNCHANGED <<gateway, inbox, clientVars, profile, boundVars>>

\* A connection breaks, and neither end has noticed yet.
Breaks(k) ==
    /\ wire[k] = "open" /\ faults < MaxFaults
    /\ wire' = [wire EXCEPT ![k] = "broken"] /\ faults' = faults + 1
    /\ UNCHANGED <<serverVars, inbox, peer, clientVars, profile, changes>>

\* Gateway.stop: every connection is closed with code 1001.
GatewayStops ==
    /\ gateway = "up" /\ faults < MaxFaults
    /\ gateway' = "stopping" /\ faults' = faults + 1
    /\ wire' = [k \in Conns |-> IF wire[k] = "open" THEN "closed" ELSE wire[k]]
    /\ UNCHANGED <<children, handler, ids, asks, missed, inbox, peer, clientVars, profile,
                   changes>>

\* The server waited for every handler.
GatewayStopped ==
    /\ gateway = "stopping" /\ \A k \in Conns : handler[k] = "none"
    /\ gateway' = "down"
    /\ UNCHANGED <<children, handler, ids, asks, missed, linkVars, clientVars, profile,
                   boundVars>>

\* Gateway.start.
GatewayStarts ==
    /\ gateway = "down" /\ gateway' = "up"
    /\ UNCHANGED <<children, handler, ids, asks, missed, linkVars, clientVars, profile,
                   boundVars>>
-----------------------------------------------------------------------------
Next ==
    \/ \E a \in Adapters :
          \/ Connects(a) \/ BecomesStable(a) \/ ServeEnds(a)
          \/ PauseEnds(a) \/ ClientStops(a)
          \/ \E p \in Profiles[a] : ProfileChanges(a, p)
    \/ \E k \in Conns :
          \/ AdapterAnswers(k) \/ DiscoverConnected(k) \/ DiscoverFails(k)
          \/ ProfileApplied(k) \/ ProfileRefused(k) \/ Rediscovers(k) \/ RediscoverFails(k)
          \/ RefuseCloses(k) \/ HandlerEnds(k) \/ Breaks(k)
    \/ GatewayStops \/ GatewayStopped \/ GatewayStarts

Spec == Init /\ [][Next]_vars

\* Both loops go on, a broken connection is noticed (the keepalive of the library), requests
\* are answered, and a gateway that stopped is started again.
FairSpec ==
    /\ Spec
    /\ \A a \in Adapters : WF_vars(Connects(a)) /\ WF_vars(ServeEnds(a)) /\ WF_vars(PauseEnds(a))
    /\ \A k \in Conns :
          /\ WF_vars(AdapterAnswers(k)) /\ WF_vars(DiscoverConnected(k))
          /\ WF_vars(ProfileApplied(k) \/ ProfileRefused(k) \/ Rediscovers(k))
          /\ WF_vars(RefuseCloses(k)) /\ WF_vars(HandlerEnds(k))
    /\ WF_vars(GatewayStopped) /\ WF_vars(GatewayStarts)
-----------------------------------------------------------------------------
(* Properties *)

\* Engine ids are unique in the tree, through reconnections and changed profiles, so an id
\* routes to one child.
IdsUnique ==
    \A j, k \in children : GatewayId \notin ids[k] /\ (j # k => ids[j] \cap ids[k] = {})

\* The gateway knows the current profile of a child once nothing about it is on its way, even
\* when it changed during discovery, unless a request for it failed.
ProfileCurrent ==
    \A k \in children : (/\ wire[k] = "open" /\ handler[k] = "serving" /\ k \notin missed
                         /\ asks[k] = 0 /\ inbox[k] = <<>>) => ids[k] = profile[peer[k]]

\* A child with the engine has a handler that will remove it.
ChildHasHandler == \A k \in children : handler[k] \in {"serving", "refusing"} /\ peer[k] # None

\* An adapter that is refused again and again pauses ever longer: after n connections in a row
\* that did not last, the delay has grown n - 1 times.
RefusalsBackOff ==
    \A a \in Adapters : client[a] = "pausing" => shorts[a] <= delay[a] + 1

Attached(a) == \E k \in children : peer[k] = a /\ wire[k] = "open" /\ handler[k] = "serving"
Undisturbed(a) ==
    /\ client[a] # "stopped" /\ missed = {} /\ GatewayId \notin profile[a]
    /\ \A b \in Adapters \ {a} : profile[b] \cap profile[a] = {}

\* An adapter whose ids nobody else has is in the tree in the end, even when it comes back
\* before the gateway noticed that its old connection is gone and refuses it for its own ids.
AdapterComesBack == \A a \in Adapters : <>[]Undisturbed(a) => <>[]Attached(a)

\* The tree of engines is sound: no two of them share an id, even while children join and leave
\* on several levels, and every child the gateway lists has a connection handler that will
\* remove it.
TreeSound == TypeOK /\ IdsUnique /\ ChildHasHandler
=============================================================================
