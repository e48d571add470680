--------------------------- MODULE DebugObservers ---------------------------
(***************************************************************************)
(* Debug events on their way to WebSocket clients. A connection registers  *)
(* a callback with its user's service (internal/router/websocket.go,       *)
(* WsNodeLogRouter in internal/controller/event.go) under the client id of *)
(* its URL; OnDebug (internal/service/engine.go) starts a goroutine for    *)
(* each callback registered at that moment, and these write to their       *)
(* connections in any order, also after the connection or the registration *)
(* has gone, and with no deadline: a write may fail or never end. The      *)
(* services are those of one user: a race of first requests may replace    *)
(* the one that is registered (UserEngines), also between a handler's      *)
(* look-up of the service and its call.                                    *)
(***************************************************************************)
EXTENDS Naturals, FiniteSets

CONSTANTS
    Conns,      \* WebSocket connections, each opened once
    Clients,    \* client ids; clients choose them
    Events,     \* calls of OnDebug by executions
    MaxService, \* bound on the services of the user
    None        \* no callback, no client

Callbacks == [conn: Conns, kind: {"json", "raw"}]

ASSUME DebugObserversAssumption ==
    /\ MaxService \in Nat \ {0}
    /\ None \notin Clients \cup Callbacks

VARIABLES
    current,    \* the service the registry of users holds; they are numbered
    observer,   \* service -> onDebugObserver: client id -> callback
    cpc,        \* connection -> what its goroutine does next
    client,     \* connection -> its client id
    svc,        \* connection -> the service its last look-up found, or 0
    away,       \* the connections whose peers have gone
    traced,     \* event -> the service that OnDebug was called in, or 0
    flights,    \* the goroutines that have yet to write
    got,        \* connection -> what its peer was sent
    home,       \* history: connection -> the service it last registered with
    spoke       \* history: connection -> the one its last message came to

vars == <<current, observer, cpc, client, svc, away, traced, flights, got, home,
          spoke>>

Services == 1..MaxService
Flights == [event: Events, conn: Conns, kind: {"json", "raw"}]

Init ==
    /\ current = 1
    /\ observer = [s \in Services |-> [i \in Clients |-> None]]
    /\ cpc = [c \in Conns |-> "idle"]
    /\ client = [c \in Conns |-> None]
    /\ svc = [c \in Conns |-> 0]
    /\ away = {}
    /\ traced = [e \in Events |-> 0]
    /\ flights = {}
    /\ got = [c \in Conns |-> {}]
    /\ home = [c \in Conns |-> 0]
    /\ spoke = [c \in Conns |-> 0]

(* UserRuleEngineService.Get, in the registry.                             *)
LookUp(c) == svc' = [svc EXCEPT ![c] = current]

(* AddOnDebugObserver, RemoveOnDebugObserver: one assignment to the map,   *)
(* under its lock, in the service that was looked up.                      *)
Add(i, c, kind) ==
    /\ observer' = [observer EXCEPT ![svc[c]][i] = [conn |-> c, kind |-> kind]]
    /\ home' = [home EXCEPT ![c] = svc[c]]

(* Faulty Remove, breaking TypeOK: the key stays in the map with no        *)
(* callback.                                                               *)
RemoveKeepsKey(i, c) ==
    observer' = [observer EXCEPT ![svc[c]][i] = [conn |-> None, kind |-> "raw"]]

(* Faulty Remove, breaking OneIsServed: the whole map is emptied.          *)
RemoveAll(i, c) ==
    observer' = [observer EXCEPT ![svc[c]] = [j \in Clients |-> None]]

Remove(i, c) == observer' = [observer EXCEPT ![svc[c]][i] = None]

-----------------------------------------------------------------------------
(* Faulty variants of definitions below, one for each property they break. *)

(* NoGhost: only the callback the connection event made is taken away.     *)
DisconnectIfFirst(c) ==
    /\ cpc[c] = "disconnect"
    /\ IF observer[svc[c]][client[c]] = [conn |-> c, kind |-> "json"]
       THEN Remove(client[c], c) ELSE UNCHANGED observer
    /\ cpc' = [cpc EXCEPT ![c] = "closed"]
    /\ UNCHANGED <<current, client, svc, away, traced, flights, got, home, spoke>>

(* RawOnceSpoken: the connection event is handled for every message.       *)
MessageAsConnect(c) ==
    /\ cpc[c] = "message"
    /\ Add(client[c], c, "json")
    /\ spoke' = [spoke EXCEPT ![c] = svc[c]]
    /\ cpc' = [cpc EXCEPT ![c] = "open"]
    /\ UNCHANGED <<current, client, svc, away, traced, flights, got>>

(* SentOnce: a message registers under an id of its own.                   *)
MessageUnderOtherId(c) ==
    /\ cpc[c] = "message"
    /\ \E i \in Clients : Add(i, c, "raw")
    /\ spoke' = [spoke EXCEPT ![c] = svc[c]]
    /\ cpc' = [cpc EXCEPT ![c] = "open"]
    /\ UNCHANGED <<current, client, svc, away, traced, flights, got>>

(* EventsAreSent: a message takes the old callback away before it looks    *)
(* for the service to register the new one with.                           *)
SpeakUnregisters(c) ==
    /\ cpc[c] = "open"
    /\ Remove(client[c], c)
    /\ cpc' = [cpc EXCEPT ![c] = "message"]
    /\ LookUp(c)
    /\ UNCHANGED <<current, client, away, traced, flights, got, home, spoke>>

-----------------------------------------------------------------------------
(* External (the WebSocket endpoint): one goroutine per connection raises  *)
(* EventConnect, runs the route for each message it reads and raises       *)
(* EventDisconnect when reading fails. EventConnect finds the service ...  *)
Come(c, i) ==
    /\ cpc[c] = "idle"
    /\ cpc' = [cpc EXCEPT ![c] = "connect"]
    /\ client' = [client EXCEPT ![c] = i]
    /\ LookUp(c)
    /\ UNCHANGED <<current, observer, away, traced, flights, got, home, spoke>>

(* ... and registers a callback there that sends the event as JSON, ...    *)
Connect(c) ==
    /\ cpc[c] = "connect"
    /\ Add(client[c], c, "json")
    /\ cpc' = [cpc EXCEPT ![c] = "open"]
    /\ UNCHANGED <<current, client, svc, away, traced, flights, got, spoke>>

(* ... which the route replaces by one that sends the bare data, whatever  *)
(* the message says. It may have been on its way when its sender left.     *)
Speak(c) ==
    /\ cpc[c] = "open"
    /\ cpc' = [cpc EXCEPT ![c] = "message"]
    /\ LookUp(c)
    /\ UNCHANGED <<current, observer, client, away, traced, flights, got, home, spoke>>

Message(c) ==
    /\ cpc[c] = "message"
    /\ Add(client[c], c, "raw")
    /\ spoke' = [spoke EXCEPT ![c] = svc[c]]
    /\ cpc' = [cpc EXCEPT ![c] = "open"]
    /\ UNCHANGED <<current, client, svc, away, traced, flights, got>>

PeerLeaves(c) ==
    /\ cpc[c] \in {"connect", "open", "message"} /\ c \notin away
    /\ away' = away \cup {c}
    /\ UNCHANGED <<current, observer, cpc, client, svc, traced, flights, got, home,
                   spoke>>

(* EventDisconnect takes away what is registered under the client id,      *)
(* whichever connection registered it.                                     *)
Leave(c) ==
    /\ cpc[c] = "open" /\ c \in away
    /\ cpc' = [cpc EXCEPT ![c] = "disconnect"]
    /\ LookUp(c)
    /\ UNCHANGED <<current, observer, client, away, traced, flights, got, home, spoke>>

Disconnect(c) ==
    /\ cpc[c] = "disconnect"
    /\ Remove(client[c], c)
    /\ cpc' = [cpc EXCEPT ![c] = "closed"]
    /\ UNCHANGED <<current, client, svc, away, traced, flights, got, home, spoke>>

(* OnDebug, in a service that was registered when the execution began.     *)
OnDebug(e, s) ==
    /\ traced[e] = 0 /\ s <= current
    /\ traced' = [traced EXCEPT ![e] = s]
    /\ flights' = flights \cup
          {[event |-> e, conn |-> o.conn, kind |-> o.kind] :
              o \in {observer[s][i] : i \in Clients} \ {None}}
    /\ UNCHANGED <<current, observer, cpc, client, svc, away, got, home, spoke>>

(* A goroutine writes, which may fail at any time and does when the peer   *)
(* has gone; nobody is told.                                               *)
Write(f) ==
    /\ f \in flights
    /\ flights' = flights \ {f}
    /\ \/ /\ f.conn \notin away
          /\ got' = [got EXCEPT ![f.conn] =
                        @ \cup {[event |-> f.event, kind |-> f.kind]}]
       \/ UNCHANGED got
    /\ UNCHANGED <<current, observer, cpc, client, svc, away, traced, home, spoke>>

(* A request that raced for the user's first service stores its own later. *)
Replace ==
    /\ current < MaxService
    /\ current' = current + 1
    /\ UNCHANGED <<observer, cpc, client, svc, away, traced, flights, got, home, spoke>>

Connection(c) ==
    \/ \E i \in Clients : Come(c, i)
    \/ Connect(c) \/ Speak(c) \/ Message(c)
    \/ PeerLeaves(c) \/ Leave(c) \/ Disconnect(c)

(* Nothing has to happen: clients need not speak or leave, and a write to a*)
(* peer that does not read never ends.                                     *)
Next ==
    \/ \E c \in Conns : Connection(c)
    \/ \E e \in Events, s \in Services : OnDebug(e, s)
    \/ \E f \in Flights : Write(f)
    \/ Replace

Spec == Init /\ [][Next]_vars

-----------------------------------------------------------------------------
(* Values have their types; every entry of the map is a callback.          *)
TypeOK ==
    /\ current \in Services
    /\ observer \in [Services -> [Clients -> Callbacks \cup {None}]]
    /\ cpc \in [Conns -> {"idle", "connect", "open", "message", "disconnect",
                          "closed"}]
    /\ client \in [Conns -> Clients \cup {None}]
    /\ svc \in [Conns -> 0..current] /\ away \subseteq Conns
    /\ traced \in [Events -> 0..current]
    /\ flights \subseteq Flights
    /\ got \in [Conns -> SUBSET [event: Events, kind: {"json", "raw"}]]
    /\ home \in [Conns -> 0..current] /\ spoke \in [Conns -> 0..current]

(* The service in use keeps no callback of a connection whose disconnect   *)
(* has been handled, however often the connection registered and whoever   *)
(* shared its client id. (A service that was replaced may keep one.)       *)
Registered(s, i) == observer[s][i] # None

NoGhost ==
    \A i \in Clients :
        Registered(current, i) => cpc[observer[current][i].conn] \notin {"idle", "closed"}

(* Of the connections that share a client id one is served as long as none *)
(* of them has left; a connection alone with its id is served until then.  *)
Sharers(i) == {c \in Conns : client[c] = i}

OneIsServed ==
    \A i \in Clients :
        /\ \E c \in Sharers(i) : home[c] = current
        /\ \A c \in Sharers(i) : cpc[c] # "closed"
        => Registered(current, i) /\ observer[current][i].conn \in Sharers(i)

(* A connection is sent an event at most once, in one of its two forms.    *)
SentOnce ==
    \A e \in Events, c \in Conns :
        Cardinality({f \in flights : f.event = e /\ f.conn = c})
            + Cardinality({m \in got[c] : m.event = e}) <= 1

(* Once a connection has sent a message, the service that got it sends it  *)
(* bare data from then on and never JSON again.                            *)
RawOnceSpoken ==
    [][\A f \in flights' \ flights :
          traced'[f.event] = spoke[f.conn] => f.kind = "raw"]_vars

(* From the moment a connection has registered with a service until one of *)
(* those that share its id has left, the service sends them every event    *)
(* traced in it: none is missed while messages register again, and none    *)
(* when the service has been replaced for everybody else.                  *)
EventsAreSent ==
    [][\A e \in Events, c \in Conns :
          /\ traced[e] = 0 /\ traced'[e] # 0 /\ home[c] = traced'[e]
          /\ \A d \in Sharers(client[c]) : cpc[d] # "closed"
          => \E f \in flights' : f.event = e /\ f.conn \in Sharers(client[c])]_vars
=============================================================================
